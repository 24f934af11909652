-------------------------- MODULE TransformFeedback --------------------------
(***************************************************************************)
(* Transform feedback. Context keeps a capture state on every object; the  *)
(* driver is never told which object is bound, so it has one capture state *)
(* for all of them, and the commands of the default object are not sent.   *)
(***************************************************************************)
CONSTANTS
  Captures,    \* names of transform feedback objects
  DefaultTF    \* 0

ASSUME DefaultTFIsNoName == DefaultTF \notin Captures

VARIABLES
  transformFeedbacks,      \* keys of transformFeedbacks_
  tfState,                 \* active and paused of each object and of the default one
  boundTransformFeedback,  \* boundTransformFeedback_
  nativeTF,                \* the state of the driver's capture
  drawnFrom,               \* the object the last command drew from, or DefaultTF
  tfOrderly                \* no two objects of the program captured or were paused
                           \* at a time, and none of them was deleted, since
                           \* Context and driver were last idle

tfVars == <<transformFeedbacks, tfState, boundTransformFeedback, nativeTF,
            drawnFrom, tfOrderly>>

CaptureStates == {"idle", "capturing", "paused"}
TFRefs == Captures \cup {DefaultTF}

TFTypeOK ==
  /\ transformFeedbacks \subseteq Captures
  /\ tfState \in [TFRefs -> CaptureStates]
  /\ \A t \in Captures \ transformFeedbacks : tfState[t] = "idle"
  /\ boundTransformFeedback \in transformFeedbacks \cup {DefaultTF}
  /\ nativeTF \in CaptureStates
  /\ drawnFrom \in transformFeedbacks \cup {DefaultTF}
  /\ tfOrderly \in BOOLEAN

TFInit ==
  /\ transformFeedbacks = {} /\ boundTransformFeedback = DefaultTF
  /\ tfState = [t \in TFRefs |-> "idle"]
  /\ nativeTF = "idle" /\ drawnFrom = DefaultTF /\ tfOrderly = TRUE

Busy(state) == {t \in Captures : state[t] # "idle"}

\* After the step, which disturbs when it loses a capture.
WatchCapture(disturbs) ==
  tfOrderly' = \/ Busy(tfState') = {} /\ nativeTF' = "idle"
               \/ /\ tfOrderly /\ ~disturbs
                  /\ \A t, u \in Busy(tfState') : t = u

boundTransformFeedbackCapturing == tfState[boundTransformFeedback] = "capturing"
-----------------------------------------------------------------------------
GenTransformFeedback(t) ==
  /\ t \notin transformFeedbacks
  /\ transformFeedbacks' = transformFeedbacks \cup {t}
  /\ drawnFrom' = DefaultTF
  /\ UNCHANGED <<tfState, boundTransformFeedback, nativeTF, tfOrderly>>

\* Without the check of SPEC 13.3.1.
MutBindTransformFeedback(t) ==
  /\ t \in transformFeedbacks \cup {DefaultTF}
  /\ boundTransformFeedback' = t
  /\ drawnFrom' = DefaultTF
  /\ UNCHANGED <<transformFeedbacks, tfState, nativeTF, tfOrderly>>

BindTransformFeedback(t) ==
  /\ t \in transformFeedbacks \cup {DefaultTF}
  /\ ~boundTransformFeedbackCapturing
  /\ boundTransformFeedback' = t
  /\ drawnFrom' = DefaultTF
  /\ UNCHANGED <<transformFeedbacks, tfState, nativeTF, tfOrderly>>

\* The deleted object stays bound.
MutDeleteTransformFeedback(t) ==
  /\ t \in transformFeedbacks
  /\ transformFeedbacks' = transformFeedbacks \ {t}
  /\ tfState' = [tfState EXCEPT ![t] = "idle"]
  /\ drawnFrom' = DefaultTF
  /\ UNCHANGED <<boundTransformFeedback, nativeTF>>
  /\ WatchCapture(tfState[t] # "idle")

\* An active object can be deleted; the driver deletes one it has never used
\* and goes on capturing.
DeleteTransformFeedback(t) ==
  /\ t \in transformFeedbacks
  /\ transformFeedbacks' = transformFeedbacks \ {t}
  /\ tfState' = [tfState EXCEPT ![t] = "idle"]
  /\ boundTransformFeedback' = IF boundTransformFeedback = t THEN DefaultTF
                                                             ELSE boundTransformFeedback
  /\ drawnFrom' = DefaultTF
  /\ UNCHANGED nativeTF
  /\ WatchCapture(tfState[t] # "idle")

\* The bound object goes to a state. The driver takes the command only from the
\* states OpenGL allows, and gets it only for an object of the program. The
\* buffers and the program it needs are taken to be there.
Command(new, allowed) ==
  LET t == boundTransformFeedback
  IN  /\ tfState' = [tfState EXCEPT ![t] = new]
      /\ nativeTF' = IF t # DefaultTF /\ nativeTF \in allowed THEN new ELSE nativeTF
      /\ drawnFrom' = DefaultTF
      /\ UNCHANGED <<transformFeedbacks, boundTransformFeedback>>
      /\ WatchCapture(FALSE)

BeginTransformFeedback ==
  /\ tfState[boundTransformFeedback] = "idle"
  /\ Command("capturing", {"idle"})

\* The driver is not told to end a capture that is paused.
MutEndTransformFeedback ==
  /\ tfState[boundTransformFeedback] # "idle"
  /\ Command("idle", {"capturing"})

EndTransformFeedback ==
  /\ tfState[boundTransformFeedback] # "idle"
  /\ Command("idle", {"capturing", "paused"})

PauseTransformFeedback ==
  /\ tfState[boundTransformFeedback] = "capturing"
  /\ Command("paused", {"capturing"})

ResumeTransformFeedback ==
  /\ tfState[boundTransformFeedback] = "paused"
  /\ Command("capturing", {"paused"})

\* glDrawTransformFeedback and its instanced and stream forms, for a context
\* with an active program. DefaultTF stands for the bound object.
DrawTransformFeedback(id) ==
  LET t == IF id = DefaultTF THEN boundTransformFeedback ELSE id
  IN  /\ t \in transformFeedbacks
      /\ ~boundTransformFeedbackCapturing
      /\ drawnFrom' = t
      /\ UNCHANGED <<transformFeedbacks, tfState, boundTransformFeedback, nativeTF, tfOrderly>>

TFNext ==
  \/ \E t \in Captures : GenTransformFeedback(t)
  \/ \E t \in TFRefs : BindTransformFeedback(t)
  \/ \E t \in Captures : DeleteTransformFeedback(t)
  \/ BeginTransformFeedback
  \/ EndTransformFeedback
  \/ PauseTransformFeedback
  \/ ResumeTransformFeedback
  \/ \E t \in TFRefs : DrawTransformFeedback(t)

TFSpec == TFInit /\ [][TFNext]_tfVars
-----------------------------------------------------------------------------
\* Only the bound object captures, whatever was paused, swapped out, resumed or
\* deleted (glBindTransformFeedback refuses to leave a capture), so a draw never
\* reads an object that is being written, though the draws check the bound
\* object and not the one they read.
OneCapture ==
  /\ \A t \in TFRefs : tfState[t] = "capturing" => boundTransformFeedback = t
  /\ drawnFrom # DefaultTF => tfState[drawnFrom] # "capturing"

\* As long as the program uses one object at a time and ends it before deleting
\* it, the driver captures, is paused or is idle exactly as that object is,
\* though it was never told which object is bound.
NativeFollowsObject ==
  tfOrderly => nativeTF = IF Busy(tfState) = {} THEN "idle"
                          ELSE tfState[CHOOSE t \in Busy(tfState) : TRUE]
=============================================================================
