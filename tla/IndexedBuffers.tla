---------------------------- MODULE IndexedBuffers ----------------------------
(***************************************************************************)
(* The indexed binding points of uniform buffers (as of storage buffers)    *)
(* and of transform feedback, whose points belong to the transform feedback *)
(* object that is bound. Context records the latter and sends each binding  *)
(* to the driver at once; GLESBackend passes the name on as the number of a *)
(* buffer, and the driver is not told which object is bound. Nothing is     *)
(* captured meanwhile.                                                      *)
(***************************************************************************)
EXTENDS Naturals

CONSTANTS
  LastName,         \* names Context gives out, counting all the kinds of objects
  LastNumber,       \* numbers of buffers in the driver
  PointCount,       \* binding points of a target
  FeedbackObjects,  \* names of transform feedback objects
  DefaultFeedback,  \* 0
  NoFeedback        \* no object

ASSUME IndexedBounds == {LastName, LastNumber, PointCount} \subseteq Nat
ASSUME FeedbackNamesDiffer ==
  /\ DefaultFeedback \notin FeedbackObjects
  /\ NoFeedback \notin FeedbackObjects \cup {DefaultFeedback}

BufferNames  == 1..LastName
Numbers      == 1..LastNumber
BufferPoints == 0..PointCount - 1
IndexedTargets  == {"uniform", "feedback"}
FeedbackRefs    == FeedbackObjects \cup {DefaultFeedback}

VARIABLES
  bufferNumber,      \* the number behind each key of buffers_; 0 if there is none
  nextBufferName,    \* nextName_
  genericBound,      \* boundBuffers_
  feedbackObjects,   \* keys of transformFeedbacks_
  boundFeedback,     \* boundTransformFeedback_
  feedbackSlots,     \* bufferBindings of each object and of the default one
  \* The driver.
  numbersInUse,
  nativePoints,      \* the number at each point of each target, or 0
  \* History.
  uniformPoints,     \* the buffer OpenGL has at each point of the uniform target
  pushedFor          \* the feedback object whose slot was last sent, by point

indexedObjects  == <<bufferNumber, nextBufferName, numbersInUse>>
indexedFeedback == <<feedbackObjects, boundFeedback>>
indexedVars == <<indexedObjects, indexedFeedback, genericBound, feedbackSlots, nativePoints,
                 uniformPoints, pushedFor>>

LiveBuffers == {b \in BufferNames : bufferNumber[b] # 0}
BufferRefs  == BufferNames \cup {0}

IndexedTypeOK ==
  /\ bufferNumber \in [BufferNames -> Numbers \cup {0}]
  /\ \A b, c \in LiveBuffers : bufferNumber[b] = bufferNumber[c] => b = c
  /\ nextBufferName \in 1..LastName + 1
  /\ genericBound \in [IndexedTargets -> LiveBuffers \cup {0}]
  /\ feedbackObjects \subseteq FeedbackObjects
  /\ boundFeedback \in feedbackObjects \cup {DefaultFeedback}
  /\ feedbackSlots \in [FeedbackRefs -> [BufferPoints -> BufferRefs]]
  /\ numbersInUse \subseteq Numbers \cup BufferNames
  /\ \A b \in LiveBuffers : bufferNumber[b] \in numbersInUse
  /\ nativePoints \in [IndexedTargets -> [BufferPoints -> numbersInUse \cup {0}]]
  /\ uniformPoints \in [BufferPoints -> LiveBuffers \cup {0}]
  /\ pushedFor \in [BufferPoints -> FeedbackRefs \cup {NoFeedback}]

IndexedInit ==
  /\ bufferNumber = [b \in BufferNames |-> 0] /\ nextBufferName = 1
  /\ genericBound = [t \in IndexedTargets |-> 0]
  /\ feedbackObjects = {} /\ boundFeedback = DefaultFeedback
  /\ feedbackSlots = [f \in FeedbackRefs |-> [i \in BufferPoints |-> 0]]
  /\ numbersInUse = {}
  /\ nativePoints = [t \in IndexedTargets |-> [i \in BufferPoints |-> 0]]
  /\ uniformPoints = [i \in BufferPoints |-> 0]
  /\ pushedFor = [i \in BufferPoints |-> DefaultFeedback]
-----------------------------------------------------------------------------
(* Buffers and transform feedback objects. *)

GenIndexedBuffer(number) ==
  /\ nextBufferName <= LastName
  /\ number \notin numbersInUse
  /\ bufferNumber' = [bufferNumber EXCEPT ![nextBufferName] = number]
  /\ nextBufferName' = nextBufferName + 1
  /\ numbersInUse' = numbersInUse \cup {number}
  /\ UNCHANGED <<indexedFeedback, genericBound, feedbackSlots, nativePoints, uniformPoints,
                 pushedFor>>

\* An object of another kind takes a name.
GenOtherObject ==
  /\ nextBufferName <= LastName
  /\ nextBufferName' = nextBufferName + 1
  /\ UNCHANGED <<bufferNumber, numbersInUse, indexedFeedback, genericBound, feedbackSlots,
                 nativePoints, uniformPoints, pushedFor>>

Without(x, points) == [i \in BufferPoints |-> IF points[i] = x THEN 0 ELSE points[i]]

\* The generic bindings are reset; the slots keep the name. The driver unbinds
\* the number that it frees.
DeleteIndexedBuffer(b) ==
  /\ b \in LiveBuffers
  /\ bufferNumber' = [bufferNumber EXCEPT ![b] = 0]
  /\ genericBound' = [t \in IndexedTargets |->
                        IF genericBound[t] = b THEN 0 ELSE genericBound[t]]
  /\ numbersInUse' = numbersInUse \ {bufferNumber[b]}
  /\ nativePoints' = [t \in IndexedTargets |-> Without(bufferNumber[b], nativePoints[t])]
  /\ uniformPoints' = Without(b, uniformPoints)
  /\ UNCHANGED <<nextBufferName, indexedFeedback, feedbackSlots, pushedFor>>

\* Like the others, a feedback object takes a name.
GenFeedback(f) ==
  /\ nextBufferName <= LastName
  /\ f \notin feedbackObjects
  /\ nextBufferName' = nextBufferName + 1
  /\ feedbackObjects' = feedbackObjects \cup {f}
  /\ UNCHANGED <<bufferNumber, numbersInUse, boundFeedback, genericBound, feedbackSlots, nativePoints,
                 uniformPoints, pushedFor>>

\* The driver is not told.
BindFeedback(f) ==
  /\ f \in feedbackObjects \cup {DefaultFeedback}
  /\ boundFeedback' = f
  /\ UNCHANGED <<indexedObjects, feedbackObjects, genericBound, feedbackSlots, nativePoints,
                 uniformPoints, pushedFor>>

DeleteFeedback(f) ==
  /\ f \in feedbackObjects
  /\ feedbackObjects' = feedbackObjects \ {f}
  /\ boundFeedback' = IF boundFeedback = f THEN DefaultFeedback ELSE boundFeedback
  /\ feedbackSlots' = [feedbackSlots EXCEPT ![f] = [i \in BufferPoints |-> 0]]
  /\ pushedFor' = [i \in BufferPoints |-> IF pushedFor[i] = f THEN NoFeedback ELSE pushedFor[i]]
  /\ UNCHANGED <<indexedObjects, genericBound, nativePoints, uniformPoints>>
-----------------------------------------------------------------------------
(* Bindings: names is the buffer for each point that is set, whole or by a     *)
(* range of it.                                                              *)

\* Sent only if the buffer is not the one bound to the target already.
MutSendPoints(t, names) ==
  /\ nativePoints' = [nativePoints EXCEPT ![t] = [i \in BufferPoints |->
                        IF i \in DOMAIN names /\ names[i] # genericBound[t]
                          THEN names[i] ELSE @[i]]]
  /\ numbersInUse' = (numbersInUse \cup {names[i] : i \in DOMAIN names}) \ {0}

\* The driver makes a buffer of each number that it does not have.
SendPoints(t, names) ==
  /\ nativePoints' = [nativePoints EXCEPT ![t] = [i \in BufferPoints |->
                        IF i \in DOMAIN names THEN names[i] ELSE @[i]]]
  /\ numbersInUse' = (numbersInUse \cup {names[i] : i \in DOMAIN names}) \ {0}

\* The slots of a feedback object.
FillSlots(f, names) ==
  /\ feedbackSlots' = [feedbackSlots EXCEPT ![f] = [i \in BufferPoints |->
                 IF i \in DOMAIN names THEN names[i] ELSE @[i]]]
  /\ pushedFor' = [i \in BufferPoints |-> IF i \in DOMAIN names THEN f ELSE pushedFor[i]]

\* applyIndexedBufferBinding, in the order of the points.
ApplyIndexed(t, names) ==
  LET last == CHOOSE i \in DOMAIN names : \A j \in DOMAIN names : j <= i
  IN  /\ genericBound' = [genericBound EXCEPT ![t] = names[last]]
      /\ IF t = "feedback"
           THEN FillSlots(boundFeedback, names) /\ UNCHANGED uniformPoints
           ELSE /\ uniformPoints' = [i \in BufferPoints |->
                     IF i \in DOMAIN names THEN names[i] ELSE uniformPoints[i]]
                /\ UNCHANGED <<feedbackSlots, pushedFor>>
      /\ SendPoints(t, names)
      /\ UNCHANGED <<bufferNumber, nextBufferName, indexedFeedback>>

\* glBindBufferBase, glBindBufferRange.
BindBufferBase(t, i, b) ==
  /\ b \in LiveBuffers \cup {0}
  /\ ApplyIndexed(t, [j \in {i} |-> b])

\* glBindBuffersBase, glBindBuffersRange: an entry that names no buffer leaves its
\* point alone; without an array all are 0.
BindBuffersBase(t, names) ==
  LET valid == {i \in DOMAIN names : names[i] \in LiveBuffers \cup {0}}
  IN  /\ valid # {}
      /\ ApplyIndexed(t, [i \in valid |-> names[i]])

\* glTransformFeedbackBufferBase, glTransformFeedbackBufferRange: the slot is the
\* object's, the driver's point that of the one it has.
TransformFeedbackBufferBase(f, i, b) ==
  /\ f \in feedbackObjects \cup {DefaultFeedback}
  /\ b \in LiveBuffers \cup {0}
  /\ FillSlots(f, [j \in {i} |-> b])
  /\ SendPoints("feedback", [j \in {i} |-> b])
  /\ UNCHANGED <<bufferNumber, nextBufferName, indexedFeedback, genericBound, uniformPoints>>

IndexedNext ==
  \/ \E number \in Numbers : GenIndexedBuffer(number)
  \/ GenOtherObject
  \/ \E b \in BufferNames : DeleteIndexedBuffer(b)
  \/ \E f \in FeedbackObjects : GenFeedback(f) \/ DeleteFeedback(f)
  \/ \E f \in FeedbackRefs : BindFeedback(f)
  \/ \E t \in IndexedTargets, i \in BufferPoints, b \in BufferRefs : BindBufferBase(t, i, b)
  \/ \E t \in IndexedTargets, i, j \in BufferPoints :
       i < j /\ \E names \in [i..j -> BufferRefs] : BindBuffersBase(t, names)
  \/ \E f \in FeedbackRefs, i \in BufferPoints, b \in BufferRefs :
       TransformFeedbackBufferBase(f, i, b)

IndexedSpec == IndexedInit /\ [][IndexedNext]_indexedVars
-----------------------------------------------------------------------------
\* A buffer whose number happens to be its name.
OwnNumber(b) == b \in LiveBuffers /\ bufferNumber[b] = b

\* Where a buffer's number is its name, the driver has it at every point where
\* OpenGL has it, whatever was bound, refused or deleted at other points and
\* whatever numbers the driver used again; for transform feedback, at the points
\* that were last set for the object that is bound.
IndexedBindingExact ==
  \A i \in BufferPoints :
    /\ OwnNumber(uniformPoints[i]) => nativePoints["uniform"][i] = uniformPoints[i]
    /\ pushedFor[i] = boundFeedback /\ OwnNumber(feedbackSlots[boundFeedback][i])
         => nativePoints["feedback"][i] = feedbackSlots[boundFeedback][i]
=============================================================================
