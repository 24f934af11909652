----------------------------- MODULE QueryProofs -----------------------------
(***************************************************************************)
(* What the begin/end pairs of Context promise for every number of objects *)
(* and names: transform feedback captures, queries and conditional rendering. *)
(***************************************************************************)
EXTENDS TransformFeedback, Queries, TLAPS

-----------------------------------------------------------------------------
(* Transform feedback. *)

\* While the program is orderly at most one object is in use: without it
\* nothing says that a command the driver takes is meant for the bound object.
OneBusy == tfOrderly => \A t, u \in Busy(tfState) : t = u

CaptureInv == TFTypeOK /\ OneCapture /\ NativeFollowsObject /\ OneBusy

\* With at most one object in use, the driver's state is read off any object.
LEMMA NativeOfBusy ==
  ASSUME CaptureInv, tfOrderly
  PROVE  /\ \A t \in Busy(tfState) : nativeTF = tfState[t]
         /\ Busy(tfState) = {} => nativeTF = "idle"
<1>1. ASSUME NEW t \in Busy(tfState)
      PROVE  nativeTF = tfState[t]
  <2>1. (CHOOSE u \in Busy(tfState) : TRUE) \in Busy(tfState)
    BY <1>1
  <2>2. (CHOOSE u \in Busy(tfState) : TRUE) = t
    BY <1>1, <2>1 DEF CaptureInv, OneBusy
  <2> QED
    BY <1>1, <2>2 DEF CaptureInv, NativeFollowsObject
<1> QED
  BY <1>1 DEF CaptureInv, NativeFollowsObject

\* The converse, for the state after a step.
LEMMA NativeByBusy ==
  ASSUME NEW state, NEW native,
         \A t \in Busy(state) : native = state[t],
         Busy(state) = {} => native = "idle"
  PROVE  native = IF Busy(state) = {} THEN "idle"
                  ELSE state[CHOOSE t \in Busy(state) : TRUE]
<1>1. Busy(state) # {} => (CHOOSE t \in Busy(state) : TRUE) \in Busy(state)
  OBVIOUS
<1> QED
  BY <1>1

LEMMA InitCapture == TFInit => CaptureInv
  BY DefaultTFIsNoName
     DEF TFInit, CaptureInv, TFTypeOK, OneCapture, NativeFollowsObject, OneBusy,
         Busy, TFRefs, CaptureStates

\* Steps that touch neither the capture states nor the driver.
LEMMA QuietCapture ==
  ASSUME CaptureInv, UNCHANGED <<tfState, nativeTF, tfOrderly>>
  PROVE  NativeFollowsObject' /\ OneBusy'
  BY DEF CaptureInv, NativeFollowsObject, OneBusy, Busy

LEMMA GenCapture ==
  ASSUME CaptureInv, NEW t \in Captures, GenTransformFeedback(t)
  PROVE  CaptureInv'
<1>1. TFTypeOK' /\ OneCapture'
  BY DEF CaptureInv, TFTypeOK, OneCapture, GenTransformFeedback
<1> QED
  BY <1>1, QuietCapture DEF GenTransformFeedback, CaptureInv

LEMMA BindCapture ==
  ASSUME CaptureInv, NEW t \in TFRefs, BindTransformFeedback(t)
  PROVE  CaptureInv'
<1>1. TFTypeOK' /\ OneCapture'
  BY DEF CaptureInv, TFTypeOK, OneCapture, BindTransformFeedback,
         boundTransformFeedbackCapturing
<1> QED
  BY <1>1, QuietCapture DEF BindTransformFeedback, CaptureInv

LEMMA DrawCapture ==
  ASSUME CaptureInv, NEW t \in TFRefs, DrawTransformFeedback(t)
  PROVE  CaptureInv'
<1>1. TFTypeOK' /\ OneCapture'
  BY DEF CaptureInv, TFTypeOK, OneCapture, DrawTransformFeedback, TFRefs,
         boundTransformFeedbackCapturing
<1> QED
  BY <1>1, QuietCapture DEF DrawTransformFeedback, CaptureInv

LEMMA DeleteCapture ==
  ASSUME CaptureInv, NEW t \in Captures, DeleteTransformFeedback(t)
  PROVE  CaptureInv'
<1>1. TFTypeOK'
  BY DefaultTFIsNoName
     DEF CaptureInv, TFTypeOK, DeleteTransformFeedback, WatchCapture, TFRefs, CaptureStates
<1>2. OneCapture'
  BY DefaultTFIsNoName
     DEF CaptureInv, TFTypeOK, OneCapture, DeleteTransformFeedback, TFRefs
<1>3. ASSUME tfOrderly'
      PROVE  /\ \A u, v \in Busy(tfState') : u = v
             /\ nativeTF' = IF Busy(tfState') = {} THEN "idle"
                            ELSE tfState'[CHOOSE u \in Busy(tfState') : TRUE]
  <2>1. CASE Busy(tfState') = {} /\ nativeTF' = "idle"
    BY <2>1
  <2>2. CASE tfOrderly /\ tfState[t] = "idle" /\ \A u, v \in Busy(tfState') : u = v
    <3>1. tfState' = tfState /\ nativeTF' = nativeTF
      BY <2>2 DEF DeleteTransformFeedback, CaptureInv, TFTypeOK, TFRefs
    <3> QED
      BY <2>2, <3>1 DEF CaptureInv, NativeFollowsObject
  <2> QED
    BY <1>3, <2>1, <2>2 DEF DeleteTransformFeedback, WatchCapture
<1>4. NativeFollowsObject' /\ OneBusy'
  BY <1>3 DEF NativeFollowsObject, OneBusy, Busy
<1> QED
  BY <1>1, <1>2, <1>4 DEF CaptureInv

\* A command keeps the driver in step with the object in use when the states it
\* is allowed in hold the state the bound object is in.
LEMMA CommandCapture ==
  ASSUME CaptureInv, NEW new \in CaptureStates, NEW allowed \in SUBSET CaptureStates,
         Command(new, allowed), tfState[boundTransformFeedback] \in allowed,
         tfState[boundTransformFeedback] # new
  PROVE  CaptureInv'
<1> DEFINE b == boundTransformFeedback
<1>0. b \in TFRefs /\ (b # DefaultTF => b \in transformFeedbacks)
  BY DEF CaptureInv, TFTypeOK, TFRefs
<1>1. /\ tfState' = [tfState EXCEPT ![b] = new]
      /\ nativeTF' = IF b # DefaultTF /\ nativeTF \in allowed THEN new ELSE nativeTF
      /\ drawnFrom' = DefaultTF
      /\ UNCHANGED <<transformFeedbacks, boundTransformFeedback>>
      /\ WatchCapture(FALSE)
  BY DEF Command
<1>2. TFTypeOK'
  BY <1>0, <1>1, DefaultTFIsNoName DEF CaptureInv, TFTypeOK, WatchCapture, TFRefs
<1>3. OneCapture'
  BY <1>0, <1>1 DEF CaptureInv, TFTypeOK, OneCapture
<1>4. ASSUME tfOrderly'
      PROVE  /\ \A u, v \in Busy(tfState') : u = v
             /\ nativeTF' = IF Busy(tfState') = {} THEN "idle"
                            ELSE tfState'[CHOOSE u \in Busy(tfState') : TRUE]
  <2>1. CASE Busy(tfState') = {} /\ nativeTF' = "idle"
    BY <2>1
  <2>2. CASE tfOrderly /\ \A u, v \in Busy(tfState') : u = v
    <3>1. CASE b = DefaultTF
      <4>1. Busy(tfState') = Busy(tfState)
        BY <1>0, <1>1, <3>1, DefaultTFIsNoName DEF CaptureInv, TFTypeOK, Busy, TFRefs
      <4>2. \A u \in Busy(tfState') : nativeTF' = tfState'[u]
        BY <1>0, <1>1, <2>2, <3>1, <4>1, NativeOfBusy, DefaultTFIsNoName
           DEF CaptureInv, TFTypeOK, Busy, TFRefs
      <4> QED
        BY <1>1, <2>2, <3>1, <4>1, <4>2, NativeOfBusy, NativeByBusy
    <3>2. CASE b # DefaultTF
      <4>1. b \in Captures
        BY <1>0, <3>2 DEF TFRefs
      <4>2. b \in Busy(tfState) <=> tfState[b] # "idle"
        BY <4>1 DEF Busy
      <4>3. b \in Busy(tfState') <=> new # "idle"
        BY <1>0, <1>1, <4>1 DEF Busy, CaptureInv, TFTypeOK
      <4>4. ASSUME NEW u \in Captures, u # b
            PROVE  u \notin Busy(tfState')
        <5>1. u \in Busy(tfState') <=> u \in Busy(tfState)
          BY <1>0, <1>1, <4>4 DEF Busy, CaptureInv, TFTypeOK, TFRefs
        <5>2. CASE new = "idle"
          BY <2>2, <4>2, <4>4, <5>1, <5>2 DEF CaptureInv, OneBusy
        <5>3. CASE new # "idle"
          BY <2>2, <4>3, <4>4, <5>3
        <5> QED
          BY <5>2, <5>3
      <4>5. nativeTF = tfState[b]
        <5>1. CASE tfState[b] # "idle"
          BY <2>2, <4>2, <5>1, NativeOfBusy
        <5>2. CASE tfState[b] = "idle"
          <6>1. ASSUME NEW u \in Busy(tfState)
                PROVE  FALSE
            <7>1. u \in Captures /\ u # b
              BY <4>2, <5>2, <6>1 DEF Busy
            <7>2. u \in Busy(tfState')
              BY <1>0, <1>1, <6>1, <7>1 DEF Busy, CaptureInv, TFTypeOK, TFRefs
            <7> QED
              BY <4>4, <7>1, <7>2
          <6> QED
            BY <2>2, <5>2, <6>1, NativeOfBusy
        <5> QED
          BY <5>1, <5>2
      <4>6. nativeTF' = new /\ tfState'[b] = new
        BY <1>0, <1>1, <3>2, <4>5 DEF CaptureInv, TFTypeOK
      <4>7. \A u \in Busy(tfState') : u = b
        BY <4>4 DEF Busy
      <4> QED
        BY <2>2, <4>3, <4>6, <4>7, NativeByBusy
    <3> QED
      BY <3>1, <3>2
  <2> QED
    BY <1>1, <1>4, <2>1, <2>2 DEF WatchCapture
<1>5. NativeFollowsObject' /\ OneBusy'
  BY <1>4 DEF NativeFollowsObject, OneBusy, Busy
<1> QED
  BY <1>2, <1>3, <1>5 DEF CaptureInv

LEMMA StepCapture == CaptureInv /\ [TFNext]_tfVars => CaptureInv'
<1> SUFFICES ASSUME CaptureInv, [TFNext]_tfVars
             PROVE  CaptureInv'
  OBVIOUS
<1> USE DEF CaptureStates
<1>1. CASE BeginTransformFeedback
  BY <1>1, CommandCapture DEF BeginTransformFeedback
<1>2. CASE EndTransformFeedback
  <2>1. tfState[boundTransformFeedback] \in {"capturing", "paused"}
    BY <1>2 DEF EndTransformFeedback, CaptureInv, TFTypeOK, TFRefs
  <2> QED
    BY <1>2, <2>1, CommandCapture DEF EndTransformFeedback
<1>3. CASE PauseTransformFeedback
  BY <1>3, CommandCapture DEF PauseTransformFeedback
<1>4. CASE ResumeTransformFeedback
  BY <1>4, CommandCapture DEF ResumeTransformFeedback
<1>5. CASE UNCHANGED tfVars
  BY <1>5 DEF tfVars, CaptureInv, TFTypeOK, OneCapture, NativeFollowsObject,
              OneBusy, Busy
<1> QED
  BY <1>1, <1>2, <1>3, <1>4, <1>5, GenCapture, BindCapture, DeleteCapture, DrawCapture
     DEF TFNext

LEMMA CaptureAlways == TFSpec => []CaptureInv
  BY InitCapture, StepCapture, PTL DEF TFSpec

\* Only the bound object captures and no draw reads an object that is being
\* written, though glDrawTransformFeedback checks the bound object and not the
\* one it reads.
THEOREM CaptureIsBound == TFSpec => []OneCapture
<1>1. CaptureInv => OneCapture
  BY DEF CaptureInv
<1> QED
  BY <1>1, CaptureAlways, PTL

\* The driver, which is never told which object is bound, is in the state of the
\* one object an orderly program uses: glPauseTransformFeedback and the others
\* reach the capture they are meant for.
THEOREM NativeCaptureFollows == TFSpec => []NativeFollowsObject
<1>1. CaptureInv => NativeFollowsObject
  BY DEF CaptureInv
<1> QED
  BY <1>1, CaptureAlways, PTL
-----------------------------------------------------------------------------
(* Queries. *)

\* A name that Context holds active on a target is a query that is marked so,
\* unless it was deleted and its index still has it.
ActiveMarked == \A t \in QueryTargets : ActiveOn(t) \cap queries \subseteq queryActive

\* A name is active at one place only, deleted or not.
OnePlace ==
  /\ \A t, u \in QueryTargets : ActiveOn(t) \cap ActiveOn(u) # {} => t = u
  /\ \A t \in CounterTargets, i, j \in Indices : activeIndexed[t][i] # NoQuery =>
       /\ activeIndexed[t][i] # activeQueries[t]
       /\ activeIndexed[t][i] = activeIndexed[t][j] => i = j

\* The driver runs nothing that Context does not hold active on that target.
RunningActive == \A t \in QueryTargets : running[t] \in queries => running[t] \in ActiveOn(t)

\* A target used in order has at most one query, and that one was not deleted.
OrderlyAlone ==
  \A t \in orderly : /\ ActiveOn(t) \subseteq queries
                     /\ \A p, q \in ActiveOn(t) : p = q

NumbersDistinct == \A p, q \in queries : nativeQuery[p] = nativeQuery[q] => p = q

QueryInv == /\ QueryTypeOK /\ ActiveMarked /\ OnePlace /\ RunningActive /\ OrderlyAlone
            /\ NumbersDistinct /\ QueryRunsWhereActive

LEMMA ActiveMember ==
  ASSUME NEW plain, NEW indexed, NEW t, NEW q
  PROVE  q \in ActiveIn(plain, indexed, t) <=>
           /\ q # NoQuery
           /\ plain[t] = q \/ (t \in CounterTargets /\ \E i \in Indices : indexed[t][i] = q)
  BY DEF ActiveIn

LEMMA ActiveNames ==
  ASSUME QueryTypeOK, NEW t \in QueryTargets
  PROVE  ActiveOn(t) \subseteq QueryNames
<1>1. ASSUME NEW q \in ActiveOn(t)
      PROVE  q \in QueryNames
  <2>1. /\ q # NoQuery
        /\ activeQueries[t] = q
           \/ (t \in CounterTargets /\ \E i \in Indices : activeIndexed[t][i] = q)
    BY <1>1, ActiveMember DEF ActiveOn
  <2> QED
    BY <2>1 DEF QueryTypeOK, QueryRefs
<1> QED
  BY <1>1

LEMMA InitQuery == QueryInit => QueryInv
<1> SUFFICES ASSUME QueryInit
             PROVE  QueryInv
  OBVIOUS
<1> USE NoQueryIsNoName, TargetsDistinct
<1>1. QueryTypeOK
  BY DEF QueryInit, QueryTypeOK, QueryRefs, QueryTargets
<1>2. \A t \in QueryTargets : ActiveOn(t) = {}
  <2> SUFFICES ASSUME NEW t \in QueryTargets, NEW q \in ActiveOn(t)
               PROVE  FALSE
    OBVIOUS
  <2>1. /\ q # NoQuery
        /\ activeQueries[t] = q
           \/ (t \in CounterTargets /\ \E i \in Indices : activeIndexed[t][i] = q)
    BY ActiveMember DEF ActiveOn
  <2> QED
    BY <2>1 DEF QueryInit
<1>3. ActiveMarked /\ RunningActive /\ OrderlyAlone /\ NumbersDistinct
  BY <1>1, <1>2 DEF ActiveMarked, RunningActive, OrderlyAlone, NumbersDistinct, QueryInit,
                    QueryTypeOK
<1>4. OnePlace
  BY <1>2 DEF OnePlace, QueryInit
<1>5. QueryRunsWhereActive
  BY <1>2 DEF QueryRunsWhereActive, QueryInit
<1> QED
  BY <1>1, <1>3, <1>4, <1>5 DEF QueryInv

\* A query that may begin is active nowhere and runs nowhere.
LEMMA FreshQuery ==
  ASSUME QueryInv, NEW q \in queries \ queryActive
  PROVE  \A t \in QueryTargets : q \notin ActiveOn(t) /\ running[t] # q
  BY DEF QueryInv, ActiveMarked, RunningActive

\* An entry that Context sets puts the query on its target and nowhere else.
LEMMA EnterPlain ==
  ASSUME QueryInv, NEW t \in QueryTargets, NEW q \in QueryNames,
         \A u \in QueryTargets : q \notin ActiveOn(u),
         activeQueries[t] = NoQuery,
         activeQueries' = [activeQueries EXCEPT ![t] = q], UNCHANGED activeIndexed
  PROVE  /\ \A u \in QueryTargets \ {t} : ActiveOn(u)' = ActiveOn(u)
         /\ ActiveOn(t)' = ActiveOn(t) \cup {q}
         /\ OnePlace'
<1> USE NoQueryIsNoName
<1>1. \A u \in QueryTargets : activeQueries'[u] = IF u = t THEN q ELSE activeQueries[u]
  BY DEF QueryInv, QueryTypeOK
<1>2. ASSUME NEW u \in QueryTargets, NEW p
      PROVE  p \in ActiveOn(u)' <=> p \in ActiveOn(u) \/ (u = t /\ p = q)
  <2>1. p \in ActiveOn(u)' <=>
          /\ p # NoQuery
          /\ activeQueries'[u] = p
             \/ (u \in CounterTargets /\ \E i \in Indices : activeIndexed'[u][i] = p)
    BY DEF ActiveOn, ActiveIn
  <2>2. p \in ActiveOn(u) <=>
          /\ p # NoQuery
          /\ activeQueries[u] = p
             \/ (u \in CounterTargets /\ \E i \in Indices : activeIndexed[u][i] = p)
    BY ActiveMember DEF ActiveOn
  <2> QED
    BY <1>1, <2>1, <2>2
<1>3. \A u, v \in QueryTargets : ActiveOn(u)' \cap ActiveOn(v)' # {} => u = v
  BY <1>2 DEF QueryInv, OnePlace
<1>4. ASSUME NEW u \in CounterTargets, NEW i \in Indices, NEW j \in Indices,
             activeIndexed'[u][i] # NoQuery
      PROVE  /\ activeIndexed'[u][i] # activeQueries'[u]
             /\ activeIndexed'[u][i] = activeIndexed'[u][j] => i = j
  <2>1. u \in QueryTargets /\ activeIndexed[u][i] \in ActiveOn(u)
    BY <1>4, ActiveMember DEF ActiveOn, QueryTargets
  <2>2. activeIndexed[u][i] # q
    BY <2>1
  <2> QED
    BY <1>1, <1>4, <2>1, <2>2 DEF QueryInv, OnePlace
<1>5. OnePlace'
  BY <1>3, <1>4 DEF OnePlace
<1> QED
  BY <1>2, <1>5

LEMMA EnterIndexed ==
  ASSUME QueryInv, NEW t \in CounterTargets, NEW k \in Indices, NEW q \in QueryNames,
         \A u \in QueryTargets : q \notin ActiveOn(u),
         activeIndexed[t][k] = NoQuery,
         activeIndexed' = [activeIndexed EXCEPT ![t][k] = q], UNCHANGED activeQueries
  PROVE  /\ \A u \in QueryTargets \ {t} : ActiveOn(u)' = ActiveOn(u)
         /\ ActiveOn(t)' = ActiveOn(t) \cup {q}
         /\ OnePlace'
<1> USE NoQueryIsNoName
<1>1. \A u \in CounterTargets, i \in Indices :
        activeIndexed'[u][i] = IF u = t /\ i = k THEN q ELSE activeIndexed[u][i]
  BY DEF QueryInv, QueryTypeOK
<1>2. ASSUME NEW u \in QueryTargets, NEW p
      PROVE  p \in ActiveOn(u)' <=> p \in ActiveOn(u) \/ (u = t /\ p = q)
  <2>1. p \in ActiveOn(u)' <=>
          /\ p # NoQuery
          /\ activeQueries'[u] = p
             \/ (u \in CounterTargets /\ \E i \in Indices : activeIndexed'[u][i] = p)
    BY DEF ActiveOn, ActiveIn
  <2>2. p \in ActiveOn(u) <=>
          /\ p # NoQuery
          /\ activeQueries[u] = p
             \/ (u \in CounterTargets /\ \E i \in Indices : activeIndexed[u][i] = p)
    BY ActiveMember DEF ActiveOn
  <2> QED
    BY <1>1, <2>1, <2>2
<1>3. \A u, v \in QueryTargets : ActiveOn(u)' \cap ActiveOn(v)' # {} => u = v
  BY <1>2 DEF QueryInv, OnePlace
<1>4. ASSUME NEW u \in CounterTargets, NEW i \in Indices, NEW j \in Indices,
             activeIndexed'[u][i] # NoQuery
      PROVE  /\ activeIndexed'[u][i] # activeQueries'[u]
             /\ activeIndexed'[u][i] = activeIndexed'[u][j] => i = j
  <2>1. /\ u \in QueryTargets
        /\ \A l \in Indices : activeIndexed[u][l] # q
        /\ activeQueries[u] # q
    <3>1. u \in QueryTargets /\ q \notin ActiveOn(u)
      BY DEF QueryTargets
    <3> QED
      BY <3>1, ActiveMember DEF ActiveOn
  <2> QED
    BY <1>1, <1>4, <2>1 DEF QueryInv, OnePlace
<1>5. OnePlace'
  BY <1>3, <1>4 DEF OnePlace
<1>6. t \in QueryTargets
  BY DEF QueryTargets
<1> QED
  BY <1>2, <1>5, <1>6

\* An entry that Context clears takes the name off its target.
LEMMA LeavePlain ==
  ASSUME QueryInv, NEW t \in QueryTargets, NEW q,
         activeQueries[t] = q, q # NoQuery,
         activeQueries' = [activeQueries EXCEPT ![t] = NoQuery], UNCHANGED activeIndexed
  PROVE  /\ \A u \in QueryTargets \ {t} : ActiveOn(u)' = ActiveOn(u)
         /\ ActiveOn(t)' = ActiveOn(t) \ {q}
         /\ OnePlace'
<1>1. \A u \in QueryTargets : activeQueries'[u] = IF u = t THEN NoQuery ELSE activeQueries[u]
  BY DEF QueryInv, QueryTypeOK
<1>2. t \in CounterTargets => \A i \in Indices : activeIndexed[t][i] # q
  BY DEF QueryInv, OnePlace
<1>3. ASSUME NEW u \in QueryTargets, NEW p
      PROVE  p \in ActiveOn(u)' <=> p \in ActiveOn(u) /\ ~(u = t /\ p = q)
  <2>1. p \in ActiveOn(u)' <=>
          /\ p # NoQuery
          /\ activeQueries'[u] = p
             \/ (u \in CounterTargets /\ \E i \in Indices : activeIndexed'[u][i] = p)
    BY DEF ActiveOn, ActiveIn
  <2>2. p \in ActiveOn(u) <=>
          /\ p # NoQuery
          /\ activeQueries[u] = p
             \/ (u \in CounterTargets /\ \E i \in Indices : activeIndexed[u][i] = p)
    BY ActiveMember DEF ActiveOn
  <2> QED
    BY <1>1, <1>2, <2>1, <2>2
<1>4. \A u, v \in QueryTargets : ActiveOn(u)' \cap ActiveOn(v)' # {} => u = v
  BY <1>3 DEF QueryInv, OnePlace
<1>5. OnePlace'
  BY <1>1, <1>4 DEF QueryInv, OnePlace, QueryTargets
<1> QED
  BY <1>3, <1>5

LEMMA LeaveIndexed ==
  ASSUME QueryInv, NEW t \in CounterTargets, NEW k \in Indices, NEW q,
         activeIndexed[t][k] = q, q # NoQuery,
         \A u \in CounterTargets, i \in Indices :
           activeIndexed'[u][i] = IF u = t /\ i = k THEN NoQuery ELSE activeIndexed[u][i],
         UNCHANGED activeQueries
  PROVE  /\ \A u \in QueryTargets \ {t} : ActiveOn(u)' = ActiveOn(u)
         /\ ActiveOn(t)' = ActiveOn(t) \ {q}
         /\ OnePlace'
<1>1. \A u \in CounterTargets, i \in Indices :
        activeIndexed'[u][i] = IF u = t /\ i = k THEN NoQuery ELSE activeIndexed[u][i]
  OBVIOUS
<1>2. /\ \A i \in Indices : activeIndexed[t][i] = q => i = k
      /\ activeQueries[t] # q
  BY DEF QueryInv, OnePlace
<1>3. ASSUME NEW u \in QueryTargets, NEW p
      PROVE  p \in ActiveOn(u)' <=> p \in ActiveOn(u) /\ ~(u = t /\ p = q)
  <2>1. p \in ActiveOn(u)' <=>
          /\ p # NoQuery
          /\ activeQueries'[u] = p
             \/ (u \in CounterTargets /\ \E i \in Indices : activeIndexed'[u][i] = p)
    BY DEF ActiveOn, ActiveIn
  <2>2. p \in ActiveOn(u) <=>
          /\ p # NoQuery
          /\ activeQueries[u] = p
             \/ (u \in CounterTargets /\ \E i \in Indices : activeIndexed[u][i] = p)
    BY ActiveMember DEF ActiveOn
  <2> QED
    BY <1>1, <1>2, <2>1, <2>2
<1>4. \A u, v \in QueryTargets : ActiveOn(u)' \cap ActiveOn(v)' # {} => u = v
  BY <1>3 DEF QueryInv, OnePlace
<1>5. OnePlace'
  BY <1>1, <1>4 DEF QueryInv, OnePlace
<1>6. t \in QueryTargets
  BY DEF QueryTargets
<1> QED
  BY <1>3, <1>5, <1>6

\* What becomes of the targets used in order.
LEMMA Watched ==
  ASSUME NEW disturbed, Watch(disturbed), NEW t \in orderly'
  PROVE  /\ t \in QueryTargets
         /\ \/ ActiveOn(t)' = {} /\ running'[t] = NoQuery
            \/ t \in orderly \ disturbed
  BY DEF Watch, ActiveOn, ActiveIn

LEMMA BeginKeeps ==
  ASSUME QueryInv, NEW t \in QueryTargets, NEW q \in queries \ queryActive, Begin(q, t),
         \A u \in QueryTargets \ {t} : ActiveOn(u)' = ActiveOn(u),
         ActiveOn(t)' = ActiveOn(t) \cup {q}, OnePlace',
         activeQueries' \in [QueryTargets -> QueryRefs],
         \A u \in QueryTargets : activeQueries'[u] \in {activeQueries[u], q},
         activeIndexed' \in [CounterTargets -> [Indices -> QueryRefs]]
  PROVE  QueryInv'
<1> USE NoQueryIsNoName
<1>1. /\ queryTarget' = [queryTarget EXCEPT ![q] = t]
      /\ queryActive' = queryActive \cup {q}
      /\ running' = IF DriverTakes(q, t) THEN [running EXCEPT ![t] = q] ELSE running
      /\ nativeTarget' = IF DriverTakes(q, t) THEN [nativeTarget EXCEPT ![q] = t]
                                              ELSE nativeTarget
      /\ misused' = IF nativeTarget[q] \in {NoTarget, t} THEN misused \ {q}
                                                         ELSE misused \cup {q}
      /\ UNCHANGED <<results, queries, nativeQuery, region, nativeRegion>>
      /\ Watch(IF ActiveOn(t) = {} THEN {} ELSE {t})
  BY DEF Begin, DriverBegin, queryNames, queryRegions
<1>2. orderly' \subseteq QueryTargets
  BY <1>1 DEF Watch
<1>3. q \in QueryNames /\ t \in QueryTargets \cup {Timestamp, NoTarget}
  BY DEF QueryInv, QueryTypeOK
<1>4. \A u \in QueryTargets : running'[u] = IF u = t /\ DriverTakes(q, t) THEN q
                                                                          ELSE running[u]
  BY <1>1 DEF QueryInv, QueryTypeOK
<1>5. QueryTypeOK'
  <2>1. queryTarget' \in [QueryNames -> QueryTargets \cup {Timestamp, NoTarget}]
    BY <1>1, <1>3 DEF QueryInv, QueryTypeOK
  <2>2. nativeTarget' \in [QueryNames -> QueryTargets \cup {Timestamp, NoTarget}]
    BY <1>1, <1>3 DEF QueryInv, QueryTypeOK
  <2>3. running' \in [QueryTargets -> queries \cup {NoQuery, Orphan}]
    BY <1>1 DEF QueryInv, QueryTypeOK
  <2>4. misused' \subseteq queries /\ queryActive' \subseteq queries
    BY <1>1 DEF QueryInv, QueryTypeOK
  <2>5. \A u \in QueryTargets : activeQueries'[u] \in queryActive' \cup {NoQuery}
    BY <1>1 DEF QueryInv, QueryTypeOK
  <2> QED
    BY <1>1, <1>2, <2>1, <2>2, <2>3, <2>4, <2>5 DEF QueryInv, QueryTypeOK
<1>6. ActiveMarked'
  BY <1>1 DEF QueryInv, ActiveMarked
<1>7. RunningActive'
  BY <1>1, <1>4 DEF QueryInv, RunningActive
<1>8. NumbersDistinct'
  BY <1>1 DEF QueryInv, NumbersDistinct
<1>9. ASSUME NEW u \in orderly'
      PROVE  /\ ActiveOn(u)' \subseteq queries'
             /\ \A p, r \in ActiveOn(u)' : p = r
             /\ {running'[u]} \ {NoQuery} = ActiveOn(u)' \ misused'
  <2>1. u \in QueryTargets
    BY <1>1, <1>9, Watched
  <2>2. CASE ActiveOn(u)' = {} /\ running'[u] = NoQuery
    BY <2>2
  <2>3. CASE u \in orderly /\ u # t
    <3>1. ActiveOn(u)' = ActiveOn(u) /\ running'[u] = running[u] /\ q \notin ActiveOn(u)
      BY <1>4, <2>1, <2>3, FreshQuery
    <3>2. ActiveOn(u) \ misused' = ActiveOn(u) \ misused
      BY <1>1, <3>1
    <3> QED
      BY <1>1, <2>3, <3>1, <3>2 DEF QueryInv, OrderlyAlone, QueryRunsWhereActive
  <2>4. CASE u = t /\ t \in orderly /\ ActiveOn(t) = {}
    <3>1. ActiveOn(t)' = {q} /\ running[t] = NoQuery
      BY <2>4 DEF QueryInv, QueryRunsWhereActive
    <3>2. q # NoQuery
      BY <1>3
    <3>3. CASE nativeTarget[q] \in {NoTarget, t}
      <4>1. DriverTakes(q, t)
        BY <3>1, <3>3, FreshQuery DEF DriverTakes
      <4> QED
        BY <1>1, <1>4, <2>4, <3>1, <3>2, <3>3, <4>1
    <3>4. CASE nativeTarget[q] \notin {NoTarget, t}
      <4>1. ~DriverTakes(q, t)
        BY <3>4 DEF DriverTakes
      <4> QED
        BY <1>1, <1>4, <2>4, <3>1, <3>4, <4>1
    <3> QED
      BY <3>3, <3>4
  <2> QED
    BY <1>1, <1>9, <2>1, <2>2, <2>3, <2>4, Watched
<1>10. OrderlyAlone' /\ QueryRunsWhereActive'
  BY <1>9 DEF OrderlyAlone, QueryRunsWhereActive
<1> QED
  BY <1>5, <1>6, <1>7, <1>8, <1>10 DEF QueryInv

LEMMA EndKeeps ==
  ASSUME QueryInv, NEW t \in QueryTargets, NEW q \in ActiveOn(t), End(q, t),
         \A u \in QueryTargets \ {t} : ActiveOn(u)' = ActiveOn(u),
         ActiveOn(t)' = ActiveOn(t) \ {q}, OnePlace',
         activeQueries' \in [QueryTargets -> QueryRefs],
         \A u \in QueryTargets : activeQueries'[u] \in {activeQueries[u], NoQuery},
         \A u \in QueryTargets : activeQueries'[u] # q,
         activeIndexed' \in [CounterTargets -> [Indices -> QueryRefs]]
  PROVE  QueryInv'
<1> USE NoQueryIsNoName
<1>1. /\ queryActive' = queryActive \ {q}
      /\ results' = IF q \in queries THEN results \cup ({running[t]} \cap queries) ELSE results
      /\ running' = IF q \in queries THEN [running EXCEPT ![t] = NoQuery] ELSE running
      /\ UNCHANGED <<queryTarget, nativeTarget, queries, nativeQuery, region, nativeRegion,
                     misused>>
      /\ Watch({})
  BY DEF End, queryNames, queryRegions
<1>2. orderly' \subseteq QueryTargets
  BY <1>1 DEF Watch
<1>3. q \in QueryNames
  BY ActiveNames DEF QueryInv
<1>4. \A u \in QueryTargets : running'[u] = IF u = t /\ q \in queries THEN NoQuery
                                                                      ELSE running[u]
  BY <1>1 DEF QueryInv, QueryTypeOK
<1>5. QueryTypeOK'
  <2>1. running' \in [QueryTargets -> queries \cup {NoQuery, Orphan}]
    BY <1>1 DEF QueryInv, QueryTypeOK
  <2>2. results' \subseteq queries /\ queryActive' \subseteq queries
    BY <1>1 DEF QueryInv, QueryTypeOK
  <2>3. \A u \in QueryTargets : activeQueries'[u] \in queryActive' \cup {NoQuery}
    BY <1>1 DEF QueryInv, QueryTypeOK
  <2> QED
    BY <1>1, <1>2, <2>1, <2>2, <2>3 DEF QueryInv, QueryTypeOK
<1>6. ActiveMarked'
  <2>1. \A u \in QueryTargets \ {t} : q \notin ActiveOn(u)
    BY DEF QueryInv, OnePlace
  <2> QED
    BY <1>1, <2>1 DEF QueryInv, ActiveMarked
<1>7. RunningActive'
  <2>1. NoQuery \notin queries
    BY DEF QueryInv, QueryTypeOK
  <2> QED
    BY <1>1, <1>4, <2>1 DEF QueryInv, RunningActive
<1>8. NumbersDistinct'
  BY <1>1 DEF QueryInv, NumbersDistinct
<1>9. ASSUME NEW u \in orderly'
      PROVE  /\ ActiveOn(u)' \subseteq queries'
             /\ \A p, r \in ActiveOn(u)' : p = r
             /\ {running'[u]} \ {NoQuery} = ActiveOn(u)' \ misused'
  <2>1. u \in QueryTargets
    BY <1>1, <1>9, Watched
  <2>2. CASE ActiveOn(u)' = {} /\ running'[u] = NoQuery
    BY <2>2
  <2>3. CASE u \in orderly /\ u # t
    <3>1. ActiveOn(u)' = ActiveOn(u) /\ running'[u] = running[u]
      BY <1>4, <2>1, <2>3
    <3> QED
      BY <1>1, <2>3, <3>1 DEF QueryInv, OrderlyAlone, QueryRunsWhereActive
  <2>4. CASE u = t /\ t \in orderly
    <3>1. q \in queries /\ ActiveOn(t) = {q}
      BY <2>4 DEF QueryInv, OrderlyAlone
    <3> QED
      BY <1>4, <2>4, <3>1
  <2> QED
    BY <1>1, <1>9, <2>1, <2>2, <2>3, <2>4, Watched
<1>10. OrderlyAlone' /\ QueryRunsWhereActive'
  BY <1>9 DEF OrderlyAlone, QueryRunsWhereActive
<1> QED
  BY <1>5, <1>6, <1>7, <1>8, <1>10 DEF QueryInv

LEMMA SameActive ==
  ASSUME UNCHANGED <<activeQueries, activeIndexed>>
  PROVE  /\ \A t : ActiveOn(t)' = ActiveOn(t)
         /\ OnePlace => OnePlace'
  BY DEF ActiveOn, ActiveIn, OnePlace

LEMMA GenKeeps ==
  ASSUME QueryInv, NEW q \in QueryNames, NEW target \in QueryTargets \cup {NoTarget},
         NEW n \in QueryNames, GenQuery(q, target, n)
  PROVE  QueryInv'
<1> USE NoQueryIsNoName
<1>1. /\ q \notin queries
      /\ \A t \in CounterTargets : q \notin ActiveOn(t)
      /\ \A p \in queries : nativeQuery[p] # n
      /\ queries' = queries \cup {q}
      /\ queryTarget' = [queryTarget EXCEPT ![q] = target]
      /\ nativeQuery' = [nativeQuery EXCEPT ![q] = n]
      /\ UNCHANGED <<queryActive, activeQueries, activeIndexed, running, nativeTarget,
                     results, region, nativeRegion, orderly, misused>>
  BY DEF GenQuery, queryDriver, queryRegions, queryHistory
<1>2. \A t : ActiveOn(t)' = ActiveOn(t)
  BY <1>1, SameActive
<1>3. \A t \in QueryTargets : q \notin ActiveOn(t)
  <2>1. ASSUME NEW t \in QueryTargets, t \notin CounterTargets
        PROVE  q \notin ActiveOn(t)
    <3>1. activeQueries[t] # q
      BY <1>1 DEF QueryInv, QueryTypeOK
    <3> QED
      BY <2>1, <3>1, ActiveMember DEF ActiveOn
  <2> QED
    BY <1>1, <2>1
<1>4. QueryTypeOK'
  BY <1>1 DEF QueryInv, QueryTypeOK
<1>5. ActiveMarked'
  BY <1>1, <1>2, <1>3 DEF QueryInv, ActiveMarked
<1>6. OnePlace'
  BY <1>1, SameActive DEF QueryInv
<1>7. RunningActive'
  <2>1. \A t \in QueryTargets : running[t] # q
    BY <1>1 DEF QueryInv, QueryTypeOK
  <2> QED
    BY <1>1, <1>2, <2>1 DEF QueryInv, RunningActive
<1>8. OrderlyAlone' /\ QueryRunsWhereActive'
  BY <1>1, <1>2 DEF QueryInv, OrderlyAlone, QueryRunsWhereActive
<1>9. NumbersDistinct'
  BY <1>1 DEF QueryInv, QueryTypeOK, NumbersDistinct
<1> QED
  BY <1>4, <1>5, <1>6, <1>7, <1>8, <1>9 DEF QueryInv

LEMMA DeleteKeeps ==
  ASSUME QueryInv, NEW q \in QueryNames, DeleteQuery(q)
  PROVE  QueryInv'
<1> USE NoQueryIsNoName
<1>1. /\ q \in queries
      /\ queries' = queries \ {q}
      /\ queryActive' = queryActive \ {q}
      /\ activeQueries' = [t \in QueryTargets |->
                             IF q \in queryActive /\ activeQueries[t] = q
                               THEN NoQuery ELSE activeQueries[t]]
      /\ queryTarget' = [queryTarget EXCEPT ![q] = NoTarget]
      /\ nativeTarget' = [nativeTarget EXCEPT ![q] = NoTarget]
      /\ nativeQuery' = [nativeQuery EXCEPT ![q] = 0]
      /\ running' = [t \in QueryTargets |-> Orphaned(running[t], q)]
      /\ nativeRegion' = Orphaned(nativeRegion, q)
      /\ results' = results \ {q} /\ misused' = misused \ {q}
      /\ UNCHANGED <<activeIndexed, region>>
      /\ Watch({t \in QueryTargets : q \in ActiveOn(t)})
  BY DEF DeleteQuery
<1>2. \A t \in QueryTargets :
        activeQueries'[t] = IF activeQueries[t] = q THEN NoQuery ELSE activeQueries[t]
  BY <1>1 DEF QueryInv, QueryTypeOK
<1>3. ASSUME NEW t \in QueryTargets, NEW p
      PROVE  /\ p \in ActiveOn(t)' => p \in ActiveOn(t)
             /\ p \in ActiveOn(t) /\ p # q => p \in ActiveOn(t)'
  <2>1. p \in ActiveOn(t)' <=>
          /\ p # NoQuery
          /\ activeQueries'[t] = p
             \/ (t \in CounterTargets /\ \E i \in Indices : activeIndexed'[t][i] = p)
    BY DEF ActiveOn, ActiveIn
  <2>2. p \in ActiveOn(t) <=>
          /\ p # NoQuery
          /\ activeQueries[t] = p
             \/ (t \in CounterTargets /\ \E i \in Indices : activeIndexed[t][i] = p)
    BY ActiveMember DEF ActiveOn
  <2> QED
    BY <1>1, <1>2, <2>1, <2>2
<1>4. QueryTypeOK'
  <2>1. orderly' \subseteq QueryTargets
    BY <1>1 DEF Watch
  <2>2. /\ queryTarget' \in [QueryNames -> QueryTargets \cup {Timestamp, NoTarget}]
        /\ nativeTarget' \in [QueryNames -> QueryTargets \cup {Timestamp, NoTarget}]
    BY <1>1 DEF QueryInv, QueryTypeOK
  <2>3. nativeQuery' \in [QueryNames -> {0} \cup QueryNames]
    BY <1>1 DEF QueryInv, QueryTypeOK
  <2>4. activeQueries' \in [QueryTargets -> QueryRefs]
    BY <1>1 DEF QueryInv, QueryTypeOK, QueryRefs
  <2>5. \A t \in QueryTargets : activeQueries'[t] \in queryActive' \cup {NoQuery}
    BY <1>1, <1>2 DEF QueryInv, QueryTypeOK
  <2>6. running' \in [QueryTargets -> queries' \cup {NoQuery, Orphan}]
    <3>1. \A t \in QueryTargets : running[t] \in queries \cup {NoQuery, Orphan}
      BY DEF QueryInv, QueryTypeOK
    <3>2. \A t \in QueryTargets : Orphaned(running[t], q) \in queries' \cup {NoQuery, Orphan}
      BY <1>1, <3>1 DEF Orphaned
    <3> QED
      BY <1>1, <3>2
  <2>7. nativeRegion' \in queries' \cup {NoQuery, Orphan}
    BY <1>1 DEF QueryInv, QueryTypeOK, Orphaned
  <2>8. /\ queries' \subseteq QueryNames /\ queryActive' \subseteq queries'
        /\ results' \subseteq queries' /\ misused' \subseteq queries'
    BY <1>1 DEF QueryInv, QueryTypeOK
  <2> QED
    BY <1>1, <2>1, <2>2, <2>3, <2>4, <2>5, <2>6, <2>7, <2>8 DEF QueryInv, QueryTypeOK
<1>5. ActiveMarked'
  BY <1>1, <1>3 DEF QueryInv, ActiveMarked
<1>6. OnePlace'
  <2>1. \A u, v \in QueryTargets : ActiveOn(u)' \cap ActiveOn(v)' # {} => u = v
    BY <1>3 DEF QueryInv, OnePlace
  <2>2. CounterTargets \subseteq QueryTargets
    BY DEF QueryTargets
  <2> QED
    BY <1>1, <1>2, <2>1, <2>2 DEF QueryInv, OnePlace
<1>7. \A t \in QueryTargets : running'[t] = IF running[t] = q THEN Orphan ELSE running[t]
  BY <1>1 DEF Orphaned
<1>8. RunningActive'
  <2>1. Orphan \notin queries
    BY DEF QueryInv, QueryTypeOK
  <2> QED
    BY <1>1, <1>3, <1>7, <2>1 DEF QueryInv, RunningActive
<1>9. NumbersDistinct'
  BY <1>1 DEF QueryInv, QueryTypeOK, NumbersDistinct
<1>10. ASSUME NEW u \in orderly'
       PROVE  /\ ActiveOn(u)' \subseteq queries'
              /\ \A p, r \in ActiveOn(u)' : p = r
              /\ {running'[u]} \ {NoQuery} = ActiveOn(u)' \ misused'
  <2>1. u \in QueryTargets
    BY <1>1, <1>10, Watched
  <2>2. CASE ActiveOn(u)' = {} /\ running'[u] = NoQuery
    BY <2>2
  <2>3. CASE u \in orderly /\ q \notin ActiveOn(u)
    <3>1. ActiveOn(u)' = ActiveOn(u)
      BY <1>3, <2>1, <2>3
    <3>2. running'[u] = running[u]
      BY <1>1, <1>7, <2>1, <2>3 DEF QueryInv, RunningActive
    <3>3. ActiveOn(u) \ misused' = ActiveOn(u) \ misused
      BY <1>1, <2>3
    <3> QED
      BY <1>1, <2>3, <3>1, <3>2, <3>3 DEF QueryInv, OrderlyAlone, QueryRunsWhereActive
  <2> QED
    BY <1>1, <1>10, <2>1, <2>2, <2>3, Watched
<1>11. OrderlyAlone' /\ QueryRunsWhereActive'
  BY <1>10 DEF OrderlyAlone, QueryRunsWhereActive
<1> QED
  BY <1>4, <1>5, <1>6, <1>8, <1>9, <1>11 DEF QueryInv

LEMMA CounterKeeps ==
  ASSUME QueryInv, NEW q \in QueryNames, QueryCounter(q)
  PROVE  QueryInv'
<1> USE NoQueryIsNoName
<1>1. /\ q \in queries \ queryActive
      /\ queryTarget' = [queryTarget EXCEPT ![q] = Timestamp]
      /\ nativeTarget' \in {nativeTarget, [nativeTarget EXCEPT ![q] = Timestamp]}
      /\ results' \in {results, results \cup {q}}
      /\ misused' \in {misused \ {q}, misused \cup {q}}
      /\ UNCHANGED <<queryActive, activeQueries, activeIndexed, running, queries,
                     nativeQuery, region, nativeRegion, orderly>>
  BY DEF QueryCounter, queryNames, queryRegions
<1>2. \A t : ActiveOn(t)' = ActiveOn(t)
  BY <1>1, SameActive
<1>3. QueryTypeOK'
  <2>1. nativeTarget' \in [QueryNames -> QueryTargets \cup {Timestamp, NoTarget}]
    BY <1>1 DEF QueryInv, QueryTypeOK
  <2>2. results' \subseteq queries /\ misused' \subseteq queries
    BY <1>1 DEF QueryInv, QueryTypeOK
  <2> QED
    BY <1>1, <2>1, <2>2 DEF QueryInv, QueryTypeOK
<1>4. /\ ActiveMarked' /\ RunningActive' /\ OrderlyAlone' /\ NumbersDistinct'
  BY <1>1, <1>2 DEF QueryInv, ActiveMarked, RunningActive, OrderlyAlone, NumbersDistinct
<1>5. OnePlace'
  BY <1>1, SameActive DEF QueryInv
<1>6. QueryRunsWhereActive'
  <2>1. \A t \in orderly : q \notin ActiveOn(t)
    BY <1>1, FreshQuery DEF QueryInv, QueryTypeOK
  <2>2. \A t \in orderly : ActiveOn(t) \ misused' = ActiveOn(t) \ misused
    BY <1>1, <2>1
  <2> QED
    BY <1>1, <1>2, <2>2 DEF QueryInv, QueryRunsWhereActive
<1> QED
  BY <1>3, <1>4, <1>5, <1>6 DEF QueryInv

\* Where the query of a new region has its name for a number, it is the only
\* query of that number, and the driver has ended it.
LEMMA RegionOfQuery ==
  ASSUME QueryInv, NEW q \in queries \ queryActive, nativeQuery[q] = q,
         nativeTarget[q] \in Occlusion
  PROVE  DriverRegion(q) = {q}
  BY FreshQuery DEF DriverRegion, QueryInv, NumbersDistinct

LEMMA RegionKeeps ==
  ASSUME QueryInv, NEW q \in QueryNames, BeginConditionalRender(q)
  PROVE  QueryInv'
<1>1. /\ region' = q
      /\ nativeRegion' = IF DriverRegion(q) = {} THEN NoQuery
                                                 ELSE CHOOSE p \in DriverRegion(q) : TRUE
      /\ UNCHANGED <<queryTarget, queryActive, activeQueries, activeIndexed, running,
                     nativeTarget, results, queries, nativeQuery, orderly, misused>>
  BY DEF BeginConditionalRender, EnterRegion, queryFrontend, queryDriver, queryNames,
         queryHistory
<1>2. nativeRegion' \in queries \cup {NoQuery}
  <2>1. DriverRegion(q) \subseteq queries
    BY DEF DriverRegion
  <2> QED
    BY <1>1, <2>1
<1>3. QueryTypeOK'
  BY <1>1, <1>2 DEF QueryInv, QueryTypeOK, QueryRefs
<1>4. \A t : ActiveOn(t)' = ActiveOn(t)
  BY <1>1, SameActive
<1>5. /\ ActiveMarked' /\ RunningActive' /\ OrderlyAlone' /\ NumbersDistinct'
      /\ QueryRunsWhereActive'
  BY <1>1, <1>4 DEF QueryInv, ActiveMarked, RunningActive, OrderlyAlone, NumbersDistinct,
                    QueryRunsWhereActive
<1> QED
  BY <1>1, <1>3, <1>5, SameActive DEF QueryInv

LEMMA RegionEndKeeps ==
  ASSUME QueryInv,
         EndConditionalRender \/ UNCHANGED queryVars
  PROVE  QueryInv'
<1>1. /\ region' \in {region, NoQuery} /\ nativeRegion' \in {nativeRegion, NoQuery}
      /\ UNCHANGED <<queryTarget, queryActive, activeQueries, activeIndexed, running,
                     nativeTarget, results, queries, nativeQuery, orderly, misused>>
  BY DEF EndConditionalRender, queryVars, queryFrontend, queryDriver, queryNames,
         queryHistory, queryRegions
<1>2. QueryTypeOK'
  BY <1>1 DEF QueryInv, QueryTypeOK, QueryRefs
<1>3. \A t : ActiveOn(t)' = ActiveOn(t)
  BY <1>1, SameActive
<1>4. /\ ActiveMarked' /\ RunningActive' /\ OrderlyAlone' /\ NumbersDistinct'
      /\ QueryRunsWhereActive'
  BY <1>1, <1>3 DEF QueryInv, ActiveMarked, RunningActive, OrderlyAlone, NumbersDistinct,
                    QueryRunsWhereActive
<1> QED
  BY <1>1, <1>2, <1>4, SameActive DEF QueryInv

LEMMA StepQuery == QueryInv /\ [QueryNext]_queryVars => QueryInv'
<1> SUFFICES ASSUME QueryInv, [QueryNext]_queryVars
             PROVE  QueryInv'
  OBVIOUS
<1> USE NoQueryIsNoName
<1>0. /\ queries \subseteq QueryNames /\ CounterTargets \subseteq QueryTargets
      /\ activeQueries \in [QueryTargets -> QueryRefs]
      /\ activeIndexed \in [CounterTargets -> [Indices -> QueryRefs]]
      /\ QueryNames \subseteq QueryRefs /\ NoQuery \in QueryRefs
  BY DEF QueryInv, QueryTypeOK, QueryTargets, QueryRefs
<1>1. ASSUME NEW t \in QueryTargets, NEW q \in QueryNames, BeginQuery(t, q)
      PROVE  QueryInv'
  <2>1. /\ q \in queries \ queryActive /\ activeQueries[t] = NoQuery
        /\ activeQueries' = [activeQueries EXCEPT ![t] = q]
        /\ UNCHANGED activeIndexed /\ Begin(q, t)
    BY <1>1 DEF BeginQuery
  <2>2. \A u \in QueryTargets : activeQueries'[u] \in {activeQueries[u], q}
    BY <1>0, <2>1
  <2>3. activeQueries' \in [QueryTargets -> QueryRefs]
    BY <1>0, <2>1
  <2> QED
    BY <1>0, <2>1, <2>2, <2>3, EnterPlain, BeginKeeps, FreshQuery
<1>2. ASSUME NEW t \in CounterTargets, NEW i \in Indices, NEW q \in QueryNames,
             BeginQueryIndexed(t, i, q)
      PROVE  QueryInv'
  <2>1. /\ q \in queries \ queryActive /\ activeIndexed[t][i] = NoQuery
        /\ activeIndexed' = [activeIndexed EXCEPT ![t][i] = q]
        /\ UNCHANGED activeQueries /\ Begin(q, t)
    BY <1>2 DEF BeginQueryIndexed
  <2>2. activeIndexed' \in [CounterTargets -> [Indices -> QueryRefs]]
    BY <1>0, <2>1
  <2> QED
    BY <1>0, <2>1, <2>2, EnterIndexed, BeginKeeps, FreshQuery
<1>3. ASSUME NEW t \in QueryTargets, EndQuery(t)
      PROVE  QueryInv'
  <2> DEFINE q == activeQueries[t]
  <2>1. /\ q # NoQuery
        /\ activeQueries' = [activeQueries EXCEPT ![t] = NoQuery]
        /\ UNCHANGED activeIndexed /\ End(q, t)
    BY <1>3 DEF EndQuery
  <2>2. q \in ActiveOn(t)
    BY <2>1, ActiveMember DEF ActiveOn
  <2>3. /\ \A u \in QueryTargets : activeQueries'[u] \in {activeQueries[u], NoQuery}
        /\ activeQueries' \in [QueryTargets -> QueryRefs]
    BY <1>0, <2>1
  <2>4. ASSUME NEW u \in QueryTargets
        PROVE  activeQueries'[u] # q
    <3>1. u # t => activeQueries[u] # q
      <4>1. activeQueries[u] = q => q \in ActiveOn(u)
        BY <2>1, ActiveMember DEF ActiveOn
      <4> QED
        BY <2>2, <4>1 DEF QueryInv, OnePlace
    <3> QED
      BY <1>0, <2>1, <3>1
  <2> QED
    BY <1>0, <2>1, <2>2, <2>3, <2>4, LeavePlain, EndKeeps
<1>4. ASSUME NEW t \in CounterTargets, NEW i \in Indices, EndQueryIndexed(t, i)
      PROVE  QueryInv'
  <2>1. PICK q : /\ q = activeIndexed[t][i] /\ q # NoQuery
                 /\ activeIndexed' = [activeIndexed EXCEPT ![t][i] = NoQuery]
                 /\ UNCHANGED activeQueries /\ End(q, t)
    BY <1>4 DEF EndQueryIndexed
  <2>2. q \in ActiveOn(t) /\ t \in QueryTargets
    BY <1>0, <2>1, ActiveMember DEF ActiveOn
  <2>3. activeIndexed' \in [CounterTargets -> [Indices -> QueryRefs]]
    BY <1>0, <2>1
  <2>4. ASSUME NEW u \in QueryTargets
        PROVE  activeQueries'[u] # q
    <3>1. activeQueries[u] = q => q \in ActiveOn(u)
      BY <2>1, ActiveMember DEF ActiveOn
    <3>2. activeQueries[t] # q
      BY <2>1 DEF QueryInv, OnePlace
    <3> QED
      BY <2>1, <2>2, <3>1, <3>2 DEF QueryInv, OnePlace
  <2>5. \A u \in CounterTargets, j \in Indices :
          activeIndexed'[u][j] = IF u = t /\ j = i THEN NoQuery ELSE activeIndexed[u][j]
    BY <1>0, <2>1
  <2>6. /\ \A u \in QueryTargets \ {t} : ActiveOn(u)' = ActiveOn(u)
        /\ ActiveOn(t)' = ActiveOn(t) \ {q}
        /\ OnePlace'
    BY <2>1, <2>5, LeaveIndexed
  <2>7. /\ \A u \in QueryTargets : activeQueries'[u] \in {activeQueries[u], NoQuery}
        /\ activeQueries' \in [QueryTargets -> QueryRefs]
    BY <1>0, <2>1
  <2> QED
    BY <2>1, <2>2, <2>3, <2>4, <2>6, <2>7, EndKeeps
<1> QED
  BY <1>1, <1>2, <1>3, <1>4, GenKeeps, DeleteKeeps, CounterKeeps, RegionKeeps,
     RegionEndKeeps DEF QueryNext

LEMMA QueryAlways == QuerySpec => []QueryInv
  BY InitQuery, StepQuery, PTL DEF QuerySpec

\* The driver runs exactly the query Context holds active on a target used in
\* order: however targets, indices, deletions and refused calls interleave, no
\* other query counts there and none goes on after its end.
THEOREM QueriesCountWhatIsAsked == QuerySpec => []QueryRunsWhereActive
<1>1. QueryInv => QueryRunsWhereActive
  BY DEF QueryInv
<1> QED
  BY <1>1, QueryAlways, PTL

\* Every step into a region of conditional rendering enters it in the driver,
\* where the name is the number of the query and its target is one the driver
\* takes: the query has ended there, and no other query answers to its number.
THEOREM RegionsReachDriver == QuerySpec => RegionEntered
<1>1. QueryInv /\ [QueryNext]_queryVars =>
        [region = NoQuery /\ region' \in (results \cap QueryNames) \ misused
           /\ nativeQuery[region'] = region' /\ nativeTarget[region'] \in Occlusion
         => nativeRegion' = region']_queryVars
  <2> SUFFICES ASSUME QueryInv, QueryNext, region = NoQuery, region' \in QueryNames,
                      nativeQuery[region'] = region', nativeTarget[region'] \in Occlusion
               PROVE  nativeRegion' = region'
    OBVIOUS
  <2>1. region' # region
    BY NoQueryIsNoName
  <2>2. PICK q \in QueryNames : BeginConditionalRender(q)
    BY <2>1 DEF QueryNext, GenQuery, DeleteQuery, BeginQuery, BeginQueryIndexed, Begin,
       EndQuery, EndQueryIndexed, End, QueryCounter, EndConditionalRender, queryRegions
  <2>3. region' = q /\ q \in queries \ queryActive
    BY <2>2 DEF BeginConditionalRender, EnterRegion
  <2>4. DriverRegion(q) = {q}
    BY <2>3, RegionOfQuery
  <2> QED
    BY <2>2, <2>3, <2>4 DEF BeginConditionalRender, EnterRegion
<1> QED
  BY <1>1, QueryAlways, PTL DEF QuerySpec, RegionEntered
=============================================================================
