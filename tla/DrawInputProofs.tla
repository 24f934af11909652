--------------------------- MODULE DrawInputProofs ---------------------------
(***************************************************************************)
(* What draws read: vertex arrays, buffers at indexed points and the        *)
(* storage of textures, for every number of arrays, attributes, buffers,    *)
(* points, textures and levels.                                             *)
(***************************************************************************)
EXTENDS MCVertexArrays, LoopLemmas, FiniteSetTheorems

-----------------------------------------------------------------------------
(* Vertex arrays. *)

\* What VertexArrayObject::attribs may be: some attributes are recorded.
Recordings == UNION {[S -> Attrib] : S \in SUBSET Attribs}
Arrays     == [attribs : [Attribs -> Pushed], element : Elements]

\* An attribute that is not recorded has never been pushed.
UnrecordedIsDefault ==
  \A v \in VAOs, i \in Attribs :
    i \notin DOMAIN attribs[v] => driver[v].attribs[i] = DefaultPushed

VertexInv ==
  /\ vaos \subseteq VAOs /\ 0 \in vaos /\ bound \in vaos /\ current \in vaos
  /\ attribs \in [VAOs -> Recordings]
  /\ bindings \in [VAOs -> [Points -> Binding]]
  /\ element \in [VAOs -> Elements]
  /\ dirty \in BOOLEAN
  /\ driver \in [VAOs -> Arrays]
  /\ UnrecordedIsDefault

LEMMA VertexByParts ==
  ASSUME vaos' \subseteq VAOs, 0 \in vaos', bound' \in vaos', current' \in vaos',
         attribs' \in [VAOs -> Recordings], bindings' \in [VAOs -> [Points -> Binding]],
         element' \in [VAOs -> Elements], dirty' \in BOOLEAN, driver' \in [VAOs -> Arrays],
         \A v \in VAOs, i \in Attribs :
           i \notin DOMAIN attribs'[v] => driver'[v].attribs[i] = DefaultPushed
  PROVE  VertexInv'
  BY DEF VertexInv, UnrecordedIsDefault

LEMMA VertexTypes == VertexInv => TypeOK
<1> SUFFICES ASSUME VertexInv
             PROVE  TypeOK
  OBVIOUS
<1>1. ASSUME NEW v \in VAOs
      PROVE  DOMAIN attribs[v] \subseteq Attribs /\ Range(attribs[v]) \subseteq Attrib
  <2>1. attribs[v] \in Recordings
    BY DEF VertexInv
  <2>2. PICK S \in SUBSET Attribs : attribs[v] \in [S -> Attrib]
    BY <2>1 DEF Recordings
  <2> QED
    BY <2>2 DEF Range
<1> QED
  BY <1>1 DEF VertexInv, TypeOK, Arrays

LEMMA Defaults ==
  /\ DefaultFormat \in Formats
  /\ DefaultAttrib \in Attrib /\ DefaultBinding \in Binding
  /\ DefaultPushed \in Pushed /\ EmptyVAO \in Arrays /\ NoBuffer \in Elements
  /\ EmptyVAO.attribs = [i \in Attribs |-> DefaultPushed]
<1>1. DefaultFormat \in Formats
  BY FormatsType DEF DefaultFormat
<1>2. DefaultPushed \in Pushed
  BY <1>1, DefaultDivisor DEF DefaultPushed, Pushed
<1>3. NoBuffer \in Elements
  BY DEF Elements
<1> QED
  BY <1>1, <1>2, <1>3, DefaultDivisor, PointsType
     DEF DefaultAttrib, Attrib, DefaultBinding, Binding, EmptyVAO, Arrays

LEMMA NothingRecorded == <<>> \in Recordings
<1>1. <<>> \in [{} -> Attrib]
  <2>1. <<>> \in [1 .. 0 -> Attrib] /\ 1 .. 0 = {}
    OBVIOUS
  <2> QED
    BY <2>1
<1> QED
  BY <1>1 DEF Recordings

LEMMA InitVertex == Init => VertexInv
<1> SUFFICES ASSUME Init
             PROVE  VertexInv
  OBVIOUS
<1>1. attribs \in [VAOs -> Recordings] /\ driver \in [VAOs -> Arrays]
  BY NothingRecorded, Defaults DEF Init
<1>2. bindings \in [VAOs -> [Points -> Binding]] /\ element \in [VAOs -> Elements]
  BY Defaults DEF Init
<1>3. UnrecordedIsDefault
  BY Defaults DEF Init, UnrecordedIsDefault
<1> QED
  BY <1>1, <1>2, <1>3, DefaultVAO DEF Init, VertexInv

\* A recorded attribute is one, and what is asked of any attribute is too.
LEMMA AttribTypes ==
  ASSUME VertexInv, NEW v \in VAOs, NEW i \in Attribs
  PROVE  /\ AttribOf(v, i) \in Attrib
         /\ i \in DOMAIN attribs[v] => attribs[v][i] \in Attrib
         /\ DOMAIN attribs[v] \subseteq Attribs
<1>1. attribs[v] \in Recordings
  BY DEF VertexInv
<1>2. PICK S \in SUBSET Attribs : attribs[v] \in [S -> Attrib]
  BY <1>1 DEF Recordings
<1> QED
  BY <1>2, Defaults DEF AttribOf

LEMMA RecordKeeps ==
  ASSUME VertexInv, NEW v \in VAOs, NEW i \in Attribs, NEW a \in Attrib, Record(v, i, a)
  PROVE  /\ attribs' \in [VAOs -> Recordings]
         /\ \A w \in VAOs, j \in Attribs : j \notin DOMAIN attribs'[w] => j \notin DOMAIN attribs[w]
<1> DEFINE S == DOMAIN attribs[v] \cup {i}
           new == [j \in S |-> IF j = i THEN a ELSE attribs[v][j]]
<1>1. attribs' = [attribs EXCEPT ![v] = new] /\ attribs \in [VAOs -> Recordings]
  BY DEF Record, VertexInv
<1>2. S \in SUBSET Attribs
  BY AttribTypes
<1>3. \A j \in S : (IF j = i THEN a ELSE attribs[v][j]) \in Attrib
  BY <1>2, AttribTypes
<1>4. new \in [S -> Attrib] /\ DOMAIN new = S
  <2> HIDE DEF S
  <2> QED
    BY <1>3
<1>5. new \in Recordings
  <2> HIDE DEF S, new
  <2> QED
    BY <1>2, <1>4 DEF Recordings
<1>6. DOMAIN attribs[v] \subseteq DOMAIN new
  BY <1>4
<1> HIDE DEF new, S
<1> QED
  BY <1>1, <1>5, <1>6

\* An edit of a vertex array, whatever it changes.
LEMMA EditKeeps ==
  ASSUME VertexInv, attribs' \in [VAOs -> Recordings],
         \A w \in VAOs, j \in Attribs : j \notin DOMAIN attribs'[w] => j \notin DOMAIN attribs[w],
         bindings' \in [VAOs -> [Points -> Binding]], element' \in [VAOs -> Elements],
         dirty' \in BOOLEAN, UNCHANGED <<vaos, bound, driver, current>>
  PROVE  VertexInv'
<1>1. \A w \in VAOs, j \in Attribs :
        j \notin DOMAIN attribs'[w] => driver'[w].attribs[j] = DefaultPushed
  BY DEF VertexInv, UnrecordedIsDefault
<1> QED
  BY <1>1, VertexByParts DEF VertexInv

LEMMA BindingTypesKept ==
  ASSUME VertexInv, NEW v \in VAOs, NEW p \in Points
  PROVE  /\ \A s \in Sources \cup {NoSource}, d \in Divisors :
              [bindings EXCEPT ![v][p] = [source |-> s, divisor |-> d]]
                \in [VAOs -> [Points -> Binding]]
         /\ \A s \in Sources \cup {NoSource} :
              [bindings EXCEPT ![v][p].source = s] \in [VAOs -> [Points -> Binding]]
         /\ \A d \in Divisors :
              [bindings EXCEPT ![v][p].divisor = d] \in [VAOs -> [Points -> Binding]]
<1>1. bindings \in [VAOs -> [Points -> Binding]] /\ bindings[v][p] \in Binding
  BY DEF VertexInv
<1>2. \A x \in Binding : [bindings EXCEPT ![v][p] = x] \in [VAOs -> [Points -> Binding]]
  BY <1>1
<1>3. ASSUME NEW s \in Sources \cup {NoSource}, NEW d \in Divisors
      PROVE  [bindings EXCEPT ![v][p] = [source |-> s, divisor |-> d]]
               \in [VAOs -> [Points -> Binding]]
  <2>1. [source |-> s, divisor |-> d] \in Binding
    BY DEF Binding
  <2> QED
    BY <1>2, <2>1
<1>4. ASSUME NEW s \in Sources \cup {NoSource}
      PROVE  [bindings EXCEPT ![v][p].source = s] \in [VAOs -> [Points -> Binding]]
  BY <1>1 DEF Binding
<1>5. ASSUME NEW d \in Divisors
      PROVE  [bindings EXCEPT ![v][p].divisor = d] \in [VAOs -> [Points -> Binding]]
  BY <1>1 DEF Binding
<1> QED
  BY <1>3, <1>4, <1>5

-----------------------------------------------------------------------------
(* The steps. *)

\* The life of vertex arrays.
LEMMA LifeKeeps ==
  ASSUME VertexInv, NEW v \in VAOs,
         GenVertexArray(v) \/ BindVertexArray(v) \/ DeleteVertexArray(v)
  PROVE  VertexInv'
<1>1. CASE GenVertexArray(v)
  <2>1. \A w \in VAOs, j \in Attribs :
          j \notin DOMAIN attribs'[w] => driver'[w].attribs[j] = DefaultPushed
    BY <1>1 DEF GenVertexArray, VertexInv, UnrecordedIsDefault
  <2> QED
    BY <1>1, <2>1, VertexByParts DEF GenVertexArray, VertexInv
<1>2. CASE BindVertexArray(v)
  <2>1. \A w \in VAOs, j \in Attribs :
          j \notin DOMAIN attribs'[w] => driver'[w].attribs[j] = DefaultPushed
    BY <1>2 DEF BindVertexArray, VertexInv, UnrecordedIsDefault
  <2> QED
    BY <1>2, <2>1, VertexByParts DEF BindVertexArray, VertexInv
<1>3. CASE DeleteVertexArray(v)
  <2>1. /\ attribs' = [attribs EXCEPT ![v] = <<>>] /\ driver' = [driver EXCEPT ![v] = EmptyVAO]
        /\ bindings' = [bindings EXCEPT ![v] = [p \in Points |-> DefaultBinding]]
        /\ element' = [element EXCEPT ![v] = NoBuffer]
        /\ v \in vaos \ {0} /\ vaos' = vaos \ {v} /\ dirty' = dirty
        /\ bound' = IF bound = v THEN 0 ELSE bound
        /\ current' = IF current = v THEN 0 ELSE current
    BY <1>3 DEF DeleteVertexArray, Forget
  <2>2. attribs' \in [VAOs -> Recordings] /\ driver' \in [VAOs -> Arrays]
    BY <2>1, NothingRecorded, Defaults DEF VertexInv
  <2>3. bindings' \in [VAOs -> [Points -> Binding]] /\ element' \in [VAOs -> Elements]
    BY <2>1, Defaults DEF VertexInv
  <2>4. ASSUME NEW w \in VAOs, NEW j \in Attribs, j \notin DOMAIN attribs'[w]
        PROVE  driver'[w].attribs[j] = DefaultPushed
    <3>1. CASE w = v
      BY <2>1, <3>1, Defaults DEF VertexInv
    <3>2. CASE w # v
      <4>1. attribs'[w] = attribs[w] /\ driver'[w] = driver[w]
        BY <2>1, <3>2 DEF VertexInv
      <4> QED
        BY <2>4, <4>1 DEF VertexInv, UnrecordedIsDefault
    <3> QED
      BY <3>1, <3>2
  <2>5. /\ vaos' \subseteq VAOs /\ 0 \in vaos' /\ bound' \in vaos' /\ current' \in vaos'
        /\ dirty' \in BOOLEAN
    BY <2>1 DEF VertexInv
  <2> QED
    BY <2>2, <2>3, <2>4, <2>5, VertexByParts
<1> QED
  BY <1>1, <1>2, <1>3

\* Edits of the attributes alone.
LEMMA AttribStepKeeps ==
  ASSUME VertexInv, NEW v \in VAOs, NEW i \in Attribs, NEW a \in Attrib, Record(v, i, a),
         dirty' \in BOOLEAN, UNCHANGED <<vaos, bound, driver, current, bindings, element>>
  PROVE  VertexInv'
<1>1. bindings' \in [VAOs -> [Points -> Binding]] /\ element' \in [VAOs -> Elements]
  BY DEF VertexInv
<1> QED
  BY <1>1, RecordKeeps, EditKeeps

LEMMA AttribsKeep ==
  ASSUME VertexInv, NEW v \in VAOs, NEW i \in Attribs,
         \/ \E on \in BOOLEAN : EnableAttrib(v, i, on)
         \/ \E f \in Formats : AttribFormat(v, i, f)
         \/ \E p \in Points : AttribBinding(v, i, p)
  PROVE  VertexInv'
<1>0. AttribOf(v, i) \in Attrib
  BY AttribTypes
<1>1. PICK a : /\ \/ \E on \in BOOLEAN : a = [AttribOf(v, i) EXCEPT !.enabled = on]
                  \/ \E f \in Formats : a = [AttribOf(v, i) EXCEPT !.format = f]
                  \/ \E p \in Points : a = [AttribOf(v, i) EXCEPT !.binding = p]
               /\ Record(v, i, a) /\ Edited(v) /\ UNCHANGED <<bindings, element>>
  BY DEF EnableAttrib, AttribFormat, AttribBinding
<1>2. a \in Attrib
  BY <1>0, <1>1 DEF Attrib
<1>3. dirty' \in BOOLEAN /\ UNCHANGED <<vaos, bound, driver, current, bindings, element>>
  BY <1>1 DEF Edited
<1> QED
  BY <1>1, <1>2, <1>3, AttribStepKeeps

LEMMA CurrentValueKeeps ==
  ASSUME VertexInv, NEW i \in Attribs, VertexAttrib(i)
  PROVE  VertexInv'
<1>1. bound \in VAOs /\ dirty' \in BOOLEAN
  BY DEF VertexInv, VertexAttrib
<1>2. AttribOf(bound, i) \in Attrib
  BY <1>1, AttribTypes
<1> QED
  BY <1>1, <1>2, AttribStepKeeps DEF VertexAttrib

LEMMA PointerKeeps ==
  ASSUME VertexInv, NEW i \in Attribs, NEW f \in Formats, NEW s \in Sources \cup {NoSource},
         VertexAttribPointer(i, f, s)
  PROVE  VertexInv'
<1> DEFINE a == AttribOf(bound, i)
           b == [a EXCEPT !.enabled = TRUE, !.format = f, !.binding = i]
<1>1. bound \in VAOs
  BY DEF VertexInv
<1>2. a \in Attrib /\ i \in Points
  BY <1>1, AttribTypes, PointsType
<1>3. /\ Record(bound, i, b)
      /\ bindings' = [bindings EXCEPT ![bound][i] = [source |-> s, divisor |-> a.divisor]]
      /\ dirty' = TRUE /\ UNCHANGED <<vaos, bound, driver, current, element>>
  BY DEF VertexAttribPointer, Edited
<1> HIDE DEF a
<1>4. b \in Attrib /\ a.divisor \in Divisors
  BY <1>2 DEF Attrib
<1>5. bindings' \in [VAOs -> [Points -> Binding]]
  BY <1>1, <1>2, <1>3, <1>4, BindingTypesKept
<1>6. element' \in [VAOs -> Elements] /\ dirty' \in BOOLEAN
  BY <1>3 DEF VertexInv
<1> HIDE DEF b
<1> QED
  BY <1>1, <1>3, <1>4, <1>5, <1>6, RecordKeeps, EditKeeps

LEMMA DivisorKeeps ==
  ASSUME VertexInv, NEW i \in Attribs, NEW d \in Divisors, VertexAttribDivisor(i, d)
  PROVE  VertexInv'
<1> DEFINE a == AttribOf(bound, i)
           b == [a EXCEPT !.divisor = d]
<1>1. bound \in VAOs
  BY DEF VertexInv
<1>2. a \in Attrib
  BY <1>1, AttribTypes
<1>3. /\ Record(bound, i, b)
      /\ bindings' = [bindings EXCEPT ![bound][a.binding].divisor = d]
      /\ dirty' = TRUE /\ UNCHANGED <<vaos, bound, driver, current, element>>
  BY DEF VertexAttribDivisor, Edited
<1> HIDE DEF a
<1>4. b \in Attrib /\ a.binding \in Points
  BY <1>2 DEF Attrib
<1>5. bindings' \in [VAOs -> [Points -> Binding]]
  BY <1>1, <1>3, <1>4, BindingTypesKept
<1>6. element' \in [VAOs -> Elements] /\ dirty' \in BOOLEAN
  BY <1>3 DEF VertexInv
<1> HIDE DEF b
<1> QED
  BY <1>1, <1>3, <1>4, <1>5, <1>6, RecordKeeps, EditKeeps

\* Edits of binding points and of the element buffer.
LEMMA PointsKeep ==
  ASSUME VertexInv, NEW v \in VAOs,
         \/ \E b \in Points, s \in Sources \cup {NoSource} : VertexBuffer(v, b, s)
         \/ \E b \in Points, d \in Divisors : BindingDivisor(v, b, d)
         \/ \E e \in Elements : ElementBuffer(v, e)
  PROVE  VertexInv'
<1>1. /\ bindings' \in [VAOs -> [Points -> Binding]] /\ element' \in [VAOs -> Elements]
      /\ attribs' = attribs /\ Edited(v)
  <2>1. CASE \E b \in Points, s \in Sources \cup {NoSource} : VertexBuffer(v, b, s)
    <3>1. PICK b \in Points, s \in Sources \cup {NoSource} : VertexBuffer(v, b, s)
      BY <2>1
    <3>2. [bindings EXCEPT ![v][b].source = s] \in [VAOs -> [Points -> Binding]]
      BY BindingTypesKept
    <3> QED
      BY <3>1, <3>2 DEF VertexBuffer, VertexInv
  <2>2. CASE \E b \in Points, d \in Divisors : BindingDivisor(v, b, d)
    BY <2>2, BindingTypesKept DEF BindingDivisor, VertexInv
  <2>3. CASE \E e \in Elements : ElementBuffer(v, e)
    BY <2>3 DEF ElementBuffer, VertexInv
  <2> QED
    BY <2>1, <2>2, <2>3
<1>2. attribs' \in [VAOs -> Recordings] /\ dirty' \in BOOLEAN
      /\ UNCHANGED <<vaos, bound, driver, current>>
  BY <1>1 DEF Edited, VertexInv
<1> QED
  BY <1>1, <1>2, EditKeeps

LEMMA UploadKeeps ==
  ASSUME VertexInv, NEW e \in Buffers, UploadElements(e)
  PROVE  VertexInv'
<1>1. /\ driver' = [driver EXCEPT ![current].element = e]
      /\ UNCHANGED <<vaos, attribs, bindings, element, bound, dirty, current>>
  BY DEF UploadElements, frontend
<1>2. e \in Elements /\ current \in VAOs /\ driver \in [VAOs -> Arrays]
  BY DEF Elements, VertexInv
<1>3. driver' \in [VAOs -> Arrays] /\ \A v \in VAOs : driver'[v].attribs = driver[v].attribs
  BY <1>1, <1>2 DEF Arrays
<1>4. \A w \in VAOs, j \in Attribs :
        j \notin DOMAIN attribs'[w] => driver'[w].attribs[j] = DefaultPushed
  BY <1>1, <1>3 DEF VertexInv, UnrecordedIsDefault
<1> QED
  BY <1>1, <1>3, <1>4, VertexByParts DEF VertexInv

\* What a flush pushes.
LEMMA PushTypes ==
  ASSUME VertexInv, NEW v \in VAOs, NEW i \in Attribs, NEW old \in Pushed,
         i \in DOMAIN attribs[v]
  PROVE  Push(v, i, old) \in Pushed
<1>1. attribs[v][i] \in Attrib
  BY AttribTypes
<1>2. bindings[v][attribs[v][i].binding] \in Binding
  BY <1>1 DEF VertexInv, Attrib
<1> QED
  BY <1>1, <1>2 DEF Push, Attrib, Binding, Pushed

LEMMA FlushedArray ==
  ASSUME VertexInv, NEW v \in VAOs
  PROVE  /\ FlushVertexArray(v) \in Arrays
         /\ \A i \in Attribs :
              FlushVertexArray(v).attribs[i] = IF i \in DOMAIN attribs[v]
                                                 THEN Push(v, i, driver[v].attribs[i])
                                                 ELSE driver[v].attribs[i]
         /\ FlushVertexArray(v).element = IF element[v] # NoBuffer THEN element[v]
                                                                 ELSE driver[v].element
<1>1. driver[v] \in Arrays /\ element[v] \in Elements
  BY DEF VertexInv
<1>2. \A i \in Attribs : driver[v].attribs[i] \in Pushed
  BY <1>1 DEF Arrays
<1>3. \A i \in Attribs : (IF i \in DOMAIN attribs[v] THEN Push(v, i, driver[v].attribs[i])
                                                    ELSE driver[v].attribs[i]) \in Pushed
  BY <1>2, PushTypes
<1> QED
  BY <1>1, <1>3 DEF FlushVertexArray, Arrays

LEMMA FlushArraysKeeps ==
  ASSUME VertexInv, FlushState
  PROVE  VertexInv'
<1>1. bound \in VAOs /\ bound \in vaos /\ current \in vaos /\ driver \in [VAOs -> Arrays]
      /\ UNCHANGED <<vaos, attribs, bindings, element, bound>> /\ dirty' = FALSE
  BY DEF VertexInv, FlushState
<1>2. CASE dirty
  <2> DEFINE new == FlushVertexArray(bound)
  <2>1. current' = bound /\ driver' = [driver EXCEPT ![bound] = new]
    BY <1>2 DEF FlushState
  <2>2. /\ new \in Arrays
        /\ \A i \in Attribs : i \notin DOMAIN attribs[bound] =>
             new.attribs[i] = driver[bound].attribs[i]
    BY <1>1, FlushedArray
  <2> HIDE DEF new
  <2>3. \A w \in VAOs, j \in Attribs :
          j \notin DOMAIN attribs'[w] => driver'[w].attribs[j] = DefaultPushed
    BY <1>1, <2>1, <2>2 DEF VertexInv, UnrecordedIsDefault
  <2>4. driver' \in [VAOs -> Arrays]
    BY <1>1, <2>1, <2>2
  <2> QED
    BY <1>1, <2>1, <2>3, <2>4, VertexByParts DEF VertexInv
<1>3. CASE ~dirty
  <2>1. UNCHANGED <<driver, current>>
    BY <1>3 DEF FlushState
  <2>2. \A w \in VAOs, j \in Attribs :
          j \notin DOMAIN attribs'[w] => driver'[w].attribs[j] = DefaultPushed
    BY <1>1, <2>1 DEF VertexInv, UnrecordedIsDefault
  <2> QED
    BY <1>1, <2>1, <2>2, VertexByParts DEF VertexInv
<1> QED
  BY <1>2, <1>3

LEMMA StepVertex == VertexInv /\ [Next]_vars => VertexInv'
<1> SUFFICES ASSUME VertexInv, [Next]_vars
             PROVE  VertexInv'
  OBVIOUS
<1>1. CASE UNCHANGED vars
  <2>1. UNCHANGED <<vaos, attribs, bindings, element, bound, dirty, driver, current>>
    BY <1>1 DEF vars, frontend
  <2>2. \A w \in VAOs, j \in Attribs :
          j \notin DOMAIN attribs'[w] => driver'[w].attribs[j] = DefaultPushed
    BY <2>1 DEF VertexInv, UnrecordedIsDefault
  <2> QED
    BY <2>1, <2>2, VertexByParts DEF VertexInv
<1>2. CASE Next
  BY <1>2, LifeKeeps, AttribsKeep, CurrentValueKeeps, PointerKeeps, DivisorKeeps, PointsKeep,
     UploadKeeps, FlushArraysKeeps DEF Next
<1> QED
  BY <1>1, <1>2

LEMMA VertexAlways == Spec => []VertexInv
  BY InitVertex, StepVertex, PTL DEF Spec

\* A flush that pushes leaves the driver with the bound vertex array, for any
\* number of vertex arrays, attributes and binding points.
THEOREM PushesAreExact == Spec => PushedDrawExact
<1>1. ASSUME VertexInv, FlushState, dirty
      PROVE  (SameArrays /\ SameElements)'
  <2> DEFINE new == FlushVertexArray(bound)
  <2>1. bound \in VAOs /\ driver \in [VAOs -> Arrays]
    BY <1>1 DEF VertexInv
  <2>2. /\ current' = bound /\ driver' = [driver EXCEPT ![bound] = new]
        /\ UNCHANGED <<attribs, bindings, element, bound>>
    BY <1>1 DEF FlushState
  <2>3. driver'[current'] = new
    BY <2>1, <2>2
  <2>4. ASSUME NEW i \in Attribs
        PROVE  SameAttrib(new.attribs[i], Resolved(i))
    <3>1. CASE i \in DOMAIN attribs[bound]
      <4>1. new.attribs[i] = Push(bound, i, driver[bound].attribs[i])
        BY <1>1, <2>1, <3>1, FlushedArray
      <4> QED
        BY <3>1, <4>1 DEF SameAttrib, Resolved, AttribOf, Push
    <3>2. CASE i \notin DOMAIN attribs[bound]
      <4>1. new.attribs[i] = DefaultPushed
        BY <1>1, <2>1, <3>2, FlushedArray DEF VertexInv, UnrecordedIsDefault
      <4> QED
        BY <3>2, <4>1 DEF SameAttrib, Resolved
    <3> QED
      BY <3>1, <3>2
  <2>5. element[bound] # NoBuffer => new.element = element[bound]
    BY <1>1, <2>1, FlushedArray
  <2> HIDE DEF new
  <2>6. \A i \in Attribs : SameAttrib(driver'[current'].attribs[i], Resolved(i)')
    BY <2>2, <2>3, <2>4 DEF Resolved, AttribOf
  <2> QED
    BY <2>2, <2>3, <2>5, <2>6 DEF SameArrays, SameElements, SameAttrib, Resolved, AttribOf
<1>2. VertexInv /\ [Next]_vars => [FlushState /\ dirty => (SameArrays /\ SameElements)']_vars
  BY <1>1
<1> QED
  BY <1>2, VertexAlways, PTL DEF Spec, PushedDrawExact

-----------------------------------------------------------------------------
(* Indexed binding points. *)

\* A buffer there is, or none; and a buffer whose number is its name.
Valid(numbers, x) == x = 0 \/ (x \in BufferNames /\ numbers[x] # 0)
Own(numbers, x)   == x \in BufferNames /\ numbers[x] = x

\* Names are given out in order, and numbers to one buffer at a time.
NamesAndNumbers ==
  /\ bufferNumber \in [BufferNames -> Numbers \cup {0}]
  /\ nextBufferName \in 1 .. LastName + 1
  /\ numbersInUse \subseteq Numbers \cup BufferNames
  /\ \A b \in BufferNames : bufferNumber[b] # 0 =>
       b < nextBufferName /\ bufferNumber[b] \in numbersInUse
  /\ \A b, c \in BufferNames : bufferNumber[b] # 0 /\ bufferNumber[b] = bufferNumber[c] => b = c

\* Slots keep the names of deleted buffers, and never have one not given out yet.
SlotsAndPoints ==
  /\ genericBound \in [IndexedTargets -> BufferRefs]
  /\ \A t \in IndexedTargets : Valid(bufferNumber, genericBound[t])
  /\ feedbackObjects \subseteq FeedbackObjects
  /\ boundFeedback \in feedbackObjects \cup {DefaultFeedback}
  /\ feedbackSlots \in [FeedbackRefs -> [BufferPoints -> BufferRefs]]
  /\ \A f \in FeedbackRefs, i \in BufferPoints : feedbackSlots[f][i] < nextBufferName
  /\ nativePoints \in [IndexedTargets -> [BufferPoints -> numbersInUse \cup {0}]]
  /\ uniformPoints \in [BufferPoints -> BufferRefs]
  /\ \A i \in BufferPoints : Valid(bufferNumber, uniformPoints[i])
  /\ pushedFor \in [BufferPoints -> FeedbackRefs \cup {NoFeedback}]

\* What was last sent for a point is there, for every feedback object and not only
\* for the one that is bound.
PointsExact ==
  \A i \in BufferPoints :
    /\ Own(bufferNumber, uniformPoints[i]) => nativePoints["uniform"][i] = uniformPoints[i]
    /\ \A f \in FeedbackRefs :
         pushedFor[i] = f /\ Own(bufferNumber, feedbackSlots[f][i])
           => nativePoints["feedback"][i] = feedbackSlots[f][i]

IndexedInv == NamesAndNumbers /\ SlotsAndPoints /\ PointsExact

LEMMA IndexedByParts ==
  ASSUME bufferNumber' \in [BufferNames -> Numbers \cup {0}],
         nextBufferName' \in 1 .. LastName + 1,
         numbersInUse' \subseteq Numbers \cup BufferNames,
         \A b \in BufferNames : bufferNumber'[b] # 0 =>
           b < nextBufferName' /\ bufferNumber'[b] \in numbersInUse',
         \A b, c \in BufferNames :
           bufferNumber'[b] # 0 /\ bufferNumber'[b] = bufferNumber'[c] => b = c,
         genericBound' \in [IndexedTargets -> BufferRefs],
         \A t \in IndexedTargets : Valid(bufferNumber', genericBound'[t]),
         feedbackObjects' \subseteq FeedbackObjects,
         boundFeedback' \in feedbackObjects' \cup {DefaultFeedback},
         feedbackSlots' \in [FeedbackRefs -> [BufferPoints -> BufferRefs]],
         \A f \in FeedbackRefs, i \in BufferPoints : feedbackSlots'[f][i] < nextBufferName',
         nativePoints' \in [IndexedTargets -> [BufferPoints -> numbersInUse' \cup {0}]],
         uniformPoints' \in [BufferPoints -> BufferRefs],
         \A i \in BufferPoints : Valid(bufferNumber', uniformPoints'[i]),
         pushedFor' \in [BufferPoints -> FeedbackRefs \cup {NoFeedback}],
         \A i \in BufferPoints :
           Own(bufferNumber', uniformPoints'[i]) =>
             nativePoints'["uniform"][i] = uniformPoints'[i],
         \A i \in BufferPoints, f \in FeedbackRefs :
           pushedFor'[i] = f /\ Own(bufferNumber', feedbackSlots'[f][i])
             => nativePoints'["feedback"][i] = feedbackSlots'[f][i]
  PROVE  IndexedInv'
<1>1. NamesAndNumbers'
  BY DEF NamesAndNumbers
<1>2. SlotsAndPoints'
  BY DEF SlotsAndPoints, Valid
<1>3. PointsExact'
  BY DEF PointsExact, Own
<1> QED
  BY <1>1, <1>2, <1>3 DEF IndexedInv

LEMMA IndexFacts ==
  /\ LastName \in Nat /\ LastNumber \in Nat /\ PointCount \in Nat
  /\ BufferNames \subseteq Nat \ {0} /\ Numbers \subseteq Nat \ {0} /\ BufferPoints \subseteq Nat
  /\ BufferRefs \subseteq Nat /\ {"uniform", "feedback"} = IndexedTargets
  BY IndexedBounds DEF BufferNames, Numbers, BufferPoints, BufferRefs, IndexedTargets

LEMMA InitIndexed == IndexedInit => IndexedInv
<1> SUFFICES ASSUME IndexedInit
             PROVE  IndexedInv
  OBVIOUS
<1>1. NamesAndNumbers
  BY IndexFacts DEF IndexedInit, NamesAndNumbers
<1>2. SlotsAndPoints
  BY IndexFacts DEF IndexedInit, SlotsAndPoints, Valid, BufferRefs, FeedbackRefs
<1>3. PointsExact
  BY IndexFacts DEF IndexedInit, PointsExact, Own
<1> QED
  BY <1>1, <1>2, <1>3 DEF IndexedInv

LEMMA IndexedTypes == IndexedInv => IndexedTypeOK
<1> SUFFICES ASSUME IndexedInv
             PROVE  IndexedTypeOK
  OBVIOUS
<1>1. \A x : Valid(bufferNumber, x) => x \in LiveBuffers \cup {0}
  BY DEF Valid, LiveBuffers
<1>2. genericBound \in [IndexedTargets -> LiveBuffers \cup {0}]
  BY <1>1 DEF IndexedInv, SlotsAndPoints
<1>3. uniformPoints \in [BufferPoints -> LiveBuffers \cup {0}]
  BY <1>1 DEF IndexedInv, SlotsAndPoints
<1>4. /\ \A b, c \in LiveBuffers : bufferNumber[b] = bufferNumber[c] => b = c
      /\ \A b \in LiveBuffers : bufferNumber[b] \in numbersInUse
  BY DEF IndexedInv, NamesAndNumbers, LiveBuffers
<1> QED
  BY <1>2, <1>3, <1>4 DEF IndexedInv, NamesAndNumbers, SlotsAndPoints, IndexedTypeOK

\* A new buffer: no slot has its name, so nothing is said of the driver's points.
LEMMA NewBufferKeeps ==
  ASSUME IndexedInv, NEW number \in Numbers, GenIndexedBuffer(number)
  PROVE  IndexedInv'
<1> DEFINE b == nextBufferName
<1> USE DEF IndexedInv
<1>1. /\ b \in BufferNames /\ b < b + 1 /\ b + 1 \in 1 .. LastName + 1 /\ b \in Nat
  BY IndexFacts DEF GenIndexedBuffer, NamesAndNumbers, BufferNames
<1>2. /\ bufferNumber' \in [BufferNames -> Numbers \cup {0}]
      /\ bufferNumber'[b] = number /\ number # 0
      /\ \A c \in BufferNames : c # b => bufferNumber'[c] = bufferNumber[c]
      /\ nextBufferName' = b + 1 /\ numbersInUse' = numbersInUse \cup {number}
      /\ number \notin numbersInUse
      /\ UNCHANGED <<feedbackObjects, boundFeedback, genericBound, feedbackSlots, nativePoints,
                     uniformPoints, pushedFor>>
  BY <1>1, IndexFacts DEF GenIndexedBuffer, NamesAndNumbers, indexedFeedback
<1>3. bufferNumber[b] = 0 \/ b < b
  BY <1>1 DEF NamesAndNumbers
<1>4. bufferNumber[b] = 0
  BY <1>1, <1>3
<1>5. \A c \in BufferNames : bufferNumber[c] # 0 => c < b /\ c < b + 1
  BY <1>1, IndexFacts DEF NamesAndNumbers
<1>6. \A x : Valid(bufferNumber, x) => Valid(bufferNumber', x) /\ x # b
  BY <1>1, <1>2, <1>4, IndexFacts DEF Valid
<1>7. \A c \in BufferNames : bufferNumber'[c] # 0 =>
        c < nextBufferName' /\ bufferNumber'[c] \in numbersInUse'
  BY <1>1, <1>2, <1>5 DEF NamesAndNumbers
<1>8. \A c, d \in BufferNames :
        bufferNumber'[c] # 0 /\ bufferNumber'[c] = bufferNumber'[d] => c = d
  BY <1>2 DEF NamesAndNumbers
<1>9. \A f \in FeedbackRefs, i \in BufferPoints :
        feedbackSlots[f][i] \in BufferRefs /\ feedbackSlots[f][i] < b
  BY DEF SlotsAndPoints
<1>10. \A f \in FeedbackRefs, i \in BufferPoints :
         feedbackSlots'[f][i] < nextBufferName' /\ feedbackSlots[f][i] # b
  <2>1. \A x \in Nat : x < b => x < b + 1 /\ x # b
    BY <1>1
  <2> HIDE DEF b
  <2> QED
    BY <1>2, <1>9, <2>1, IndexFacts
<1>11. \A x : Own(bufferNumber', x) /\ x # b => Own(bufferNumber, x)
  BY <1>2 DEF Own
<1>12. \A i \in BufferPoints :
         Own(bufferNumber', uniformPoints'[i]) =>
           nativePoints'["uniform"][i] = uniformPoints'[i]
  BY <1>2, <1>6, <1>11 DEF SlotsAndPoints, PointsExact
<1>13. \A i \in BufferPoints, f \in FeedbackRefs :
         pushedFor'[i] = f /\ Own(bufferNumber', feedbackSlots'[f][i])
           => nativePoints'["feedback"][i] = feedbackSlots'[f][i]
  BY <1>2, <1>10, <1>11 DEF PointsExact
<1>14. /\ genericBound' \in [IndexedTargets -> BufferRefs]
       /\ \A t \in IndexedTargets : Valid(bufferNumber', genericBound'[t])
       /\ \A i \in BufferPoints : Valid(bufferNumber', uniformPoints'[i])
  BY <1>2, <1>6 DEF SlotsAndPoints
<1>15. nativePoints' \in [IndexedTargets -> [BufferPoints -> numbersInUse' \cup {0}]]
  BY <1>2 DEF SlotsAndPoints
<1>16. numbersInUse' \subseteq Numbers \cup BufferNames
  BY <1>2 DEF NamesAndNumbers
<1>17. /\ feedbackObjects' \subseteq FeedbackObjects
       /\ boundFeedback' \in feedbackObjects' \cup {DefaultFeedback}
       /\ feedbackSlots' \in [FeedbackRefs -> [BufferPoints -> BufferRefs]]
       /\ uniformPoints' \in [BufferPoints -> BufferRefs]
       /\ pushedFor' \in [BufferPoints -> FeedbackRefs \cup {NoFeedback}]
       /\ nextBufferName' \in 1 .. LastName + 1
  BY <1>1, <1>2 DEF SlotsAndPoints
<1> QED
  BY <1>2, <1>7, <1>8, <1>10, <1>12, <1>13, <1>14, <1>15, <1>16, <1>17, IndexedByParts

\* Steps that move neither numbers nor points of the driver.
LEMMA NamesPass ==
  ASSUME IndexedInv, nextBufferName' \in {nextBufferName, nextBufferName + 1},
         nextBufferName' \in 1 .. LastName + 1,
         UNCHANGED <<bufferNumber, numbersInUse, genericBound, nativePoints, uniformPoints>>,
         feedbackObjects' \subseteq FeedbackObjects,
         boundFeedback' \in feedbackObjects' \cup {DefaultFeedback},
         feedbackSlots' \in [FeedbackRefs -> [BufferPoints -> BufferRefs]],
         pushedFor' \in [BufferPoints -> FeedbackRefs \cup {NoFeedback}],
         \A f \in FeedbackRefs, i \in BufferPoints : feedbackSlots'[f][i] \in {0, feedbackSlots[f][i]},
         \A f \in FeedbackRefs, i \in BufferPoints :
           pushedFor'[i] = f => pushedFor[i] = f /\ feedbackSlots'[f][i] = feedbackSlots[f][i]
  PROVE  IndexedInv'
<1> USE DEF IndexedInv
<1>0. nextBufferName \in Nat /\ 1 <= nextBufferName /\ nextBufferName <= nextBufferName'
      /\ nextBufferName' \in Nat
  BY IndexFacts DEF NamesAndNumbers
<1>1. \A b \in BufferNames : bufferNumber'[b] # 0 =>
        b < nextBufferName' /\ bufferNumber'[b] \in numbersInUse'
  BY <1>0, IndexFacts DEF NamesAndNumbers
<1>2. \A f \in FeedbackRefs, i \in BufferPoints :
        feedbackSlots[f][i] \in BufferRefs /\ feedbackSlots[f][i] < nextBufferName
  BY DEF SlotsAndPoints
<1>3. \A f \in FeedbackRefs, i \in BufferPoints : feedbackSlots'[f][i] < nextBufferName'
  <2>1. \A x \in Nat : x < nextBufferName => x < nextBufferName'
    BY <1>0
  <2>2. \A x \in BufferRefs : x \in Nat
    BY IndexFacts
  <2>3. 0 < nextBufferName'
    BY <1>0
  <2> QED
    BY <1>2, <2>1, <2>2, <2>3
<1>4. \A i \in BufferPoints, f \in FeedbackRefs :
        pushedFor'[i] = f /\ Own(bufferNumber', feedbackSlots'[f][i])
          => nativePoints'["feedback"][i] = feedbackSlots'[f][i]
  BY DEF PointsExact
<1>5. /\ \A i \in BufferPoints :
           Own(bufferNumber', uniformPoints'[i]) =>
             nativePoints'["uniform"][i] = uniformPoints'[i]
      /\ \A i \in BufferPoints : Valid(bufferNumber', uniformPoints'[i])
      /\ \A t \in IndexedTargets : Valid(bufferNumber', genericBound'[t])
  BY DEF PointsExact, SlotsAndPoints
<1>6. /\ bufferNumber' \in [BufferNames -> Numbers \cup {0}]
      /\ numbersInUse' \subseteq Numbers \cup BufferNames
      /\ \A b, c \in BufferNames :
           bufferNumber'[b] # 0 /\ bufferNumber'[b] = bufferNumber'[c] => b = c
      /\ genericBound' \in [IndexedTargets -> BufferRefs]
      /\ nativePoints' \in [IndexedTargets -> [BufferPoints -> numbersInUse' \cup {0}]]
      /\ uniformPoints' \in [BufferPoints -> BufferRefs]
  BY DEF NamesAndNumbers, SlotsAndPoints
<1> QED
  BY <1>1, <1>3, <1>4, <1>5, <1>6, IndexedByParts

LEMMA FeedbackKeeps ==
  ASSUME IndexedInv,
         \/ GenOtherObject
         \/ \E f \in FeedbackObjects : GenFeedback(f) \/ DeleteFeedback(f)
         \/ \E f \in FeedbackRefs : BindFeedback(f)
  PROVE  IndexedInv'
<1>0. nextBufferName \in 1 .. LastName + 1
      /\ (nextBufferName <= LastName => nextBufferName + 1 \in 1 .. LastName + 1)
  BY IndexFacts DEF IndexedInv, NamesAndNumbers
<1>1. /\ feedbackObjects \subseteq FeedbackObjects
      /\ boundFeedback \in feedbackObjects \cup {DefaultFeedback}
      /\ feedbackSlots \in [FeedbackRefs -> [BufferPoints -> BufferRefs]]
      /\ pushedFor \in [BufferPoints -> FeedbackRefs \cup {NoFeedback}]
  BY DEF IndexedInv, SlotsAndPoints
<1>2. CASE GenOtherObject
  BY <1>0, <1>1, <1>2, NamesPass DEF GenOtherObject, indexedFeedback
<1>3. ASSUME NEW f \in FeedbackObjects, GenFeedback(f)
      PROVE  IndexedInv'
  BY <1>0, <1>1, <1>3, NamesPass DEF GenFeedback
<1>4. ASSUME NEW f \in FeedbackRefs, BindFeedback(f)
      PROVE  IndexedInv'
  BY <1>0, <1>1, <1>4, NamesPass DEF BindFeedback, indexedObjects
<1>5. ASSUME NEW f \in FeedbackObjects, DeleteFeedback(f)
      PROVE  IndexedInv'
  <2>1. /\ feedbackObjects' = feedbackObjects \ {f}
        /\ boundFeedback' = IF boundFeedback = f THEN DefaultFeedback ELSE boundFeedback
        /\ feedbackSlots' = [feedbackSlots EXCEPT ![f] = [i \in BufferPoints |-> 0]]
        /\ pushedFor' = [i \in BufferPoints |-> IF pushedFor[i] = f THEN NoFeedback ELSE pushedFor[i]]
        /\ UNCHANGED <<bufferNumber, nextBufferName, numbersInUse, genericBound, nativePoints,
                       uniformPoints>>
    BY <1>5 DEF DeleteFeedback, indexedObjects
  <2>2. f \in FeedbackRefs /\ 0 \in BufferRefs /\ NoFeedback \notin FeedbackRefs
    BY FeedbackNamesDiffer DEF FeedbackRefs, BufferRefs
  <2>3. /\ feedbackSlots' \in [FeedbackRefs -> [BufferPoints -> BufferRefs]]
        /\ pushedFor' \in [BufferPoints -> FeedbackRefs \cup {NoFeedback}]
    BY <1>1, <2>1, <2>2
  <2>4. \A g \in FeedbackRefs, i \in BufferPoints : feedbackSlots'[g][i] \in {0, feedbackSlots[g][i]}
    BY <1>1, <2>1, <2>2
  <2>5. ASSUME NEW g \in FeedbackRefs, NEW i \in BufferPoints, pushedFor'[i] = g
        PROVE  pushedFor[i] = g /\ feedbackSlots'[g][i] = feedbackSlots[g][i]
    <3>1. pushedFor[i] = g /\ g # f
      BY <2>1, <2>2, <2>5
    <3> QED
      BY <1>1, <2>1, <3>1
  <2>6. /\ feedbackObjects' \subseteq FeedbackObjects
        /\ boundFeedback' \in feedbackObjects' \cup {DefaultFeedback}
    BY <1>1, <2>1
  <2> QED
    BY <1>0, <2>1, <2>3, <2>4, <2>5, <2>6, NamesPass
<1> QED
  BY <1>2, <1>3, <1>4, <1>5

\* Deletion: the driver forgets the number, which no other buffer has.
LEMMA DeleteIndexedKeeps ==
  ASSUME IndexedInv, NEW b \in BufferNames, DeleteIndexedBuffer(b)
  PROVE  IndexedInv'
<1> USE DEF IndexedInv
<1> DEFINE number == bufferNumber[b]
<1>1. /\ number # 0 /\ bufferNumber' \in [BufferNames -> Numbers \cup {0}]
      /\ bufferNumber'[b] = 0
      /\ \A c \in BufferNames : c # b => bufferNumber'[c] = bufferNumber[c]
      /\ numbersInUse' = numbersInUse \ {number}
      /\ UNCHANGED <<nextBufferName, feedbackObjects, boundFeedback, feedbackSlots, pushedFor>>
  BY DEF DeleteIndexedBuffer, LiveBuffers, NamesAndNumbers, indexedFeedback
<1>2. /\ genericBound' = [t \in IndexedTargets |-> IF genericBound[t] = b THEN 0 ELSE genericBound[t]]
      /\ nativePoints' = [t \in IndexedTargets |->
            [i \in BufferPoints |-> IF nativePoints[t][i] = number THEN 0 ELSE nativePoints[t][i]]]
      /\ uniformPoints' = [i \in BufferPoints |-> IF uniformPoints[i] = b THEN 0 ELSE uniformPoints[i]]
  BY DEF DeleteIndexedBuffer, Without
<1>3. \A c \in BufferNames : c # b => bufferNumber[c] # number
  BY <1>1 DEF NamesAndNumbers
<1> HIDE DEF number
<1>4. \A x : Valid(bufferNumber, x) => x = b \/ Valid(bufferNumber', x)
  BY <1>1 DEF Valid
<1>5. Valid(bufferNumber', 0)
  BY DEF Valid
<1>6. /\ genericBound' \in [IndexedTargets -> BufferRefs]
      /\ uniformPoints' \in [BufferPoints -> BufferRefs]
      /\ \A t \in IndexedTargets : Valid(bufferNumber', genericBound'[t])
      /\ \A i \in BufferPoints : Valid(bufferNumber', uniformPoints'[i])
  BY <1>2, <1>4, <1>5 DEF SlotsAndPoints, BufferRefs
<1>7. nativePoints' \in [IndexedTargets -> [BufferPoints -> numbersInUse' \cup {0}]]
  BY <1>1, <1>2 DEF SlotsAndPoints
<1>8. /\ numbersInUse' \subseteq Numbers \cup BufferNames
      /\ \A c \in BufferNames : bufferNumber'[c] # 0 =>
           c < nextBufferName' /\ bufferNumber'[c] \in numbersInUse'
  BY <1>1, <1>3 DEF NamesAndNumbers
<1>9. \A c, d \in BufferNames :
        bufferNumber'[c] # 0 /\ bufferNumber'[c] = bufferNumber'[d] => c = d
  BY <1>1 DEF NamesAndNumbers
<1>10. \A x : Own(bufferNumber', x) => Own(bufferNumber, x) /\ x # number /\ x # 0
  BY <1>1, <1>3, IndexFacts DEF Own
<1>11. \A i \in BufferPoints :
         Own(bufferNumber', uniformPoints'[i]) =>
           nativePoints'["uniform"][i] = uniformPoints'[i]
  BY <1>2, <1>10, IndexFacts DEF PointsExact
<1>12. \A i \in BufferPoints, f \in FeedbackRefs :
         pushedFor'[i] = f /\ Own(bufferNumber', feedbackSlots'[f][i])
           => nativePoints'["feedback"][i] = feedbackSlots'[f][i]
  BY <1>1, <1>2, <1>10, IndexFacts DEF PointsExact
<1>13. /\ feedbackObjects' \subseteq FeedbackObjects
       /\ boundFeedback' \in feedbackObjects' \cup {DefaultFeedback}
       /\ feedbackSlots' \in [FeedbackRefs -> [BufferPoints -> BufferRefs]]
       /\ pushedFor' \in [BufferPoints -> FeedbackRefs \cup {NoFeedback}]
       /\ nextBufferName' \in 1 .. LastName + 1
       /\ \A f \in FeedbackRefs, i \in BufferPoints : feedbackSlots'[f][i] < nextBufferName'
  BY <1>1 DEF SlotsAndPoints, NamesAndNumbers
<1> QED
  BY <1>1, <1>6, <1>7, <1>8, <1>9, <1>11, <1>12, <1>13, IndexedByParts

-----------------------------------------------------------------------------
(* Bindings. *)

\* Buffers for some of the points.
Choice(names) ==
  /\ DOMAIN names \subseteq BufferPoints
  /\ \A i \in DOMAIN names : names[i] \in BufferRefs /\ Valid(bufferNumber, names[i])

LEMMA SendFacts ==
  ASSUME IndexedInv, NEW t \in IndexedTargets, NEW names, Choice(names), SendPoints(t, names)
  PROVE  /\ numbersInUse \subseteq numbersInUse' /\ numbersInUse' \subseteq Numbers \cup BufferNames
         /\ nativePoints' \in [IndexedTargets -> [BufferPoints -> numbersInUse' \cup {0}]]
         /\ \A u \in IndexedTargets : u # t => nativePoints'[u] = nativePoints[u]
         /\ \A i \in BufferPoints : nativePoints'[t][i] =
              IF i \in DOMAIN names THEN names[i] ELSE nativePoints[t][i]
<1> USE DEF IndexedInv
<1>1. /\ nativePoints' = [nativePoints EXCEPT ![t] = [i \in BufferPoints |->
                        IF i \in DOMAIN names THEN names[i] ELSE nativePoints[t][i]]]
      /\ numbersInUse' = (numbersInUse \cup {names[i] : i \in DOMAIN names}) \ {0}
      /\ nativePoints \in [IndexedTargets -> [BufferPoints -> numbersInUse \cup {0}]]
  BY DEF SendPoints, SlotsAndPoints
<1>2. 0 \notin numbersInUse /\ numbersInUse \subseteq Numbers \cup BufferNames
  BY IndexFacts DEF NamesAndNumbers
<1>3. {names[i] : i \in DOMAIN names} \subseteq BufferNames \cup {0}
  BY DEF Choice, BufferRefs
<1>4. numbersInUse \subseteq numbersInUse' /\ numbersInUse' \subseteq Numbers \cup BufferNames
  BY <1>1, <1>2, <1>3
<1>5. \A i \in DOMAIN names : names[i] \in numbersInUse' \cup {0}
  BY <1>1
<1>6. nativePoints' \in [IndexedTargets -> [BufferPoints -> numbersInUse' \cup {0}]]
  BY <1>1, <1>4, <1>5
<1> QED
  BY <1>1, <1>4, <1>6

LEMMA FillFacts ==
  ASSUME IndexedInv, NEW f \in FeedbackRefs, NEW names, Choice(names), FillSlots(f, names)
  PROVE  /\ feedbackSlots' \in [FeedbackRefs -> [BufferPoints -> BufferRefs]]
         /\ pushedFor' \in [BufferPoints -> FeedbackRefs \cup {NoFeedback}]
         /\ \A g \in FeedbackRefs : g # f => feedbackSlots'[g] = feedbackSlots[g]
         /\ \A i \in BufferPoints : feedbackSlots'[f][i] =
              IF i \in DOMAIN names THEN names[i] ELSE feedbackSlots[f][i]
         /\ \A i \in BufferPoints : pushedFor'[i] =
              IF i \in DOMAIN names THEN f ELSE pushedFor[i]
         /\ \A g \in FeedbackRefs, i \in BufferPoints : feedbackSlots'[g][i] < nextBufferName
<1> USE DEF IndexedInv
<1>1. /\ feedbackSlots' = [feedbackSlots EXCEPT ![f] = [i \in BufferPoints |->
                         IF i \in DOMAIN names THEN names[i] ELSE feedbackSlots[f][i]]]
      /\ pushedFor' = [i \in BufferPoints |-> IF i \in DOMAIN names THEN f ELSE pushedFor[i]]
      /\ feedbackSlots \in [FeedbackRefs -> [BufferPoints -> BufferRefs]]
      /\ pushedFor \in [BufferPoints -> FeedbackRefs \cup {NoFeedback}]
  BY DEF FillSlots, SlotsAndPoints
<1>2. feedbackSlots' \in [FeedbackRefs -> [BufferPoints -> BufferRefs]]
  BY <1>1 DEF Choice
<1>3. /\ \A g \in FeedbackRefs : g # f => feedbackSlots'[g] = feedbackSlots[g]
      /\ \A i \in BufferPoints : feedbackSlots'[f][i] =
           IF i \in DOMAIN names THEN names[i] ELSE feedbackSlots[f][i]
  BY <1>1
<1>4. \A x : Valid(bufferNumber, x) => x < nextBufferName
  <2>1. 0 < nextBufferName
    BY IndexFacts DEF NamesAndNumbers
  <2> QED
    BY <2>1 DEF Valid, NamesAndNumbers
<1>5. \A g \in FeedbackRefs, i \in BufferPoints : feedbackSlots'[g][i] < nextBufferName
  BY <1>3, <1>4 DEF Choice, SlotsAndPoints
<1>6. pushedFor' \in [BufferPoints -> FeedbackRefs \cup {NoFeedback}]
  BY <1>1
<1> QED
  BY <1>1, <1>2, <1>3, <1>5, <1>6

\* Some points of a target are set, in the frontend's record and in the driver.
LEMMA PointsSet ==
  ASSUME IndexedInv, NEW t \in IndexedTargets, NEW f \in FeedbackRefs, NEW names, Choice(names),
         SendPoints(t, names),
         IF t = "feedback"
           THEN FillSlots(f, names) /\ UNCHANGED uniformPoints
           ELSE /\ uniformPoints' = [i \in BufferPoints |->
                     IF i \in DOMAIN names THEN names[i] ELSE uniformPoints[i]]
                /\ UNCHANGED <<feedbackSlots, pushedFor>>,
         genericBound' \in [IndexedTargets -> BufferRefs],
         \A u \in IndexedTargets : Valid(bufferNumber, genericBound'[u]),
         UNCHANGED <<bufferNumber, nextBufferName, feedbackObjects, boundFeedback>>
  PROVE  IndexedInv'
<1> USE DEF IndexedInv
<1>1. /\ numbersInUse \subseteq numbersInUse' /\ numbersInUse' \subseteq Numbers \cup BufferNames
      /\ nativePoints' \in [IndexedTargets -> [BufferPoints -> numbersInUse' \cup {0}]]
      /\ \A u \in IndexedTargets : u # t => nativePoints'[u] = nativePoints[u]
      /\ \A i \in BufferPoints : nativePoints'[t][i] =
           IF i \in DOMAIN names THEN names[i] ELSE nativePoints[t][i]
  BY SendFacts
<1>2. /\ bufferNumber' \in [BufferNames -> Numbers \cup {0}]
      /\ nextBufferName' \in 1 .. LastName + 1
      /\ \A b \in BufferNames : bufferNumber'[b] # 0 =>
           b < nextBufferName' /\ bufferNumber'[b] \in numbersInUse'
      /\ \A b, c \in BufferNames :
           bufferNumber'[b] # 0 /\ bufferNumber'[b] = bufferNumber'[c] => b = c
      /\ feedbackObjects' \subseteq FeedbackObjects
      /\ boundFeedback' \in feedbackObjects' \cup {DefaultFeedback}
  BY <1>1 DEF NamesAndNumbers, SlotsAndPoints
<1>3. \A u \in IndexedTargets : Valid(bufferNumber', genericBound'[u])
  OBVIOUS
<1>4. CASE t = "feedback"
  <2>1. FillSlots(f, names) /\ uniformPoints' = uniformPoints /\ "uniform" \in IndexedTargets
    BY <1>4, IndexFacts
  <2>2. /\ feedbackSlots' \in [FeedbackRefs -> [BufferPoints -> BufferRefs]]
        /\ pushedFor' \in [BufferPoints -> FeedbackRefs \cup {NoFeedback}]
        /\ \A g \in FeedbackRefs : g # f => feedbackSlots'[g] = feedbackSlots[g]
        /\ \A i \in BufferPoints : feedbackSlots'[f][i] =
             IF i \in DOMAIN names THEN names[i] ELSE feedbackSlots[f][i]
        /\ \A i \in BufferPoints : pushedFor'[i] =
             IF i \in DOMAIN names THEN f ELSE pushedFor[i]
        /\ \A g \in FeedbackRefs, i \in BufferPoints : feedbackSlots'[g][i] < nextBufferName'
    BY <2>1, FillFacts
  <2>3. ASSUME NEW i \in BufferPoints, NEW g \in FeedbackRefs, pushedFor'[i] = g,
               Own(bufferNumber', feedbackSlots'[g][i])
        PROVE  nativePoints'["feedback"][i] = feedbackSlots'[g][i]
    <3>1. CASE i \in DOMAIN names
      BY <1>1, <1>4, <2>2, <2>3, <3>1
    <3>2. CASE i \notin DOMAIN names
      <4>1. /\ pushedFor[i] = g /\ feedbackSlots'[g][i] = feedbackSlots[g][i]
            /\ nativePoints'["feedback"][i] = nativePoints["feedback"][i]
        BY <1>1, <1>4, <2>2, <2>3, <3>2
      <4> QED
        BY <2>3, <4>1 DEF PointsExact
    <3> QED
      BY <3>1, <3>2
  <2>4. \A i \in BufferPoints :
          Own(bufferNumber', uniformPoints'[i]) =>
            nativePoints'["uniform"][i] = uniformPoints'[i]
    BY <1>1, <1>4, <2>1 DEF PointsExact
  <2>5. /\ uniformPoints' \in [BufferPoints -> BufferRefs]
        /\ \A i \in BufferPoints : Valid(bufferNumber', uniformPoints'[i])
    BY <2>1 DEF SlotsAndPoints
  <2> QED
    BY <1>1, <1>2, <1>3, <2>2, <2>3, <2>4, <2>5, IndexedByParts
<1>5. CASE t = "uniform"
  <2>1. /\ uniformPoints' = [i \in BufferPoints |->
             IF i \in DOMAIN names THEN names[i] ELSE uniformPoints[i]]
        /\ UNCHANGED <<feedbackSlots, pushedFor>> /\ "feedback" \in IndexedTargets
    BY <1>5, IndexFacts
  <2>2. /\ uniformPoints' \in [BufferPoints -> BufferRefs]
        /\ \A i \in BufferPoints : Valid(bufferNumber', uniformPoints'[i])
    BY <2>1 DEF Choice, SlotsAndPoints
  <2>3. \A i \in BufferPoints :
          Own(bufferNumber', uniformPoints'[i]) =>
            nativePoints'["uniform"][i] = uniformPoints'[i]
    BY <1>1, <1>5, <2>1 DEF PointsExact
  <2>4. /\ feedbackSlots' \in [FeedbackRefs -> [BufferPoints -> BufferRefs]]
        /\ pushedFor' \in [BufferPoints -> FeedbackRefs \cup {NoFeedback}]
        /\ \A g \in FeedbackRefs, i \in BufferPoints : feedbackSlots'[g][i] < nextBufferName'
    BY <2>1 DEF SlotsAndPoints
  <2>5. nativePoints'["feedback"] = nativePoints["feedback"]
    BY <1>1, <1>5, <2>1
  <2>6. \A i \in BufferPoints, g \in FeedbackRefs :
          pushedFor'[i] = g /\ Own(bufferNumber', feedbackSlots'[g][i])
            => nativePoints'["feedback"][i] = feedbackSlots'[g][i]
    BY <2>1, <2>5 DEF PointsExact
  <2> QED
    BY <1>1, <1>2, <1>3, <2>2, <2>3, <2>4, <2>6, IndexedByParts
<1> QED
  BY <1>4, <1>5, IndexFacts

\* The last point that is set.
LEMMA LastPoint ==
  ASSUME NEW S \in SUBSET BufferPoints, S # {}
  PROVE  (CHOOSE i \in S : \A j \in S : j <= i) \in S
<1>1. S \subseteq Nat /\ PointCount \in Nat /\ \A i \in S : i <= PointCount
  BY IndexFacts DEF BufferPoints
<1> DEFINE T == {PointCount - i : i \in S}
<1>2. T \in SUBSET Nat /\ T # {}
  <2>1. \A i \in S : PointCount - i \in Nat
    BY <1>1
  <2> QED
    BY <2>1
<1>3. PICK m \in T : \A k \in T : m <= k
  <2> HIDE DEF T
  <2> QED
    BY <1>2, Least
<1>4. PICK i \in S : m = PointCount - i
  BY <1>3
<1>5. \A j \in S : j <= i
  <2>1. \A j \in S : PointCount - i <= PointCount - j
    BY <1>3, <1>4
  <2> QED
    BY <1>1, <2>1
<1> QED
  BY <1>5

LEMMA ApplyKeeps ==
  ASSUME IndexedInv, NEW t \in IndexedTargets, NEW names, Choice(names), DOMAIN names # {},
         ApplyIndexed(t, names)
  PROVE  IndexedInv'
<1> DEFINE last == CHOOSE i \in DOMAIN names : \A j \in DOMAIN names : j <= i
<1>1. last \in DOMAIN names
  BY LastPoint DEF Choice
<1>2. /\ genericBound' = [genericBound EXCEPT ![t] = names[last]]
      /\ IF t = "feedback"
           THEN FillSlots(boundFeedback, names) /\ UNCHANGED uniformPoints
           ELSE /\ uniformPoints' = [i \in BufferPoints |->
                     IF i \in DOMAIN names THEN names[i] ELSE uniformPoints[i]]
                /\ UNCHANGED <<feedbackSlots, pushedFor>>
      /\ SendPoints(t, names)
      /\ UNCHANGED <<bufferNumber, nextBufferName, feedbackObjects, boundFeedback>>
  BY DEF ApplyIndexed, indexedFeedback
<1> HIDE DEF last
<1>3. names[last] \in BufferRefs /\ Valid(bufferNumber, names[last])
  BY <1>1 DEF Choice
<1>4. /\ genericBound' \in [IndexedTargets -> BufferRefs]
      /\ \A u \in IndexedTargets : Valid(bufferNumber, genericBound'[u])
  BY <1>2, <1>3 DEF IndexedInv, SlotsAndPoints
<1>5. boundFeedback \in FeedbackRefs
  BY DEF IndexedInv, SlotsAndPoints, FeedbackRefs
<1> QED
  BY <1>2, <1>4, <1>5, PointsSet

LEMMA ValidNames ==
  ASSUME NEW x \in LiveBuffers \cup {0}
  PROVE  x \in BufferRefs /\ Valid(bufferNumber, x)
  BY DEF LiveBuffers, BufferRefs, Valid

LEMMA BindPointsKeep ==
  ASSUME IndexedInv, NEW t \in IndexedTargets,
         \/ \E i \in BufferPoints, b \in BufferRefs : BindBufferBase(t, i, b)
         \/ \E i, j \in BufferPoints :
              i < j /\ \E names \in [i .. j -> BufferRefs] : BindBuffersBase(t, names)
  PROVE  IndexedInv'
<1>1. ASSUME NEW i \in BufferPoints, NEW b, BindBufferBase(t, i, b)
      PROVE  IndexedInv'
  <2>1. PICK names : names = [j \in {i} |-> b]
    OBVIOUS
  <2>2. b \in BufferRefs /\ Valid(bufferNumber, b) /\ ApplyIndexed(t, names)
    BY <1>1, <2>1, ValidNames DEF BindBufferBase
  <2>3. Choice(names) /\ DOMAIN names # {}
    BY <2>1, <2>2 DEF Choice
  <2> QED
    BY <2>2, <2>3, ApplyKeeps
<1>2. ASSUME NEW i \in BufferPoints, NEW j \in BufferPoints, NEW names \in [i .. j -> BufferRefs],
             BindBuffersBase(t, names)
      PROVE  IndexedInv'
  <2> DEFINE valid == {k \in DOMAIN names : names[k] \in LiveBuffers \cup {0}}
  <2>1. PICK chosen : chosen = [k \in valid |-> names[k]]
    OBVIOUS
  <2>2. valid # {} /\ ApplyIndexed(t, chosen)
    BY <1>2, <2>1 DEF BindBuffersBase
  <2>3. i .. j \subseteq BufferPoints
    BY IndexFacts DEF BufferPoints
  <2>4. Choice(chosen) /\ DOMAIN chosen # {}
    BY <2>1, <2>2, <2>3, ValidNames DEF Choice
  <2> HIDE DEF valid
  <2> QED
    BY <2>2, <2>4, ApplyKeeps
<1> QED
  BY <1>1, <1>2

LEMMA NamedFeedbackKeeps ==
  ASSUME IndexedInv, NEW f \in FeedbackRefs, NEW i \in BufferPoints, NEW b,
         TransformFeedbackBufferBase(f, i, b)
  PROVE  IndexedInv'
<1>1. PICK names : names = [j \in {i} |-> b]
  OBVIOUS
<1>2. /\ b \in BufferRefs /\ Valid(bufferNumber, b)
      /\ FillSlots(f, names) /\ SendPoints("feedback", names)
      /\ UNCHANGED <<bufferNumber, nextBufferName, feedbackObjects, boundFeedback, genericBound,
                     uniformPoints>>
  BY <1>1, ValidNames DEF TransformFeedbackBufferBase, indexedFeedback
<1>3. Choice(names)
  BY <1>1, <1>2 DEF Choice
<1>4. /\ "feedback" \in IndexedTargets
      /\ genericBound' \in [IndexedTargets -> BufferRefs]
      /\ \A u \in IndexedTargets : Valid(bufferNumber, genericBound'[u])
  BY <1>2, IndexFacts DEF IndexedInv, SlotsAndPoints
<1> QED
  BY <1>2, <1>3, <1>4, PointsSet

LEMMA StepIndexed == IndexedInv /\ [IndexedNext]_indexedVars => IndexedInv'
<1> SUFFICES ASSUME IndexedInv, [IndexedNext]_indexedVars
             PROVE  IndexedInv'
  OBVIOUS
<1>1. CASE UNCHANGED indexedVars
  <2>1. /\ feedbackObjects \subseteq FeedbackObjects
        /\ boundFeedback \in feedbackObjects \cup {DefaultFeedback}
        /\ feedbackSlots \in [FeedbackRefs -> [BufferPoints -> BufferRefs]]
        /\ pushedFor \in [BufferPoints -> FeedbackRefs \cup {NoFeedback}]
        /\ nextBufferName \in 1 .. LastName + 1
    BY DEF IndexedInv, SlotsAndPoints, NamesAndNumbers
  <2> QED
    BY <1>1, <2>1, NamesPass DEF indexedVars, indexedObjects, indexedFeedback
<1>2. CASE IndexedNext
  BY <1>2, NewBufferKeeps, DeleteIndexedKeeps, FeedbackKeeps, BindPointsKeep, NamedFeedbackKeeps
     DEF IndexedNext
<1> QED
  BY <1>1, <1>2

LEMMA IndexedAlways == IndexedSpec => []IndexedInv
  BY InitIndexed, StepIndexed, PTL DEF IndexedSpec

\* Where a buffer's number is its name, it is at the points it was bound to,
\* whatever numbers come and go: for any number of buffers, points and objects.
THEOREM PointsAreExact == IndexedSpec => []IndexedBindingExact
<1>1. ASSUME IndexedInv PROVE IndexedBindingExact
  <2>1. \A x : OwnNumber(x) => Own(bufferNumber, x)
    BY DEF OwnNumber, LiveBuffers, Own
  <2>2. boundFeedback \in FeedbackRefs
    BY <1>1 DEF IndexedInv, SlotsAndPoints, FeedbackRefs
  <2> QED
    BY <1>1, <2>1, <2>2 DEF IndexedInv, PointsExact, IndexedBindingExact
<1>2. IndexedInv => IndexedBindingExact
  BY <1>1
<1> QED
  BY <1>2, IndexedAlways, PTL

-----------------------------------------------------------------------------
(* Textures: the invariant. *)

Records == [images : [Levels -> AnySize], order : LevelOrders,
            levels : 0 .. MaxLevel + 1, base : AnySize, immutable : BOOLEAN]
Drivers == [levels : [Levels -> AnySize], fixed : BOOLEAN, bound : BOOLEAN]
Hows    == {"none", "fresh", "images", "storage", "mixed"}

RecordedIn(rec) == {l \in Levels : rec.images[l] # NoLevel}

\* The order of a record has each of its levels once.
Ordered(rec) ==
  /\ rec.order \in Seq(Levels)
  /\ Len(rec.order) = Cardinality(RecordedIn(rec))
  /\ \A l \in Levels : l \in RecordedIn(rec) <=> \E i \in 1 .. Len(rec.order) : rec.order[i] = l

\* What an image records of the driver's level, of three dimensions or of fewer.
AsRecorded(size, deep) == IF deep THEN size ELSE Extent(size.w, 0)

\* What a record knows of the driver's levels, by the way they were made.
Known(rec, d, how, deep) ==
  /\ how = "fresh" => /\ ~rec.immutable /\ ~d.fixed
                      /\ \A l \in Levels : rec.images[l] = NoLevel /\ d.levels[l] = NoLevel
  /\ how = "images" => /\ ~rec.immutable /\ ~d.fixed
                       /\ \A l \in Levels :
                            /\ rec.images[l] = AsRecorded(d.levels[l], deep)
                            /\ d.levels[l] = NoLevel \/ d.levels[l].w # 0
                       /\ \A l \in RecordedIn(rec) : l < rec.levels
                       /\ rec.levels - 1 \in RecordedIn(rec)
  /\ how = "storage" => /\ rec.immutable
                        /\ \A l \in Levels : d.levels[l] =
                             IF l < rec.levels THEN Halved(rec.base, l) ELSE NoLevel

TextureInv ==
  /\ solid \in Solids
  /\ texHow \in [Textures -> Hows]
  /\ texRecord \in [Textures -> Records]
  /\ texDriver \in [Textures -> Drivers]
  /\ \A t \in Textures : /\ Ordered(texRecord[t])
                         /\ Known(texRecord[t], texDriver[t], texHow[t], t \in solid)

-----------------------------------------------------------------------------
(* Textures: sizes of levels. *)

\* A size halved again and again, and the size of the level it comes to.
Halves(h, s, by) == h[0] = s /\ \A k \in 0 .. by - 1 : h[k + 1] = h[k] \div 2

LEMMA Halvings ==
  ASSUME NEW s \in Nat, NEW by \in Nat
  PROVE  \E h \in [0 .. by -> Nat] :
           Halves(h, s, by) /\ Shifted(s, by) = IF h[by] = 0 THEN 1 ELSE h[by]
<1> DEFINE F == [k \in 0 .. by - 1 |-> [x \in Nat |-> x \div 2]]
<1>1. \A x \in Nat : x \div 2 \in Nat
  OBVIOUS
<1>2. F \in [0 .. by - 1 -> [Nat -> Nat]]
  BY <1>1
<1>3. PICK h \in [0 .. by -> Nat] : h[0] = s /\ \A k \in 0 .. by - 1 : h[k + 1] = F[k][h[k]]
  <2> HIDE DEF F
  <2>1. \E h \in [0 .. by -> Nat] : IsRun(h, s, by, F)
    BY <1>2, LoopExists, Zenon
  <2> QED
    BY <2>1 DEF IsRun
<1>4. \A k \in 0 .. by - 1 : h[k + 1] = h[k] \div 2
  <2> SUFFICES ASSUME NEW k \in 0 .. by - 1
               PROVE  F[k][h[k]] = h[k] \div 2
    BY <1>3
  <2>1. k \in 0 .. by
    OBVIOUS
  <2> QED
    BY <1>3, <2>1
<1> HIDE DEF F
<1>5. ASSUME NEW k \in 0 .. by
      PROVE  h[k] = IF k = 0 THEN s ELSE h[k - 1] \div 2
  <2>1. k = 0 \/ (k - 1 \in 0 .. by - 1 /\ (k - 1) + 1 = k)
    OBVIOUS
  <2> QED
    BY <1>3, <1>4, <2>1
<1> DEFINE G(g) == [k \in 0 .. by |-> IF k = 0 THEN s ELSE g[k - 1] \div 2]
           halved == CHOOSE g : g = G(g)
<1>6. h = G(h)
  BY <1>3, <1>5
<1>7. halved = G(halved)
  <2> HIDE DEF G
  <2> QED
    BY <1>6, Zenon
<1>8. Shifted(s, by) = IF halved[by] = 0 THEN 1 ELSE halved[by]
  BY DEF Shifted
<1> HIDE DEF halved, G
<1>9. ASSUME NEW k \in 0 .. by
      PROVE  halved[k] = IF k = 0 THEN s ELSE halved[k - 1] \div 2
  BY <1>7 DEF G
<1>10. \A k \in 0 .. by : halved[k] = h[k]
  <2> DEFINE S == {k \in 0 .. by : halved[k] = h[k]}
  <2>1. 0 \in S
    BY <1>3, <1>9
  <2>2. ASSUME NEW k \in 0 .. by - 1, k \in S
        PROVE  k + 1 \in S
    <3>1. k + 1 \in 0 .. by /\ k + 1 # 0 /\ (k + 1) - 1 = k
      OBVIOUS
    <3>2. halved[k + 1] = halved[k] \div 2
      BY <1>9, <3>1
    <3> QED
      BY <1>4, <2>2, <3>1, <3>2
  <2> HIDE DEF S
  <2>3. \A k \in 0 .. by : k \in S
    BY <2>1, <2>2, UpTo
  <2> QED
    BY <2>3 DEF S
<1>11. by \in 0 .. by
  OBVIOUS
<1> QED
  BY <1>3, <1>4, <1>8, <1>10, <1>11 DEF Halves

LEMMA ShiftedType ==
  ASSUME NEW s \in Nat, NEW by \in Nat
  PROVE  Shifted(s, by) \in Nat \ {0}
<1>1. PICK h \in [0 .. by -> Nat] : Shifted(s, by) = IF h[by] = 0 THEN 1 ELSE h[by]
  BY Halvings
<1>2. h[by] \in Nat
  OBVIOUS
<1> QED
  BY <1>1, <1>2

\* A level of a view is the level of its origin that the view begins with and as
\* many below: what glTextureView records agrees with what the driver has.
LEMMA ShiftedTwice ==
  ASSUME NEW s \in Nat, NEW a \in Nat, NEW b \in Nat
  PROVE  Shifted(Shifted(s, a), b) = Shifted(s, a + b)
<1> DEFINE first == Shifted(s, a)
<1>0. first \in Nat /\ a + b \in Nat
  BY ShiftedType
<1>1. PICK g \in [0 .. a -> Nat] : Halves(g, s, a) /\ first = IF g[a] = 0 THEN 1 ELSE g[a]
  BY Halvings
<1>2. PICK h \in [0 .. a + b -> Nat] :
        Halves(h, s, a + b) /\ Shifted(s, a + b) = IF h[a + b] = 0 THEN 1 ELSE h[a + b]
  <2>1. PICK n : n = a + b
    OBVIOUS
  <2>2. \E h \in [0 .. n -> Nat] :
          Halves(h, s, n) /\ Shifted(s, n) = IF h[n] = 0 THEN 1 ELSE h[n]
    BY <1>0, <2>1, Halvings
  <2> QED
    BY <2>1, <2>2
<1> HIDE DEF first
<1>3. PICK e \in [0 .. b -> Nat] :
        Halves(e, first, b) /\ Shifted(first, b) = IF e[b] = 0 THEN 1 ELSE e[b]
  BY <1>0, Halvings
<1> USE DEF Halves
<1>4. g[a] = h[a]
  <2> DEFINE S == {k \in 0 .. a : g[k] = h[k]}
  <2>1. 0 \in S
    BY <1>1, <1>2
  <2>2. ASSUME NEW k \in 0 .. a - 1, k \in S
        PROVE  k + 1 \in S
    <3>1. k + 1 \in 0 .. a /\ k \in 0 .. (a + b) - 1
      OBVIOUS
    <3> QED
      BY <1>1, <1>2, <2>2, <3>1
  <2> HIDE DEF S
  <2>3. \A k \in 0 .. a : k \in S
    BY <2>1, <2>2, UpTo
  <2>4. a \in 0 .. a
    OBVIOUS
  <2> QED
    BY <2>3, <2>4 DEF S
<1>5. ASSUME NEW x \in Nat, NEW y \in Nat, x = y \/ (y = 0 /\ x \in {0, 1})
      PROVE  x \div 2 = y \div 2 \/ (y \div 2 = 0 /\ x \div 2 \in {0, 1})
  BY <1>5
<1>6. e[b] = h[a + b] \/ (h[a + b] = 0 /\ e[b] \in {0, 1})
  <2> DEFINE S == {k \in 0 .. b : e[k] = h[a + k] \/ (h[a + k] = 0 /\ e[k] \in {0, 1})}
  <2>1. 0 \in S
    BY <1>1, <1>3, <1>4
  <2>2. ASSUME NEW k \in 0 .. b - 1, k \in S
        PROVE  k + 1 \in S
    <3>1. /\ k + 1 \in 0 .. b /\ k \in 0 .. b /\ a + k \in 0 .. (a + b) - 1
          /\ a + k \in 0 .. a + b /\ a + (k + 1) = (a + k) + 1
      OBVIOUS
    <3>2. e[k] \in Nat /\ h[a + k] \in Nat
      BY <3>1
    <3>3. e[k + 1] = e[k] \div 2 /\ h[a + (k + 1)] = h[a + k] \div 2
      BY <1>2, <1>3, <3>1
    <3>4. e[k] = h[a + k] \/ (h[a + k] = 0 /\ e[k] \in {0, 1})
      BY <2>2
    <3>5. e[k] \div 2 = h[a + k] \div 2 \/ (h[a + k] \div 2 = 0 /\ e[k] \div 2 \in {0, 1})
      BY <1>5, <3>2, <3>4
    <3> QED
      BY <3>1, <3>3, <3>5
  <2> HIDE DEF S
  <2>3. \A k \in 0 .. b : k \in S
    BY <2>1, <2>2, UpTo
  <2>4. b \in 0 .. b
    OBVIOUS
  <2> QED
    BY <2>3, <2>4 DEF S
<1> QED
  BY <1>2, <1>3, <1>6 DEF first

LEMMA HalvedType ==
  ASSUME NEW size \in AnySize, NEW by \in Nat
  PROVE  /\ Halved(size, by) \in AnySize /\ Halved(size, by) # NoLevel
         /\ Halved(size, by).w = Shifted(size.w, by) /\ Halved(size, by).d = Shifted(size.d, by)
<1>1. size.w \in Nat /\ size.d \in Nat
  BY DEF AnySize
<1>2. Shifted(size.w, by) \in Nat \ {0} /\ Shifted(size.d, by) \in Nat \ {0}
  BY <1>1, ShiftedType
<1> QED
  BY <1>2 DEF Halved, Extent, NoLevel, AnySize

LEMMA HalvedTwice ==
  ASSUME NEW size \in AnySize, NEW a \in Nat, NEW b \in Nat
  PROVE  Halved(Halved(size, a), b) = Halved(size, a + b)
<1>1. size.w \in Nat /\ size.d \in Nat
  BY DEF AnySize
<1>2. /\ Shifted(Shifted(size.w, a), b) = Shifted(size.w, a + b)
      /\ Shifted(Shifted(size.d, a), b) = Shifted(size.d, a + b)
  BY <1>1, ShiftedTwice
<1>3. /\ Halved(size, a).w = Shifted(size.w, a) /\ Halved(size, a).d = Shifted(size.d, a)
  BY HalvedType
<1>4. Halved(Halved(size, a), b) =
        Extent(Shifted(Shifted(size.w, a), b), Shifted(Shifted(size.d, a), b))
  BY <1>3 DEF Halved
<1> QED
  BY <1>2, <1>4 DEF Halved

-----------------------------------------------------------------------------
(* Textures: the record. *)

LEMMA LevelFacts ==
  /\ MaxLevel \in Nat /\ Levels \subseteq Nat /\ 0 \in Levels /\ NoLevel \in AnySize
  /\ IsFiniteSet(Levels) /\ Cardinality(Levels) = MaxLevel + 1
  /\ Sizes \subseteq Nat \ {0}
<1>1. MaxLevel \in Nat
  BY TextureBounds
<1>2. IsFiniteSet(0 .. MaxLevel) /\ Cardinality(0 .. MaxLevel) = MaxLevel + 1
  <2>1. MaxLevel - 0 + 1 = MaxLevel + 1 /\ 0 <= MaxLevel
    BY <1>1
  <2> QED
    BY <1>1, <2>1, FS_Interval
<1> QED
  BY <1>1, <1>2, TextureBounds DEF Levels, NoLevel, Extent, AnySize

\* A size that a program gives, and what an image records of it.
LEMMA SizeFacts ==
  ASSUME NEW t, NEW size \in Extents(t)
  PROVE  /\ size \in AnySize /\ size.w # 0 /\ size # NoLevel
         /\ Noted(t, size) \in AnySize /\ Noted(t, size) # NoLevel
         /\ Noted(t, size) = AsRecorded(size, t \in solid)
<1>1. size \in AnySize /\ size.w # 0
  <2>1. CASE t \in solid
    BY <2>1, TextureBounds DEF Extents, AnySize
  <2>2. CASE t \notin solid
    BY <2>2, TextureBounds DEF Extents, Extent, AnySize
  <2> QED
    BY <2>1, <2>2
<1>2. size # NoLevel /\ Extent(size.w, 0) \in AnySize /\ Extent(size.w, 0) # NoLevel
  BY <1>1 DEF NoLevel, Extent, AnySize
<1> QED
  BY <1>1, <1>2 DEF Noted, AsRecorded

\* The highest of some levels.
LEMMA Highest ==
  ASSUME NEW S \in SUBSET Levels, S # {}
  PROVE  \E l \in S : \A m \in S : m <= l
<1> DEFINE T == {MaxLevel - l : l \in S}
<1>1. T \in SUBSET Nat /\ T # {}
  <2>1. \A l \in S : MaxLevel - l \in Nat
    BY LevelFacts DEF Levels
  <2> QED
    BY <2>1
<1>2. PICK x \in T : \A y \in T : x <= y
  <2> HIDE DEF T
  <2> QED
    BY <1>1, Least
<1>3. PICK l \in S : x = MaxLevel - l
  BY <1>2
<1>4. ASSUME NEW m \in S
      PROVE  m <= l
  <2>1. MaxLevel - l <= MaxLevel - m
    BY <1>2, <1>3
  <2> QED
    BY <2>1, LevelFacts
<1> QED
  BY <1>4

\* A record takes a level.
LEMMA ImageTaken ==
  ASSUME NEW rec \in Records, Ordered(rec), NEW level \in Levels,
         NEW size \in AnySize, size # NoLevel
  PROVE  LET new == ImageRecord(rec, level, size)
         IN  /\ new \in Records /\ Ordered(new) /\ ~new.immutable
             /\ new.images = [rec.images EXCEPT ![level] = size]
             /\ \A l \in RecordedIn(new) : l < new.levels
             /\ new.levels - 1 \in RecordedIn(new)
<1> DEFINE new == ImageRecord(rec, level, size)
           images == [rec.images EXCEPT ![level] = size]
           there == {l \in Levels : images[l] # NoLevel}
           last == CHOOSE l \in Levels : /\ images[l] # NoLevel
                                         /\ \A m \in Levels : images[m] # NoLevel => m <= l
           order == IF rec.images[level] = NoLevel THEN Append(rec.order, level) ELSE rec.order
           base == IF images[0] = NoLevel THEN rec.base ELSE images[0]
<1>1. /\ new = [images |-> images, levels |-> last + 1, immutable |-> FALSE,
                order |-> order, base |-> base]
  BY DEF ImageRecord
<1>2. /\ rec.images \in [Levels -> AnySize] /\ rec.base \in AnySize
      /\ rec.order \in Seq(Levels)
  BY DEF Records, Ordered
<1>3. /\ images \in [Levels -> AnySize] /\ images[level] = size
      /\ \A l \in Levels : l # level => images[l] = rec.images[l]
  BY <1>2
<1>4. size # NoLevel
  OBVIOUS
<1> HIDE DEF images
<1>5. there = RecordedIn(rec) \cup {level}
  BY <1>3, <1>4 DEF RecordedIn
<1>6. base \in AnySize
  BY <1>2, <1>3, LevelFacts
<1>7. last \in there /\ \A m \in there : m <= last
  <2>1. there \in SUBSET Levels /\ there # {}
    BY <1>5
  <2>2. \E l \in there : \A m \in there : m <= l
    <3> HIDE DEF there
    <3> QED
      BY <2>1, Highest
  <2>3. \E l \in Levels : images[l] # NoLevel /\ \A m \in Levels : images[m] # NoLevel => m <= l
    BY <2>2
  <2> QED
    BY <2>3
<1> HIDE DEF last
<1>8. last \in Nat /\ last + 1 \in 0 .. MaxLevel + 1 /\ (last + 1) - 1 = last
      /\ \A m \in there : m < last + 1
  <2>1. \A m \in there : m \in Nat /\ m <= MaxLevel
    BY LevelFacts DEF Levels
  <2>2. last \in Nat /\ last <= MaxLevel
    BY <1>7, <2>1
  <2> HIDE DEF there
  <2> QED
    BY <1>7, <2>1, <2>2, LevelFacts
<1>9. IsFiniteSet(RecordedIn(rec)) /\ Cardinality(RecordedIn(rec)) \in Nat
      /\ IsFiniteSet(there) /\ Cardinality(there) <= MaxLevel + 1
  <2>1. RecordedIn(rec) \subseteq Levels /\ there \subseteq Levels
    BY DEF RecordedIn
  <2> HIDE DEF there
  <2> QED
    BY <2>1, LevelFacts, FS_Subset, FS_CardinalityType
<1>10. /\ order \in Seq(Levels) /\ Len(order) = Cardinality(there)
       /\ \A l \in Levels : l \in there <=> \E i \in 1 .. Len(order) : order[i] = l
  <2>1. CASE rec.images[level] = NoLevel
    <3>1. level \notin RecordedIn(rec)
      BY <2>1 DEF RecordedIn
    <3>2. Cardinality(there) = Cardinality(RecordedIn(rec)) + 1
      BY <1>5, <1>9, <3>1, FS_AddElement
    <3>3. /\ order = Append(rec.order, level) /\ order \in Seq(Levels)
          /\ Len(order) = Len(rec.order) + 1 /\ Len(rec.order) \in Nat
          /\ \A i \in 1 .. Len(rec.order) : order[i] = rec.order[i]
          /\ order[Len(rec.order) + 1] = level
      BY <1>2, <2>1
    <3>4. /\ \A i \in 1 .. Len(order) : i \in 1 .. Len(rec.order) \/ i = Len(rec.order) + 1
          /\ \A i \in 1 .. Len(rec.order) : i \in 1 .. Len(order)
          /\ Len(rec.order) + 1 \in 1 .. Len(order)
      <4> HIDE DEF order
      <4> QED
        BY <3>3
    <3> HIDE DEF order, there
    <3>5. ASSUME NEW l \in Levels
          PROVE  l \in there <=> \E i \in 1 .. Len(order) : order[i] = l
      BY <1>5, <3>3, <3>4 DEF Ordered
    <3> QED
      BY <3>2, <3>3, <3>5 DEF Ordered
  <2>2. CASE rec.images[level] # NoLevel
    <3>1. there = RecordedIn(rec)
      BY <1>5, <2>2 DEF RecordedIn
    <3> QED
      BY <2>2, <3>1 DEF Ordered
  <2> QED
    BY <2>1, <2>2
<1> HIDE DEF order, base
<1>11. order \in LevelOrders
  <2>1. Len(order) \in 0 .. MaxLevel + 1
    <3>1. Len(order) \in Nat /\ Len(order) <= MaxLevel + 1
      BY <1>9, <1>10
    <3> QED
      BY <3>1, LevelFacts
  <2>2. order \in [1 .. Len(order) -> Levels]
    <3>1. order \in Seq(Levels)
      BY <1>10
    <3> QED
      BY <3>1
  <2> QED
    BY <2>1, <2>2 DEF LevelOrders
<1>12. /\ new \in Records /\ ~new.immutable /\ new.images = images /\ new.order = order
       /\ new.levels = last + 1
  BY <1>1, <1>3, <1>6, <1>8, <1>11 DEF Records
<1>13. RecordedIn(new) = there
  BY <1>12 DEF RecordedIn
<1> HIDE DEF new, there
<1>14. Ordered(new)
  BY <1>10, <1>12, <1>13 DEF Ordered
<1> QED
  BY <1>7, <1>8, <1>12, <1>13, <1>14 DEF new, images

\* A record of fixed storage keeps its images.
LEMMA StorageTaken ==
  ASSUME NEW rec \in Records, Ordered(rec), NEW count \in 0 .. MaxLevel + 1, NEW base \in AnySize
  PROVE  LET new == ImmutableRecord(rec, count, base)
         IN  /\ new \in Records /\ Ordered(new) /\ new.immutable
             /\ new.levels = count /\ new.base = base
<1> DEFINE new == ImmutableRecord(rec, count, base)
<1>1. /\ new \in Records /\ new.immutable /\ new.levels = count /\ new.base = base
      /\ new.images = rec.images /\ new.order = rec.order
  BY DEF ImmutableRecord, Records
<1> HIDE DEF new
<1>2. RecordedIn(new) = RecordedIn(rec)
  BY <1>1 DEF RecordedIn
<1>3. Ordered(new)
  BY <1>1, <1>2 DEF Ordered
<1> QED
  BY <1>1, <1>3 DEF new

LEMMA NewTexture ==
  ASSUME NEW deep
  PROVE  /\ NewRecord \in Records /\ Ordered(NewRecord) /\ NewDriver \in Drivers
         /\ Known(NewRecord, NewDriver, "fresh", deep)
         /\ Known(NewRecord, NewDriver, "none", deep)
<1>1. <<>> \in LevelOrders
  <2>1. <<>> \in [1 .. 0 -> Levels] /\ 0 \in 0 .. MaxLevel + 1
    BY LevelFacts
  <2> QED
    BY <2>1 DEF LevelOrders
<1>2. NewRecord \in Records
  <2>1. 0 \in 0 .. MaxLevel + 1
    BY LevelFacts
  <2> QED
    BY <1>1, <2>1, LevelFacts DEF NewRecord, Records
<1>3. NewDriver \in Drivers
  BY LevelFacts DEF NewDriver, Drivers
<1>4. RecordedIn(NewRecord) = {}
  BY DEF RecordedIn, NewRecord
<1>5. Cardinality({}) = 0
  BY FS_EmptySet
<1>6. <<>> \in Seq(Levels) /\ Len(<<>>) = 0 /\ 1 .. 0 = {}
  OBVIOUS
<1>7. Ordered(NewRecord)
  BY <1>4, <1>5, <1>6 DEF NewRecord, Ordered
<1> QED
  BY <1>2, <1>3, <1>7 DEF Known, NewRecord, NewDriver

-----------------------------------------------------------------------------
(* Textures: the steps. *)

LEMMA InitTextures == TextureInit => TextureInv
<1> SUFFICES ASSUME TextureInit
             PROVE  TextureInv
  OBVIOUS
<1>1. \A t \in Textures : texRecord[t] = NewRecord /\ texDriver[t] = NewDriver /\ texHow[t] = "none"
  BY DEF TextureInit
<1>2. /\ texHow \in [Textures -> Hows] /\ texRecord \in [Textures -> Records]
      /\ texDriver \in [Textures -> Drivers]
  BY NewTexture DEF TextureInit, Hows
<1> QED
  BY <1>1, <1>2, NewTexture DEF TextureInv, TextureInit

\* A call that changes one texture keeps the invariant if it keeps what the
\* invariant says of that texture.
LEMMA OneTexture ==
  ASSUME TextureInv, NEW t \in Textures, NEW rec \in Records, NEW d \in Drivers,
         NEW how \in Hows, Becomes(t, rec, d, how), Ordered(rec),
         Known(rec, d, how, t \in solid)
  PROVE  TextureInv'
<1>1. /\ texRecord' = [texRecord EXCEPT ![t] = rec] /\ texDriver' = [texDriver EXCEPT ![t] = d]
      /\ texHow' = [texHow EXCEPT ![t] = how] /\ solid' = solid
  BY DEF Becomes
<1>2. /\ texHow' \in [Textures -> Hows] /\ texRecord' \in [Textures -> Records]
      /\ texDriver' \in [Textures -> Drivers]
  BY <1>1 DEF TextureInv
<1>3. ASSUME NEW u \in Textures
      PROVE  /\ Ordered(texRecord'[u])
             /\ Known(texRecord'[u], texDriver'[u], texHow'[u], u \in solid')
  <2>1. CASE u = t
    <3>1. texRecord'[u] = rec /\ texDriver'[u] = d /\ texHow'[u] = how
      BY <1>1, <2>1 DEF TextureInv
    <3>2. (u \in solid') = (t \in solid)
      BY <1>1, <2>1
    <3> QED
      BY <3>1, <3>2
  <2>2. CASE u # t
    <3>1. texRecord'[u] = texRecord[u] /\ texDriver'[u] = texDriver[u] /\ texHow'[u] = texHow[u]
      BY <1>1, <2>2 DEF TextureInv
    <3>2. (u \in solid') = (u \in solid)
      BY <1>1
    <3> QED
      BY <3>1, <3>2 DEF TextureInv
  <2> QED
    BY <2>1, <2>2
<1>4. solid' \in Solids
  BY <1>1 DEF TextureInv
<1> QED
  BY <1>2, <1>3, <1>4 DEF TextureInv, Ordered, Known, RecordedIn, AsRecorded, Halved

\* What the invariant says of a texture.
LEMMA TextureFacts ==
  ASSUME TextureInv, NEW t \in Textures
  PROVE  /\ texRecord[t] \in Records /\ texDriver[t] \in Drivers /\ texHow[t] \in Hows
         /\ Ordered(texRecord[t]) /\ Known(texRecord[t], texDriver[t], texHow[t], t \in solid)
  BY DEF TextureInv

\* Whatever became of the driver's levels, "mixed" claims nothing.
LEMMA MixedClaimsNothing ==
  ASSUME NEW rec, NEW d, NEW deep
  PROVE  Known(rec, d, "mixed", deep)
  BY DEF Known

\* The driver's levels stay, with a record that stays.
LEMMA LevelsStay ==
  ASSUME NEW rec, NEW d, NEW e, NEW how, NEW deep, Known(rec, d, how, deep),
         e.levels = d.levels, e.fixed = d.fixed
  PROVE  Known(rec, e, how, deep)
  BY DEF Known

LEMMA ParameterKeeps ==
  ASSUME TextureInv, NEW t \in Textures, TexParameter(t)
  PROVE  TextureInv'
<1> DEFINE d == [texDriver[t] EXCEPT !.bound = TRUE]
<1>1. d \in Drivers /\ d.levels = texDriver[t].levels /\ d.fixed = texDriver[t].fixed
  BY TextureFacts DEF Drivers
<1>2. Becomes(t, texRecord[t], d, texHow[t])
  BY DEF TexParameter
<1> HIDE DEF d
<1>3. Known(texRecord[t], d, texHow[t], t \in solid)
  BY <1>1, TextureFacts, LevelsStay
<1> QED
  BY <1>1, <1>2, <1>3, TextureFacts, OneTexture

\* The driver takes a level, unless its storage is fixed.
LEMMA DriverTakesImage ==
  ASSUME NEW d \in Drivers, NEW level \in Levels, NEW size \in AnySize
  PROVE  LET e == DriverImage(d, level, size)
         IN  /\ e \in Drivers /\ e.fixed = d.fixed
             /\ e.levels = IF d.fixed THEN d.levels ELSE [d.levels EXCEPT ![level] = size]
  BY DEF DriverImage, Drivers

LEMMA ImageKeeps ==
  ASSUME TextureInv, NEW t \in Textures, NEW level \in Levels, NEW size \in Extents(t),
         TexImage(t, level, size)
  PROVE  TextureInv'
<1> DEFINE rec == texRecord[t]
           d == texDriver[t]
           noted == Noted(t, size)
           new == ImageRecord(rec, level, noted)
           e == DriverImage(d, level, size)
           how == IF texHow[t] \in {"fresh", "images"} THEN "images" ELSE "mixed"
<1>1. rec \in Records /\ d \in Drivers /\ Ordered(rec)
      /\ Known(rec, d, texHow[t], t \in solid)
  BY TextureFacts
<1>2. Becomes(t, new, e, how)
  BY DEF TexImage
<1>3. /\ size \in AnySize /\ size.w # 0 /\ noted \in AnySize /\ noted # NoLevel
      /\ noted = AsRecorded(size, t \in solid)
  BY SizeFacts
<1> HIDE DEF noted, rec, d
<1>4. /\ new \in Records /\ Ordered(new) /\ ~new.immutable
      /\ new.images = [rec.images EXCEPT ![level] = noted]
      /\ \A l \in RecordedIn(new) : l < new.levels
      /\ new.levels - 1 \in RecordedIn(new)
  BY <1>1, <1>3, ImageTaken
<1>5. /\ e \in Drivers /\ e.fixed = d.fixed
      /\ e.levels = IF d.fixed THEN d.levels ELSE [d.levels EXCEPT ![level] = size]
  BY <1>1, <1>3, DriverTakesImage
<1> HIDE DEF new, e
<1>6. Known(new, e, how, t \in solid)
  <2>1. CASE texHow[t] \in {"fresh", "images"}
    <3>1. ~d.fixed /\ \A l \in Levels :
             /\ rec.images[l] = AsRecorded(d.levels[l], t \in solid)
             /\ d.levels[l] = NoLevel \/ d.levels[l].w # 0
      <4>1. CASE texHow[t] = "fresh"
        <5>1. ~d.fixed /\ \A l \in Levels : rec.images[l] = NoLevel /\ d.levels[l] = NoLevel
          BY <1>1, <4>1 DEF Known
        <5>2. AsRecorded(NoLevel, t \in solid) = NoLevel
          BY DEF AsRecorded, NoLevel, Extent
        <5> QED
          BY <5>1, <5>2
      <4>2. CASE texHow[t] = "images"
        BY <1>1, <4>2 DEF Known
      <4> QED
        BY <2>1, <4>1, <4>2
    <3>2. /\ rec.images \in [Levels -> AnySize] /\ d.levels \in [Levels -> AnySize]
      BY <1>1 DEF Records, Drivers
    <3>3. ASSUME NEW l \in Levels
          PROVE  /\ new.images[l] = AsRecorded(e.levels[l], t \in solid)
                 /\ e.levels[l] = NoLevel \/ e.levels[l].w # 0
      <4>1. CASE l = level
        <5>1. new.images[l] = noted /\ e.levels[l] = size
          BY <1>4, <1>5, <3>1, <3>2, <4>1
        <5> QED
          BY <1>3, <5>1
      <4>2. CASE l # level
        <5>1. new.images[l] = rec.images[l] /\ e.levels[l] = d.levels[l]
          BY <1>4, <1>5, <3>1, <3>2, <4>2
        <5> QED
          BY <3>1, <5>1
      <4> QED
        BY <4>1, <4>2
    <3>4. ~e.fixed /\ how = "images"
      BY <1>5, <2>1, <3>1
    <3> HIDE DEF how
    <3> QED
      BY <1>4, <3>3, <3>4 DEF Known
  <2>2. CASE texHow[t] \notin {"fresh", "images"}
    <3>1. how = "mixed"
      BY <2>2
    <3> QED
      BY <3>1, MixedClaimsNothing
  <2> QED
    BY <2>1, <2>2
<1>7. how \in Hows
  BY DEF Hows
<1> HIDE DEF how
<1> QED
  BY <1>2, <1>4, <1>5, <1>6, <1>7, OneTexture

\* Calls that change the driver's levels behind the record.
LEMMA BehindTheRecord ==
  ASSUME TextureInv, NEW t \in Textures, NEW d \in Drivers, d.fixed = texDriver[t].fixed,
         Becomes(t, texRecord[t], d,
                 IF d.levels = texDriver[t].levels THEN texHow[t] ELSE "mixed")
  PROVE  TextureInv'
<1> DEFINE how == IF d.levels = texDriver[t].levels THEN texHow[t] ELSE "mixed"
<1>1. Known(texRecord[t], d, how, t \in solid)
  BY TextureFacts, LevelsStay, MixedClaimsNothing
<1>2. how \in Hows
  BY TextureFacts DEF Hows
<1> HIDE DEF how
<1> QED
  BY <1>1, <1>2, TextureFacts, OneTexture DEF how

LEMMA CopyImageKeeps ==
  ASSUME TextureInv, NEW t \in Textures, NEW level \in Levels, NEW size \in Extents(t),
         CopyTexImage(t, level, size)
  PROVE  TextureInv'
<1> DEFINE d == DriverImage(texDriver[t], level, size)
<1>1. d \in Drivers /\ d.fixed = texDriver[t].fixed
  BY SizeFacts, TextureFacts, DriverTakesImage
<1>2. Becomes(t, texRecord[t], d, IF d.levels = texDriver[t].levels THEN texHow[t] ELSE "mixed")
  BY DEF CopyTexImage
<1> HIDE DEF d
<1> QED
  BY <1>1, <1>2, BehindTheRecord

LEMMA MipmapKeeps ==
  ASSUME TextureInv, NEW t \in Textures, GenerateMipmap(t)
  PROVE  TextureInv'
<1> DEFINE old == texDriver[t]
           d == DriverMipmap(old)
<1>1. old \in Drivers
  BY TextureFacts
<1> HIDE DEF old
<1>2. /\ old.levels \in [Levels -> AnySize] /\ old.levels[0] \in AnySize
      /\ \A l \in Levels : Halved(old.levels[0], l) \in AnySize
  BY <1>1, LevelFacts, HalvedType DEF Drivers
<1>3. d \in Drivers /\ d.fixed = old.fixed
  BY <1>1, <1>2 DEF DriverMipmap, Drivers
<1>4. Becomes(t, texRecord[t], d, IF d.levels = old.levels THEN texHow[t] ELSE "mixed")
  BY DEF GenerateMipmap, old
<1> HIDE DEF d
<1> QED
  BY <1>3, <1>4, BehindTheRecord DEF old

LEMMA StoreKeeps ==
  ASSUME TextureInv, NEW t \in Textures, NEW count \in 1 .. MaxLevel + 1, NEW base \in Extents(t),
         StoreLevels(t, count, base)
  PROVE  TextureInv'
<1> DEFINE d == texDriver[t]
           new == ImmutableRecord(texRecord[t], count, base)
           e == DriverStorage(d, count, base)
           stores == DriverStores(d, count, base)
           how == IF stores THEN "storage" ELSE "mixed"
<1>0. base \in AnySize /\ count \in 0 .. MaxLevel + 1
  BY LevelFacts, SizeFacts
<1>1. /\ new \in Records /\ Ordered(new) /\ new.immutable
      /\ new.levels = count /\ new.base = base
  BY <1>0, TextureFacts, StorageTaken
<1>2. d \in Drivers /\ Becomes(t, new, e, how)
  BY TextureFacts DEF StoreLevels
<1>3. e = IF stores
            THEN [bound |-> TRUE, fixed |-> TRUE,
                  levels |-> [l \in Levels |-> IF l < count THEN Halved(base, l) ELSE NoLevel]]
            ELSE [d EXCEPT !.bound = TRUE]
  BY DEF DriverStorage
<1>4. \A l \in Levels : Halved(base, l) \in AnySize
  BY <1>0, LevelFacts, HalvedType
<1> HIDE DEF new, stores, d
<1>5. e \in Drivers
  <2>1. CASE stores
    <3>1. \A l \in Levels : (IF l < count THEN Halved(base, l) ELSE NoLevel) \in AnySize
      BY <1>4, LevelFacts
    <3> QED
      BY <1>3, <2>1, <3>1 DEF Drivers
  <2>2. CASE ~stores
    BY <1>2, <1>3, <2>2 DEF Drivers
  <2> QED
    BY <2>1, <2>2
<1>6. Known(new, e, how, t \in solid)
  <2>1. CASE stores
    <3>1. \A l \in Levels : e.levels[l] = IF l < count THEN Halved(base, l) ELSE NoLevel
      BY <1>3, <2>1
    <3> HIDE DEF e
    <3> QED
      BY <1>1, <2>1, <3>1 DEF Known
  <2>2. CASE ~stores
    BY <2>2, MixedClaimsNothing
  <2> QED
    BY <2>1, <2>2
<1>7. how \in Hows
  BY DEF Hows
<1> HIDE DEF e, how
<1> QED
  BY <1>1, <1>2, <1>5, <1>6, <1>7, OneTexture

\* A view of fixed storage has the levels of its origin from the first one it takes.
LEMMA ViewKeeps ==
  ASSUME TextureInv, NEW t \in Textures, NEW origin \in Textures, NEW min \in Levels,
         NEW count \in 0 .. MaxLevel + 1, TextureView(t, origin, min, count)
  PROVE  TextureInv'
<1> DEFINE d == texDriver[t]
           source == texDriver[origin]
           from == texRecord[origin]
           base == Halved(from.base, min)
           new == ImmutableRecord(texRecord[t], count, base)
           e == DriverView(t, origin, min, count)
           views == DriverViews(t, origin, min)
           how == IF texHow[origin] = "storage" /\ views THEN "storage" ELSE "mixed"
<1>1. /\ d \in Drivers /\ source \in Drivers /\ from \in Records /\ from.base \in AnySize
      /\ from.levels \in 0 .. MaxLevel + 1
      /\ Known(from, source, texHow[origin], origin \in solid)
  <2>1. d \in Drivers /\ source \in Drivers /\ from \in Records
        /\ Known(from, source, texHow[origin], origin \in solid)
    BY TextureFacts
  <2> QED
    BY <2>1 DEF Records
<1>2. /\ min + count <= from.levels /\ Becomes(t, new, e, how)
  BY DEF TextureView
<1>3. min \in Nat /\ count \in Nat /\ base \in AnySize
  <2>1. min \in Nat /\ count \in Nat
    BY LevelFacts
  <2> HIDE DEF from
  <2> QED
    BY <1>1, <2>1, HalvedType
<1>4. /\ new \in Records /\ Ordered(new) /\ new.immutable
      /\ new.levels = count /\ new.base = base
  BY <1>3, TextureFacts, StorageTaken
<1>5. e = IF views
            THEN [bound |-> TRUE, fixed |-> TRUE,
                  levels |-> [l \in Levels |-> IF l < count /\ min + l \in Levels
                                               THEN source.levels[min + l] ELSE NoLevel]]
            ELSE d
  BY DEF DriverView
<1> HIDE DEF new, views, d, source, from
<1>6. e \in Drivers
  BY <1>1, <1>5, LevelFacts DEF Drivers
<1>7. Known(new, e, how, t \in solid)
  <2>1. CASE texHow[origin] = "storage" /\ views
    <3>1. ASSUME NEW l \in Levels
          PROVE  e.levels[l] = IF l < count THEN Halved(base, l) ELSE NoLevel
      <4>1. e.levels[l] = IF l < count /\ min + l \in Levels
                            THEN source.levels[min + l] ELSE NoLevel
        BY <1>5, <2>1
      <4>2. CASE l < count
        <5>1. l \in Nat /\ min + l \in Levels /\ min + l < from.levels
          BY <1>1, <1>2, <1>3, <4>2, LevelFacts DEF Levels
        <5>2. source.levels[min + l] = Halved(from.base, min + l)
          BY <1>1, <2>1, <5>1 DEF Known
        <5>3. Halved(from.base, min + l) = Halved(base, l)
          BY <1>1, <1>3, <5>1, HalvedTwice
        <5> QED
          BY <4>1, <4>2, <5>1, <5>2, <5>3
      <4>3. CASE ~(l < count)
        BY <4>1, <4>3
      <4> QED
        BY <4>2, <4>3
    <3> HIDE DEF e, base
    <3> QED
      BY <1>4, <2>1, <3>1 DEF Known
  <2>2. CASE ~(texHow[origin] = "storage" /\ views)
    BY <2>2, MixedClaimsNothing
  <2> QED
    BY <2>1, <2>2
<1>8. how \in Hows
  BY DEF Hows
<1> HIDE DEF e, how
<1> QED
  BY <1>2, <1>4, <1>6, <1>7, <1>8, OneTexture

LEMMA StepTextures == TextureInv /\ [TextureNext]_texVars => TextureInv'
<1> SUFFICES ASSUME TextureInv, [TextureNext]_texVars
             PROVE  TextureInv'
  OBVIOUS
<1>1. ASSUME NEW t \in Textures, CreateTexture(t) \/ DeleteTexture(t)
      PROVE  TextureInv'
  <2>1. "fresh" \in Hows /\ "none" \in Hows
    BY DEF Hows
  <2> QED
    BY <1>1, <2>1, NewTexture, OneTexture DEF CreateTexture, DeleteTexture
<1>2. ASSUME NEW t \in Textures, NEW level \in Levels, NEW size \in Extents(t),
             \/ TexImage(t, level, size) \/ CompressedTexImage(t, level, size)
             \/ CopyTexImage(t, level, size)
      PROVE  TextureInv'
  BY <1>2, ImageKeeps, CopyImageKeeps DEF CompressedTexImage
<1>3. ASSUME NEW t \in Textures, NEW level \in Levels, NEW size \in Extents(t),
             TexStorage(t, level + 1, size) \/ TextureStorage(t, level + 1, size)
      PROVE  TextureInv'
  <2>1. level + 1 \in 1 .. MaxLevel + 1
    BY LevelFacts DEF Levels
  <2>2. StoreLevels(t, level + 1, size)
    BY <1>3 DEF TexStorage, TextureStorage
  <2> QED
    BY <2>1, <2>2, StoreKeeps
<1>4. CASE UNCHANGED texVars
  <2>1. UNCHANGED <<solid, texRecord, texDriver, texHow>>
    BY <1>4 DEF texVars
  <2>2. \A t \in Textures : /\ Ordered(texRecord'[t])
                            /\ Known(texRecord'[t], texDriver'[t], texHow'[t], t \in solid')
    BY <2>1 DEF TextureInv
  <2>3. /\ texHow' \in [Textures -> Hows] /\ texRecord' \in [Textures -> Records]
        /\ texDriver' \in [Textures -> Drivers] /\ solid' \in Solids
    BY <2>1 DEF TextureInv
  <2> QED
    BY <2>2, <2>3 DEF TextureInv, Ordered, Known, RecordedIn, AsRecorded, Halved
<1> QED
  BY <1>1, <1>2, <1>3, <1>4, ParameterKeeps, MipmapKeeps, ViewKeeps DEF TextureNext

LEMMA TexturesAlways == TextureSpec => []TextureInv
  BY InitTextures, StepTextures, PTL DEF TextureSpec

LEMMA TextureTypes == TextureInv => TextureTypeOK
<1> SUFFICES ASSUME TextureInv
             PROVE  TextureTypeOK
  OBVIOUS
<1> QED
  BY DEF TextureInv, TextureTypeOK, Records, Drivers, Hows

-----------------------------------------------------------------------------
(* Textures: what the record answers. *)

\* Made by images: the record has the driver's levels.
LEMMA ImagesServe ==
  ASSUME TextureInv, NEW t \in Textures, NEW level \in Levels,
         NEW size \in [w : Sizes, d : Sizes],
         texHow[t] = "images"
  PROVE  /\ TexSubImageAccepts(t, level, size) <=> Wide(t, level, size)
         /\ Allowed(t, level, size) =>
              /\ TextureSubImageAccepts(t, level, size)
              /\ CompressedSubImageAccepts(t, level)
              /\ ClearTexImageAccepts(t, level)
<1>1. Known(texRecord[t], texDriver[t], "images", t \in solid)
      /\ texDriver[t].levels[level] \in AnySize
  BY TextureFacts DEF Drivers
<1> DEFINE image == texRecord[t].images[level]
           have == texDriver[t].levels[level]
<1>2. /\ ~texRecord[t].immutable
      /\ image = AsRecorded(have, t \in solid) /\ (have = NoLevel \/ have.w # 0)
      /\ image # NoLevel => level < texRecord[t].levels
  BY <1>1 DEF Known, RecordedIn
<1> HIDE DEF image, have
<1>3. image.w = have.w /\ (image = NoLevel <=> have = NoLevel)
  BY <1>1, <1>2 DEF AsRecorded, Extent, NoLevel, AnySize, have
<1>4. TexSubImageAccepts(t, level, size) <=> Wide(t, level, size)
  BY <1>3 DEF TexSubImageAccepts, Recorded, Wide, image, have
<1>5. Allowed(t, level, size) => image # NoLevel
  BY <1>3 DEF Allowed, Wide, have
<1> QED
  BY <1>2, <1>4, <1>5
     DEF TextureSubImageAccepts, CompressedSubImageAccepts, ClearTexImageAccepts, Recorded,
         image

\* Made by images from level 0 on: the place of a level in the record is the level.
LEMMA OrderedImagesServe ==
  ASSUME TextureInv, NEW t \in Textures, NEW level \in Levels,
         NEW size \in [w : Sizes, d : Sizes],
         texHow[t] = "images", t \in solid, InOrder(texRecord[t].order)
  PROVE  CopyImageAccepts(t, level, size) <=> Allowed(t, level, size)
<1> DEFINE rec == texRecord[t]
           n == Len(rec.order)
<1>1. Known(rec, texDriver[t], "images", t \in solid) /\ Ordered(rec)
  BY TextureFacts
<1>2. /\ ~rec.immutable
      /\ \A l \in Levels : texDriver[t].levels[l] = rec.images[l]
      /\ \A l \in RecordedIn(rec) : l < rec.levels
      /\ rec.levels - 1 \in RecordedIn(rec)
  BY <1>1 DEF Known, AsRecorded
<1>3. /\ n \in Nat /\ \A i \in 1 .. n : rec.order[i] = i - 1
      /\ \A l \in Levels : l \in RecordedIn(rec) <=> \E i \in 1 .. n : rec.order[i] = l
  <2>1. rec.order \in Seq(Levels)
    BY <1>1 DEF Ordered
  <2>2. DOMAIN rec.order = 1 .. n
    BY <2>1
  <2> QED
    BY <1>1, <2>1, <2>2 DEF InOrder, Ordered
<1>4. rec.levels \in Nat
  BY TextureFacts, LevelFacts DEF Records
<1> HIDE DEF n, rec
<1>5. \A l \in Levels : l \in RecordedIn(rec) <=> l < n
  <2>1. ASSUME NEW l \in Levels, l < n
        PROVE  l \in RecordedIn(rec)
    <3>1. l + 1 \in 1 .. n /\ (l + 1) - 1 = l
      BY <1>3, <2>1, LevelFacts
    <3> QED
      BY <1>3, <3>1
  <2>2. ASSUME NEW l \in Levels, l \in RecordedIn(rec)
        PROVE  l < n
    <3>1. PICK i \in 1 .. n : rec.order[i] = l
      BY <1>3, <2>2
    <3>2. l = i - 1
      BY <1>3, <3>1
    <3> QED
      BY <1>3, <3>2
  <2> QED
    BY <2>1, <2>2
<1>6. \A l \in Levels : l < rec.levels <=> l < n
  <2>1. rec.levels - 1 \in Levels /\ rec.levels - 1 < n
    BY <1>2, <1>5 DEF RecordedIn
  <2>2. \A l \in Levels : l < rec.levels => l < n
    BY <1>3, <1>4, <2>1, LevelFacts
  <2>3. \A l \in Levels : l < n => l < rec.levels
    BY <1>2, <1>5
  <2> QED
    BY <2>2, <2>3
<1>7. level < n => rec.order[level + 1] = level
  <2>1. level < n => level + 1 \in 1 .. n /\ (level + 1) - 1 = level
    BY <1>3, LevelFacts
  <2> QED
    BY <1>3, <2>1
<1>8. CopyImageAccepts(t, level, size) <=>
        level < n /\ size.w <= rec.images[level].w /\ size.d <= rec.images[level].d
  BY <1>2, <1>6, <1>7 DEF CopyImageAccepts, rec, n
<1>9. Allowed(t, level, size) <=>
        level \in RecordedIn(rec) /\ size.w <= rec.images[level].w /\ size.d <= rec.images[level].d
  BY <1>2 DEF Allowed, Wide, RecordedIn
<1> QED
  BY <1>5, <1>8, <1>9

\* Made by storage, or a view of such: the record has the driver's sizes.
LEMMA StorageServes ==
  ASSUME TextureInv, NEW t \in Textures, NEW level \in Levels,
         NEW size \in [w : Sizes, d : Sizes],
         texHow[t] = "storage"
  PROVE  /\ LevelSize(t, level) = texDriver[t].levels[level]
         /\ CopyImageAccepts(t, level, size) <=> Allowed(t, level, size)
         /\ Allowed(t, level, size) =>
              /\ TextureSubImageAccepts(t, level, size)
              /\ CompressedSubImageAccepts(t, level)
              /\ ClearTexImageAccepts(t, level)
<1>1. Known(texRecord[t], texDriver[t], "storage", t \in solid)
      /\ texRecord[t].base \in AnySize
  BY TextureFacts DEF Records
<1>2. /\ texRecord[t].immutable
      /\ texDriver[t].levels[level] =
           IF level < texRecord[t].levels THEN Halved(texRecord[t].base, level) ELSE NoLevel
  BY <1>1 DEF Known
<1> DEFINE half == Halved(texRecord[t].base, level)
<1>3. half # NoLevel /\ half.w = Shifted(texRecord[t].base.w, level)
  BY <1>1, LevelFacts, HalvedType
<1>4. LevelSize(t, level) = texDriver[t].levels[level]
  BY <1>2 DEF LevelSize
<1>5. Allowed(t, level, size) <=>
        level < texRecord[t].levels /\ size.w <= half.w /\ size.d <= half.d
  BY <1>2, <1>3 DEF Allowed, Wide
<1>6. CopyImageAccepts(t, level, size) <=> Allowed(t, level, size)
  BY <1>2, <1>5 DEF CopyImageAccepts
<1>7. Allowed(t, level, size) => TextureSubImageAccepts(t, level, size)
  <2> HIDE DEF half
  <2> QED
    BY <1>2, <1>3, <1>5 DEF TextureSubImageAccepts
<1> QED
  BY <1>2, <1>4, <1>5, <1>6, <1>7 DEF CompressedSubImageAccepts, ClearTexImageAccepts

\* What the record answers of the driver's levels, for textures of any number of
\* levels and of any size, and for views of views of any depth.
THEOREM RecordsServe == TextureSpec => []RecordServesUpdates
<1>1. ASSUME TextureInv PROVE RecordServesUpdates
  BY <1>1, ImagesServe, OrderedImagesServe, StorageServes DEF RecordServesUpdates
<1>2. TextureInv => RecordServesUpdates
  BY <1>1
<1> QED
  BY <1>2, TexturesAlways, PTL

-----------------------------------------------------------------------------
(* The three together. *)

\* Each has its types, whichever of them moves.
THEOREM DrawInputTypes == MCSpec => []MCTypeOK
<1> DEFINE Inv == VertexInv /\ IndexedInv /\ TextureInv
<1>1. MCInit => Inv
  BY InitVertex, InitIndexed, InitTextures DEF MCInit
<1>2. Inv /\ [MCNext]_<<moves, vars, indexedVars, texVars>> => Inv'
  <2> SUFFICES ASSUME Inv, [MCNext]_<<moves, vars, indexedVars, texVars>>
               PROVE  Inv'
    OBVIOUS
  <2>1. /\ [Next]_vars /\ [IndexedNext]_indexedVars /\ [TextureNext]_texVars
    BY DEF MCNext
  <2> QED
    BY <2>1, StepVertex, StepIndexed, StepTextures
<1>3. Inv => MCTypeOK
  BY VertexTypes, IndexedTypes, TextureTypes DEF MCTypeOK
<1> QED
  BY <1>1, <1>2, <1>3, PTL DEF MCSpec
=============================================================================
