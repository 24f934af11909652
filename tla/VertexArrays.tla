---------------------------- MODULE VertexArrays ----------------------------
(***************************************************************************)
(* Vertex arrays: the attributes, binding points and element buffer that   *)
(* Context records on a VertexArrayObject, and flushState, which pushes    *)
(* the bound one to the driver when vertexStateDirty_ is set.              *)
(***************************************************************************)
EXTENDS Integers, Functions

CONSTANTS
  VAOs,         \* names of vertex arrays; 0 is the default one
  Attribs,      \* attribute indices
  Points,       \* indices of binding points; every attribute has one of its own
  Sources,      \* a vertex buffer with an offset and a stride
  NoSource,     \* binding points start with no buffer
  Formats,      \* size, type, normalization and relative offset
  Divisors,     \* divisors of instanced attributes; 0 is the default
  Buffers,      \* element buffers
  NoBuffer

ASSUME PointsType       == Attribs \cup {0} \subseteq Points
ASSUME DefaultVAO       == 0 \in VAOs /\ VAOs \subseteq Nat
ASSUME DefaultDivisor   == 0 \in Divisors
ASSUME FormatsType      == Formats # {}
ASSUME NoSourceType     == NoSource \notin Sources
ASSUME NoBufferType     == NoBuffer \notin Buffers

VARIABLES
  vaos,        \* vertexArrays_, with the default one
  attribs,     \* VertexArrayObject::attribs: the recorded attributes
  bindings,    \* VertexArrayObject::bindings
  element,     \* VertexArrayObject::elementBuffer
  bound,       \* boundVertexArray_
  dirty,       \* vertexStateDirty_
  driver,      \* the driver's vertex arrays
  current      \* the driver's bound vertex array

frontend == <<vaos, attribs, bindings, element, bound, dirty>>
vars == <<frontend, driver, current>>

DefaultFormat == CHOOSE f \in Formats : TRUE

Attrib   == [enabled : BOOLEAN, format : Formats, binding : Points, divisor : Divisors]
Binding  == [source : Sources \cup {NoSource}, divisor : Divisors]
Pushed   == [enabled : BOOLEAN, format : Formats,
             source : Sources \cup {NoSource}, divisor : Divisors]
Elements == Buffers \cup {NoBuffer}

\* AttribState{} and VertexBufferBinding{}: a default attribute i sources from
\* binding point 0, not i.
DefaultAttrib  == [enabled |-> FALSE, format |-> DefaultFormat, binding |-> 0, divisor |-> 0]
DefaultBinding == [source |-> NoSource, divisor |-> 0]
DefaultPushed  == [enabled |-> FALSE, format |-> DefaultFormat, source |-> NoSource,
                   divisor |-> 0]
EmptyVAO       == [attribs |-> [i \in Attribs |-> DefaultPushed], element |-> NoBuffer]

TypeOK ==
  /\ vaos \subseteq VAOs /\ 0 \in vaos /\ bound \in vaos /\ current \in vaos
  /\ \A v \in VAOs : /\ DOMAIN attribs[v] \subseteq Attribs
                     /\ Range(attribs[v]) \subseteq Attrib
  /\ bindings \in [VAOs -> [Points -> Binding]]
  /\ element \in [VAOs -> Elements]
  /\ dirty \in BOOLEAN
  /\ driver \in [VAOs -> [attribs : [Attribs -> Pushed], element : Elements]]

Init ==
  /\ vaos = {0} /\ bound = 0 /\ current = 0 /\ dirty = FALSE
  /\ attribs = [v \in VAOs |-> <<>>]
  /\ bindings = [v \in VAOs |-> [p \in Points |-> DefaultBinding]]
  /\ element = [v \in VAOs |-> NoBuffer]
  /\ driver = [v \in VAOs |-> EmptyVAO]

-----------------------------------------------------------------------------
(* The life of vertex arrays. *)

GenVertexArray(v) ==
  /\ v \notin vaos
  /\ vaos' = vaos \cup {v}
  /\ UNCHANGED <<attribs, bindings, element, bound, dirty, driver, current>>

\* Binding does not mark the vertex state as changed.
BindVertexArray(v) ==
  /\ v \in vaos
  /\ bound' = v
  /\ UNCHANGED <<vaos, attribs, bindings, element, dirty, driver, current>>

\* A name is not used again in the code; here it stands for the next one, and
\* starts empty.
Forget(v) ==
  /\ attribs' = [attribs EXCEPT ![v] = <<>>]
  /\ bindings' = [bindings EXCEPT ![v] = [p \in Points |-> DefaultBinding]]
  /\ element' = [element EXCEPT ![v] = NoBuffer]
  /\ driver' = [driver EXCEPT ![v] = EmptyVAO]

\* Keeping the deleted array bound.
MutDeleteVertexArray(v) ==
  /\ v \in vaos \ {0}
  /\ vaos' = vaos \ {v}
  /\ bound' = bound
  /\ current' = IF current = v THEN 0 ELSE current
  /\ Forget(v)
  /\ UNCHANGED dirty

\* The driver falls back to its default array when its bound one is deleted.
DeleteVertexArray(v) ==
  /\ v \in vaos \ {0}
  /\ vaos' = vaos \ {v}
  /\ bound' = IF bound = v THEN 0 ELSE bound
  /\ current' = IF current = v THEN 0 ELSE current
  /\ Forget(v)
  /\ UNCHANGED dirty
-----------------------------------------------------------------------------
(* Edits of vertex array v: the bound one for the gl* forms, any existing one
   for the glVertexArray* forms (direct state access). *)

\* attrib(i) records the attribute it is asked for.
AttribOf(v, i) == IF i \in DOMAIN attribs[v] THEN attribs[v][i] ELSE DefaultAttrib

Record(v, i, a) ==
  attribs' = [attribs EXCEPT ![v] =
                [j \in DOMAIN attribs[v] \cup {i} |-> IF j = i THEN a ELSE attribs[v][j]]]

Edited(v) ==
  /\ v \in vaos
  /\ dirty' = TRUE
  /\ UNCHANGED <<vaos, bound, driver, current>>

\* glVertexAttrib*: the current value, which is not pushed; the attribute is
\* recorded, and pushed with the rest, but does not mark the vertex state.
VertexAttrib(i) ==
  /\ Record(bound, i, AttribOf(bound, i))
  /\ UNCHANGED <<vaos, bound, dirty, driver, current, bindings, element>>

EnableAttrib(v, i, on) ==
  /\ Record(v, i, [AttribOf(v, i) EXCEPT !.enabled = on])
  /\ Edited(v)
  /\ UNCHANGED <<bindings, element>>

\* glVertexAttribPointer, glVertexAttribIPointer: enables the attribute, makes
\* its binding point its own and gives that point the attribute's divisor.
VertexAttribPointer(i, f, s) ==
  LET a == AttribOf(bound, i) IN
  /\ Record(bound, i, [a EXCEPT !.enabled = TRUE, !.format = f, !.binding = i])
  /\ bindings' = [bindings EXCEPT ![bound][i] = [source |-> s, divisor |-> a.divisor]]
  /\ Edited(bound)
  /\ UNCHANGED element

\* glVertexAttribDivisor: of the attribute and of its binding point.
VertexAttribDivisor(i, d) ==
  LET a == AttribOf(bound, i) IN
  /\ Record(bound, i, [a EXCEPT !.divisor = d])
  /\ bindings' = [bindings EXCEPT ![bound][a.binding].divisor = d]
  /\ Edited(bound)
  /\ UNCHANGED element

AttribFormat(v, i, f) ==
  /\ Record(v, i, [AttribOf(v, i) EXCEPT !.format = f])
  /\ Edited(v)
  /\ UNCHANGED <<bindings, element>>

AttribBinding(v, i, b) ==
  /\ Record(v, i, [AttribOf(v, i) EXCEPT !.binding = b])
  /\ Edited(v)
  /\ UNCHANGED <<bindings, element>>

VertexBuffer(v, b, s) ==
  /\ bindings' = [bindings EXCEPT ![v][b].source = s]
  /\ Edited(v)
  /\ UNCHANGED <<attribs, element>>

BindingDivisor(v, b, d) ==
  /\ bindings' = [bindings EXCEPT ![v][b].divisor = d]
  /\ Edited(v)
  /\ UNCHANGED <<attribs, element>>

ElementBuffer(v, e) ==
  /\ element' = [element EXCEPT ![v] = e]
  /\ Edited(v)
  /\ UNCHANGED <<attribs, bindings>>

\* glBindBuffer(GL_ELEMENT_ARRAY_BUFFER, e) is recorded on the context only, and
\* glBufferData and its kin on that target bind e in the driver, and so to the
\* vertex array the driver has bound.
UploadElements(e) ==
  /\ driver' = [driver EXCEPT ![current].element = e]
  /\ UNCHANGED <<frontend, current>>
-----------------------------------------------------------------------------
(* Drawing. *)

\* Leaving out the call that disables an attribute.
MutPushEnabled(v, i, old) ==
  LET a == attribs[v][i]
      b == bindings[v][a.binding]
  IN  [enabled |-> a.enabled \/ old.enabled, format |-> a.format, source |-> b.source,
       divisor |-> IF b.divisor # 0 THEN b.divisor ELSE old.divisor]

\* What a recorded attribute is pushed as; a divisor of 0 is not pushed.
Push(v, i, old) ==
  LET a == attribs[v][i]
      b == bindings[v][a.binding]
  IN  [enabled |-> a.enabled, format |-> a.format, source |-> b.source,
       divisor |-> IF b.divisor # 0 THEN b.divisor ELSE old.divisor]

FlushVertexArray(v) ==
  [attribs |-> [i \in Attribs |-> IF i \in DOMAIN attribs[v]
                                    THEN Push(v, i, driver[v].attribs[i])
                                    ELSE driver[v].attribs[i]],
   element |-> IF element[v] # NoBuffer THEN element[v] ELSE driver[v].element]

\* A draw flushes and then uses the array the driver has bound; glClear only
\* flushes.
FlushState ==
  /\ IF dirty THEN /\ current' = bound
                   /\ driver' = [driver EXCEPT ![bound] = FlushVertexArray(bound)]
              ELSE UNCHANGED <<driver, current>>
  /\ dirty' = FALSE
  /\ UNCHANGED <<vaos, attribs, bindings, element, bound>>

Next ==
  \/ \E v \in VAOs : GenVertexArray(v) \/ BindVertexArray(v) \/ DeleteVertexArray(v)
  \/ \E v \in VAOs, i \in Attribs, on \in BOOLEAN : EnableAttrib(v, i, on)
  \/ \E i \in Attribs : VertexAttrib(i)
  \/ \E i \in Attribs, f \in Formats, s \in Sources \cup {NoSource} :
       VertexAttribPointer(i, f, s)
  \/ \E i \in Attribs, d \in Divisors : VertexAttribDivisor(i, d)
  \/ \E v \in VAOs, i \in Attribs, f \in Formats : AttribFormat(v, i, f)
  \/ \E v \in VAOs, i \in Attribs, b \in Points : AttribBinding(v, i, b)
  \/ \E v \in VAOs, b \in Points, s \in Sources \cup {NoSource} : VertexBuffer(v, b, s)
  \/ \E v \in VAOs, b \in Points, d \in Divisors : BindingDivisor(v, b, d)
  \/ \E v \in VAOs, e \in Elements : ElementBuffer(v, e)
  \/ \E e \in Buffers : UploadElements(e)
  \/ FlushState

Spec == Init /\ [][Next]_vars
-----------------------------------------------------------------------------
\* An attribute of the bound vertex array as the frontend holds it.
Resolved(i) ==
  LET a == AttribOf(bound, i)
      b == bindings[bound][a.binding]
  IN  IF i \in DOMAIN attribs[bound]
        THEN [enabled |-> a.enabled, format |-> a.format, source |-> b.source,
              divisor |-> b.divisor]
        ELSE DefaultPushed

\* Divisors of 0 apart, which Push does not send.
SameAttrib(p, q) ==
  /\ p.enabled = q.enabled /\ p.format = q.format /\ p.source = q.source
  /\ q.divisor # 0 => p.divisor = q.divisor

SameArrays == \A i \in Attribs : SameAttrib(driver[current].attribs[i], Resolved(i))
SameElements == element[bound] # NoBuffer => driver[current].element = element[bound]

\* A flush that pushes leaves the driver with the attributes, binding points and
\* element buffer of the bound vertex array, however it was edited, bound and
\* flushed before, directly or by name.
PushedDrawExact == [][FlushState /\ dirty => (SameArrays /\ SameElements)']_vars

\* "skipping the push when the vertex state is unchanged since the last flush"
\* (architecture.md:147-152): where a draw would push nothing, the driver has
\* the attributes of the bound vertex array.
DrawExact == ~dirty => SameArrays
=============================================================================
