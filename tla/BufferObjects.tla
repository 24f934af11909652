---------------------------- MODULE BufferObjects ----------------------------
(***************************************************************************)
(* Buffer objects: the CPU data store that Context keeps for every buffer, *)
(* the mapping a program may hold of it, and the driver's copy that        *)
(* GLESBackendBuffer writes.                                               *)
(*                                                                         *)
(* The contents of a store are abstracted to what the properties tell      *)
(* apart: for each cell, whether the driver's copy still lags behind the   *)
(* CPU store, and behind what: a write through a mapped pointer or a call. *)
(* Every call has a target form, which first binds the buffer's handle to  *)
(* the target in the driver, and a named form, which reaches the driver    *)
(* only if it exports the named entry points. Calls that Context refuses   *)
(* change nothing but its error, and are left out.                         *)
(***************************************************************************)
EXTENDS Naturals

CONSTANTS
  Buffers,     \* names, each generated at most once (nextName_ never goes back)
  Targets,     \* binding targets
  NoBuffer,    \* the binding 0
  MaxSize,     \* bound on the size of a store, in cells
  Plans        \* bounds: which buffers are generated, and how large each may get

ASSUME NoBufferType == NoBuffer \notin Buffers
ASSUME MaxSizeType  == MaxSize \in Nat \ {0}
ASSUME PlansType    == \A p \in Plans : DOMAIN p \subseteq Buffers
                                     /\ \A b \in DOMAIN p : p[b] \in 0 .. MaxSize

VARIABLES
  used,        \* names genBuffer has returned
  live,        \* keys of buffers_
  bound,       \* boundBuffers_
  obj,         \* BufferObject: size, immutable and its mapping
  drv,         \* the driver's buffer: size, immutable, how it is mapped, and
               \* for each cell what it lags behind
  held,        \* mappings whose pointer OpenGL still lets the program use
  trusted,     \* buffers the program has used only in ways that OpenGL and the
               \* driver accept, since their storage was last specified whole
  named,       \* the driver exports glNamedBufferData and its kin
  plan         \* the bounds of this behaviour

frontend == <<used, live, bound, obj>>
vars == <<frontend, drv, held, trusted, named, plan>>

Cells == 1 .. MaxSize
Sizes == 0 .. MaxSize
Forms == {"target", "named"}
Span(o, n) == (o + 1) .. (o + n)

NoMap   == [offset |-> 0, length |-> 0, access |-> "none"]
Mapping == [offset : Sizes, length : Sizes,
            access : {"none", "whole", "plain", "persistent"}]
Unlagged == [c \in Cells |-> "none"]

EmptyObject == [size |-> 0, immutable |-> FALSE, map |-> NoMap]
EmptyStore  == [size |-> 0, immutable |-> FALSE, map |-> "none", lag |-> Unlagged]

Mapped(b) == obj[b].map.access # "none"
MapEnd(b) == obj[b].map.offset + obj[b].map.length

\* Types, and: only live buffers are bound or mapped (deleteBuffer resets the
\* bindings of the buffer it erases, and its mapping goes with the object).
TypeOK ==
  /\ live \subseteq used /\ used \subseteq Buffers
  /\ bound \in [Targets -> live \cup {NoBuffer}]
  /\ obj \in [Buffers -> [size : Sizes, immutable : BOOLEAN, map : Mapping]]
  /\ drv \in [Buffers -> [size : Sizes, immutable : BOOLEAN,
                          map : {"none", "plain", "persistent"},
                          lag : [Cells -> {"none", "pointer", "call"}]]]
  /\ held \subseteq live /\ trusted \subseteq live
  /\ \A b \in Buffers : Mapped(b) => b \in live
  /\ named \in BOOLEAN /\ plan \in Plans

Init ==
  /\ used = {} /\ live = {} /\ held = {} /\ trusted = {}
  /\ bound = [t \in Targets |-> NoBuffer]
  /\ obj = [b \in Buffers |-> EmptyObject]
  /\ drv = [b \in Buffers |-> EmptyStore]
  /\ named \in BOOLEAN /\ plan \in Plans

\* The object of a call: one bound to a target, or any that exists.
Reached(b, form) ==
  /\ b \in live
  /\ form = "target" => \E t \in Targets : bound[t] = b

\* The call gets to the driver at all.
Delivered(form) == form = "target" \/ named

\* What OpenGL and this driver let a program do with the data of a buffer.
Lawful(b, form) ==
  Delivered(form) /\ (b \in held => obj[b].map.access = "persistent")

Judge(b, lawful) == trusted' = IF lawful THEN trusted ELSE trusted \ {b}

(***************************************************************************)
(* The driver. glBufferSubData is refused while the buffer is mapped,      *)
(* unless persistently, and past the end of the store.                     *)
(***************************************************************************)
TakesSubData(b, form, o, n) ==
  /\ Delivered(form)
  /\ drv[b].map # "plain"
  /\ o + n <= drv[b].size

Lagging(b, cells, reason) ==
  [drv[b] EXCEPT !.lag = [c \in Cells |-> IF c \in cells THEN reason ELSE @[c]]]

\* A region of the CPU store has changed and is passed to the driver.
AfterWrite(b, form, o, n) ==
  Lagging(b, Span(o, n), IF TakesSubData(b, form, o, n) THEN "none" ELSE "call")

\* A region of the CPU store, as it is, is passed to the driver.
AfterPush(b, form, o, n) ==
  IF TakesSubData(b, form, o, n) THEN Lagging(b, Span(o, n), "none") ELSE drv[b]

(***************************************************************************)
(* Names and bindings.                                                     *)
(***************************************************************************)
GenBuffer(b) ==
  /\ b \in DOMAIN plan \ used
  /\ used' = used \cup {b} /\ live' = live \cup {b} /\ trusted' = trusted \cup {b}
  /\ UNCHANGED <<bound, obj, drv, held, named, plan>>

BindBuffer(t, b) ==
  /\ b \in live \cup {NoBuffer}
  /\ bound' = [bound EXCEPT ![t] = b]
  /\ UNCHANGED <<used, live, obj, drv, held, trusted, named, plan>>

MutDeleteBuffer(b) ==
  /\ b \in live
  /\ live' = live \ {b} /\ held' = held \ {b} /\ trusted' = trusted \ {b}
  /\ obj' = [obj EXCEPT ![b] = EmptyObject]
  /\ drv' = [drv EXCEPT ![b] = EmptyStore]
  /\ UNCHANGED <<used, bound, named, plan>>

DeleteBuffer(b) ==
  /\ b \in live
  /\ bound' = [t \in Targets |-> IF bound[t] = b THEN NoBuffer ELSE bound[t]]
  /\ live' = live \ {b} /\ held' = held \ {b} /\ trusted' = trusted \ {b}
  /\ obj' = [obj EXCEPT ![b] = EmptyObject]
  /\ drv' = [drv EXCEPT ![b] = EmptyStore]
  /\ UNCHANGED <<used, named, plan>>

(***************************************************************************)
(* Storage. Specifying it whole ends a mapping as OpenGL and the driver    *)
(* see it; the object goes on recording it.                                *)
(***************************************************************************)
Specify(b, form, sz, fixed) ==
  LET taken == Delivered(form) /\ ~drv[b].immutable
  IN  /\ obj' = [obj EXCEPT ![b].size = sz, ![b].immutable = fixed]
      /\ drv' = [drv EXCEPT ![b] =
                   IF taken
                   THEN [size |-> sz, immutable |-> fixed, map |-> "none", lag |-> Unlagged]
                   ELSE Lagging(b, Span(0, sz), "call")]
      /\ held' = held \ {b}
      /\ sz <= plan[b]
      /\ trusted' = IF taken THEN trusted \cup {b} ELSE trusted \ {b}
      /\ UNCHANGED <<used, live, bound, named, plan>>

\* glBufferData does not look at `immutable`; glNamedBufferData does.
BufferData(b, form, sz) ==
  /\ Reached(b, form)
  /\ form = "named" => ~obj[b].immutable
  /\ Specify(b, form, sz, FALSE)

\* Immutable storage is created with GL_DYNAMIC_STORAGE_BIT and the map bits.
BufferStorage(b, form, sz) ==
  /\ Reached(b, form)
  /\ ~obj[b].immutable
  /\ sz > 0
  /\ Specify(b, form, sz, TRUE)

(***************************************************************************)
(* Updates of a region.                                                    *)
(***************************************************************************)
BufferSubData(b, form, o, n) ==
  /\ Reached(b, form)
  /\ o + n <= obj[b].size
  /\ drv' = [drv EXCEPT ![b] = AfterWrite(b, form, o, n)]
  /\ Judge(b, Lawful(b, form))
  /\ UNCHANGED <<frontend, held, named, plan>>

\* clearNamedBufferData and clearNamedBufferSubData refuse a store that is mapped
\* and not persistently, and always push by target.
ClearBufferSubData(b, o, n) ==
  /\ b \in live
  /\ o + n <= obj[b].size
  /\ Mapped(b) => obj[b].map.access = "persistent"
  /\ drv' = [drv EXCEPT ![b] = AfterWrite(b, "target", o, n)]
  /\ UNCHANGED <<frontend, held, trusted, named, plan>>

\* The target form binds 0 to both targets in the driver before it asks it to
\* copy, so the driver copies nothing; the CPU stores are copied.
CopyBufferSubData(r, w, ro, wo, n) ==
  /\ Reached(r, "target") /\ Reached(w, "target")
  /\ ro + n <= obj[r].size /\ wo + n <= obj[w].size
  /\ drv' = [drv EXCEPT ![w] = Lagging(w, Span(wo, n), "call")]
  /\ Judge(w, n = 0)
  /\ UNCHANGED <<frontend, held, named, plan>>

\* Cells of a copy within one buffer whose source is itself a cell written: no
\* check refuses a copy that overlaps.
Overwritten(r, w, ro, wo, n) ==
  IF r = w /\ ro # wo THEN {c \in Span(wo, n) : (c + ro) - wo \in Span(wo, n)} ELSE {}

\* The named form pushes the region of the source, as the CPU store has it after
\* the copy: where the copy overwrote its own source, that is something else.
CopyNamedBufferSubData(r, w, ro, wo, n) ==
  LET crossed == Overwritten(r, w, ro, wo, n)
      written == AfterWrite(w, "named", wo, n)
  IN  /\ r \in live /\ w \in live
      /\ ro + n <= obj[r].size /\ wo + n <= obj[w].size
      /\ drv' = [drv EXCEPT ![w] =
                   [written EXCEPT !.lag =
                      [c \in Cells |-> IF c \in crossed THEN "call" ELSE @[c]]]]
      /\ Judge(w, Lawful(w, "named") /\ crossed = {})
      /\ UNCHANGED <<frontend, held, named, plan>>

\* The contents become undefined where the driver exports the call.
InvalidateBufferSubData(b, o, n) ==
  /\ b \in live
  /\ o + n <= obj[b].size
  /\ Mapped(b) => obj[b].map.access = "persistent"
  /\ drv' = [drv EXCEPT ![b] = IF named THEN Lagging(b, Span(o, n), "call") ELSE @]
  /\ Judge(b, n = 0 \/ ~named)
  /\ UNCHANGED <<frontend, held, named, plan>>

(***************************************************************************)
(* Mappings. The program gets a pointer into the CPU store; the driver's   *)
(* mapping of its own copy is kept and never written through. glMapBuffer  *)
(* hands its access enum on as the bit field of glMapBufferRange, which    *)
(* the driver refuses: the access "whole" is that of such a mapping.       *)
(***************************************************************************)
MapTo(b, form, o, len, access) ==
  /\ obj' = [obj EXCEPT ![b].map = [offset |-> o, length |-> len, access |-> access]]
  /\ held' = held \cup {b}
  /\ drv' = [drv EXCEPT ![b].map =
               IF /\ Delivered(form) /\ @ = "none"
                  /\ len > 0 /\ o + len <= drv[b].size
                  /\ access = "persistent" => drv[b].immutable
               THEN access ELSE @]
  /\ Judge(b, Delivered(form))
  /\ UNCHANGED <<used, live, bound, named, plan>>

MapBuffer(b, form) ==
  /\ Reached(b, form)
  /\ ~Mapped(b)
  /\ obj' = [obj EXCEPT ![b].map = [offset |-> 0, length |-> obj[b].size, access |-> "whole"]]
  /\ held' = held \cup {b}
  /\ UNCHANGED <<used, live, bound, drv, trusted, named, plan>>

\* The program asks for a persistent mapping of immutable storage only.
Grants(b, access) == access = "persistent" => obj[b].immutable

\* A length of 0 stands for the whole store in the range forms too.
Length(b, n) == IF n = 0 THEN obj[b].size ELSE n

MutMapBufferRange(b, form, o, n, access) ==
  /\ Reached(b, form)
  /\ ~Mapped(b) /\ Grants(b, access)
  /\ o <= obj[b].size /\ n <= obj[b].size
  /\ o + Length(b, n) <= MaxSize
  /\ MapTo(b, form, o, Length(b, n), access)

MapBufferRange(b, form, o, n, access) ==
  /\ Reached(b, form)
  /\ ~Mapped(b) /\ Grants(b, access)
  /\ o + Length(b, n) <= obj[b].size
  /\ MapTo(b, form, o, Length(b, n), access)

\* The program writes through the pointer.
WriteMapped(b, c) ==
  /\ b \in held
  /\ c \in Span(obj[b].map.offset, obj[b].map.length)
  /\ drv' = [drv EXCEPT ![b] = Lagging(b, {c}, "pointer")]
  /\ Judge(b, obj[b].map.access # "plain")
  /\ UNCHANGED <<frontend, held, named, plan>>

\* The bounds are those of the whole store, not of the mapping.
FlushMappedBufferRange(b, form, o, n) ==
  /\ Reached(b, form)
  /\ Mapped(b)
  /\ o + n <= obj[b].size
  /\ n > 0
  /\ drv' = [drv EXCEPT ![b] = AfterPush(b, form, o, n)]
  /\ UNCHANGED <<frontend, held, trusted, named, plan>>

MutUnmapPush(b, form) ==
  IF obj[b].map.length = 0 THEN drv[b]
  ELSE AfterPush(b, form, 0, obj[b].map.length)

\* The mapped region of the CPU store is pushed first, the driver's copy
\* unmapped after that, and neither for an empty mapping.
UnmapPush(b, form) ==
  IF obj[b].map.length = 0 THEN drv[b]
  ELSE AfterPush(b, form, obj[b].map.offset, obj[b].map.length)

MutUnmapBuffer(b, form) ==
  /\ Reached(b, form)
  /\ b \in held
  /\ obj' = [obj EXCEPT ![b].map = NoMap]
  /\ held' = held \ {b}
  /\ drv' = [drv EXCEPT ![b] = UnmapPush(b, form)]
  /\ Judge(b, Delivered(form))
  /\ UNCHANGED <<used, live, bound, named, plan>>

UnmapBuffer(b, form) ==
  /\ Reached(b, form)
  /\ b \in held
  /\ obj' = [obj EXCEPT ![b].map = NoMap]
  /\ held' = held \ {b}
  /\ drv' = [drv EXCEPT ![b] =
               IF obj[b].map.length = 0 \/ ~Delivered(form) THEN UnmapPush(b, form)
               ELSE [UnmapPush(b, form) EXCEPT !.map = "none"]]
  /\ Judge(b, Delivered(form))
  /\ UNCHANGED <<used, live, bound, named, plan>>

\* Offsets and sizes that go beyond a store are refused by every call.
Within(b) == 0 .. obj[b].size

Update(b) ==
  \E o \in Within(b), n \in Within(b) :
     \/ ClearBufferSubData(b, o, n)
     \/ InvalidateBufferSubData(b, o, n)
     \/ \E form \in Forms :
           \/ BufferSubData(b, form, o, n)
           \/ FlushMappedBufferRange(b, form, o, n)
           \/ \E access \in {"plain", "persistent"} : MapBufferRange(b, form, o, n, access)

Copy(r, w) ==
  \E ro \in Within(r), wo \in Within(w), n \in Within(r) :
     \/ CopyBufferSubData(r, w, ro, wo, n)
     \/ CopyNamedBufferSubData(r, w, ro, wo, n)

Next ==
  \/ \E b \in Buffers :
        \/ GenBuffer(b)
        \/ DeleteBuffer(b)
        \/ Update(b)
        \/ \E form \in Forms : MapBuffer(b, form) \/ UnmapBuffer(b, form)
        \/ \E form \in Forms, sz \in Sizes : BufferData(b, form, sz) \/ BufferStorage(b, form, sz)
        \/ \E c \in Cells : WriteMapped(b, c)
        \/ \E w \in Buffers : Copy(b, w)
  \/ \E t \in Targets, b \in Buffers \cup {NoBuffer} : BindBuffer(t, b)

Spec == Init /\ [][Next]_vars

(***************************************************************************)
(* Properties.                                                             *)
(***************************************************************************)

\* The driver's copy of a trusted buffer has the size of the CPU store, and no
\* cell of it lags but those that the mapping the program holds lets it write.
\* (bufferData through unmapNamedBuffer keep the two copies together.)
DriverCopyFaithful ==
  \A b \in trusted :
     /\ drv[b].size = obj[b].size
     /\ \A c \in Cells : drv[b].lag[c] # "none" =>
           b \in held /\ c \in Span(obj[b].map.offset, obj[b].map.length)

\* The driver holds a mapping of a trusted buffer exactly while the program holds
\* one that it got by range and that is not empty: a mapping left behind would
\* make the driver refuse every later glBufferSubData. (mapBufferRange and
\* mapBuffer against unmapBuffer.)
MappingsAgree ==
  \A b \in trusted :
     drv[b].map = IF /\ b \in held
                     /\ obj[b].map.length > 0
                     /\ obj[b].map.access # "whole"
                  THEN obj[b].map.access ELSE "none"

\* The pointer a program may still use covers only cells of the store it points
\* into, whatever was specified or deleted since. (mapPointer against store.)
PointerInStore == \A b \in held : b \in live /\ MapEnd(b) <= obj[b].size

\* What was written through a pointer reaches the driver when the buffer is
\* unmapped, as unmapBuffer's comment has it, even on a driver that exports all
\* the entry points; refuted, since the driver's copy is still mapped when
\* glBufferSubData is called.
UnmapDelivers ==
  named => \A b \in live : ~Mapped(b) => \A c \in Cells : drv[b].lag[c] # "pointer"
=============================================================================
