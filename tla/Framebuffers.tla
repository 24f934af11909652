----------------------------- MODULE Framebuffers -----------------------------
(***************************************************************************)
(* Framebuffer objects, the images attached to them and clears. Context    *)
(* binds, attaches and checks; GLESBackend translates a framebuffer to the  *)
(* number it has in the driver, for which Context already passes that       *)
(* number; the attach commands of the driver go to the framebuffer that is  *)
(* bound there.                                                             *)
(***************************************************************************)
EXTENDS Naturals, FiniteSets

CONSTANTS
  MaxName,       \* names Context gives out, counting all the kinds of objects
  MaxFbos,       \* framebuffers among them
  MaxNative,     \* numbers the driver gives out, counting each kind by itself
  Points,        \* attachment points
  MaxAttachments, \* bound: points in use, counting all the framebuffers
  Colours,       \* clear values
  DefaultColour,
  Unset          \* a point nothing was attached to

Names   == 1..MaxName
Natives == 1..MaxNative

ASSUME FramebufferBounds == {MaxName, MaxNative, MaxAttachments} \subseteq Nat
ASSUME ClearValues == DefaultColour \in Colours
ASSUME UnsetIsNoImage == Unset \notin Names \cup {0}

VARIABLES
  fbLive,            \* keys of framebuffers_
  images,            \* keys of renderbuffers_ and textures_
  nextFbName,        \* nextName_
  nativeMap,         \* GLESBackend::nativeMap_, which keeps what is deleted; 0 if absent
  stored,            \* images that were given storage
  attachments,       \* FramebufferObject::attachments
  boundFramebuffer,  \* boundFramebuffer_
  clearColor,        \* the tracker's clear value and the one it pushed last
  clearColorApplied,
  \* The driver.
  nativeFbos,        \* framebuffer numbers in use
  nativeAtt,         \* the image attached at each point, or 0
  nativeBound,       \* the bound framebuffer, to draw to and to read from
  nativeColor,       \* its clear value
  \* History.
  aimed,             \* framebuffers whose attach commands all reached them in the
                     \* driver, and only those
  astray             \* the framebuffer deleted while bound was not the driver's

fbObjects == <<fbLive, images, nextFbName, nativeMap, stored>>
fbClear   == <<clearColor, clearColorApplied, nativeColor>>
fbVars == <<fbObjects, fbClear, attachments, boundFramebuffer, nativeFbos, nativeAtt,
            nativeBound, aimed, astray>>

FBTypeOK ==
  /\ fbLive \subseteq Names /\ images \subseteq Names /\ fbLive \cap images = {}
  /\ nextFbName \in 1..MaxName + 1
  /\ nativeMap \in [Names -> Natives \cup {0}]
  /\ \A n \in fbLive : nativeMap[n] \in nativeFbos
  /\ \A n, m \in fbLive : nativeMap[n] = nativeMap[m] => n = m
  /\ stored \subseteq Names
  /\ attachments \in [Names -> [Points -> Names \cup {Unset, 0}]]
  /\ boundFramebuffer \in fbLive \cup {0}
  /\ nativeFbos \subseteq Natives
  /\ nativeAtt \in [Natives -> [Points -> Names \cup {0}]]
  /\ nativeBound \in nativeFbos \cup {0}
  /\ {clearColor, clearColorApplied, nativeColor} \subseteq Colours
  /\ aimed \subseteq fbLive /\ astray \in BOOLEAN

FBInit ==
  /\ fbLive = {} /\ images = {} /\ stored = {} /\ nativeFbos = {}
  /\ nextFbName = 1 /\ nativeMap = [n \in Names |-> 0]
  /\ attachments = [n \in Names |-> [p \in Points |-> Unset]]
  /\ nativeAtt = [h \in Natives |-> [p \in Points |-> 0]]
  /\ boundFramebuffer = 0 /\ nativeBound = 0
  /\ clearColor = DefaultColour /\ clearColorApplied = DefaultColour
  /\ nativeColor = DefaultColour
  /\ aimed = {} /\ astray = FALSE
-----------------------------------------------------------------------------
(* Binding. *)

\* bindNativeObject, for an object that takes the next name.
Register(native) ==
  /\ nextFbName' = nextFbName + 1
  /\ nativeMap' = [nativeMap EXCEPT ![nextFbName] = native]

\* GLESBackend::bindFramebuffer, given the number of a framebuffer: it takes it
\* for a name. The driver makes the framebuffer if the number is free.
Resolve(native) ==
  IF native \in Names /\ nativeMap[native] # 0 THEN nativeMap[native] ELSE native

Handle(f) == IF f = 0 THEN 0 ELSE nativeMap[f]
Straight(f) == Resolve(Handle(f)) = Handle(f)

\* The driver's binding after Context::bindFramebuffer, with what was bound on
\* the way to it.
Rebind(f, onTheWay) ==
  /\ nativeBound' = Resolve(Handle(f))
  /\ nativeFbos' = (nativeFbos \cup onTheWay \cup {Resolve(Handle(f))}) \ {0}
  /\ astray' = FALSE

BindFramebuffer(f) ==
  /\ f \in fbLive \cup {0}
  /\ boundFramebuffer' = f
  /\ Rebind(f, {})
  /\ UNCHANGED <<fbObjects, fbClear, attachments, nativeAtt, aimed>>
-----------------------------------------------------------------------------
(* Objects. *)

GenFramebuffer(h) ==
  /\ nextFbName <= MaxName
  /\ Cardinality(fbLive) < MaxFbos
  /\ h \notin nativeFbos
  /\ Register(h)
  /\ fbLive' = fbLive \cup {nextFbName}
  /\ nativeFbos' = nativeFbos \cup {h}
  /\ aimed' = aimed \cup {nextFbName}
  /\ UNCHANGED <<images, stored, attachments, boundFramebuffer, fbClear, nativeAtt,
                 nativeBound, astray>>

\* The driver unbinds what it deletes.
DeleteFramebuffer(f) ==
  /\ f \in fbLive
  /\ fbLive' = fbLive \ {f}
  /\ attachments' = [attachments EXCEPT ![f] = [p \in Points |-> Unset]]
  /\ boundFramebuffer' = IF boundFramebuffer = f THEN 0 ELSE boundFramebuffer
  /\ nativeFbos' = nativeFbos \ {Handle(f)}
  /\ nativeAtt' = [nativeAtt EXCEPT ![Handle(f)] = [p \in Points |-> 0]]
  /\ nativeBound' = IF nativeBound = Handle(f) THEN 0 ELSE nativeBound
  /\ aimed' = aimed \ {f}
  /\ astray' = (astray \/ (boundFramebuffer = f /\ nativeBound # Handle(f)))
  /\ UNCHANGED <<images, nextFbName, nativeMap, stored, fbClear>>

\* A texture or a renderbuffer, or any other object the map has an entry for.
GenImage(h) ==
  /\ nextFbName <= MaxName
  /\ \A i \in images : nativeMap[i] # h
  /\ Register(h)
  /\ images' = images \cup {nextFbName}
  /\ UNCHANGED <<fbLive, stored, attachments, boundFramebuffer, fbClear, nativeFbos,
                 nativeAtt, nativeBound, aimed, astray>>

ImageStorage(i) ==
  /\ i \in images
  /\ stored' = stored \cup {i}
  /\ UNCHANGED <<fbLive, images, nextFbName, nativeMap, attachments, boundFramebuffer,
                 fbClear, nativeFbos, nativeAtt, nativeBound, aimed, astray>>

\* The framebuffers keep its name. The driver detaches it from the bound one
\* and keeps it alive in the others.
DeleteImage(i) ==
  /\ i \in images
  /\ images' = images \ {i}
  /\ nativeAtt' = [h \in Natives |-> [p \in Points |->
                     IF h = nativeBound /\ nativeAtt[h][p] = i THEN 0 ELSE nativeAtt[h][p]]]
  /\ UNCHANGED <<fbLive, nextFbName, nativeMap, stored, attachments, boundFramebuffer,
                 fbClear, nativeFbos, nativeBound, aimed, astray>>
-----------------------------------------------------------------------------
(* Attachments. *)

\* The driver's command goes to its bound framebuffer, and is refused if there
\* is none.
Attach(f, p, i) ==
  /\ i \in images \cup {0}
  /\ Cardinality({at \in fbLive \X Points : attachments[at[1]][at[2]] # Unset}
                   \cup {<<f, p>>}) <= MaxAttachments
  /\ attachments' = [attachments EXCEPT ![f][p] = i]
  /\ nativeAtt' = IF nativeBound = 0 THEN nativeAtt
                                     ELSE [nativeAtt EXCEPT ![nativeBound][p] = i]
  /\ aimed' = IF nativeBound = Handle(f) THEN aimed
              ELSE {g \in aimed : g # f /\ Handle(g) # nativeBound}
  /\ UNCHANGED <<fbObjects, fbClear, boundFramebuffer, nativeFbos, nativeBound, astray>>

\* glFramebufferTexture*, glFramebufferRenderbuffer.
FramebufferAttach(p, i) ==
  /\ boundFramebuffer # 0
  /\ Attach(boundFramebuffer, p, i)

\* glNamedFramebufferTexture*, glNamedFramebufferRenderbuffer.
NamedFramebufferAttach(f, p, i) ==
  /\ f \in fbLive
  /\ Attach(f, p, i)

DriverComplete ==
  LET att == {nativeAtt[nativeBound][p] : p \in Points} \ {0}
  IN  nativeBound = 0 \/ (att # {} /\ att \subseteq stored)

\* An attachment that was deleted is let through.
MutCheckFramebufferStatus ==
  LET att == {attachments[boundFramebuffer][p] : p \in Points} \ {Unset}
  IN  boundFramebuffer = 0 \/ (att # {} /\ att \subseteq stored /\ DriverComplete)

\* glCheckFramebufferStatus answers GL_FRAMEBUFFER_COMPLETE.
CheckFramebufferStatus ==
  LET att == {attachments[boundFramebuffer][p] : p \in Points} \ {Unset}
  IN  boundFramebuffer = 0 \/ (att # {} /\ att \subseteq images \cap stored /\ DriverComplete)
-----------------------------------------------------------------------------
(* Clears and the other commands that bind another framebuffer for a time. *)

SetClearColor(c) ==
  /\ clearColor' = c
  /\ UNCHANGED <<fbObjects, attachments, boundFramebuffer, clearColorApplied, nativeFbos,
                 nativeAtt, nativeBound, nativeColor, aimed, astray>>

\* flushState pushes the value if it is not the one pushed last.
FlushedColor == IF clearColor = clearColorApplied THEN nativeColor ELSE clearColor

Clear ==
  /\ clearColorApplied' = clearColor
  /\ nativeColor' = FlushedColor
  /\ UNCHANGED <<fbObjects, attachments, boundFramebuffer, clearColor, nativeFbos,
                 nativeAtt, nativeBound, aimed, astray>>

\* glClearNamedFramebuffer*, and glClearBuffer* for the bound framebuffer: the
\* value goes to the driver past the tracker.
ClearNamedFramebuffer(f, c) ==
  /\ f \in fbLive \cup {0}
  /\ nativeColor' = c
  /\ Rebind(boundFramebuffer, {Resolve(Handle(f))})
  /\ UNCHANGED <<fbObjects, attachments, boundFramebuffer, clearColor, clearColorApplied,
                 nativeAtt, aimed>>

\* The binding is left on the last framebuffer.
MutBlitNamedFramebuffer(read, draw) ==
  /\ {read, draw} \subseteq fbLive \cup {0}
  /\ Rebind(draw, {Resolve(Handle(read))})
  /\ UNCHANGED <<fbObjects, attachments, boundFramebuffer, fbClear, nativeAtt, aimed>>

\* glBlitNamedFramebuffer; glInvalidateNamedFramebufferData and SubData with one
\* framebuffer.
BlitNamedFramebuffer(read, draw) ==
  /\ {read, draw} \subseteq fbLive \cup {0}
  /\ Rebind(boundFramebuffer, {Resolve(Handle(read)), Resolve(Handle(draw))})
  /\ UNCHANGED <<fbObjects, attachments, boundFramebuffer, fbClear, nativeAtt, aimed>>

FBNext ==
  \/ \E h \in Natives : GenFramebuffer(h)
  \/ \E h \in Natives : GenImage(h)
  \/ \E f \in Names \cup {0} : BindFramebuffer(f)
  \/ \E f \in Names : DeleteFramebuffer(f)
  \/ \E i \in Names : ImageStorage(i)
  \/ \E i \in Names : DeleteImage(i)
  \/ \E p \in Points, i \in Names \cup {0} : FramebufferAttach(p, i)
  \/ \E f \in Names, p \in Points, i \in Names \cup {0} : NamedFramebufferAttach(f, p, i)
  \/ \E c \in Colours : SetClearColor(c)
  \/ Clear
  \/ \E f \in Names \cup {0}, c \in Colours : ClearNamedFramebuffer(f, c)
  \/ \E read, draw \in Names \cup {0} : BlitNamedFramebuffer(read, draw)

FBSpec == FBInit /\ [][FBNext]_fbVars
-----------------------------------------------------------------------------
\* Where the second translation does no harm, the driver has Context's
\* framebuffer bound after any commands, those that bind another one and put it
\* back included, whatever was generated or deleted in between: it draws where
\* the program said.
BoundFramebufferAgrees ==
  Straight(boundFramebuffer) /\ ~astray => nativeBound = Handle(boundFramebuffer)

\* For a framebuffer whose attach commands reached it, glCheckFramebufferStatus
\* answers complete exactly when it has an attachment and all of them exist and
\* have storage, and those are then the driver's attachments, whatever was
\* deleted since they were attached.
StatusHonest ==
  boundFramebuffer \in aimed /\ Straight(boundFramebuffer) =>
    LET att(p) == attachments[boundFramebuffer][p]
        used   == {p \in Points : att(p) # Unset}
    IN  CheckFramebufferStatus <=>
          /\ used # {}
          /\ \A p \in used : /\ att(p) \in images \cap stored
                             /\ nativeAtt[nativeBound][p] = att(p)

\* "Push the bind to the backend so draws/clears/readback target the right FBO on
\* the real driver" (context.cpp:3551-3553).
BindReachesDriver == boundFramebuffer # 0 => nativeBound = Handle(boundFramebuffer)

\* "Push tracked state (including the clear color/depth) before issuing the native
\* clear so the driver clears with the current values" (context.cpp:10222): a
\* glClear at any time uses the value of the program.
ClearsWithCurrentValue == FlushedColor = clearColor
=============================================================================
