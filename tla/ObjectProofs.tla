----------------------------- MODULE ObjectProofs -----------------------------
(***************************************************************************)
(* Framebuffers, programs with their shaders, the log of debug messages    *)
(* and buffers, for every number of names, attachment points, messages and *)
(* cells; and the types of the components MCComponents puts side by side.  *)
(***************************************************************************)
EXTENDS MCComponents, BufferObjects, CategoryProofs, QueryProofs, LoopLemmas,
        FiniteSetTheorems, SequenceTheorems

-----------------------------------------------------------------------------
(* Framebuffers. *)

\* Names are given out once and in order: what was never given out has nothing.
NamesInOrder ==
  /\ \A n \in fbLive \cup images : n < nextFbName
  /\ \A n \in Names : n >= nextFbName => nativeMap[n] = 0
  /\ \A n \in Names, p \in Points :
       attachments[n][p] \in {Unset, 0} \cup {i \in Names : i < nextFbName}

\* A name without a framebuffer, and a free number, have no attachments.
NothingLeft ==
  /\ \A n \in Names \ fbLive, p \in Points : attachments[n][p] = Unset
  /\ \A h \in Natives \ nativeFbos, p \in Points : nativeAtt[h][p] = 0

\* The attachments of a framebuffer all of whose commands reached it are the
\* driver's, those that were deleted meanwhile excepted.
Mirrored ==
  \A f \in aimed, p \in Points :
    /\ attachments[f][p] = Unset => nativeAtt[nativeMap[f]][p] = 0
    /\ attachments[f][p] \in images => nativeAtt[nativeMap[f]][p] = attachments[f][p]

\* A deletion goes astray only by leaving nothing bound.
AstrayUnbound == astray => boundFramebuffer = 0

FBInv == /\ FBTypeOK /\ NamesInOrder /\ NothingLeft /\ Mirrored /\ AstrayUnbound
         /\ BoundFramebufferAgrees

\* A framebuffer that exists has a number of its own, and 0 stands for itself.
LEMMA LiveHandles ==
  ASSUME FBTypeOK
  PROVE  /\ \A f \in fbLive : /\ f \in Names /\ f # 0
                              /\ Handle(f) = nativeMap[f] /\ Handle(f) # 0
                              /\ Handle(f) \in Natives /\ Handle(f) \in nativeFbos
         /\ \A f, g \in fbLive \cup {0} : Handle(f) = Handle(g) => f = g
         /\ Handle(0) = 0 /\ Straight(0) /\ Resolve(0) = 0
<1> USE FramebufferBounds
<1>1. 0 \notin Names /\ 0 \notin Natives
  BY DEF Names, Natives
<1>2. Resolve(0) = 0
  BY <1>1 DEF Resolve
<1>3. \A f \in fbLive : /\ f \in Names /\ f # 0
                        /\ Handle(f) = nativeMap[f] /\ Handle(f) # 0
                        /\ Handle(f) \in Natives /\ Handle(f) \in nativeFbos
  BY <1>1 DEF FBTypeOK, Handle
<1> QED
  BY <1>1, <1>2, <1>3 DEF FBTypeOK, Handle, Straight

LEMMA InitFB == FBInit => FBInv
<1> SUFFICES ASSUME FBInit
             PROVE  FBInv
  OBVIOUS
<1> USE FramebufferBounds, ClearValues, UnsetIsNoImage
<1>1. FBTypeOK
  <2>1. nextFbName \in 1..MaxName + 1
    BY DEF FBInit
  <2> QED
    BY <2>1 DEF FBInit, FBTypeOK
<1>2. NamesInOrder /\ NothingLeft /\ Mirrored /\ AstrayUnbound
  BY DEF FBInit, NamesInOrder, NothingLeft, Mirrored, AstrayUnbound, Names
<1>3. BoundFramebufferAgrees
  BY <1>1, LiveHandles DEF FBInit, BoundFramebufferAgrees
<1> QED
  BY <1>1, <1>2, <1>3 DEF FBInv

\* Binding a framebuffer, in the end, for good.
LEMMA RebindKeeps ==
  ASSUME FBInv, NEW f \in fbLive \cup {0}, NEW onTheWay \in SUBSET (Natives \cup {0}),
         Rebind(f, onTheWay), boundFramebuffer' = f,
         UNCHANGED <<fbObjects, attachments, nativeAtt, aimed>>,
         {clearColor', clearColorApplied', nativeColor'} \subseteq Colours
  PROVE  FBInv'
<1> USE FramebufferBounds
<1>1. /\ nativeBound' = Resolve(Handle(f))
      /\ nativeFbos' = (nativeFbos \cup onTheWay \cup {Resolve(Handle(f))}) \ {0}
      /\ astray' = FALSE
      /\ UNCHANGED <<fbLive, images, nextFbName, nativeMap, stored, attachments, nativeAtt,
                     aimed>>
  BY DEF Rebind, fbObjects
<1>2. Resolve(Handle(f)) \in Natives \cup {0}
  BY LiveHandles DEF Resolve, FBInv, FBTypeOK
<1>3. 0 \notin Natives
  BY DEF Natives
<1>4. nativeFbos \subseteq nativeFbos' /\ nativeFbos' \subseteq Natives
  BY <1>1, <1>2, <1>3 DEF FBInv, FBTypeOK
<1>5. FBTypeOK'
  BY <1>1, <1>2, <1>4 DEF FBInv, FBTypeOK
<1>6. NamesInOrder' /\ NothingLeft' /\ Mirrored' /\ AstrayUnbound'
  BY <1>1, <1>4 DEF FBInv, NamesInOrder, NothingLeft, Mirrored, AstrayUnbound
<1>7. BoundFramebufferAgrees'
  BY <1>1 DEF BoundFramebufferAgrees, Straight, Resolve, Handle
<1> QED
  BY <1>5, <1>6, <1>7 DEF FBInv

\* Giving a name to an object changes no translation that was straight or not.
LEMMA RegisterKeeps ==
  ASSUME FBInv, nextFbName <= MaxName, NEW h \in Natives, Register(h),
         UNCHANGED <<boundFramebuffer, nativeBound, astray>>
  PROVE  /\ \A n \in fbLive \cup images : nativeMap'[n] = nativeMap[n]
         /\ nativeMap'[nextFbName] = h /\ nextFbName \in Names
         /\ nextFbName \notin fbLive \cup images
         /\ nextFbName' \in 1..MaxName + 1 /\ nextFbName' = nextFbName + 1
         /\ nativeMap' \in [Names -> Natives \cup {0}]
         /\ \A n \in Names : n >= nextFbName' => nativeMap'[n] = 0
         /\ BoundFramebufferAgrees'
<1> USE FramebufferBounds
<1>1. nextFbName' = nextFbName + 1 /\ nativeMap' = [nativeMap EXCEPT ![nextFbName] = h]
  BY DEF Register
<1>2. nextFbName \in Names /\ nextFbName' \in 1..MaxName + 1
  BY <1>1 DEF FBInv, FBTypeOK, Names
<1>3. nextFbName \notin fbLive \cup images
  <2>1. ASSUME NEW n \in fbLive \cup images
        PROVE  n # nextFbName
    <3>1. n \in Nat /\ nextFbName \in Nat
      BY <1>2 DEF FBInv, FBTypeOK, Names
    <3> QED
      BY <3>1 DEF FBInv, NamesInOrder
  <2> QED
    BY <2>1
<1>4. nativeMap' \in [Names -> Natives \cup {0}]
  BY <1>1 DEF FBInv, FBTypeOK
<1>5. \A n \in Names : nativeMap'[n] = IF n = nextFbName THEN h ELSE nativeMap[n]
  BY <1>1 DEF FBInv, FBTypeOK
<1>6. \A n \in Names : n >= nextFbName' => nativeMap'[n] = 0
  BY <1>1, <1>2, <1>5 DEF FBInv, NamesInOrder, Names
<1>7. \A n \in fbLive \cup images : n \in Names
  BY DEF FBInv, FBTypeOK
<1>8. \A n \in fbLive \cup images : nativeMap'[n] = nativeMap[n]
  BY <1>3, <1>5, <1>7
<1>9. Handle(boundFramebuffer)' = Handle(boundFramebuffer)
  BY <1>8 DEF Handle, FBInv, FBTypeOK
<1>10. Straight(boundFramebuffer)' => Straight(boundFramebuffer)
  <2>1. nativeMap[nextFbName] = 0
    BY <1>2 DEF FBInv, NamesInOrder, Names
  <2> QED
    BY <1>5, <1>9, <2>1 DEF Straight, Resolve, Handle
<1>11. BoundFramebufferAgrees'
  BY <1>9, <1>10 DEF FBInv, BoundFramebufferAgrees
<1> QED
  BY <1>1, <1>2, <1>3, <1>4, <1>5, <1>6, <1>8, <1>11

LEMMA GenFBKeeps ==
  ASSUME FBInv, NEW h \in Natives, GenFramebuffer(h)
  PROVE  FBInv'
<1> USE FramebufferBounds, UnsetIsNoImage
<1>1. /\ nextFbName <= MaxName /\ h \notin nativeFbos /\ Register(h)
      /\ fbLive' = fbLive \cup {nextFbName}
      /\ nativeFbos' = nativeFbos \cup {h}
      /\ aimed' = aimed \cup {nextFbName}
      /\ UNCHANGED <<images, stored, attachments, boundFramebuffer, nativeAtt, nativeBound,
                     astray, clearColor, clearColorApplied, nativeColor>>
  BY DEF GenFramebuffer, fbClear
<1>2. /\ \A n \in fbLive \cup images : nativeMap'[n] = nativeMap[n]
      /\ nativeMap'[nextFbName] = h /\ nextFbName \in Names
      /\ nextFbName \notin fbLive \cup images
      /\ nextFbName' \in 1..MaxName + 1 /\ nextFbName' = nextFbName + 1
      /\ nativeMap' \in [Names -> Natives \cup {0}]
      /\ \A n \in Names : n >= nextFbName' => nativeMap'[n] = 0
      /\ BoundFramebufferAgrees'
  BY <1>1, RegisterKeeps
<1>3. fbLive \subseteq Names /\ nextFbName \in Nat /\ Names \subseteq Nat
  BY <1>2 DEF FBInv, FBTypeOK, Names
<1>4. FBTypeOK'
  <2>1. /\ \A n \in fbLive' : nativeMap'[n] \in nativeFbos'
        /\ \A n, m \in fbLive' : nativeMap'[n] = nativeMap'[m] => n = m
    <3>1. \A n \in fbLive : nativeMap'[n] = nativeMap[n] /\ nativeMap[n] \in nativeFbos
      BY <1>2 DEF FBInv, FBTypeOK
    <3>2. \A n, m \in fbLive : nativeMap[n] = nativeMap[m] => n = m
      BY DEF FBInv, FBTypeOK
    <3> QED
      BY <1>1, <1>2, <3>1, <3>2
  <2>2. /\ fbLive' \subseteq Names /\ fbLive' \cap images' = {}
        /\ nativeFbos' \subseteq Natives /\ aimed' \subseteq fbLive'
        /\ boundFramebuffer' \in fbLive' \cup {0} /\ nativeBound' \in nativeFbos' \cup {0}
    BY <1>1, <1>2 DEF FBInv, FBTypeOK
  <2> QED
    BY <1>1, <1>2, <2>1, <2>2 DEF FBInv, FBTypeOK
<1>5. NamesInOrder'
  <2>1. \A n \in fbLive' \cup images' : n < nextFbName'
    <3>1. \A n \in fbLive \cup images : n \in Nat /\ n < nextFbName
      BY <1>3 DEF FBInv, NamesInOrder, FBTypeOK, Names
    <3> QED
      BY <1>1, <1>2, <1>3, <3>1
  <2>2. \A n \in Names, p \in Points :
          attachments'[n][p] \in {Unset, 0} \cup {i \in Names : i < nextFbName'}
    <3>1. \A i \in Names : i < nextFbName => i < nextFbName'
      BY <1>2, <1>3
    <3> QED
      BY <1>1, <3>1 DEF FBInv, NamesInOrder
  <2> QED
    BY <1>2, <2>1, <2>2 DEF NamesInOrder
<1>6. NothingLeft' /\ AstrayUnbound'
  BY <1>1 DEF FBInv, NothingLeft, AstrayUnbound
<1>7. ASSUME NEW f \in aimed', NEW p \in Points
      PROVE  /\ attachments'[f][p] = Unset => nativeAtt'[nativeMap'[f]][p] = 0
             /\ attachments'[f][p] \in images' => nativeAtt'[nativeMap'[f]][p] = attachments'[f][p]
  <2>1. CASE f \in aimed
    <3>1. nativeMap'[f] = nativeMap[f]
      BY <1>2, <2>1 DEF FBInv, FBTypeOK
    <3> QED
      BY <1>1, <2>1, <3>1 DEF FBInv, Mirrored
  <2>2. CASE f = nextFbName
    <3>1. attachments[f][p] = Unset /\ nativeAtt[h][p] = 0
      BY <1>1, <1>2, <2>2 DEF FBInv, NothingLeft
    <3>2. Unset \notin images
      BY DEF FBInv, FBTypeOK
    <3> QED
      BY <1>1, <1>2, <2>2, <3>1, <3>2
  <2> QED
    BY <1>1, <2>1, <2>2
<1>8. Mirrored'
  BY <1>7 DEF Mirrored
<1> QED
  BY <1>2, <1>4, <1>5, <1>6, <1>8 DEF FBInv

LEMMA GenImageKeeps ==
  ASSUME FBInv, NEW h \in Natives, GenImage(h)
  PROVE  FBInv'
<1> USE FramebufferBounds, UnsetIsNoImage
<1>1. /\ nextFbName <= MaxName /\ Register(h)
      /\ images' = images \cup {nextFbName}
      /\ UNCHANGED <<fbLive, stored, attachments, boundFramebuffer, nativeFbos, nativeAtt,
                     nativeBound, aimed, astray, clearColor, clearColorApplied, nativeColor>>
  BY DEF GenImage, fbClear
<1>2. /\ \A n \in fbLive \cup images : nativeMap'[n] = nativeMap[n]
      /\ nativeMap'[nextFbName] = h /\ nextFbName \in Names
      /\ nextFbName \notin fbLive \cup images
      /\ nextFbName' \in 1..MaxName + 1 /\ nextFbName' = nextFbName + 1
      /\ nativeMap' \in [Names -> Natives \cup {0}]
      /\ \A n \in Names : n >= nextFbName' => nativeMap'[n] = 0
      /\ BoundFramebufferAgrees'
  BY <1>1, RegisterKeeps
<1>3. images \subseteq Names /\ fbLive \subseteq Names /\ nextFbName \in Nat /\ Names \subseteq Nat
  BY <1>2 DEF FBInv, FBTypeOK, Names
<1>4. FBTypeOK'
  <2>1. /\ \A n \in fbLive : nativeMap'[n] \in nativeFbos
        /\ \A n, m \in fbLive : nativeMap'[n] = nativeMap'[m] => n = m
    BY <1>2 DEF FBInv, FBTypeOK
  <2>2. images' \subseteq Names /\ fbLive' \cap images' = {}
    BY <1>1, <1>2 DEF FBInv, FBTypeOK
  <2> QED
    BY <1>1, <1>2, <2>1, <2>2 DEF FBInv, FBTypeOK
<1>5. NamesInOrder'
  <2>1. \A n \in fbLive' \cup images' : n < nextFbName'
    <3>1. \A n \in fbLive \cup images : n \in Nat /\ n < nextFbName
      BY <1>3 DEF FBInv, NamesInOrder
    <3> QED
      BY <1>1, <1>2, <1>3, <3>1
  <2>2. \A n \in Names, p \in Points :
          attachments'[n][p] \in {Unset, 0} \cup {i \in Names : i < nextFbName'}
    <3>1. \A i \in Names : i < nextFbName => i < nextFbName'
      BY <1>2, <1>3
    <3> QED
      BY <1>1, <3>1 DEF FBInv, NamesInOrder
  <2> QED
    BY <1>2, <2>1, <2>2 DEF NamesInOrder
<1>6. NothingLeft' /\ AstrayUnbound'
  BY <1>1 DEF FBInv, NothingLeft, AstrayUnbound
<1>7. Mirrored'
  <2>1. ASSUME NEW f \in aimed, NEW p \in Points
        PROVE  nativeMap'[f] = nativeMap[f] /\ attachments[f][p] # nextFbName
    <3>1. f \in fbLive
      BY DEF FBInv, FBTypeOK
    <3>2. attachments[f][p] \in {Unset, 0} \cup {i \in Names : i < nextFbName}
      BY <1>3, <3>1 DEF FBInv, NamesInOrder
    <3>3. nextFbName # 0 /\ nextFbName # Unset /\ ~(nextFbName < nextFbName)
      BY <1>2 DEF Names
    <3> QED
      BY <1>2, <3>1, <3>2, <3>3
  <2> QED
    BY <1>1, <2>1 DEF FBInv, Mirrored
<1> QED
  BY <1>2, <1>4, <1>5, <1>6, <1>7 DEF FBInv

LEMMA DeleteFBKeeps ==
  ASSUME FBInv, NEW f \in Names, DeleteFramebuffer(f)
  PROVE  FBInv'
<1> USE FramebufferBounds, UnsetIsNoImage
<1>0. FBTypeOK
  BY DEF FBInv
<1>1. /\ f \in fbLive /\ fbLive' = fbLive \ {f}
      /\ attachments' = [attachments EXCEPT ![f] = [p \in Points |-> Unset]]
      /\ boundFramebuffer' = IF boundFramebuffer = f THEN 0 ELSE boundFramebuffer
      /\ nativeFbos' = nativeFbos \ {Handle(f)}
      /\ nativeAtt' = [nativeAtt EXCEPT ![Handle(f)] = [p \in Points |-> 0]]
      /\ nativeBound' = IF nativeBound = Handle(f) THEN 0 ELSE nativeBound
      /\ aimed' = aimed \ {f}
      /\ astray' = (astray \/ (boundFramebuffer = f /\ nativeBound # Handle(f)))
      /\ UNCHANGED <<images, nextFbName, nativeMap, stored, clearColor, clearColorApplied,
                     nativeColor>>
  BY DEF DeleteFramebuffer, fbClear
<1>2. Handle(f) \in Natives /\ Handle(f) # 0
      /\ \A g \in fbLive \cup {0} : g # f => Handle(g) # Handle(f)
  BY <1>0, <1>1, LiveHandles
<1>3. /\ \A n \in Names, p \in Points :
           attachments'[n][p] = IF n = f THEN Unset ELSE attachments[n][p]
      /\ \A h \in Natives, p \in Points :
           nativeAtt'[h][p] = IF h = Handle(f) THEN 0 ELSE nativeAtt[h][p]
  BY <1>0, <1>1 DEF FBTypeOK
<1>4. FBTypeOK'
  <2>1. attachments' \in [Names -> [Points -> Names \cup {Unset, 0}]]
    <3>1. [p \in Points |-> Unset] \in [Points -> Names \cup {Unset, 0}]
      OBVIOUS
    <3> QED
      BY <1>0, <1>1, <3>1 DEF FBTypeOK
  <2>2. nativeAtt' \in [Natives -> [Points -> Names \cup {0}]]
    <3>1. [p \in Points |-> 0] \in [Points -> Names \cup {0}]
      OBVIOUS
    <3> QED
      BY <1>0, <1>1, <3>1 DEF FBTypeOK
  <2>3. \A n \in fbLive' : nativeMap'[n] \in nativeFbos'
    <3>1. \A n \in fbLive' : nativeMap[n] \in nativeFbos /\ nativeMap[n] # nativeMap[f]
      BY <1>0, <1>1 DEF FBTypeOK
    <3>2. Handle(f) = nativeMap[f]
      BY <1>0, <1>1, LiveHandles
    <3> QED
      BY <1>1, <3>1, <3>2
  <2>4. /\ fbLive' \subseteq Names /\ fbLive' \cap images' = {}
        /\ nativeFbos' \subseteq Natives /\ aimed' \subseteq fbLive'
        /\ boundFramebuffer' \in fbLive' \cup {0} /\ nativeBound' \in nativeFbos' \cup {0}
        /\ astray' \in BOOLEAN
        /\ \A n, m \in fbLive' : nativeMap'[n] = nativeMap'[m] => n = m
    BY <1>0, <1>1 DEF FBTypeOK
  <2> QED
    BY <1>0, <1>1, <2>1, <2>2, <2>3, <2>4 DEF FBTypeOK
<1>5. NamesInOrder'
  BY <1>1, <1>3 DEF FBInv, NamesInOrder
<1>6. NothingLeft'
  BY <1>1, <1>3 DEF FBInv, NothingLeft
<1>7. Mirrored'
  <2>1. ASSUME NEW g \in aimed'
        PROVE  g \in Names /\ g # f /\ g \in aimed /\ nativeMap[g] \in Natives
               /\ nativeMap[g] # Handle(f)
    <3>1. g \in aimed /\ g \in fbLive /\ g # f
      BY <1>0, <1>1 DEF FBTypeOK
    <3> QED
      BY <1>0, <1>2, <3>1, LiveHandles
  <2> QED
    BY <1>1, <1>3, <2>1 DEF FBInv, Mirrored
<1>8. AstrayUnbound'
  BY <1>1 DEF FBInv, AstrayUnbound
<1>9. BoundFramebufferAgrees'
  <2> SUFFICES ASSUME Straight(boundFramebuffer)', ~astray'
               PROVE  nativeBound' = Handle(boundFramebuffer)'
    BY DEF BoundFramebufferAgrees
  <2>1. CASE boundFramebuffer = f
    <3>1. boundFramebuffer' = 0 /\ nativeBound' = 0
      BY <1>1, <2>1
    <3> QED
      BY <3>1 DEF Handle
  <2>2. CASE boundFramebuffer # f
    <3>1. /\ boundFramebuffer' = boundFramebuffer
          /\ Handle(boundFramebuffer)' = Handle(boundFramebuffer)
          /\ Straight(boundFramebuffer)
      BY <1>1, <2>2 DEF Handle, Straight, Resolve
    <3>2. nativeBound = Handle(boundFramebuffer)
      BY <1>1, <3>1 DEF FBInv, BoundFramebufferAgrees
    <3>3. boundFramebuffer \in fbLive \cup {0}
      BY <1>0 DEF FBTypeOK
    <3> QED
      BY <1>1, <1>2, <2>2, <3>1, <3>2, <3>3
  <2> QED
    BY <2>1, <2>2
<1> QED
  BY <1>4, <1>5, <1>6, <1>7, <1>8, <1>9 DEF FBInv

LEMMA DeleteImageKeeps ==
  ASSUME FBInv, NEW i \in Names, DeleteImage(i)
  PROVE  FBInv'
<1> USE FramebufferBounds, UnsetIsNoImage
<1>1. /\ i \in images /\ images' = images \ {i}
      /\ nativeAtt' = [h \in Natives |-> [p \in Points |->
                         IF h = nativeBound /\ nativeAtt[h][p] = i THEN 0 ELSE nativeAtt[h][p]]]
      /\ UNCHANGED <<fbLive, nextFbName, nativeMap, stored, attachments, boundFramebuffer,
                     clearColor, clearColorApplied, nativeColor, nativeFbos, nativeBound,
                     aimed, astray>>
  BY DEF DeleteImage, fbClear
<1>2. \A h \in Natives, p \in Points :
        nativeAtt'[h][p] = IF h = nativeBound /\ nativeAtt[h][p] = i THEN 0 ELSE nativeAtt[h][p]
  BY <1>1
<1>3. FBTypeOK'
  <2>1. nativeAtt' \in [Natives -> [Points -> Names \cup {0}]]
    <3>1. \A h \in Natives, p \in Points : nativeAtt[h][p] \in Names \cup {0}
      BY DEF FBInv, FBTypeOK
    <3> QED
      BY <1>1, <3>1
  <2> QED
    BY <1>1, <2>1 DEF FBInv, FBTypeOK
<1>4. NamesInOrder' /\ AstrayUnbound'
  BY <1>1 DEF FBInv, NamesInOrder, AstrayUnbound
<1>5. NothingLeft'
  BY <1>1, <1>2 DEF FBInv, NothingLeft
<1>6. Mirrored'
  <2>1. \A f \in aimed : nativeMap[f] \in Natives
    BY DEF FBInv, FBTypeOK
  <2>2. i # 0
    BY DEF Names
  <2> QED
    BY <1>1, <1>2, <2>1, <2>2 DEF FBInv, Mirrored
<1>7. BoundFramebufferAgrees'
  BY <1>1 DEF FBInv, BoundFramebufferAgrees, Straight, Resolve, Handle
<1> QED
  BY <1>3, <1>4, <1>5, <1>6, <1>7 DEF FBInv

\* The steps that leave bindings, names and attachments alone.
LEMMA QuietKeeps ==
  ASSUME FBInv,
         UNCHANGED <<fbLive, images, nextFbName, nativeMap, attachments, boundFramebuffer,
                     nativeFbos, nativeAtt, nativeBound, aimed, astray>>,
         stored' \subseteq Names, {clearColor', clearColorApplied', nativeColor'} \subseteq Colours
  PROVE  FBInv'
<1>1. FBTypeOK'
  BY DEF FBInv, FBTypeOK
<1>2. NamesInOrder' /\ NothingLeft' /\ Mirrored' /\ AstrayUnbound'
  BY DEF FBInv, NamesInOrder, NothingLeft, Mirrored, AstrayUnbound
<1>3. BoundFramebufferAgrees'
  BY DEF FBInv, BoundFramebufferAgrees, Straight, Resolve, Handle
<1> QED
  BY <1>1, <1>2, <1>3 DEF FBInv

LEMMA AttachKeeps ==
  ASSUME FBInv, NEW f \in fbLive, NEW p \in Points, NEW i, Attach(f, p, i)
  PROVE  FBInv'
<1> USE FramebufferBounds, UnsetIsNoImage
<1>0. FBTypeOK
  BY DEF FBInv
<1>1. /\ i \in images \cup {0}
      /\ attachments' = [attachments EXCEPT ![f][p] = i]
      /\ nativeAtt' = IF nativeBound = 0 THEN nativeAtt
                                         ELSE [nativeAtt EXCEPT ![nativeBound][p] = i]
      /\ aimed' = IF nativeBound = Handle(f) THEN aimed
                  ELSE {g \in aimed : g # f /\ Handle(g) # nativeBound}
      /\ UNCHANGED <<fbLive, images, nextFbName, nativeMap, stored, boundFramebuffer,
                     nativeFbos, nativeBound, astray, clearColor, clearColorApplied,
                     nativeColor>>
  BY DEF Attach, fbObjects, fbClear
<1>2. /\ i \in Names \cup {0} /\ i # Unset
      /\ nativeBound \in nativeFbos \cup {0} /\ nativeFbos \subseteq Natives
      /\ 0 \notin Natives
  BY <1>0, <1>1 DEF FBTypeOK, Natives
<1>3. \A n \in Names, q \in Points :
        attachments'[n][q] = IF n = f /\ q = p THEN i ELSE attachments[n][q]
  BY <1>0, <1>1 DEF FBTypeOK
<1>4. \A h \in Natives, q \in Points :
        nativeAtt'[h][q] = IF h = nativeBound /\ q = p THEN i ELSE nativeAtt[h][q]
  BY <1>0, <1>1, <1>2 DEF FBTypeOK
<1>5. FBTypeOK'
  <2>1. attachments' \in [Names -> [Points -> Names \cup {Unset, 0}]]
    BY <1>0, <1>1, <1>2 DEF FBTypeOK
  <2>2. nativeAtt' \in [Natives -> [Points -> Names \cup {0}]]
    BY <1>0, <1>1, <1>2 DEF FBTypeOK
  <2>3. aimed' \subseteq fbLive
    BY <1>0, <1>1 DEF FBTypeOK
  <2> QED
    BY <1>0, <1>1, <2>1, <2>2, <2>3 DEF FBTypeOK
<1>6. NamesInOrder'
  <2>1. i = 0 \/ (i \in Names /\ i < nextFbName)
    BY <1>1, <1>2 DEF FBInv, NamesInOrder
  <2> QED
    BY <1>1, <1>3, <2>1 DEF FBInv, NamesInOrder
<1>7. NothingLeft' /\ AstrayUnbound'
  BY <1>1, <1>2, <1>3, <1>4 DEF FBInv, NothingLeft, AstrayUnbound
<1>8. ASSUME NEW g \in aimed', NEW q \in Points
      PROVE  /\ attachments'[g][q] = Unset => nativeAtt'[nativeMap[g]][q] = 0
             /\ attachments'[g][q] \in images => nativeAtt'[nativeMap[g]][q] = attachments'[g][q]
  <2>1. g \in aimed /\ g \in fbLive /\ g \in Names /\ nativeMap[g] \in Natives
        /\ Handle(g) = nativeMap[g] /\ (g # f => nativeMap[g] # Handle(f))
    <3>1. g \in aimed /\ g \in fbLive
      BY <1>0, <1>1 DEF FBTypeOK
    <3> QED
      BY <1>0, <3>1, LiveHandles
  <2>2. CASE g = f
    <3>1. nativeBound = nativeMap[f]
      BY <1>1, <2>1, <2>2
    <3> QED
      BY <1>2, <1>3, <1>4, <2>1, <2>2, <3>1 DEF FBInv, Mirrored
  <2>3. CASE g # f
    <3>1. nativeMap[g] # nativeBound
      BY <1>1, <2>1, <2>3
    <3> QED
      BY <1>3, <1>4, <2>1, <2>3, <3>1 DEF FBInv, Mirrored
  <2> QED
    BY <2>2, <2>3
<1>9. Mirrored'
  BY <1>1, <1>8 DEF Mirrored
<1>10. BoundFramebufferAgrees'
  BY <1>1 DEF FBInv, BoundFramebufferAgrees, Straight, Resolve, Handle
<1> QED
  BY <1>5, <1>6, <1>7, <1>9, <1>10 DEF FBInv

LEMMA ResolvedNative ==
  ASSUME FBTypeOK, NEW f \in fbLive \cup {0}
  PROVE  Resolve(Handle(f)) \in Natives \cup {0}
  BY LiveHandles DEF Resolve, FBTypeOK

LEMMA StepFB == FBInv /\ [FBNext]_fbVars => FBInv'
<1> SUFFICES ASSUME FBInv, [FBNext]_fbVars
             PROVE  FBInv'
  OBVIOUS
<1>0. /\ FBTypeOK /\ clearColor \in Colours /\ clearColorApplied \in Colours
      /\ nativeColor \in Colours /\ stored \subseteq Names /\ images \subseteq Names
      /\ boundFramebuffer \in fbLive \cup {0}
  BY DEF FBInv, FBTypeOK
<1>1. ASSUME NEW f \in Names \cup {0}, BindFramebuffer(f)
      PROVE  FBInv'
  BY <1>0, <1>1, RebindKeeps DEF BindFramebuffer, fbClear
<1>2. ASSUME NEW f \in Names \cup {0}, NEW c \in Colours, ClearNamedFramebuffer(f, c)
      PROVE  FBInv'
  <2>1. {Resolve(Handle(f))} \in SUBSET (Natives \cup {0})
    BY <1>0, <1>2, ResolvedNative DEF ClearNamedFramebuffer
  <2> QED
    BY <1>0, <1>2, <2>1, RebindKeeps DEF ClearNamedFramebuffer
<1>3. ASSUME NEW read \in Names \cup {0}, NEW draw \in Names \cup {0},
             BlitNamedFramebuffer(read, draw)
      PROVE  FBInv'
  <2>1. {Resolve(Handle(read)), Resolve(Handle(draw))} \in SUBSET (Natives \cup {0})
    BY <1>0, <1>3, ResolvedNative DEF BlitNamedFramebuffer
  <2> QED
    BY <1>0, <1>3, <2>1, RebindKeeps DEF BlitNamedFramebuffer, fbClear
<1>4. ASSUME NEW p \in Points, NEW i \in Names \cup {0}, FramebufferAttach(p, i)
      PROVE  FBInv'
  BY <1>0, <1>4, AttachKeeps DEF FramebufferAttach
<1>5. ASSUME NEW f \in Names, NEW p \in Points, NEW i \in Names \cup {0},
             NamedFramebufferAttach(f, p, i)
      PROVE  FBInv'
  BY <1>5, AttachKeeps DEF NamedFramebufferAttach
<1>6. ASSUME NEW i \in Names, ImageStorage(i)
      PROVE  FBInv'
  BY <1>0, <1>6, QuietKeeps DEF ImageStorage, fbClear
<1>7. ASSUME NEW c \in Colours, SetClearColor(c)
      PROVE  FBInv'
  BY <1>0, <1>7, QuietKeeps DEF SetClearColor, fbObjects
<1>8. CASE Clear
  BY <1>0, <1>8, QuietKeeps DEF Clear, FlushedColor, fbObjects
<1>9. CASE UNCHANGED fbVars
  BY <1>0, <1>9, QuietKeeps DEF fbVars, fbObjects, fbClear
<1> QED
  BY <1>1, <1>2, <1>3, <1>4, <1>5, <1>6, <1>7, <1>8, <1>9, GenFBKeeps, GenImageKeeps,
     DeleteFBKeeps, DeleteImageKeeps
     DEF FBNext

LEMMA FBAlways == FBSpec => []FBInv
  BY InitFB, StepFB, PTL DEF FBSpec

\* Wherever the second translation of a framebuffer's number finds no other
\* object, the driver has the program's framebuffer bound, for any number of
\* names and any order of binds, named commands, generations and deletions.
THEOREM DrawsGoWhereSaid == FBSpec => []BoundFramebufferAgrees
<1>1. FBInv => BoundFramebufferAgrees
  BY DEF FBInv
<1> QED
  BY <1>1, FBAlways, PTL

\* The answer of glCheckFramebufferStatus is complete exactly for a framebuffer
\* with attachments that all exist and have storage, and those are what the
\* driver has: it neither vouches for a deleted image nor reports a framebuffer
\* incomplete that the program completed.
THEOREM StatusIsHonest == FBSpec => []StatusHonest
<1>1. ASSUME FBInv, boundFramebuffer \in aimed, Straight(boundFramebuffer)
      PROVE  LET att(p) == attachments[boundFramebuffer][p]
                 points   == {p \in Points : att(p) # Unset}
             IN  CheckFramebufferStatus <=>
                   /\ points # {}
                   /\ \A p \in points : /\ att(p) \in images \cap stored
                                      /\ nativeAtt[nativeBound][p] = att(p)
  <2> DEFINE att(p) == attachments[boundFramebuffer][p]
             natt(p) == nativeAtt[nativeBound][p]
             points   == {p \in Points : att(p) # Unset}
             pictures == {att(p) : p \in Points} \ {Unset}
             driverHeld == {natt(p) : p \in Points} \ {0}
  <2>1. /\ boundFramebuffer \in fbLive /\ boundFramebuffer # 0
        /\ Handle(boundFramebuffer) = nativeMap[boundFramebuffer]
        /\ Handle(boundFramebuffer) # 0
    BY <1>1, LiveHandles DEF FBInv, FBTypeOK
  <2>2. nativeBound = nativeMap[boundFramebuffer] /\ nativeBound # 0
    BY <1>1, <2>1 DEF FBInv, AstrayUnbound, BoundFramebufferAgrees, FBTypeOK
  <2>3. \A p \in Points : /\ att(p) = Unset => natt(p) = 0
                          /\ att(p) \in images => natt(p) = att(p)
    BY <1>1, <2>2 DEF FBInv, Mirrored
  <2>4. 0 \notin images
    BY <1>1, FramebufferBounds DEF FBInv, FBTypeOK, Names
  <2>5. CheckFramebufferStatus <=>
          /\ pictures # {} /\ pictures \subseteq images \cap stored
          /\ driverHeld # {} /\ driverHeld \subseteq stored
    BY <2>1, <2>2 DEF CheckFramebufferStatus, DriverComplete
  <2> HIDE DEF att, natt
  <2>6. CASE pictures # {} /\ pictures \subseteq images \cap stored
    <3>1. \A p \in points : att(p) \in images \cap stored /\ natt(p) = att(p) /\ natt(p) # 0
      BY <2>3, <2>4, <2>6
    <3>2. points # {}
      BY <2>6
    <3>3. driverHeld # {} /\ driverHeld \subseteq stored
      BY <2>3, <3>1, <3>2
    <3> QED
      BY <2>5, <2>6, <3>1, <3>2, <3>3 DEF att, natt
  <2>7. CASE ~(pictures # {} /\ pictures \subseteq images \cap stored)
    <3>1. ~(points # {} /\ \A p \in points : att(p) \in images \cap stored)
      BY <2>7
    <3> QED
      BY <2>5, <2>7, <3>1 DEF att, natt
  <2> QED
    BY <2>6, <2>7
<1>2. FBInv => StatusHonest
  BY <1>1 DEF StatusHonest
<1> QED
  BY <1>2, FBAlways, PTL
-----------------------------------------------------------------------------
(* Shaders and programs: the loops of attachShader and detachShader. *)

LEMMA AttachLoop ==
  ASSUME NEW list \in Seq(Shaders), NEW holding \in SUBSET Shaders
  PROVE  \E f \in [0 .. Len(list) -> SUBSET Shaders] :
           /\ f[0] = holding
           /\ \A k \in 0 .. Len(list) - 1 : f[k + 1] = Attaching(f[k], list[k + 1])
           /\ DriverAttach(list, holding) = f[Len(list)]
<1> DEFINE n == Len(list)
           F == [k \in 0 .. n - 1 |-> [d \in SUBSET Shaders |-> Attaching(d, list[k + 1])]]
<1>1. n \in Nat
  OBVIOUS
<1>2. \A k \in 0 .. n - 1 : list[k + 1] \in Shaders
  OBVIOUS
<1>3. \A d \in SUBSET Shaders, s \in Shaders : Attaching(d, s) \in SUBSET Shaders
  BY DEF Attaching
<1> HIDE DEF n
<1>4. F \in [0 .. n - 1 -> [SUBSET Shaders -> SUBSET Shaders]]
  BY <1>2, <1>3
<1>5. PICK f \in [0 .. n -> SUBSET Shaders] :
        f[0] = holding /\ \A k \in 0 .. n - 1 : f[k + 1] = F[k][f[k]]
  <2> HIDE DEF F
  <2>1. \E f \in [0 .. n -> SUBSET Shaders] : IsRun(f, holding, n, F)
    BY <1>1, <1>4, LoopExists, Zenon
  <2> QED
    BY <2>1 DEF IsRun
<1>6. \A k \in 0 .. n - 1 : f[k + 1] = Attaching(f[k], list[k + 1])
  <2> SUFFICES ASSUME NEW k \in 0 .. n - 1
               PROVE  F[k][f[k]] = Attaching(f[k], list[k + 1])
    BY <1>5
  <2>1. k \in 0 .. n
    BY <1>1
  <2> QED
    BY <1>5, <2>1
<1> HIDE DEF F
<1>7. ASSUME NEW k \in 0 .. n
      PROVE  f[k] = IF k = 0 THEN holding ELSE Attaching(f[k - 1], list[k])
  <2>1. k = 0 \/ (k - 1 \in 0 .. n - 1 /\ (k - 1) + 1 = k)
    BY <1>1
  <2> QED
    BY <1>5, <1>6, <2>1
<1> DEFINE G(g) == [k \in 0 .. Len(list) |-> IF k = 0 THEN holding ELSE Attaching(g[k - 1], list[k])]
           taken == CHOOSE g : g = G(g)
<1>8. f = G(f)
  BY <1>5, <1>7 DEF n
<1>9. taken = G(taken)
  <2> HIDE DEF G
  <2> QED
    BY <1>8, Zenon
<1>10. DriverAttach(list, holding) = taken[Len(list)]
  BY DEF DriverAttach
<1> HIDE DEF taken, G
<1>11. ASSUME NEW k \in 0 .. n
       PROVE  taken[k] = IF k = 0 THEN holding ELSE Attaching(taken[k - 1], list[k])
  BY <1>9 DEF n, G
<1>12. \A k \in 0 .. n : taken[k] = f[k]
  <2> DEFINE S == {k \in 0 .. n : taken[k] = f[k]}
  <2>1. 0 \in S
    BY <1>1, <1>5, <1>11
  <2>2. ASSUME NEW k \in 0 .. n - 1, k \in S
        PROVE  k + 1 \in S
    <3>1. k + 1 \in 0 .. n /\ k + 1 # 0 /\ (k + 1) - 1 = k
      BY <1>1
    <3> QED
      BY <1>6, <1>11, <2>2, <3>1
  <2> HIDE DEF S
  <2>3. \A k \in 0 .. n : k \in S
    BY <1>1, <2>1, <2>2, UpTo
  <2> QED
    BY <2>3 DEF S
<1>13. n \in 0 .. n
  BY <1>1
<1> QED
  BY <1>5, <1>6, <1>10, <1>12, <1>13 DEF n

\* One turn of the loop of Without.
Keeping(list, t, s) == IF t = s THEN list ELSE Append(list, t)

LEMMA DetachLoop ==
  ASSUME NEW list \in Seq(Shaders), NEW s \in Shaders
  PROVE  \E f \in [0 .. Len(list) -> Seq(Shaders)] :
           /\ f[0] = <<>>
           /\ \A k \in 0 .. Len(list) - 1 : f[k + 1] = Keeping(f[k], list[k + 1], s)
           /\ Without(list, s) = f[Len(list)]
<1> DEFINE n == Len(list)
           F == [k \in 0 .. n - 1 |-> [d \in Seq(Shaders) |-> Keeping(d, list[k + 1], s)]]
<1>1. n \in Nat
  OBVIOUS
<1>2. \A k \in 0 .. n - 1 : list[k + 1] \in Shaders
  OBVIOUS
<1>3. \A d \in Seq(Shaders), t \in Shaders : Keeping(d, t, s) \in Seq(Shaders)
  BY DEF Keeping
<1> HIDE DEF n
<1>4. F \in [0 .. n - 1 -> [Seq(Shaders) -> Seq(Shaders)]]
  BY <1>2, <1>3
<1>5. PICK f \in [0 .. n -> Seq(Shaders)] :
        f[0] = <<>> /\ \A k \in 0 .. n - 1 : f[k + 1] = F[k][f[k]]
  <2> HIDE DEF F
  <2>0. <<>> \in Seq(Shaders)
    OBVIOUS
  <2>1. \E f \in [0 .. n -> Seq(Shaders)] : IsRun(f, <<>>, n, F)
    BY <1>1, <1>4, <2>0, LoopExists, Zenon
  <2> QED
    BY <2>1 DEF IsRun
<1>6. \A k \in 0 .. n - 1 : f[k + 1] = Keeping(f[k], list[k + 1], s)
  <2> SUFFICES ASSUME NEW k \in 0 .. n - 1
               PROVE  F[k][f[k]] = Keeping(f[k], list[k + 1], s)
    BY <1>5
  <2>1. k \in 0 .. n
    BY <1>1
  <2> QED
    BY <1>5, <2>1
<1> HIDE DEF F
<1>7. ASSUME NEW k \in 0 .. n
      PROVE  f[k] = IF k = 0 THEN <<>> ELSE Keeping(f[k - 1], list[k], s)
  <2>1. k = 0 \/ (k - 1 \in 0 .. n - 1 /\ (k - 1) + 1 = k)
    BY <1>1
  <2> QED
    BY <1>5, <1>6, <2>1
<1> DEFINE G(g) == [k \in 0 .. Len(list) |->
                     IF k = 0 THEN <<>>
                     ELSE IF list[k] = s THEN g[k - 1] ELSE Append(g[k - 1], list[k])]
           kept == CHOOSE g : g = G(g)
<1>8. f = G(f)
  BY <1>5, <1>7 DEF n, Keeping
<1>9. kept = G(kept)
  <2> HIDE DEF G
  <2> QED
    BY <1>8, Zenon
<1>10. Without(list, s) = kept[Len(list)]
  BY DEF Without
<1> HIDE DEF kept, G
<1>11. ASSUME NEW k \in 0 .. n
       PROVE  kept[k] = IF k = 0 THEN <<>> ELSE Keeping(kept[k - 1], list[k], s)
  BY <1>9 DEF n, G, Keeping
<1>12. \A k \in 0 .. n : kept[k] = f[k]
  <2> DEFINE S == {k \in 0 .. n : kept[k] = f[k]}
  <2>1. 0 \in S
    BY <1>1, <1>5, <1>11
  <2>2. ASSUME NEW k \in 0 .. n - 1, k \in S
        PROVE  k + 1 \in S
    <3>1. k + 1 \in 0 .. n /\ k + 1 # 0 /\ (k + 1) - 1 = k
      BY <1>1
    <3> QED
      BY <1>6, <1>11, <2>2, <3>1
  <2> HIDE DEF S
  <2>3. \A k \in 0 .. n : k \in S
    BY <1>1, <2>1, <2>2, UpTo
  <2> QED
    BY <2>3 DEF S
<1>13. n \in 0 .. n
  BY <1>1
<1> QED
  BY <1>5, <1>6, <1>10, <1>12, <1>13 DEF n

LEMMA ToSetAppend ==
  ASSUME NEW S, NEW list \in Seq(S), NEW e \in S
  PROVE  ToSet(Append(list, e)) = ToSet(list) \cup {e}
<1>1. /\ DOMAIN Append(list, e) = 1 .. Len(list) + 1 /\ DOMAIN list = 1 .. Len(list)
      /\ \A i \in 1 .. Len(list) : Append(list, e)[i] = list[i]
      /\ Append(list, e)[Len(list) + 1] = e
  OBVIOUS
<1>2. Len(list) \in Nat
  OBVIOUS
<1>3. ASSUME NEW x PROVE x \in ToSet(Append(list, e)) <=> x \in ToSet(list) \cup {e}
  <2>1. x \in ToSet(Append(list, e)) <=> \E i \in 1 .. Len(list) + 1 : Append(list, e)[i] = x
    BY <1>1 DEF ToSet
  <2>2. x \in ToSet(list) <=> \E i \in 1 .. Len(list) : list[i] = x
    BY <1>1 DEF ToSet
  <2>3. \A i \in 1 .. Len(list) + 1 : i \in 1 .. Len(list) \/ i = Len(list) + 1
    BY <1>2
  <2>4. \A i \in 1 .. Len(list) : i \in 1 .. Len(list) + 1
    BY <1>2
  <2>5. Len(list) + 1 \in 1 .. Len(list) + 1
    BY <1>2
  <2> QED
    BY <1>1, <2>1, <2>2, <2>3, <2>4, <2>5
<1> QED
  BY <1>3

\* Shaders that exist, of stages of their own, are all attached.
LEMMA AttachAll ==
  ASSUME NEW list \in Seq(Shaders), NEW holding \in SUBSET ToSet(list), ToSet(list) \subseteq shaders,
         \A s, t \in ToSet(list) : SameStage(s, t) => s = t
  PROVE  DriverAttach(list, holding) = ToSet(list)
<1> DEFINE n == Len(list)
           upTo(k) == holding \cup {list[i] : i \in 1 .. k}
<1>1. n \in Nat /\ DOMAIN list = 1 .. n /\ \A i \in 1 .. n : list[i] \in Shaders
  OBVIOUS
<1>2. ToSet(list) = {list[i] : i \in 1 .. n}
  BY <1>1 DEF ToSet
<1>3. holding \in SUBSET Shaders
  BY <1>1, <1>2
<1>4. PICK f \in [0 .. n -> SUBSET Shaders] :
        /\ f[0] = holding
        /\ \A k \in 0 .. n - 1 : f[k + 1] = Attaching(f[k], list[k + 1])
        /\ DriverAttach(list, holding) = f[n]
  BY <1>3, AttachLoop
<1> HIDE DEF n
<1>5. \A k \in 0 .. n : f[k] = upTo(k)
  <2> DEFINE S == {k \in 0 .. n : f[k] = upTo(k)}
  <2>1. 0 \in S
    BY <1>1, <1>4
  <2>2. ASSUME NEW k \in 0 .. n - 1, k \in S
        PROVE  k + 1 \in S
    <3>1. k + 1 \in 1 .. n /\ k + 1 \in 0 .. n /\ k \in Nat
      BY <1>1
    <3>2. 1 .. k + 1 = 1 .. k \cup {k + 1}
      BY <3>1
    <3>3. upTo(k + 1) = upTo(k) \cup {list[k + 1]}
      BY <3>2
    <3>4. list[k + 1] \in ToSet(list) /\ upTo(k) \subseteq ToSet(list)
      <4>1. 1 .. k \subseteq 1 .. n
        BY <1>1, <3>1
      <4> QED
        BY <1>2, <3>1, <4>1
    <3>5. f[k + 1] = Attaching(upTo(k), list[k + 1])
      BY <1>4, <2>2
    <3> HIDE DEF upTo
    <3>6. Attaching(upTo(k), list[k + 1]) = upTo(k) \cup {list[k + 1]}
      BY <3>4 DEF Attaching
    <3> QED
      BY <3>1, <3>3, <3>5, <3>6
  <2> HIDE DEF S
  <2>3. \A k \in 0 .. n : k \in S
    BY <1>1, <2>1, <2>2, UpTo
  <2> QED
    BY <2>3 DEF S
<1>6. n \in 0 .. n
  BY <1>1
<1> QED
  BY <1>2, <1>4, <1>5, <1>6

\* Without takes out a shader and nothing else.
LEMMA WithoutSet ==
  ASSUME NEW list \in Seq(Shaders), NEW s \in Shaders
  PROVE  /\ Without(list, s) \in Seq(Shaders)
         /\ ToSet(Without(list, s)) = ToSet(list) \ {s}
         /\ Len(Without(list, s)) <= Len(list)
<1> DEFINE n == Len(list)
           upTo(k) == {list[i] : i \in 1 .. k} \ {s}
<1>1. n \in Nat /\ DOMAIN list = 1 .. n /\ \A i \in 1 .. n : list[i] \in Shaders
  OBVIOUS
<1>2. ToSet(list) = {list[i] : i \in 1 .. n}
  BY <1>1 DEF ToSet
<1>3. PICK f \in [0 .. n -> Seq(Shaders)] :
        /\ f[0] = <<>>
        /\ \A k \in 0 .. n - 1 : f[k + 1] = Keeping(f[k], list[k + 1], s)
        /\ Without(list, s) = f[n]
  BY DetachLoop
<1> HIDE DEF n
<1>4. \A k \in 0 .. n : ToSet(f[k]) = upTo(k) /\ Len(f[k]) <= k
  <2> DEFINE S == {k \in 0 .. n : ToSet(f[k]) = upTo(k) /\ Len(f[k]) <= k}
  <2>1. 0 \in S
    <3>1. ToSet(<<>>) = {} /\ Len(<<>>) = 0
      BY DEF ToSet
    <3> QED
      BY <1>1, <1>3, <3>1
  <2>2. ASSUME NEW k \in 0 .. n - 1, k \in S
        PROVE  k + 1 \in S
    <3>1. k + 1 \in 1 .. n /\ k + 1 \in 0 .. n /\ k \in Nat /\ k \in 0 .. n
      BY <1>1
    <3>2. 1 .. k + 1 = 1 .. k \cup {k + 1}
      BY <3>1
    <3>3. upTo(k + 1) = upTo(k) \cup ({list[k + 1]} \ {s})
      BY <3>2
    <3>4. /\ f[k] \in Seq(Shaders) /\ list[k + 1] \in Shaders
          /\ ToSet(f[k]) = upTo(k) /\ Len(f[k]) <= k /\ Len(f[k]) \in Nat
      BY <1>1, <2>2, <3>1
    <3>5. f[k + 1] = Keeping(f[k], list[k + 1], s)
      BY <1>3
    <3> HIDE DEF upTo
    <3> SUFFICES ToSet(f[k + 1]) = upTo(k + 1) /\ Len(f[k + 1]) <= k + 1
      BY <3>1
    <3>6. CASE list[k + 1] = s
      <4>1. f[k + 1] = f[k]
        BY <3>5, <3>6 DEF Keeping
      <4>2. upTo(k + 1) = upTo(k)
        BY <3>3, <3>6
      <4> QED
        BY <3>1, <3>4, <4>1, <4>2
    <3>7. CASE list[k + 1] # s
      <4>1. f[k + 1] = Append(f[k], list[k + 1])
        BY <3>5, <3>7 DEF Keeping
      <4>2. ToSet(f[k + 1]) = ToSet(f[k]) \cup {list[k + 1]}
        BY <3>4, <4>1, ToSetAppend
      <4>3. Len(f[k + 1]) = Len(f[k]) + 1
        BY <3>4, <4>1
      <4>4. {list[k + 1]} \ {s} = {list[k + 1]}
        BY <3>7
      <4> QED
        BY <3>1, <3>3, <3>4, <4>2, <4>3, <4>4
    <3> QED
      BY <3>6, <3>7
  <2> HIDE DEF S
  <2>3. \A k \in 0 .. n : k \in S
    BY <1>1, <2>1, <2>2, UpTo
  <2> QED
    BY <2>3 DEF S
<1>5. n \in 0 .. n
  BY <1>1
<1> QED
  BY <1>2, <1>3, <1>4, <1>5 DEF n

-----------------------------------------------------------------------------
(* Shaders and programs: the invariant. *)

\* A program used tidily: its shaders exist and are of stages of their own, and
\* the driver has no other.
Neat(p) ==
  /\ Attached(p) \subseteq shaders
  /\ \A s, t \in Attached(p) : SameStage(s, t) => s = t
  /\ driverAttached[p] \subseteq Attached(p)

ShaderInv ==
  /\ SPTypeOK
  /\ attachedShaders \in [Programs -> Seq(Shaders)]
  /\ driverAttached \in [Programs -> SUBSET Shaders]
  /\ \A p \in Programs \ shaderPrograms : attachedShaders[p] = <<>> /\ driverAttached[p] = {}
  /\ \A p \in tidy : Neat(p)

LEMMA EmptySet == ToSet(<<>>) = {}
  BY DEF ToSet

LEMMA ListedShaders ==
  ASSUME ShaderInv, NEW p \in Programs
  PROVE  Attached(p) \subseteq Shaders /\ driverAttached[p] \subseteq Shaders
  BY DEF ShaderInv, SPTypeOK, Attached

LEMMA InitShaders == SPInit => ShaderInv
<1> SUFFICES ASSUME SPInit
             PROVE  ShaderInv
  OBVIOUS
<1>1. \A p \in Programs : /\ attachedShaders[p] = <<>> /\ driverAttached[p] = {}
                          /\ ToSet(attachedShaders[p]) = {}
  BY EmptySet DEF SPInit
<1>2. SPTypeOK
  BY <1>1, ShaderBounds DEF SPInit, SPTypeOK
<1>3. attachedShaders \in [Programs -> Seq(Shaders)]
  <2>1. <<>> \in Seq(Shaders)
    OBVIOUS
  <2> QED
    BY <2>1 DEF SPInit
<1> QED
  BY <1>1, <1>2, <1>3 DEF SPInit, ShaderInv

\* What a program is like after the step, if it is tidy then.
LEMMA Tidied ==
  ASSUME NEW programs, NEW untidy, Tidy(programs, untidy), NEW p \in tidy',
         p \in tidy \ untidy => Neat(p)'
  PROVE  p \in programs /\ Neat(p)'
<1>1. p \in programs /\ (\/ attachedShaders'[p] = <<>> /\ driverAttached'[p] = {}
                         \/ p \in tidy \ untidy)
  BY DEF Tidy
<1>2. CASE attachedShaders'[p] = <<>> /\ driverAttached'[p] = {}
  BY <1>1, <1>2, EmptySet DEF Neat, Attached
<1> QED
  BY <1>1, <1>2

LEMMA CreateShaderKeeps ==
  ASSUME ShaderInv, NEW s \in Shaders, CreateShader(s)
  PROVE  ShaderInv'
<1>1. /\ s \notin shaders /\ shaders' = shaders \cup {s}
      /\ driverCode' = [driverCode EXCEPT ![s] = NoCode]
      /\ UNCHANGED <<source, compiled, shaderPrograms, attachedShaders, linkedPrograms,
                     driverAttached, tidy>>
  BY DEF CreateShader, Unused, prVars
<1>2. SPTypeOK'
  BY <1>1 DEF ShaderInv, SPTypeOK
<1>3. \A p \in tidy : Neat(p)'
  BY <1>1 DEF ShaderInv, Neat, Attached, SameStage
<1> QED
  BY <1>1, <1>2, <1>3 DEF ShaderInv

LEMMA ShaderSourceKeeps ==
  ASSUME ShaderInv, NEW s \in Shaders, NEW src \in Sources, ShaderSource(s, src)
  PROVE  ShaderInv'
<1>1. /\ source' = [source EXCEPT ![s] = src]
      /\ UNCHANGED <<shaders, compiled, driverCode, shaderPrograms, attachedShaders,
                     linkedPrograms, driverAttached, tidy>>
  BY DEF ShaderSource, prVars
<1>2. SPTypeOK'
  BY <1>1 DEF ShaderInv, SPTypeOK
<1>3. \A p \in tidy : Neat(p)'
  BY <1>1 DEF ShaderInv, Neat, Attached, SameStage
<1> QED
  BY <1>1, <1>2, <1>3 DEF ShaderInv

LEMMA CompileKeeps ==
  ASSUME ShaderInv, NEW s \in Shaders, CompileShader(s)
  PROVE  ShaderInv'
<1>1. /\ s \in shaders /\ source[s] # NoCode
      /\ driverCode' = [driverCode EXCEPT ![s] = Compile(source[s], @)]
      /\ compiled' = IF source[s] = "compiles" THEN compiled \cup {s} ELSE compiled \ {s}
      /\ UNCHANGED <<shaders, source, shaderPrograms, attachedShaders, linkedPrograms,
                     driverAttached, tidy>>
  BY DEF CompileShader, prVars
<1>2. SPTypeOK'
  <2>1. source[s] \in Sources
    BY <1>1 DEF ShaderInv, SPTypeOK
  <2>2. /\ Compile(source[s], driverCode[s]) \in {"compiles", "rejected", NoCode}
        /\ source[s] = "compiles" => Compile(source[s], driverCode[s]) = "compiles"
    BY <2>1 DEF ShaderInv, SPTypeOK, Compile, Sources
  <2>3. /\ driverCode' \in [Shaders -> {"compiles", "rejected", NoCode}]
        /\ \A t \in compiled' : driverCode'[t] = "compiles"
        /\ compiled' \subseteq shaders'
    BY <1>1, <2>2 DEF ShaderInv, SPTypeOK
  <2> QED
    BY <1>1, <2>3 DEF ShaderInv, SPTypeOK
<1>3. \A p \in tidy : Neat(p)'
  BY <1>1 DEF ShaderInv, Neat, Attached, SameStage
<1> QED
  BY <1>1, <1>2, <1>3 DEF ShaderInv

LEMMA DeleteShaderKeeps ==
  ASSUME ShaderInv, NEW s \in Shaders, DeleteShader(s)
  PROVE  ShaderInv'
<1>1. /\ s \in shaders /\ shaders' = shaders \ {s} /\ compiled' = compiled \ {s}
      /\ source' = [source EXCEPT ![s] = NoCode]
      /\ UNCHANGED <<driverCode, shaderPrograms, attachedShaders, linkedPrograms,
                     driverAttached>>
      /\ Tidy(shaderPrograms, {p \in Programs : s \in Attached(p) \cup driverAttached[p]})
  BY DEF DeleteShader
<1>2. ASSUME NEW p \in tidy'
      PROVE  p \in shaderPrograms /\ Neat(p)'
  <2>1. ASSUME p \in tidy, p \notin {q \in Programs : s \in Attached(q) \cup driverAttached[q]}
        PROVE  Neat(p)'
    <3>1. p \in Programs /\ s \notin Attached(p)
      BY <2>1 DEF ShaderInv, SPTypeOK
    <3> QED
      BY <1>1, <2>1, <3>1 DEF ShaderInv, Neat, Attached, SameStage
  <2> QED
    BY <1>1, <2>1, Tidied
<1>3. SPTypeOK'
  BY <1>1, <1>2 DEF ShaderInv, SPTypeOK
<1> QED
  BY <1>1, <1>2, <1>3 DEF ShaderInv

LEMMA CreateProgramKeeps ==
  ASSUME ShaderInv, NEW p \in Programs, CreateProgram(p)
  PROVE  ShaderInv'
<1>1. /\ p \notin shaderPrograms /\ shaderPrograms' = shaderPrograms \cup {p}
      /\ tidy' = tidy \cup {p}
      /\ UNCHANGED <<shaders, source, compiled, driverCode, attachedShaders, linkedPrograms,
                     driverAttached>>
  BY DEF CreateProgram, shVars
<1>2. SPTypeOK'
  BY <1>1 DEF ShaderInv, SPTypeOK
<1>3. \A q \in tidy : Neat(q)'
  BY <1>1 DEF ShaderInv, Neat, Attached, SameStage
<1>4. Neat(p)'
  <2>1. attachedShaders'[p] = <<>> /\ driverAttached'[p] = {}
    BY <1>1 DEF ShaderInv
  <2> QED
    BY <2>1, EmptySet DEF Neat, Attached
<1> QED
  BY <1>1, <1>2, <1>3, <1>4 DEF ShaderInv

LEMMA DeleteProgramKeeps ==
  ASSUME ShaderInv, NEW p \in Programs, DeleteProgram(p)
  PROVE  ShaderInv'
<1>1. /\ shaderPrograms' = shaderPrograms \ {p}
      /\ attachedShaders' = [attachedShaders EXCEPT ![p] = <<>>]
      /\ driverAttached' = [driverAttached EXCEPT ![p] = {}]
      /\ linkedPrograms' = linkedPrograms \ {p} /\ tidy' = tidy \ {p}
      /\ UNCHANGED <<shaders, source, compiled, driverCode>>
  BY DEF DeleteProgram, shVars
<1>2. <<>> \in Seq(Shaders) /\ Len(<<>>) = 0 /\ 0 <= MaxAttached
  BY ShaderBounds
<1>3. /\ \A q \in Programs : attachedShaders'[q] = IF q = p THEN <<>> ELSE attachedShaders[q]
      /\ \A q \in Programs : driverAttached'[q] = IF q = p THEN {} ELSE driverAttached[q]
      /\ attachedShaders' \in [Programs -> Seq(Shaders)]
      /\ driverAttached' \in [Programs -> SUBSET Shaders]
  BY <1>1, <1>2 DEF ShaderInv
<1>4. SPTypeOK'
  <2>1. \A q \in Programs : /\ ToSet(attachedShaders'[q]) \cup driverAttached'[q] \subseteq Shaders
                            /\ Len(attachedShaders'[q]) <= MaxAttached
    BY <1>2, <1>3, EmptySet DEF ShaderInv, SPTypeOK
  <2> QED
    BY <1>1, <1>3, <2>1 DEF ShaderInv, SPTypeOK
<1>5. \A q \in tidy' : q \in Programs /\ Neat(q)'
  BY <1>1, <1>3 DEF ShaderInv, SPTypeOK, Neat, Attached, SameStage
<1> QED
  BY <1>1, <1>3, <1>4, <1>5 DEF ShaderInv

\* A list that a step replaces by another one.
LEMMA ReplaceList ==
  ASSUME ShaderInv, NEW p \in shaderPrograms, NEW list \in Seq(Shaders),
         ToSet(list) \subseteq Shaders, Len(list) <= MaxAttached, NEW holding \in SUBSET Shaders,
         attachedShaders' = [attachedShaders EXCEPT ![p] = list],
         driverAttached' = [driverAttached EXCEPT ![p] = holding],
         UNCHANGED <<shVars, shaderPrograms>>, linkedPrograms' \subseteq shaderPrograms,
         NEW untidy, Tidy(shaderPrograms, untidy),
         p \in tidy \ untidy => Neat(p)'
  PROVE  ShaderInv'
<1>1. UNCHANGED <<shaders, source, compiled, driverCode>>
  BY DEF shVars
<1>2. p \in Programs
  BY DEF ShaderInv, SPTypeOK
<1>3. /\ \A q \in Programs : attachedShaders'[q] = IF q = p THEN list ELSE attachedShaders[q]
      /\ \A q \in Programs : driverAttached'[q] = IF q = p THEN holding ELSE driverAttached[q]
      /\ attachedShaders' \in [Programs -> Seq(Shaders)]
      /\ driverAttached' \in [Programs -> SUBSET Shaders]
  BY <1>2 DEF ShaderInv
<1>4. ASSUME NEW q \in tidy'
      PROVE  q \in shaderPrograms /\ Neat(q)'
  <2>1. ASSUME q \in tidy, q # p
        PROVE  Neat(q)'
    <3>1. q \in Programs
      BY <2>1 DEF ShaderInv, SPTypeOK
    <3>2. attachedShaders'[q] = attachedShaders[q] /\ driverAttached'[q] = driverAttached[q]
      BY <1>3, <2>1, <3>1
    <3> QED
      BY <1>1, <2>1, <3>2 DEF ShaderInv, Neat, Attached, SameStage
  <2> QED
    BY <2>1, Tidied
<1>5. SPTypeOK'
  <2>1. \A q \in Programs : /\ ToSet(attachedShaders'[q]) \cup driverAttached'[q] \subseteq Shaders
                            /\ Len(attachedShaders'[q]) <= MaxAttached
    BY <1>3 DEF ShaderInv, SPTypeOK
  <2> QED
    BY <1>1, <1>3, <1>4, <2>1 DEF ShaderInv, SPTypeOK
<1> QED
  BY <1>1, <1>2, <1>3, <1>4, <1>5 DEF ShaderInv

LEMMA AttachShaderKeeps ==
  ASSUME ShaderInv, NEW p \in Programs, NEW s \in Shaders, AttachShader(p, s)
  PROVE  ShaderInv'
<1> DEFINE list == attachedShaders[p]
<1>1. /\ p \in shaderPrograms /\ s \in shaders /\ Len(list) < MaxAttached
      /\ attachedShaders' = [attachedShaders EXCEPT ![p] = Append(list, s)]
      /\ UNCHANGED <<shVars, shaderPrograms, linkedPrograms, driverAttached>>
      /\ Tidy(shaderPrograms, {q \in {p} : \E t \in Attached(q) \ {s} : SameStage(s, t)})
  BY DEF AttachShader
<1>2. list \in Seq(Shaders) /\ driverAttached[p] \in SUBSET Shaders
      /\ driverAttached' = [driverAttached EXCEPT ![p] = driverAttached[p]]
      /\ linkedPrograms' \subseteq shaderPrograms
  BY <1>1 DEF ShaderInv, SPTypeOK
<1>3. /\ Append(list, s) \in Seq(Shaders) /\ Len(Append(list, s)) <= MaxAttached
      /\ ToSet(Append(list, s)) = Attached(p) \cup {s}
  <2>1. Len(Append(list, s)) = Len(list) + 1 /\ Len(list) \in Nat
    BY <1>2
  <2>2. ToSet(Append(list, s)) = ToSet(list) \cup {s}
    BY <1>2, ToSetAppend
  <2> QED
    BY <1>1, <1>2, <2>1, <2>2, ShaderBounds DEF Attached
<1>4. ASSUME p \in tidy, p \notin {q \in {p} : \E t \in Attached(q) \ {s} : SameStage(s, t)}
      PROVE  Neat(p)'
  <2>1. Neat(p) /\ \A t \in Attached(p) \ {s} : ~SameStage(s, t)
    BY <1>4 DEF ShaderInv
  <2>2. /\ Attached(p)' = Attached(p) \cup {s}
        /\ shaders' = shaders /\ driverAttached' = driverAttached
    BY <1>1, <1>3 DEF ShaderInv, Attached, shVars
  <2>3. \A t, u \in Attached(p) \cup {s} : SameStage(t, u) => t = u
    BY <2>1 DEF Neat, SameStage
  <2> QED
    BY <1>1, <2>1, <2>2, <2>3 DEF Neat, SameStage
<1>5. Attached(p) \subseteq Shaders
  BY ListedShaders
<1>6. PICK untidy : /\ Tidy(shaderPrograms, untidy)
                    /\ p \in tidy \ untidy => Neat(p)'
  BY <1>1, <1>4
<1>7. ToSet(Append(list, s)) \subseteq Shaders
  BY <1>3, <1>5
<1> HIDE DEF list
<1> QED
  BY <1>1, <1>2, <1>3, <1>6, <1>7, ReplaceList

LEMMA DetachShaderKeeps ==
  ASSUME ShaderInv, NEW p \in Programs, NEW s \in Shaders, DetachShader(p, s)
  PROVE  ShaderInv'
<1> DEFINE list == Without(attachedShaders[p], s)
<1>1. /\ p \in shaderPrograms
      /\ attachedShaders' = [attachedShaders EXCEPT ![p] = list]
      /\ driverAttached' = [driverAttached EXCEPT ![p] = driverAttached[p] \ {s}]
      /\ UNCHANGED <<shVars, shaderPrograms, linkedPrograms>>
      /\ Tidy(shaderPrograms, {})
  BY DEF DetachShader
<1>2. /\ list \in Seq(Shaders) /\ ToSet(list) = Attached(p) \ {s}
      /\ Len(list) <= MaxAttached
  <2>1. attachedShaders[p] \in Seq(Shaders) /\ Len(attachedShaders[p]) <= MaxAttached
        /\ Len(attachedShaders[p]) \in Nat
    BY DEF ShaderInv, SPTypeOK
  <2>2. list \in Seq(Shaders) /\ Len(list) <= Len(attachedShaders[p]) /\ Len(list) \in Nat
    BY <2>1, WithoutSet
  <2> QED
    BY <2>1, <2>2, WithoutSet, ShaderBounds DEF Attached
<1>3. linkedPrograms' \subseteq shaderPrograms
  BY <1>1 DEF ShaderInv, SPTypeOK
<1>4. Attached(p) \subseteq Shaders /\ driverAttached[p] \subseteq Shaders
  BY ListedShaders
<1>5. ASSUME p \in tidy
      PROVE  Neat(p)'
  <2>1. Neat(p)
    BY <1>5 DEF ShaderInv
  <2>2. /\ Attached(p)' = Attached(p) \ {s}
        /\ shaders' = shaders /\ driverAttached'[p] = driverAttached[p] \ {s}
    BY <1>1, <1>2 DEF ShaderInv, Attached, shVars
  <2> QED
    BY <2>1, <2>2 DEF Neat, SameStage
<1> HIDE DEF list
<1>6. driverAttached[p] \ {s} \in SUBSET Shaders /\ ToSet(list) \subseteq Shaders
  BY <1>2, <1>4
<1> QED
  BY <1>1, <1>2, <1>3, <1>5, <1>6, ReplaceList

\* A link of a tidy program attaches in the driver what is attached.
LEMMA LinkAttaches ==
  ASSUME ShaderInv, NEW p \in Programs, p \in tidy, LinkProgram(p)
  PROVE  driverAttached'[p] = Attached(p)
<1>1. driverAttached' = [driverAttached EXCEPT
                           ![p] = DriverAttach(attachedShaders[p], driverAttached[p])]
  BY DEF LinkProgram
<1>2. Neat(p) /\ attachedShaders[p] \in Seq(Shaders)
  BY DEF ShaderInv
<1>3. DriverAttach(attachedShaders[p], driverAttached[p]) = Attached(p)
  BY <1>2, AttachAll DEF Neat, Attached
<1> QED
  BY <1>1, <1>3 DEF ShaderInv

LEMMA LinkKeeps ==
  ASSUME ShaderInv, NEW p \in Programs, LinkProgram(p)
  PROVE  ShaderInv'
<1> DEFINE holding == DriverAttach(attachedShaders[p], driverAttached[p])
<1>1. /\ p \in shaderPrograms /\ Linked(p, holding)
      /\ driverAttached' = [driverAttached EXCEPT ![p] = holding]
      /\ UNCHANGED <<shVars, shaderPrograms, attachedShaders>>
      /\ Tidy(shaderPrograms, {})
  BY DEF LinkProgram
<1>2. /\ attachedShaders[p] \in Seq(Shaders) /\ driverAttached[p] \in SUBSET Shaders
      /\ Len(attachedShaders[p]) <= MaxAttached /\ ToSet(attachedShaders[p]) \subseteq Shaders
      /\ attachedShaders' = [attachedShaders EXCEPT ![p] = attachedShaders[p]]
  BY <1>1 DEF ShaderInv, SPTypeOK
<1>3. holding \in SUBSET Shaders
  <2>1. Len(attachedShaders[p]) \in 0 .. Len(attachedShaders[p])
    BY <1>2
  <2> QED
    BY <1>2, <2>1, AttachLoop
<1>4. linkedPrograms' \subseteq shaderPrograms
  BY <1>1 DEF Linked, ShaderInv, SPTypeOK
<1>5. ASSUME p \in tidy
      PROVE  Neat(p)'
  <2>1. Neat(p)
    BY <1>5 DEF ShaderInv
  <2>2. /\ Attached(p)' = Attached(p)
        /\ shaders' = shaders /\ driverAttached'[p] = Attached(p)
    BY <1>1, <1>5, LinkAttaches DEF Attached, shVars
  <2> QED
    BY <2>1, <2>2 DEF Neat, SameStage
<1> HIDE DEF holding
<1> QED
  BY <1>1, <1>2, <1>3, <1>4, <1>5, ReplaceList

LEMMA ShaderProgramKeeps ==
  ASSUME ShaderInv, NEW p \in Programs, NEW s \in Shaders, NEW src \in Sources,
         CreateShaderProgramv(p, s, src)
  PROVE  ShaderInv'
<1>1. /\ p \notin shaderPrograms /\ s \notin shaders
      /\ driverCode' = [driverCode EXCEPT ![s] = Compile(src, NoCode)]
      /\ shaderPrograms' = shaderPrograms \cup {p}
      /\ attachedShaders' = [attachedShaders EXCEPT ![p] = <<s>>]
      /\ driverAttached' = [driverAttached EXCEPT ![p] = {s}]
      /\ linkedPrograms' \subseteq linkedPrograms \cup {p}
      /\ UNCHANGED <<shaders, source, compiled, tidy>>
  BY DEF CreateShaderProgramv, Unused
<1>2. <<s>> \in Seq(Shaders) /\ Len(<<s>>) = 1 /\ 1 <= MaxAttached /\ ToSet(<<s>>) = {s}
  BY ShaderBounds DEF ToSet
<1>3. /\ \A q \in Programs : attachedShaders'[q] = IF q = p THEN <<s>> ELSE attachedShaders[q]
      /\ \A q \in Programs : driverAttached'[q] = IF q = p THEN {s} ELSE driverAttached[q]
      /\ attachedShaders' \in [Programs -> Seq(Shaders)]
      /\ driverAttached' \in [Programs -> SUBSET Shaders]
  BY <1>1, <1>2 DEF ShaderInv
<1>4. SPTypeOK'
  <2>1. \A q \in Programs : /\ ToSet(attachedShaders'[q]) \cup driverAttached'[q] \subseteq Shaders
                            /\ Len(attachedShaders'[q]) <= MaxAttached
    BY <1>2, <1>3 DEF ShaderInv, SPTypeOK
  <2>2. Compile(src, NoCode) \in {"compiles", "rejected", NoCode}
    BY DEF Compile, Sources
  <2>3. /\ driverCode' \in [Shaders -> {"compiles", "rejected", NoCode}]
        /\ \A t \in compiled' : driverCode'[t] = "compiles"
    BY <1>1, <2>2 DEF ShaderInv, SPTypeOK
  <2> QED
    BY <1>1, <1>3, <2>1, <2>3 DEF ShaderInv, SPTypeOK
<1>5. ASSUME NEW q \in tidy
      PROVE  Neat(q)'
  <2>1. q \in Programs /\ q # p
    BY <1>1 DEF ShaderInv, SPTypeOK
  <2>2. attachedShaders'[q] = attachedShaders[q] /\ driverAttached'[q] = driverAttached[q]
    BY <1>3, <2>1
  <2> QED
    BY <1>1, <2>2 DEF ShaderInv, Neat, Attached, SameStage
<1> QED
  BY <1>1, <1>3, <1>4, <1>5 DEF ShaderInv

LEMMA StepShaders == ShaderInv /\ [SPNext]_shaderVars => ShaderInv'
<1>1. ShaderInv /\ UNCHANGED shaderVars => ShaderInv'
  BY DEF shaderVars, shVars, prVars, ShaderInv, SPTypeOK, Neat, Attached, SameStage
<1> QED
  BY <1>1, CreateShaderKeeps, ShaderSourceKeeps, CompileKeeps, DeleteShaderKeeps,
     CreateProgramKeeps, DeleteProgramKeeps, AttachShaderKeeps, DetachShaderKeeps,
     LinkKeeps, ShaderProgramKeeps
     DEF SPNext

LEMMA ShadersAlways == SPSpec => []ShaderInv
  BY InitShaders, StepShaders, PTL DEF SPSpec

\* A shader that glDetachShader took off a program used tidily is off in the
\* driver, after any number of links and for lists of any length.
THEOREM DetachedIsGone == SPSpec => []NoShaderLeftBehind
<1>1. ShaderInv => NoShaderLeftBehind
  BY DEF ShaderInv, NoShaderLeftBehind, Neat
<1> QED
  BY <1>1, ShadersAlways, PTL

\* A link builds exactly what is attached: the loop of Context over its list
\* brings the driver from what it had of the program to the whole list, and the
\* link succeeds if the last compilation of each of the shaders did.
THEOREM LinksAreExact == SPSpec => LinkBuildsAttached
<1>1. ASSUME ShaderInv, NEW p \in tidy, LinkProgram(p)
      PROVE  /\ driverAttached'[p] = Attached(p)
             /\ Attached(p) # {} /\ Attached(p) \subseteq compiled => p \in linkedPrograms'
  <2>1. p \in Programs
    BY <1>1 DEF ShaderInv, SPTypeOK
  <2>2. driverAttached'[p] = Attached(p)
    BY <1>1, <2>1, LinkAttaches
  <2>3. ASSUME Attached(p) # {}, Attached(p) \subseteq compiled
        PROVE  p \in linkedPrograms'
    <3>1. PICK holding : holding = driverAttached'[p] /\ Linked(p, holding)
      BY <1>1, <2>1 DEF LinkProgram, ShaderInv
    <3>2. \A s \in Attached(p) : driverCode[s] = "compiles"
      BY <1>1, <2>3 DEF ShaderInv, SPTypeOK
    <3> QED
      BY <2>2, <2>3, <3>1, <3>2 DEF Linked, DriverLinks
  <2> QED
    BY <2>2, <2>3
<1>2. ShaderInv /\ [SPNext]_shaderVars =>
        [\A p \in tidy : LinkProgram(p) =>
           /\ driverAttached'[p] = Attached(p)
           /\ Attached(p) # {} /\ Attached(p) \subseteq compiled
                => p \in linkedPrograms']_shaderVars
  BY <1>1
<1> QED
  BY <1>2, ShadersAlways, PTL DEF SPSpec, LinkBuildsAttached

-----------------------------------------------------------------------------
(* Debug messages. *)

Numbers(seq) == {seq[i].number : i \in 1 .. Len(seq)}
Distinct(seq) == \A i, j \in 1 .. Len(seq) : seq[i].number = seq[j].number => i = j

\* A list of messages without repetition.
List(seq) == seq \in Seq(Messages) /\ Distinct(seq)

LEMMA Appended ==
  ASSUME NEW seq, List(seq), NEW m \in Messages, m.number \notin Numbers(seq)
  PROVE  /\ List(Append(seq, m))
         /\ Numbers(Append(seq, m)) = Numbers(seq) \cup {m.number}
         /\ Len(Append(seq, m)) = Len(seq) + 1
<1>1. /\ seq \in Seq(Messages) /\ Append(seq, m) \in Seq(Messages)
      /\ Len(seq) \in Nat /\ Len(Append(seq, m)) = Len(seq) + 1
      /\ \A i \in 1 .. Len(seq) : Append(seq, m)[i] = seq[i]
      /\ Append(seq, m)[Len(seq) + 1] = m
  BY DEF List
<1>2. \A i \in 1 .. Len(seq) + 1 : i \in 1 .. Len(seq) \/ i = Len(seq) + 1
  BY <1>1
<1>3. Distinct(Append(seq, m))
  BY <1>1, <1>2 DEF List, Distinct, Numbers
<1>4. \A x : x \in Numbers(Append(seq, m)) <=> x \in Numbers(seq) \cup {m.number}
  <2>1. \A i \in 1 .. Len(seq) : i \in 1 .. Len(seq) + 1
    BY <1>1
  <2>2. Len(seq) + 1 \in 1 .. Len(seq) + 1
    BY <1>1
  <2> QED
    BY <1>1, <1>2, <2>1, <2>2 DEF Numbers
<1> QED
  BY <1>1, <1>3, <1>4 DEF List

LEMMA Tailed ==
  ASSUME NEW seq, List(seq), seq # <<>>
  PROVE  /\ List(Tail(seq))
         /\ Head(seq).number \in Numbers(seq)
         /\ Numbers(Tail(seq)) = Numbers(seq) \ {Head(seq).number}
         /\ Len(Tail(seq)) = Len(seq) - 1 /\ Len(seq) \in Nat \ {0}
<1>1. /\ seq \in Seq(Messages) /\ Tail(seq) \in Seq(Messages)
      /\ Len(seq) \in Nat \ {0} /\ Len(Tail(seq)) = Len(seq) - 1
      /\ \A i \in 1 .. Len(seq) - 1 : Tail(seq)[i] = seq[i + 1]
      /\ Head(seq) = seq[1]
  BY DEF List
<1>2. /\ \A i \in 1 .. Len(seq) : i = 1 \/ (i - 1 \in 1 .. Len(seq) - 1 /\ (i - 1) + 1 = i)
      /\ \A i \in 1 .. Len(seq) - 1 : i + 1 \in 1 .. Len(seq) /\ i + 1 # 1
      /\ \A i, j \in 1 .. Len(seq) - 1 : i + 1 = j + 1 => i = j
      /\ 1 \in 1 .. Len(seq)
  BY <1>1
<1>3. Distinct(Tail(seq))
  BY <1>1, <1>2 DEF List, Distinct
<1>4. ASSUME NEW x
      PROVE  x \in Numbers(Tail(seq)) <=> x \in Numbers(seq) \ {Head(seq).number}
  <2>1. x \in Numbers(Tail(seq)) => x \in Numbers(seq) \ {Head(seq).number}
    BY <1>1, <1>2 DEF Numbers, List, Distinct
  <2>2. ASSUME x \in Numbers(seq) \ {Head(seq).number}
        PROVE  x \in Numbers(Tail(seq))
    <3>1. PICK i \in 1 .. Len(seq) : x = seq[i].number
      BY <2>2 DEF Numbers
    <3>2. i # 1
      BY <1>1, <2>2, <3>1
    <3>3. i - 1 \in 1 .. Len(seq) - 1 /\ Tail(seq)[i - 1] = seq[i]
      BY <1>1, <1>2, <3>1, <3>2
    <3> QED
      BY <1>1, <3>1, <3>3 DEF Numbers
  <2> QED
    BY <2>1, <2>2
<1>5. Head(seq).number \in Numbers(seq)
  BY <1>1, <1>2 DEF Numbers
<1> QED
  BY <1>1, <1>3, <1>4, <1>5 DEF List

LEMMA Fronted ==
  ASSUME NEW seq, List(seq), seq # <<>>
  PROVE  /\ List(Front(seq))
         /\ Last(seq) \in Messages /\ Last(seq).number \in Numbers(seq)
         /\ Numbers(Front(seq)) = Numbers(seq) \ {Last(seq).number}
         /\ Len(Front(seq)) = Len(seq) - 1 /\ Len(seq) \in Nat \ {0}
<1>1. /\ seq \in Seq(Messages) /\ Len(seq) \in Nat \ {0} /\ Last(seq) = seq[Len(seq)]
      /\ Last(seq) \in Messages
  BY DEF List, Last
<1>2. /\ Front(seq) \in Seq(Messages) /\ Len(Front(seq)) = Len(seq) - 1
      /\ \A i \in 1 .. Len(seq) - 1 : Front(seq)[i] = seq[i]
  <2> DEFINE n == Len(seq) - 1
  <2>1. n \in Int /\ 1 \in Int /\ \A i \in 1 .. n : seq[i] \in Messages
    BY <1>1
  <2>2. n = 0 \/ 1 <= n
    <3>1. \A k \in Nat \ {0} : k - 1 = 0 \/ 1 <= k - 1
      OBVIOUS
    <3> QED
      BY <1>1, <3>1 DEF n
  <2> HIDE DEF n
  <2>3. /\ SubSeq(seq, 1, n) \in Seq(Messages)
        /\ Len(SubSeq(seq, 1, n)) = IF 1 <= n THEN n - 1 + 1 ELSE 0
        /\ \A i \in 1 .. n - 1 + 1 : SubSeq(seq, 1, n)[i] = seq[1 + i - 1]
    BY <2>1, SubSeqProperties
  <2>4. n - 1 + 1 = n /\ \A i \in 1 .. n : 1 + i - 1 = i
    BY <2>1
  <2>5. Front(seq) = SubSeq(seq, 1, n)
    BY DEF Front, n
  <2>6. Len(Front(seq)) = n
    BY <2>1, <2>2, <2>3, <2>4, <2>5
  <2> QED
    BY <2>3, <2>4, <2>5, <2>6 DEF n
<1>3. /\ \A i \in 1 .. Len(seq) - 1 : i \in 1 .. Len(seq) /\ i # Len(seq)
      /\ \A i \in 1 .. Len(seq) : i = Len(seq) \/ i \in 1 .. Len(seq) - 1
      /\ Len(seq) \in 1 .. Len(seq)
  BY <1>1
<1>4. Distinct(Front(seq))
  BY <1>2, <1>3 DEF List, Distinct
<1>5. ASSUME NEW x
      PROVE  x \in Numbers(Front(seq)) <=> x \in Numbers(seq) \ {Last(seq).number}
  <2>1. x \in Numbers(Front(seq)) <=> \E i \in 1 .. Len(seq) - 1 : x = seq[i].number
    BY <1>2 DEF Numbers
  <2>2. x \in Numbers(seq) <=> \E i \in 1 .. Len(seq) : x = seq[i].number
    BY DEF Numbers
  <2>3. \A i \in 1 .. Len(seq) : seq[i].number = Last(seq).number <=> i = Len(seq)
    BY <1>1, <1>3 DEF List, Distinct
  <2> QED
    BY <1>3, <2>1, <2>2, <2>3
<1>6. Last(seq).number \in Numbers(seq)
  BY <1>1, <1>3 DEF Numbers
<1> QED
  BY <1>1, <1>2, <1>4, <1>5, <1>6 DEF List

\* Where each message is: no place has it twice, and no two places have it.
DebugInv ==
  /\ DebugTypeOK
  /\ List(log) /\ List(delivering)
  /\ Numbers(log) \cap Numbers(delivering) = {}
  /\ lost \cap (Numbers(log) \cup Numbers(delivering)) = {}
  /\ Numbers(log) \cup Numbers(delivering) \cup lost = 1 .. heard
  /\ Len(log) + Len(delivering) + Cardinality(lost) = heard
  /\ Len(log) <= LogMax

LEMMA LostFinite ==
  ASSUME heard \in Nat, lost \subseteq 1 .. heard
  PROVE  IsFiniteSet(lost) /\ Cardinality(lost) \in Nat
<1>1. IsFiniteSet(1 .. heard)
  BY FS_Interval
<1> QED
  BY <1>1, FS_Subset, FS_CardinalityType

LEMMA OneMoreLost ==
  ASSUME heard \in Nat, lost \subseteq 1 .. heard, NEW x, x \notin lost
  PROVE  Cardinality(lost \cup {x}) = Cardinality(lost) + 1
  BY LostFinite, FS_AddElement

\* A message that is nowhere yet, or was just taken from the callbacks, goes to
\* the log; the oldest one of a full log goes to what is lost.
LEMMA AppendToLogMoves ==
  ASSUME DebugInv, NEW m \in Messages, m.number \notin Numbers(log) \cup lost, AppendToLog(m)
  PROVE  /\ List(log') /\ Len(log') <= LogMax
         /\ lost' \cap Numbers(log') = {}
         /\ Numbers(log') \cup lost' = Numbers(log) \cup lost \cup {m.number}
         /\ Len(log') + Cardinality(lost') = Len(log) + Cardinality(lost) + 1
<1>1. /\ heard \in Nat /\ lost \subseteq 1 .. heard /\ LogMax \in Nat \ {0}
      /\ Len(log) \in Nat /\ Len(log) <= LogMax /\ Cardinality(lost) \in Nat
      /\ List(log) /\ lost \cap Numbers(log) = {}
  <2>1. heard \in Nat /\ lost \subseteq 1 .. heard
    BY DEF DebugInv, DebugTypeOK
  <2>2. Len(log) \in Nat
    BY DEF DebugInv, List
  <2> QED
    BY <2>1, <2>2, LostFinite, LogMaxAssumption DEF DebugInv
<1>2. CASE Len(log) >= LogMax
  <2>1. log # <<>>
    <3>1. log = <<>> => Len(log) = 0
      OBVIOUS
    <3> QED
      BY <1>1, <1>2, <3>1
  <2>2. /\ log' = Append(Tail(log), m)
        /\ lost' = lost \cup {Head(log).number}
    BY <1>2 DEF AppendToLog
  <2>3. /\ List(Tail(log)) /\ Head(log).number \in Numbers(log)
        /\ Numbers(Tail(log)) = Numbers(log) \ {Head(log).number}
        /\ Len(Tail(log)) = Len(log) - 1
    BY <1>1, <2>1, Tailed
  <2>4. m.number \notin Numbers(Tail(log))
    BY <2>3
  <2>5. /\ List(log') /\ Len(log') = Len(log)
        /\ Numbers(log') = (Numbers(log) \ {Head(log).number}) \cup {m.number}
    <3> DEFINE tail == Tail(log)
    <3>1. List(tail) /\ m.number \notin Numbers(tail)
      BY <2>3, <2>4
    <3>2. /\ List(Append(tail, m)) /\ Numbers(Append(tail, m)) = Numbers(tail) \cup {m.number}
          /\ Len(Append(tail, m)) = Len(tail) + 1
      <4> HIDE DEF tail
      <4> QED
        BY <3>1, Appended
    <3> QED
      BY <1>1, <2>2, <2>3, <3>2
  <2>6. Head(log).number \notin lost
    BY <1>1, <2>3
  <2>7. Cardinality(lost') = Cardinality(lost) + 1
    BY <1>1, <2>2, <2>6, OneMoreLost
  <2> QED
    BY <1>1, <2>2, <2>3, <2>5, <2>7
<1>3. CASE ~(Len(log) >= LogMax)
  <2>1. log' = Append(log, m) /\ lost' = lost
    BY <1>3 DEF AppendToLog
  <2>2. /\ List(log') /\ Len(log') = Len(log) + 1
        /\ Numbers(log') = Numbers(log) \cup {m.number}
    BY <1>1, <2>1, Appended
  <2> QED
    BY <1>1, <1>3, <2>1, <2>2
<1> QED
  BY <1>2, <1>3

LEMMA ListedMessages ==
  ASSUME NEW seq, List(seq)
  PROVE  ToSet(seq) \subseteq Messages /\ Len(seq) \in Nat
<1>1. seq \in Seq(Messages)
  BY DEF List
<1> QED
  BY <1>1 DEF ToSet

\* The type invariant follows from the lists being lists.
LEMMA DebugTypes ==
  ASSUME installed' \in BOOLEAN, spaceEnabled' \subseteq MessageTypes,
         idRules' \in [RuleTypes \cup {DontCare} -> BOOLEAN \cup {NoRule}],
         groups' \in 0 .. MaxDepth, List(log'), List(delivering'),
         heard' \in 0 .. MaxHeard, lost' \subseteq 1 .. heard'
  PROVE  DebugTypeOK'
<1>1. ToSet(log') \cup ToSet(delivering') \subseteq Messages
  BY ListedMessages
<1> QED
  BY <1>1 DEF DebugTypeOK

\* The invariant of the next state, part by part.
LEMMA DebugByParts ==
  ASSUME DebugTypeOK', List(log'), List(delivering'),
         Numbers(log') \cap Numbers(delivering') = {},
         lost' \cap (Numbers(log') \cup Numbers(delivering')) = {},
         Numbers(log') \cup Numbers(delivering') \cup lost' = 1 .. heard',
         Len(log') + Len(delivering') + Cardinality(lost') = heard',
         Len(log') <= LogMax
  PROVE  DebugInv'
  BY DEF DebugInv, List, Distinct, Numbers

\* Steps that move no message.
LEMMA DebugStays ==
  ASSUME DebugInv, DebugTypeOK', UNCHANGED <<log, delivering, heard, lost>>
  PROVE  DebugInv'
  BY DebugByParts DEF DebugInv

LEMMA InitDebug == DebugInit => DebugInv
<1> SUFFICES ASSUME DebugInit
             PROVE  DebugInv
  OBVIOUS
<1> USE LogMaxAssumption, DebugBounds
<1>1. /\ <<>> \in Seq(Messages) /\ Len(<<>>) = 0 /\ 1 .. 0 = {}
      /\ ToSet(<<>>) = {}
  BY DEF ToSet
<1>2. List(<<>>) /\ Numbers(<<>>) = {}
  BY <1>1 DEF List, Distinct, Numbers
<1>3. Cardinality({}) = 0
  BY FS_EmptySet
<1>4. DebugTypeOK
  <2>1. 0 \in 0 .. MaxDepth /\ 0 \in 0 .. MaxHeard
    BY DEF DebugInit
  <2> QED
    BY <1>1, <2>1 DEF DebugInit, DebugTypeOK
<1> QED
  BY <1>1, <1>2, <1>3, <1>4 DEF DebugInit, DebugInv

LEMMA EmitKeeps ==
  ASSUME DebugInv, NEW type \in MessageTypes, Emit(type),
         installed' \in BOOLEAN, spaceEnabled' \subseteq MessageTypes,
         idRules' \in [RuleTypes \cup {DontCare} -> BOOLEAN \cup {NoRule}],
         groups' \in 0 .. MaxDepth
  PROVE  DebugInv'
<1> DEFINE message == [type |-> type, number |-> heard + 1]
<1>1. CASE UNCHANGED <<log, lost, delivering, heard>>
  <2>1. DebugTypeOK'
    BY <1>1 DEF DebugInv, DebugTypeOK
  <2> QED
    BY <1>1, <2>1, DebugStays
<1>2. CASE Enabled(type)
  <2>1. /\ heard < MaxHeard /\ heard' = heard + 1
        /\ \/ delivering' = Append(delivering, message) /\ UNCHANGED <<log, lost>>
           \/ AppendToLog(message) /\ UNCHANGED delivering
    BY <1>2 DEF Emit
  <2>2. /\ heard \in Nat /\ heard' \in 0 .. MaxHeard /\ 1 .. heard' = 1 .. heard \cup {heard + 1}
        /\ heard + 1 \notin 1 .. heard /\ lost \subseteq 1 .. heard /\ heard + 1 \in 1 .. MaxHeard
    BY <2>1, DebugBounds DEF DebugInv, DebugTypeOK
  <2>3. /\ message \in Messages /\ message.number = heard + 1
        /\ message.number \notin Numbers(log) \cup Numbers(delivering) \cup lost
    BY <2>2 DEF Messages, DebugInv
  <2>4. Len(log) \in Nat /\ Len(delivering) \in Nat /\ Cardinality(lost) \in Nat
    BY <2>2, LostFinite, ListedMessages DEF DebugInv
  <2> HIDE DEF message
  <2>5. CASE delivering' = Append(delivering, message) /\ UNCHANGED <<log, lost>>
    <3>1. /\ List(delivering') /\ Len(delivering') = Len(delivering) + 1
          /\ Numbers(delivering') = Numbers(delivering) \cup {heard + 1}
      BY <2>3, <2>5, Appended DEF DebugInv
    <3>2. List(log') /\ Numbers(log') = Numbers(log) /\ log' = log /\ lost' = lost
      BY <2>5 DEF DebugInv
    <3>3. /\ Numbers(log') \cap Numbers(delivering') = {}
          /\ lost' \cap (Numbers(log') \cup Numbers(delivering')) = {}
          /\ Numbers(log') \cup Numbers(delivering') \cup lost' = 1 .. heard'
      BY <2>2, <2>3, <3>1, <3>2 DEF DebugInv
    <3>4. Len(log') + Len(delivering') + Cardinality(lost') = heard' /\ Len(log') <= LogMax
      BY <2>1, <2>4, <3>1, <3>2 DEF DebugInv
    <3>5. DebugTypeOK'
      BY <2>2, <3>1, <3>2, DebugTypes
    <3> QED
      BY <3>1, <3>2, <3>3, <3>4, <3>5, DebugByParts
  <2>6. CASE AppendToLog(message) /\ UNCHANGED delivering
    <3>1. /\ List(log') /\ Len(log') <= LogMax /\ lost' \cap Numbers(log') = {}
          /\ Numbers(log') \cup lost' = Numbers(log) \cup lost \cup {heard + 1}
          /\ Len(log') + Cardinality(lost') = Len(log) + Cardinality(lost) + 1
      BY <2>3, <2>6, AppendToLogMoves
    <3>2. List(delivering') /\ Numbers(delivering') = Numbers(delivering)
          /\ delivering' = delivering
      BY <2>6 DEF DebugInv
    <3>3. /\ Numbers(log') \cap Numbers(delivering') = {}
          /\ lost' \cap (Numbers(log') \cup Numbers(delivering')) = {}
          /\ Numbers(log') \cup Numbers(delivering') \cup lost' = 1 .. heard'
      BY <2>2, <2>3, <3>1, <3>2 DEF DebugInv
    <3>4. lost' \subseteq 1 .. heard'
      BY <3>3
    <3>5. Len(log') \in Nat /\ Cardinality(lost') \in Nat
      <4>1. heard' \in Nat
        BY <2>1, <2>2
      <4>2. IsFiniteSet(1 .. heard')
        BY <4>1, FS_Interval
      <4>3. IsFiniteSet(lost')
        BY <3>4, <4>2, FS_Subset
      <4> QED
        BY <3>1, <4>3, FS_CardinalityType, ListedMessages
    <3>6. Len(log') + Len(delivering') + Cardinality(lost') = heard'
      <4>1. Len(log) + Len(delivering) + Cardinality(lost) = heard
        BY DEF DebugInv
      <4>2. /\ Len(log') + Cardinality(lost') = Len(log) + Cardinality(lost) + 1
            /\ Len(delivering') = Len(delivering) /\ heard' = heard + 1
        BY <2>1, <3>1, <3>2
      <4> DEFINE a == Len(log)
                 b == Len(delivering)
                 c == Cardinality(lost)
                 d == Len(log')
                 e == Cardinality(lost')
      <4>3. a \in Nat /\ b \in Nat /\ c \in Nat /\ d \in Nat /\ e \in Nat /\ d + e = a + c + 1
        BY <2>4, <3>5, <4>2
      <4>4. d + b + e = (a + b + c) + 1
        <5> HIDE DEF a, b, c, d, e
        <5> QED
          BY <4>3
      <4> QED
        BY <4>1, <4>2, <4>4
    <3>7. DebugTypeOK'
      BY <2>2, <3>1, <3>2, <3>4, DebugTypes
    <3> QED
      BY <3>1, <3>2, <3>3, <3>6, <3>7, DebugByParts
  <2> QED
    BY <2>1, <2>5, <2>6
<1> QED
  BY <1>1, <1>2 DEF Emit

LEMMA ReturnKeeps ==
  ASSUME DebugInv, CallbackReturns
  PROVE  DebugInv'
<1> DEFINE message == Last(delivering)
<1>1. /\ delivering # <<>> /\ AppendToLog(message) /\ delivering' = Front(delivering)
      /\ UNCHANGED <<installed, spaceEnabled, idRules, groups, heard>>
  BY DEF CallbackReturns
<1>2. /\ List(Front(delivering))
      /\ message \in Messages /\ message.number \in Numbers(delivering)
      /\ Numbers(Front(delivering)) = Numbers(delivering) \ {message.number}
      /\ Len(Front(delivering)) = Len(delivering) - 1 /\ Len(delivering) \in Nat \ {0}
  BY <1>1, Fronted DEF DebugInv
<1>3. message.number \notin Numbers(log) \cup lost
  BY <1>2 DEF DebugInv
<1> HIDE DEF message
<1>4. /\ List(log') /\ Len(log') <= LogMax /\ lost' \cap Numbers(log') = {}
      /\ Numbers(log') \cup lost' = Numbers(log) \cup lost \cup {message.number}
      /\ Len(log') + Cardinality(lost') = Len(log) + Cardinality(lost) + 1
  BY <1>1, <1>2, <1>3, AppendToLogMoves
<1>5. /\ List(delivering') /\ Len(delivering') = Len(delivering) - 1
      /\ Numbers(delivering') = Numbers(delivering) \ {message.number}
  BY <1>1, <1>2
<1>6. /\ Numbers(log') \cap Numbers(delivering') = {}
      /\ lost' \cap (Numbers(log') \cup Numbers(delivering')) = {}
      /\ Numbers(log') \cup Numbers(delivering') \cup lost' = 1 .. heard
  BY <1>2, <1>4, <1>5 DEF DebugInv
<1>7. lost' \subseteq 1 .. heard /\ heard \in Nat
  BY <1>6 DEF DebugInv, DebugTypeOK
<1>8. Len(log) \in Nat /\ Len(log') \in Nat /\ Cardinality(lost) \in Nat /\ Cardinality(lost') \in Nat
  <2>1. IsFiniteSet(lost')
    <3>1. IsFiniteSet(1 .. heard)
      BY <1>7, FS_Interval
    <3> QED
      BY <1>7, <3>1, FS_Subset
  <2>2. Cardinality(lost) \in Nat
    BY <1>7, LostFinite DEF DebugInv, DebugTypeOK
  <2> QED
    BY <1>4, <2>1, <2>2, FS_CardinalityType, ListedMessages DEF DebugInv
<1>9. Len(log') + Len(delivering') + Cardinality(lost') = heard'
  <2>1. Len(log) + Len(delivering) + Cardinality(lost) = heard
    BY DEF DebugInv
  <2>2. /\ Len(log') + Cardinality(lost') = Len(log) + Cardinality(lost) + 1
        /\ Len(delivering') = Len(delivering) - 1 /\ heard' = heard
        /\ Len(delivering) \in Nat \ {0}
    BY <1>1, <1>2, <1>4, <1>5
  <2> QED
    BY <1>8, <2>1, <2>2
<1>10. DebugTypeOK'
  BY <1>1, <1>4, <1>5, <1>7, DebugTypes DEF DebugInv, DebugTypeOK
<1> QED
  BY <1>1, <1>4, <1>5, <1>6, <1>9, <1>10, DebugByParts

LEMMA ReadKeeps ==
  ASSUME DebugInv, GetDebugMessageLog
  PROVE  DebugInv'
<1>1. /\ log # <<>> /\ log' = Tail(log) /\ lost' = lost \cup {Head(log).number}
      /\ UNCHANGED <<installed, spaceEnabled, idRules, groups, delivering, heard>>
  BY DEF GetDebugMessageLog
<1>2. /\ List(Tail(log)) /\ Head(log).number \in Numbers(log)
      /\ Numbers(Tail(log)) = Numbers(log) \ {Head(log).number}
      /\ Len(Tail(log)) = Len(log) - 1 /\ Len(log) \in Nat \ {0}
  BY <1>1, Tailed DEF DebugInv
<1>3. heard \in Nat /\ lost \subseteq 1 .. heard /\ Head(log).number \notin lost
  BY <1>2 DEF DebugInv, DebugTypeOK
<1>4. Cardinality(lost') = Cardinality(lost) + 1 /\ Cardinality(lost) \in Nat
  BY <1>1, <1>3, OneMoreLost, LostFinite
<1>5. /\ Numbers(log') = Numbers(log) \ {Head(log).number} /\ List(log')
      /\ Len(log') = Len(log) - 1 /\ delivering' = delivering
  BY <1>1, <1>2
<1>6. /\ Numbers(log') \cap Numbers(delivering) = {}
      /\ lost' \cap (Numbers(log') \cup Numbers(delivering)) = {}
      /\ Numbers(log') \cup Numbers(delivering) \cup lost' = 1 .. heard
  BY <1>1, <1>2, <1>3, <1>5 DEF DebugInv
<1>7. Len(log') + Len(delivering) + Cardinality(lost') = heard /\ Len(log') <= LogMax
  <2>1. Len(delivering) \in Nat
    BY ListedMessages DEF DebugInv
  <2> QED
    BY <1>2, <1>4, <1>5, <2>1, LogMaxAssumption DEF DebugInv
<1>8. DebugTypeOK'
  BY <1>1, <1>5, <1>6, DebugTypes DEF DebugInv, DebugTypeOK
<1>9. List(delivering') /\ heard' = heard
  BY <1>1 DEF DebugInv
<1> QED
  BY <1>5, <1>6, <1>7, <1>8, <1>9, DebugByParts

\* The steps that set up filters and the callback.
LEMMA FilterKeeps ==
  ASSUME DebugInv, UNCHANGED <<groups, log, delivering, heard, lost>>,
         installed' \in BOOLEAN, spaceEnabled' \subseteq MessageTypes,
         idRules' \in [RuleTypes \cup {DontCare} -> BOOLEAN \cup {NoRule}]
  PROVE  DebugInv'
<1>1. DebugTypeOK'
  BY DEF DebugInv, DebugTypeOK
<1> QED
  BY <1>1, DebugStays

LEMMA StepDebug == DebugInv /\ [DebugNext]_debugVars => DebugInv'
<1> SUFFICES ASSUME DebugInv, [DebugNext]_debugVars
             PROVE  DebugInv'
  OBVIOUS
<1>0. /\ installed \in BOOLEAN /\ spaceEnabled \subseteq MessageTypes /\ groups \in 0 .. MaxDepth
      /\ idRules \in [RuleTypes \cup {DontCare} -> BOOLEAN \cup {NoRule}]
  BY DEF DebugInv, DebugTypeOK
<1>1. CASE DebugMessageInsert
  BY <1>0, <1>1, EmitKeeps DEF DebugMessageInsert, MessageTypes
<1>2. CASE PushDebugGroup
  <2>1. groups' \in 0 .. MaxDepth
    BY <1>0, <1>2, DebugBounds DEF PushDebugGroup
  <2> QED
    BY <1>0, <1>2, <2>1, EmitKeeps DEF PushDebugGroup, MessageTypes
<1>3. CASE PopDebugGroup
  <2>1. groups' \in 0 .. MaxDepth
    BY <1>0, <1>3, DebugBounds DEF PopDebugGroup
  <2> QED
    BY <1>0, <1>3, <2>1, EmitKeeps DEF PopDebugGroup, MessageTypes
<1>4. ASSUME NEW on \in BOOLEAN, DebugMessageCallback(on)
      PROVE  DebugInv'
  BY <1>0, <1>4, FilterKeeps DEF DebugMessageCallback
<1>5. ASSUME NEW types \in SUBSET MessageTypes, NEW on \in BOOLEAN, DebugMessageControl(types, on)
      PROVE  DebugInv'
  <2>1. spaceEnabled' \subseteq MessageTypes
    BY <1>0, <1>5 DEF DebugMessageControl
  <2> QED
    BY <1>0, <1>5, <2>1, FilterKeeps DEF DebugMessageControl
<1>6. ASSUME NEW type \in RuleTypes \cup {DontCare}, NEW on \in BOOLEAN,
             DebugMessageControlId(type, on)
      PROVE  DebugInv'
  <2>1. idRules' \in [RuleTypes \cup {DontCare} -> BOOLEAN \cup {NoRule}]
    BY <1>0, <1>6 DEF DebugMessageControlId
  <2> QED
    BY <1>0, <1>6, <2>1, FilterKeeps DEF DebugMessageControlId
<1>7. CASE UNCHANGED debugVars
  BY <1>0, <1>7, FilterKeeps DEF debugVars
<1> QED
  BY <1>1, <1>2, <1>3, <1>4, <1>5, <1>6, <1>7, ReturnKeeps, ReadKeeps DEF DebugNext

LEMMA DebugAlways == DebugSpec => []DebugInv
  BY InitDebug, StepDebug, PTL DEF DebugSpec

\* However deep callbacks nest and whatever they insert, pop or read, no message
\* that passed the filter is lost without account or kept twice, and the log
\* respects its limit, for a limit, a depth and a number of messages of any size.
THEOREM MessagesAreKeptOnce == DebugSpec => []EveryMessageOnce
<1>1. ASSUME DebugInv PROVE EveryMessageOnce
  <2>1. DOMAIN log = 1 .. Len(log) /\ DOMAIN delivering = 1 .. Len(delivering)
    BY <1>1 DEF DebugInv, List
  <2> QED
    BY <1>1, <2>1 DEF DebugInv, EveryMessageOnce, Numbers
<1>2. DebugInv => EveryMessageOnce
  BY <1>1
<1> QED
  BY <1>2, DebugAlways, PTL

-----------------------------------------------------------------------------
(* Buffers. *)

\* The object and the driver's copy of a buffer that the program uses in ways the
\* driver accepts, while it holds a mapping or not: what lags was written through
\* a mapping that lets the driver take data, and the two agree on whether the
\* storage is fixed.
Together(o, d, holds) ==
  /\ d.size = o.size /\ d.immutable = o.immutable
  /\ \A c \in Cells : d.lag[c] # "none" =>
       /\ holds /\ o.map.access # "plain"
       /\ c \in Span(o.map.offset, o.map.length)
  /\ d.map = IF holds /\ o.map.length > 0 /\ o.map.access # "whole"
             THEN o.map.access ELSE "none"

\* A mapping that is held is recorded and within the store.
Held(o) == o.map.access # "none" /\ o.map.offset + o.map.length <= o.size

BufferInv ==
  /\ TypeOK
  /\ \A b \in held : Held(obj[b])
  /\ \A b \in Buffers \ used : obj[b] = EmptyObject /\ drv[b] = EmptyStore
  /\ \A b \in trusted : Together(obj[b], drv[b], b \in held)

Objects == [size : Sizes, immutable : BOOLEAN, map : Mapping]
Lags    == {"none", "pointer", "call"}
Stores  == [size : Sizes, immutable : BOOLEAN, map : {"none", "plain", "persistent"},
            lag : [Cells -> Lags]]

\* The invariant of the next state, part by part.
LEMMA BuffersByParts ==
  ASSUME live' \subseteq used', used' \subseteq Buffers,
         bound' \in [Targets -> live' \cup {NoBuffer}],
         obj' \in [Buffers -> Objects], drv' \in [Buffers -> Stores],
         held' \subseteq live', trusted' \subseteq live',
         named' \in BOOLEAN, plan' \in Plans,
         \A b \in Buffers : obj'[b].map.access # "none" => b \in live',
         \A b \in held' : Held(obj'[b]),
         \A b \in Buffers \ used' : obj'[b] = EmptyObject /\ drv'[b] = EmptyStore,
         \A b \in trusted' : Together(obj'[b], drv'[b], b \in held')
  PROVE  BufferInv'
<1>1. TypeOK'
  BY DEF TypeOK, Mapped, Objects, Stores, Lags
<1> QED
  BY <1>1 DEF BufferInv, Held, Together

\* What the invariant says of types.
LEMMA BufferTypesHold ==
  ASSUME BufferInv
  PROVE  /\ live \subseteq used /\ used \subseteq Buffers
         /\ bound \in [Targets -> live \cup {NoBuffer}]
         /\ obj \in [Buffers -> Objects] /\ drv \in [Buffers -> Stores]
         /\ held \subseteq live /\ trusted \subseteq live
         /\ named \in BOOLEAN /\ plan \in Plans
         /\ \A b \in Buffers : obj[b].map.access # "none" => b \in live
  BY DEF BufferInv, TypeOK, Mapped, Objects, Stores, Lags

\* A step that changes one buffer keeps the invariant if it keeps what the
\* invariant says of that buffer.
LEMMA OneBuffer ==
  ASSUME BufferInv, NEW b \in live, NEW o \in Objects, NEW d \in Stores,
         obj' = [obj EXCEPT ![b] = o], drv' = [drv EXCEPT ![b] = d],
         UNCHANGED <<used, live, bound, named, plan>>,
         held' \subseteq held \cup {b}, held \ {b} \subseteq held',
         trusted' \subseteq trusted \cup {b},
         b \in held' => Held(o),
         b \in trusted' => Together(o, d, b \in held')
  PROVE  BufferInv'
<1>1. b \in Buffers /\ b \in used
  BY BufferTypesHold
<1>2. /\ obj' \in [Buffers -> Objects] /\ drv' \in [Buffers -> Stores]
      /\ obj'[b] = o /\ drv'[b] = d
      /\ \A x \in Buffers : x # b => obj'[x] = obj[x] /\ drv'[x] = drv[x]
  BY <1>1, BufferTypesHold
<1>3. /\ held' \subseteq live' /\ trusted' \subseteq live' /\ live' \subseteq used'
      /\ used' \subseteq Buffers /\ bound' \in [Targets -> live' \cup {NoBuffer}]
      /\ named' \in BOOLEAN /\ plan' \in Plans
  BY BufferTypesHold
<1>4. \A x \in Buffers : obj'[x].map.access # "none" => x \in live'
  BY <1>2, BufferTypesHold
<1>5. \A x \in held' : Held(obj'[x])
  BY <1>2, <1>3 DEF BufferInv
<1>6. \A x \in Buffers \ used' : obj'[x] = EmptyObject /\ drv'[x] = EmptyStore
  BY <1>1, <1>2 DEF BufferInv
<1>7. ASSUME NEW x \in trusted'
      PROVE  Together(obj'[x], drv'[x], x \in held')
  <2>1. CASE x = b
    BY <1>2, <2>1, <1>7
  <2>2. CASE x # b
    <3>1. x \in trusted /\ x \in Buffers /\ ((x \in held') = (x \in held))
      BY <1>3, <1>7, <2>2
    <3> QED
      BY <1>2, <2>2, <3>1 DEF BufferInv
  <2> QED
    BY <2>1, <2>2
<1> QED
  BY <1>2, <1>3, <1>4, <1>5, <1>6, <1>7, BuffersByParts

\* A step that changes only the driver's copy of a buffer.
LEMMA OneStore ==
  ASSUME BufferInv, NEW b \in live, NEW d \in Stores,
         drv' = [drv EXCEPT ![b] = d], UNCHANGED <<frontend, held, named, plan>>,
         trusted' \subseteq trusted,
         b \in trusted' => Together(obj[b], d, b \in held)
  PROVE  BufferInv'
<1>1. b \in Buffers /\ obj[b] \in Objects
  BY BufferTypesHold
<1>2. obj' = [obj EXCEPT ![b] = obj[b]] /\ UNCHANGED <<used, live, bound, named, plan>>
  BY <1>1, BufferTypesHold DEF frontend
<1>3. b \in held' => Held(obj[b])
  BY DEF BufferInv
<1>4. held' \subseteq held \cup {b} /\ held \ {b} \subseteq held' /\ trusted' \subseteq trusted \cup {b}
  OBVIOUS
<1>5. b \in trusted' => Together(obj[b], d, b \in held')
  OBVIOUS
<1> QED
  BY <1>1, <1>2, <1>3, <1>4, <1>5, OneBuffer

-----------------------------------------------------------------------------
(* What the driver makes of a write. *)

LEMMA LagsOf ==
  ASSUME BufferInv, NEW b \in live, NEW cells, NEW reason \in Lags
  PROVE  LET d == Lagging(b, cells, reason)
         IN  /\ d \in Stores
             /\ d.size = drv[b].size /\ d.immutable = drv[b].immutable /\ d.map = drv[b].map
             /\ \A c \in Cells : d.lag[c] = IF c \in cells THEN reason ELSE drv[b].lag[c]
<1>1. drv[b] \in Stores
  BY BufferTypesHold
<1> QED
  BY <1>1 DEF Lagging, Stores

LEMMA PushedOrNot ==
  ASSUME BufferInv, NEW b \in live, NEW form, NEW o, NEW n
  PROVE  AfterWrite(b, form, o, n) \in Stores /\ AfterPush(b, form, o, n) \in Stores
<1>1. drv[b] \in Stores /\ {"none", "call"} \subseteq Lags
  BY BufferTypesHold DEF Lags
<1> QED
  BY <1>1, LagsOf DEF AfterWrite, AfterPush

\* A trusted buffer that the driver has mapped for no one, or persistently, takes
\* data for every region of the store.
LEMMA StoreTakes ==
  ASSUME NEW b, NEW form, NEW o, NEW n, NEW holds, Together(obj[b], drv[b], holds),
         Delivered(form), o + n <= obj[b].size,
         ~(holds /\ obj[b].map.access = "plain")
  PROVE  TakesSubData(b, form, o, n)
  BY DEF Together, TakesSubData

\* Fewer cells lag and nothing else is different.
LEMMA LagsLess ==
  ASSUME NEW o, NEW d, NEW e, NEW holds, Together(o, d, holds),
         e.size = d.size, e.immutable = d.immutable, e.map = d.map,
         \A c \in Cells : e.lag[c] \in {"none", d.lag[c]}
  PROVE  Together(o, e, holds)
  BY DEF Together

\* A write that the program may make keeps a trusted buffer as it should be.
LEMMA LawfulWrite ==
  ASSUME BufferInv, NEW b \in trusted, NEW form, NEW o, NEW n,
         Delivered(form), o + n <= obj[b].size,
         ~(b \in held /\ obj[b].map.access = "plain")
  PROVE  Together(obj[b], AfterWrite(b, form, o, n), b \in held)
<1>1. b \in live /\ Together(obj[b], drv[b], b \in held)
  BY BufferTypesHold DEF BufferInv
<1>2. TakesSubData(b, form, o, n)
  BY <1>1, StoreTakes
<1>3. AfterWrite(b, form, o, n) = Lagging(b, Span(o, n), "none")
  BY <1>2 DEF AfterWrite
<1>4. "none" \in Lags
  BY DEF Lags
<1> DEFINE d == Lagging(b, Span(o, n), "none")
<1>5. /\ d.size = drv[b].size /\ d.immutable = drv[b].immutable /\ d.map = drv[b].map
      /\ \A c \in Cells : d.lag[c] \in {"none", drv[b].lag[c]}
  BY <1>1, <1>4, LagsOf
<1> HIDE DEF d
<1>6. Together(obj[b], d, b \in held)
  BY <1>1, <1>5, LagsLess
<1> QED
  BY <1>3, <1>6 DEF d

\* A region of no cells.
LEMMA NoCells ==
  ASSUME NEW o \in Sizes
  PROVE  Span(o, 0) = {}
  BY MaxSizeType DEF Span, Sizes

LEMMA NothingLags ==
  ASSUME BufferInv, NEW b \in trusted, NEW reason \in Lags
  PROVE  Together(obj[b], Lagging(b, {}, reason), b \in held)
<1>1. b \in live /\ Together(obj[b], drv[b], b \in held)
  BY BufferTypesHold DEF BufferInv
<1> DEFINE d == Lagging(b, {}, reason)
<1>2. /\ d.size = drv[b].size /\ d.immutable = drv[b].immutable /\ d.map = drv[b].map
      /\ \A c \in Cells : d.lag[c] \in {"none", drv[b].lag[c]}
  BY <1>1, LagsOf
<1> HIDE DEF d
<1>3. Together(obj[b], d, b \in held)
  BY <1>1, <1>2, LagsLess
<1> QED
  BY <1>3 DEF d

-----------------------------------------------------------------------------
(* The calls on buffers. *)

LEMMA EmptyBuffer ==
  /\ EmptyObject \in Objects /\ EmptyStore \in Stores
  /\ Together(EmptyObject, EmptyStore, FALSE)
<1>1. EmptyObject \in Objects
  BY MaxSizeType DEF EmptyObject, Objects, NoMap, Mapping, Sizes
<1>2. EmptyStore \in Stores
  BY MaxSizeType DEF EmptyStore, Stores, Unlagged, Lags, Sizes
<1> QED
  BY <1>1, <1>2 DEF EmptyObject, EmptyStore, Together, Unlagged

LEMMA InitBuffers == Init => BufferInv
<1> SUFFICES ASSUME Init
             PROVE  BufferInv
  OBVIOUS
<1>1. obj \in [Buffers -> Objects] /\ drv \in [Buffers -> Stores]
  BY EmptyBuffer DEF Init
<1>2. \A b \in Buffers : ~Mapped(b)
  BY DEF Init, Mapped, EmptyObject, NoMap
<1>3. TypeOK
  BY <1>1, <1>2 DEF Init, TypeOK, Objects, Stores, Lags
<1> QED
  BY <1>3 DEF Init, BufferInv

LEMMA GenBufferKeeps ==
  ASSUME BufferInv, NEW b \in Buffers, GenBuffer(b)
  PROVE  BufferInv'
<1>1. /\ b \in Buffers \ used /\ used' = used \cup {b} /\ live' = live \cup {b}
      /\ trusted' = trusted \cup {b}
      /\ UNCHANGED <<bound, obj, drv, held, named, plan>>
  BY DEF GenBuffer
<1>2. obj[b] = EmptyObject /\ drv[b] = EmptyStore /\ b \notin held
  BY <1>1, BufferTypesHold DEF BufferInv
<1>3. Together(obj[b], drv[b], b \in held)
  <2>1. (b \in held) = FALSE
    BY <1>2
  <2> QED
    BY <1>2, <2>1, EmptyBuffer
<1>4. \A x \in trusted' : Together(obj'[x], drv'[x], x \in held')
  BY <1>1, <1>3 DEF BufferInv
<1>5. \A x \in held' : Held(obj'[x])
  BY <1>1 DEF BufferInv
<1>6. \A x \in Buffers \ used' : obj'[x] = EmptyObject /\ drv'[x] = EmptyStore
  BY <1>1 DEF BufferInv
<1>7. /\ live' \subseteq used' /\ used' \subseteq Buffers
      /\ bound' \in [Targets -> live' \cup {NoBuffer}]
      /\ obj' \in [Buffers -> Objects] /\ drv' \in [Buffers -> Stores]
      /\ held' \subseteq live' /\ trusted' \subseteq live'
      /\ named' \in BOOLEAN /\ plan' \in Plans
      /\ \A x \in Buffers : obj'[x].map.access # "none" => x \in live'
  BY <1>1, BufferTypesHold
<1> QED
  BY <1>4, <1>5, <1>6, <1>7, BuffersByParts

LEMMA BindKeeps ==
  ASSUME BufferInv, NEW t \in Targets, NEW b \in Buffers \cup {NoBuffer}, BindBuffer(t, b)
  PROVE  BufferInv'
<1>1. /\ bound' \in [Targets -> live \cup {NoBuffer}]
      /\ UNCHANGED <<used, live, obj, drv, held, trusted, named, plan>>
  BY BufferTypesHold DEF BindBuffer
<1>2. \A x \in trusted' : Together(obj'[x], drv'[x], x \in held')
  BY <1>1 DEF BufferInv
<1>3. /\ \A x \in held' : Held(obj'[x])
      /\ \A x \in Buffers \ used' : obj'[x] = EmptyObject /\ drv'[x] = EmptyStore
  BY <1>1 DEF BufferInv
<1> QED
  BY <1>1, <1>2, <1>3, BufferTypesHold, BuffersByParts

LEMMA DeleteBufferKeeps ==
  ASSUME BufferInv, NEW b \in Buffers, DeleteBuffer(b)
  PROVE  BufferInv'
<1>1. /\ b \in live /\ live' = live \ {b} /\ held' = held \ {b} /\ trusted' = trusted \ {b}
      /\ obj' = [obj EXCEPT ![b] = EmptyObject] /\ drv' = [drv EXCEPT ![b] = EmptyStore]
      /\ UNCHANGED <<used, named, plan>>
      /\ bound' = [t \in Targets |-> IF bound[t] = b THEN NoBuffer ELSE bound[t]]
  BY DEF DeleteBuffer
<1>2. /\ obj' \in [Buffers -> Objects] /\ drv' \in [Buffers -> Stores]
      /\ obj'[b] = EmptyObject /\ drv'[b] = EmptyStore
      /\ \A x \in Buffers : x # b => obj'[x] = obj[x] /\ drv'[x] = drv[x]
  BY <1>1, EmptyBuffer, BufferTypesHold
<1>3. bound' \in [Targets -> live' \cup {NoBuffer}]
  BY <1>1, BufferTypesHold
<1>4. EmptyObject.map.access = "none"
  BY DEF EmptyObject, NoMap
<1>5. /\ live' \subseteq used' /\ used' \subseteq Buffers
      /\ held' \subseteq live' /\ trusted' \subseteq live'
      /\ named' \in BOOLEAN /\ plan' \in Plans
      /\ \A x \in Buffers : obj'[x].map.access # "none" => x \in live'
  BY <1>1, <1>2, <1>4, BufferTypesHold
<1>6. \A x \in held' : Held(obj'[x])
  BY <1>1, <1>2, BufferTypesHold DEF BufferInv
<1>7. \A x \in Buffers \ used' : obj'[x] = EmptyObject /\ drv'[x] = EmptyStore
  BY <1>1, <1>2 DEF BufferInv
<1>8. ASSUME NEW x \in trusted'
      PROVE  Together(obj'[x], drv'[x], x \in held')
  <2>1. x \in trusted /\ x # b /\ x \in Buffers /\ ((x \in held') = (x \in held))
    BY <1>1, <1>8, BufferTypesHold
  <2> QED
    BY <1>2, <2>1 DEF BufferInv
<1> QED
  BY <1>2, <1>3, <1>5, <1>6, <1>7, <1>8, BuffersByParts

LEMMA SpecifyKeeps ==
  ASSUME BufferInv, NEW b \in live, NEW form, NEW sz \in Sizes, NEW fixed \in BOOLEAN,
         Specify(b, form, sz, fixed)
  PROVE  BufferInv'
<1> DEFINE taken == Delivered(form) /\ ~drv[b].immutable
           o == [obj[b] EXCEPT !.size = sz, !.immutable = fixed]
           d == IF taken
                THEN [size |-> sz, immutable |-> fixed, map |-> "none", lag |-> Unlagged]
                ELSE Lagging(b, Span(0, sz), "call")
<1>1. b \in Buffers /\ obj[b] \in Objects /\ obj \in [Buffers -> Objects]
  BY BufferTypesHold
<1>2. /\ obj' = [obj EXCEPT ![b] = o] /\ drv' = [drv EXCEPT ![b] = d]
      /\ held' = held \ {b}
      /\ trusted' = IF taken THEN trusted \cup {b} ELSE trusted \ {b}
      /\ UNCHANGED <<used, live, bound, named, plan>>
  BY <1>1 DEF Specify
<1>3. o \in Objects /\ o.size = sz /\ o.immutable = fixed
  BY <1>1 DEF Objects
<1>4. d \in Stores
  <2>1. CASE taken
    BY <2>1 DEF Stores, Unlagged, Lags
  <2>2. CASE ~taken
    <3>1. "call" \in Lags
      BY DEF Lags
    <3> QED
      BY <2>2, <3>1, LagsOf
  <2> QED
    BY <2>1, <2>2
<1>5. ASSUME b \in trusted'
      PROVE  Together(o, d, b \in held')
  <2>1. taken /\ b \notin held'
    BY <1>2, <1>5
  <2>2. /\ d.size = sz /\ d.immutable = fixed /\ d.map = "none"
        /\ \A c \in Cells : d.lag[c] = "none"
    BY <2>1 DEF Unlagged
  <2> HIDE DEF o, d, taken
  <2> QED
    BY <1>3, <2>1, <2>2 DEF Together
<1>6. /\ held' \subseteq held \cup {b} /\ held \ {b} \subseteq held' /\ b \notin held'
      /\ trusted' \subseteq trusted \cup {b}
  BY <1>2
<1> HIDE DEF o, d, taken
<1> QED
  BY <1>2, <1>3, <1>4, <1>5, <1>6, OneBuffer

LEMMA SubDataKeeps ==
  ASSUME BufferInv, NEW b \in Buffers, NEW form, NEW o, NEW n, BufferSubData(b, form, o, n)
  PROVE  BufferInv'
<1>1. /\ b \in live /\ o + n <= obj[b].size
      /\ drv' = [drv EXCEPT ![b] = AfterWrite(b, form, o, n)]
      /\ Judge(b, Lawful(b, form)) /\ UNCHANGED <<frontend, held, named, plan>>
  BY DEF BufferSubData, Reached
<1>2. b \in trusted' => Together(obj[b], AfterWrite(b, form, o, n), b \in held)
  BY <1>1, LawfulWrite DEF Judge, Lawful
<1>3. trusted' \subseteq trusted
  BY <1>1 DEF Judge
<1> QED
  BY <1>1, <1>2, <1>3, PushedOrNot, OneStore

LEMMA ClearKeeps ==
  ASSUME BufferInv, NEW b \in Buffers, NEW o, NEW n, ClearBufferSubData(b, o, n)
  PROVE  BufferInv'
<1>1. /\ b \in live /\ o + n <= obj[b].size /\ obj[b].map.access # "plain"
      /\ drv' = [drv EXCEPT ![b] = AfterWrite(b, "target", o, n)]
      /\ UNCHANGED <<frontend, held, trusted, named, plan>>
  BY DEF ClearBufferSubData, Mapped
<1>2. b \in trusted' => Together(obj[b], AfterWrite(b, "target", o, n), b \in held)
  BY <1>1, LawfulWrite DEF Delivered
<1> QED
  BY <1>1, <1>2, PushedOrNot, OneStore

LEMMA CopyKeeps ==
  ASSUME BufferInv, NEW r \in Buffers, NEW w \in Buffers,
         NEW ro \in Sizes, NEW wo \in Sizes, NEW n \in Sizes,
         \/ CopyBufferSubData(r, w, ro, wo, n)
         \/ CopyNamedBufferSubData(r, w, ro, wo, n)
  PROVE  BufferInv'
<1>0. "call" \in Lags
  BY DEF Lags
<1>1. CASE CopyBufferSubData(r, w, ro, wo, n)
  <2> DEFINE d == Lagging(w, Span(wo, n), "call")
  <2>1. /\ w \in live /\ drv' = [drv EXCEPT ![w] = d] /\ Judge(w, n = 0)
        /\ UNCHANGED <<frontend, held, named, plan>>
    BY <1>1 DEF CopyBufferSubData, Reached
  <2>2. d \in Stores
    BY <1>0, <2>1, LagsOf
  <2>3. w \in trusted' => Together(obj[w], d, w \in held)
    <3>1. w \in trusted' => w \in trusted /\ n = 0
      BY <2>1 DEF Judge
    <3>2. n = 0 => d = Lagging(w, {}, "call")
      BY NoCells
    <3> HIDE DEF d
    <3> QED
      BY <1>0, <3>1, <3>2, NothingLags
  <2>4. trusted' \subseteq trusted
    BY <2>1 DEF Judge
  <2> HIDE DEF d
  <2> QED
    BY <2>1, <2>2, <2>3, <2>4, OneStore
<1>2. CASE CopyNamedBufferSubData(r, w, ro, wo, n)
  <2> DEFINE crossed == Overwritten(r, w, ro, wo, n)
             written == AfterWrite(w, "named", wo, n)
             d == [written EXCEPT !.lag =
                     [c \in Cells |-> IF c \in crossed THEN "call" ELSE @[c]]]
  <2>1. /\ w \in live /\ wo + n <= obj[w].size
        /\ drv' = [drv EXCEPT ![w] = d]
        /\ Judge(w, Lawful(w, "named") /\ crossed = {})
        /\ UNCHANGED <<frontend, held, named, plan>>
    BY <1>2 DEF CopyNamedBufferSubData
  <2>2. written \in Stores
    BY <2>1, PushedOrNot
  <2>3. /\ d \in Stores /\ d.size = written.size /\ d.immutable = written.immutable
        /\ d.map = written.map
        /\ crossed = {} => \A c \in Cells : d.lag[c] = written.lag[c]
    <3> HIDE DEF written, crossed
    <3> QED
      BY <1>0, <2>2 DEF Stores
  <2>4. w \in trusted' => Together(obj[w], d, w \in held)
    <3>1. w \in trusted' => w \in trusted /\ Lawful(w, "named") /\ crossed = {}
      BY <2>1 DEF Judge
    <3>2. w \in trusted' => Together(obj[w], written, w \in held)
      BY <2>1, <3>1, LawfulWrite DEF Lawful
    <3> HIDE DEF written, crossed, d
    <3> QED
      BY <2>3, <3>1, <3>2 DEF Together
  <2>5. trusted' \subseteq trusted
    BY <2>1 DEF Judge
  <2> HIDE DEF d
  <2> QED
    BY <2>1, <2>3, <2>4, <2>5, OneStore
<1> QED
  BY <1>1, <1>2

LEMMA InvalidateKeeps ==
  ASSUME BufferInv, NEW b \in Buffers, NEW o \in Sizes, NEW n \in Sizes,
         InvalidateBufferSubData(b, o, n)
  PROVE  BufferInv'
<1> DEFINE d == IF named THEN Lagging(b, Span(o, n), "call") ELSE drv[b]
<1>0. "call" \in Lags
  BY DEF Lags
<1>1. /\ b \in live /\ drv' = [drv EXCEPT ![b] = d] /\ Judge(b, n = 0 \/ ~named)
      /\ UNCHANGED <<frontend, held, named, plan>>
  BY DEF InvalidateBufferSubData
<1>2. d \in Stores
  <2>1. drv[b] \in Stores
    BY BufferTypesHold
  <2> QED
    BY <1>0, <1>1, <2>1, LagsOf
<1>3. b \in trusted' => Together(obj[b], d, b \in held)
  <2>1. b \in trusted' => b \in trusted /\ (n = 0 \/ ~named)
    BY <1>1 DEF Judge
  <2>2. n = 0 /\ named => d = Lagging(b, {}, "call")
    BY NoCells
  <2>3. ~named => d = drv[b]
    OBVIOUS
  <2> HIDE DEF d
  <2> QED
    BY <1>0, <2>1, <2>2, <2>3, NothingLags DEF BufferInv
<1>4. trusted' \subseteq trusted
  BY <1>1 DEF Judge
<1> HIDE DEF d
<1> QED
  BY <1>1, <1>2, <1>3, <1>4, OneStore

LEMMA MapKeeps ==
  ASSUME BufferInv, NEW b \in Buffers, NEW form, NEW o \in Sizes, NEW n \in Sizes,
         NEW access \in {"plain", "persistent"}, MapBufferRange(b, form, o, n, access)
  PROVE  BufferInv'
<1> DEFINE len  == Length(b, n)
           map  == [offset |-> o, length |-> len, access |-> access]
           made == /\ Delivered(form) /\ drv[b].map = "none"
                   /\ len > 0 /\ o + len <= drv[b].size
                   /\ access = "persistent" => drv[b].immutable
           object == [obj[b] EXCEPT !.map = map]
           d == [drv[b] EXCEPT !.map = IF made THEN access ELSE drv[b].map]
<1>1. b \in live /\ obj[b] \in Objects /\ drv[b] \in Stores
      /\ obj \in [Buffers -> Objects] /\ drv \in [Buffers -> Stores]
  BY BufferTypesHold DEF MapBufferRange, Reached
<1>2. /\ obj[b].map.access = "none" /\ (access = "persistent" => obj[b].immutable)
      /\ o + len <= obj[b].size
  BY DEF MapBufferRange, Mapped, Grants
<1>3. b \notin held
  BY <1>2 DEF BufferInv, Held
<1>4. len \in Sizes
  BY <1>1 DEF Length, Objects
<1>5. /\ obj' = [obj EXCEPT ![b] = object] /\ drv' = [drv EXCEPT ![b] = d]
      /\ held' = held \cup {b}
      /\ Judge(b, Delivered(form)) /\ UNCHANGED <<used, live, bound, named, plan>>
  BY <1>1 DEF MapBufferRange, MapTo
<1>6. /\ object \in Objects /\ object.size = obj[b].size /\ object.immutable = obj[b].immutable
      /\ object.map = map
  <2>1. map \in Mapping
    BY <1>4 DEF Mapping
  <2> HIDE DEF map
  <2> QED
    BY <1>1, <2>1 DEF Objects
<1>7. /\ d \in Stores /\ d.size = drv[b].size /\ d.immutable = drv[b].immutable
      /\ d.lag = drv[b].lag /\ d.map = IF made THEN access ELSE drv[b].map
  <2> HIDE DEF made
  <2> QED
    BY <1>1 DEF Stores
<1>8. Held(object)
  BY <1>2, <1>6 DEF Held
<1>9. ASSUME b \in trusted'
      PROVE  Together(object, d, b \in held')
  <2>1. Together(obj[b], drv[b], FALSE) /\ Delivered(form) /\ b \in held'
    <3>1. b \in trusted /\ Delivered(form) /\ b \in held' /\ (b \in held) = FALSE
      BY <1>3, <1>5, <1>9 DEF Judge
    <3> QED
      BY <3>1 DEF BufferInv
  <2>2. /\ drv[b].size = obj[b].size /\ drv[b].immutable = obj[b].immutable
        /\ drv[b].map = "none" /\ \A c \in Cells : drv[b].lag[c] = "none"
    BY <2>1 DEF Together
  <2>3. made <=> len > 0
    BY <1>2, <2>1, <2>2
  <2> HIDE DEF made, d, object
  <2> QED
    BY <1>6, <1>7, <2>1, <2>2, <2>3 DEF Together
<1>10. /\ held' \subseteq held \cup {b} /\ held \ {b} \subseteq held'
       /\ trusted' \subseteq trusted \cup {b}
  BY <1>5 DEF Judge
<1> HIDE DEF d, object
<1> QED
  BY <1>1, <1>5, <1>6, <1>7, <1>8, <1>9, <1>10, OneBuffer

LEMMA MapWholeKeeps ==
  ASSUME BufferInv, NEW b \in Buffers, NEW form, MapBuffer(b, form)
  PROVE  BufferInv'
<1> DEFINE map == [offset |-> 0, length |-> obj[b].size, access |-> "whole"]
           object == [obj[b] EXCEPT !.map = map]
<1>1. /\ b \in live /\ obj[b] \in Objects /\ drv[b] \in Stores
      /\ obj \in [Buffers -> Objects] /\ drv \in [Buffers -> Stores]
  BY BufferTypesHold DEF MapBuffer, Reached
<1>2. /\ obj' = [obj EXCEPT ![b] = object] /\ held' = held \cup {b}
      /\ UNCHANGED <<used, live, bound, drv, trusted, named, plan>>
  BY <1>1 DEF MapBuffer
<1>3. b \notin held
  BY DEF MapBuffer, Mapped, BufferInv, Held
<1>4. map \in Mapping /\ obj[b].size \in Nat
  BY <1>1, MaxSizeType DEF Objects, Mapping, Sizes
<1>5. /\ object \in Objects /\ object.size = obj[b].size
      /\ object.immutable = obj[b].immutable /\ object.map = map
  <2> HIDE DEF map
  <2> QED
    BY <1>1, <1>4 DEF Objects
<1>6. Held(object)
  BY <1>4, <1>5 DEF Held
<1>7. ASSUME b \in trusted'
      PROVE  Together(object, drv[b], b \in held')
  <2>1. Together(obj[b], drv[b], FALSE) /\ b \in held'
    <3>1. b \in trusted /\ b \in held' /\ (b \in held) = FALSE
      BY <1>2, <1>3, <1>7
    <3> QED
      BY <3>1 DEF BufferInv
  <2> HIDE DEF object
  <2> QED
    BY <1>5, <2>1 DEF Together
<1>8. drv' = [drv EXCEPT ![b] = drv[b]] /\ UNCHANGED <<used, live, bound, named, plan>>
  BY <1>1, <1>2
<1>9. /\ held' \subseteq held \cup {b} /\ held \ {b} \subseteq held'
      /\ trusted' \subseteq trusted \cup {b}
  BY <1>2
<1> HIDE DEF object
<1> QED
  BY <1>1, <1>2, <1>5, <1>6, <1>7, <1>8, <1>9, OneBuffer

LEMMA WriteKeeps ==
  ASSUME BufferInv, NEW b \in Buffers, NEW c \in Cells, WriteMapped(b, c)
  PROVE  BufferInv'
<1> DEFINE d == Lagging(b, {c}, "pointer")
<1>1. /\ b \in held /\ c \in Span(obj[b].map.offset, obj[b].map.length)
      /\ drv' = [drv EXCEPT ![b] = d] /\ Judge(b, obj[b].map.access # "plain")
      /\ UNCHANGED <<frontend, held, named, plan>>
  BY DEF WriteMapped
<1>2. b \in live
  BY <1>1, BufferTypesHold
<1>3. /\ d \in Stores /\ d.size = drv[b].size /\ d.immutable = drv[b].immutable
      /\ d.map = drv[b].map /\ \A x \in Cells : x # c => d.lag[x] = drv[b].lag[x]
  <2>1. "pointer" \in Lags
    BY DEF Lags
  <2> QED
    BY <1>2, <2>1, LagsOf
<1> HIDE DEF d
<1>4. ASSUME b \in trusted'
      PROVE  Together(obj[b], d, b \in held)
  <2>1. Together(obj[b], drv[b], b \in held) /\ obj[b].map.access # "plain"
    BY <1>1, <1>4 DEF Judge, BufferInv
  <2> QED
    BY <1>1, <1>3, <2>1 DEF Together
<1>5. trusted' \subseteq trusted
  BY <1>1 DEF Judge
<1> QED
  BY <1>1, <1>2, <1>3, <1>4, <1>5, OneStore

\* Passing a region of the store on as it is leaves a trusted buffer as it should be.
LEMMA PushIsHarmless ==
  ASSUME BufferInv, NEW b \in trusted, NEW form, NEW o, NEW n
  PROVE  Together(obj[b], AfterPush(b, form, o, n), b \in held)
<1>1. b \in live /\ Together(obj[b], drv[b], b \in held) /\ "none" \in Lags
  BY BufferTypesHold DEF BufferInv, Lags
<1> DEFINE d == Lagging(b, Span(o, n), "none")
<1>2. /\ d.size = drv[b].size /\ d.immutable = drv[b].immutable /\ d.map = drv[b].map
      /\ \A c \in Cells : d.lag[c] \in {"none", drv[b].lag[c]}
  BY <1>1, LagsOf
<1>3. AfterPush(b, form, o, n) \in {d, drv[b]}
  BY DEF AfterPush
<1> HIDE DEF d
<1>4. Together(obj[b], d, b \in held)
  BY <1>1, <1>2, LagsLess
<1> QED
  BY <1>1, <1>3, <1>4

LEMMA FlushMappedKeeps ==
  ASSUME BufferInv, NEW b \in Buffers, NEW form, NEW o, NEW n,
         FlushMappedBufferRange(b, form, o, n)
  PROVE  BufferInv'
<1>1. /\ b \in live /\ drv' = [drv EXCEPT ![b] = AfterPush(b, form, o, n)]
      /\ UNCHANGED <<frontend, held, trusted, named, plan>>
  BY DEF FlushMappedBufferRange, Reached
<1>2. b \in trusted' => Together(obj[b], AfterPush(b, form, o, n), b \in held)
  BY <1>1, PushIsHarmless
<1> QED
  BY <1>1, <1>2, PushedOrNot, OneStore

LEMMA UnmapKeeps ==
  ASSUME BufferInv, NEW b \in Buffers, NEW form, UnmapBuffer(b, form)
  PROVE  BufferInv'
<1> DEFINE map == obj[b].map
           pushed == UnmapPush(b, form)
           object == [obj[b] EXCEPT !.map = NoMap]
           stays == map.length = 0 \/ ~Delivered(form)
           d == IF stays THEN pushed ELSE [pushed EXCEPT !.map = "none"]
<1>1. /\ b \in live /\ b \in held /\ obj' = [obj EXCEPT ![b] = object]
      /\ held' = held \ {b} /\ drv' = [drv EXCEPT ![b] = d]
      /\ Judge(b, Delivered(form)) /\ UNCHANGED <<used, live, bound, named, plan>>
  <2>1. b \in Buffers /\ obj \in [Buffers -> Objects]
    BY BufferTypesHold
  <2> QED
    BY <2>1 DEF UnmapBuffer, Reached
<1>2. /\ obj[b] \in Objects /\ drv[b] \in Stores
  BY BufferTypesHold
<1>3. pushed \in Stores
  BY <1>1, <1>2, PushedOrNot DEF UnmapPush
<1>4. /\ d \in Stores /\ d.size = pushed.size /\ d.immutable = pushed.immutable
      /\ d.lag = pushed.lag /\ d.map = IF stays THEN pushed.map ELSE "none"
  <2> HIDE DEF pushed, stays
  <2> QED
    BY <1>3 DEF Stores
<1>5. object \in Objects /\ object.size = obj[b].size /\ object.immutable = obj[b].immutable
  <2>1. NoMap \in Mapping
    BY MaxSizeType DEF NoMap, Mapping, Sizes
  <2> QED
    BY <1>2, <2>1 DEF Objects
<1>6. ASSUME b \in trusted'
      PROVE  Together(object, d, b \in held')
  <2>1. b \in trusted /\ Delivered(form) /\ Together(obj[b], drv[b], TRUE) /\ b \notin held'
    <3>1. b \in trusted /\ Delivered(form) /\ (b \in held) = TRUE /\ b \notin held'
      BY <1>1, <1>6 DEF Judge
    <3> QED
      BY <3>1 DEF BufferInv
  <2>2. /\ pushed.size = obj[b].size /\ pushed.immutable = obj[b].immutable
        /\ stays => pushed.map = "none"
        /\ \A c \in Cells : pushed.lag[c] = "none"
    <3>1. CASE map.length = 0
      <4>1. pushed = drv[b]
        BY <3>1 DEF UnmapPush
      <4>2. Span(map.offset, map.length) = {}
        <5>1. map.offset \in Sizes
          BY <1>2 DEF Objects, Mapping
        <5> QED
          BY <3>1, <5>1, NoCells
      <4> QED
        BY <2>1, <3>1, <4>1, <4>2 DEF Together
    <3>2. CASE map.length # 0
      <4>1. pushed = AfterPush(b, form, map.offset, map.length) /\ ~stays
        BY <2>1, <3>2 DEF UnmapPush
      <4>2. CASE map.access # "plain"
        <5>1. map.offset + map.length <= obj[b].size
          BY <1>1 DEF BufferInv, Held
        <5>2. TakesSubData(b, form, map.offset, map.length)
          BY <2>1, <4>2, <5>1, StoreTakes
        <5>3. pushed = Lagging(b, Span(map.offset, map.length), "none") /\ "none" \in Lags
          BY <4>1, <5>2 DEF AfterPush, Lags
        <5>4. /\ pushed.size = drv[b].size /\ pushed.immutable = drv[b].immutable
              /\ \A c \in Cells : pushed.lag[c] =
                   IF c \in Span(map.offset, map.length) THEN "none" ELSE drv[b].lag[c]
          BY <1>1, <5>3, LagsOf
        <5> HIDE DEF pushed, stays
        <5> QED
          BY <2>1, <4>1, <5>4 DEF Together
      <4>3. CASE map.access = "plain"
        <5>1. Together(obj[b], pushed, b \in held)
          BY <2>1, <4>1, PushIsHarmless
        <5> HIDE DEF pushed, stays
        <5> QED
          BY <4>1, <4>3, <5>1 DEF Together
      <4> QED
        BY <4>2, <4>3
    <3> QED
      BY <3>1, <3>2
  <2> HIDE DEF pushed, stays, d, object
  <2> QED
    BY <1>4, <1>5, <2>1, <2>2 DEF Together
<1>7. /\ held' \subseteq held \cup {b} /\ held \ {b} \subseteq held' /\ b \notin held'
      /\ trusted' \subseteq trusted \cup {b}
  BY <1>1 DEF Judge
<1> HIDE DEF d, object
<1> QED
  BY <1>1, <1>4, <1>5, <1>6, <1>7, OneBuffer

LEMMA WithinStore ==
  ASSUME BufferInv, NEW b \in Buffers
  PROVE  Within(b) \subseteq Sizes
<1>1. obj[b].size \in Sizes
  BY BufferTypesHold DEF Objects
<1> QED
  BY <1>1, MaxSizeType DEF Within, Sizes

LEMMA StepBuffers == BufferInv /\ [Next]_vars => BufferInv'
<1> SUFFICES ASSUME BufferInv, [Next]_vars
             PROVE  BufferInv'
  OBVIOUS
<1>1. ASSUME NEW b \in Buffers, Update(b)
      PROVE  BufferInv'
  <2>1. Within(b) \subseteq Sizes
    BY WithinStore
  <2> QED
    BY <1>1, <2>1, SubDataKeeps, ClearKeeps, InvalidateKeeps, FlushMappedKeeps,
       MapKeeps DEF Update
<1>2. ASSUME NEW b \in Buffers, NEW form \in Forms, NEW sz \in Sizes,
             BufferData(b, form, sz) \/ BufferStorage(b, form, sz)
      PROVE  BufferInv'
  <2>1. /\ b \in live
        /\ \E fixed \in BOOLEAN : Specify(b, form, sz, fixed)
    BY <1>2 DEF BufferData, BufferStorage, Reached
  <2> QED
    BY <2>1, SpecifyKeeps
<1>3. ASSUME NEW b \in Buffers, NEW w \in Buffers, Copy(b, w)
      PROVE  BufferInv'
  <2>1. Within(b) \subseteq Sizes /\ Within(w) \subseteq Sizes
    BY WithinStore
  <2> QED
    BY <1>3, <2>1, CopyKeeps DEF Copy
<1>4. CASE UNCHANGED vars
  <2>1. UNCHANGED <<used, live, bound, obj, drv, held, trusted, named, plan>>
    BY <1>4 DEF vars, frontend
  <2>2. \A x \in trusted' : Together(obj'[x], drv'[x], x \in held')
    BY <2>1 DEF BufferInv
  <2>3. /\ \A x \in held' : Held(obj'[x])
        /\ \A x \in Buffers \ used' : obj'[x] = EmptyObject /\ drv'[x] = EmptyStore
    BY <2>1 DEF BufferInv
  <2> QED
    BY <2>1, <2>2, <2>3, BufferTypesHold, BuffersByParts
<1> QED
  BY <1>1, <1>2, <1>3, <1>4, GenBufferKeeps, DeleteBufferKeeps, MapWholeKeeps, UnmapKeeps,
     WriteKeeps, BindKeeps
     DEF Next

LEMMA BuffersAlways == Spec => []BufferInv
  BY InitBuffers, StepBuffers, PTL DEF Spec

\* Type correctness, for any number of buffers and stores of any size.
THEOREM BufferTypes == Spec => []TypeOK
<1>1. BufferInv => TypeOK
  BY DEF BufferInv
<1> QED
  BY <1>1, BuffersAlways, PTL

\* Where the program uses a buffer only in ways the driver accepts, the driver's
\* copy is the CPU store, but for cells that are written through a mapping still
\* held: for any number of buffers and targets and stores of any size.
THEOREM CopiesAgree == Spec => []DriverCopyFaithful
<1>1. BufferInv => DriverCopyFaithful
  BY DEF BufferInv, DriverCopyFaithful, Together
<1> QED
  BY <1>1, BuffersAlways, PTL

\* The driver's mapping of such a buffer comes and goes with the one the program
\* got by range; for a mapping of the whole store it has none.
THEOREM MapsComeAndGo == Spec => []MappingsAgree
<1>1. BufferInv => MappingsAgree
  BY DEF BufferInv, MappingsAgree, Together
<1> QED
  BY <1>1, BuffersAlways, PTL

\* No pointer outlives its store, whatever is specified, mapped or deleted.
THEOREM PointersAreSafe == Spec => []PointerInStore
<1>1. BufferInv => PointerInStore
  BY BufferTypesHold DEF BufferInv, PointerInStore, Held, MapEnd
<1> QED
  BY <1>1, BuffersAlways, PTL

-----------------------------------------------------------------------------
(* The components of MCComponents. *)

\* Each has its types, whichever of them moves.
THEOREM ComponentTypes == MCSpec => []MCTypeOK
<1> DEFINE Inv == /\ StencilInv /\ SlotInv /\ QueryInv /\ CaptureInv
                  /\ FBInv /\ ShaderInv /\ CapInv /\ DebugInv
           now == <<moves, stencilVars, slotVars, queryVars, tfVars, fbVars,
                    shaderVars, capVars, debugVars>>
<1>1. MCInit => Inv
  BY InitStencil, InitSlot, InitQuery, InitCapture, InitFB, InitShaders, InitCap,
     InitDebug DEF MCInit
<1>2. Inv /\ [MCNext]_now => Inv'
  <2> SUFFICES ASSUME Inv, [MCNext]_now
               PROVE  Inv'
    OBVIOUS
  <2>1. /\ [StencilNext]_stencilVars /\ [SlotNext]_slotVars /\ [QueryNext]_queryVars
        /\ [TFNext]_tfVars /\ [FBNext]_fbVars /\ [SPNext]_shaderVars
        /\ [CapNext]_capVars /\ [DebugNext]_debugVars
    BY DEF MCNext, StillStencil, StillSlots, StillQueries, StillTF, StillFB,
           StillShaders, StillCaps, StillDebug
  <2> QED
    BY <2>1, StepStencil, StepSlot, StepQuery, StepCapture, StepFB, StepShaders,
       StepCap, StepDebug
<1>3. Inv => MCTypeOK
  BY DEF MCTypeOK, StencilInv, SlotInv, QueryInv, CaptureInv, FBInv, ShaderInv,
         CapInv, DebugInv
<1> QED
  BY <1>1, <1>2, <1>3, PTL DEF MCSpec
=============================================================================
