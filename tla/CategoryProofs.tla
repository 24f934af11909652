---------------------------- MODULE CategoryProofs ----------------------------
(***************************************************************************)
(* The categories of GLStateTracker whose flush is more than a comparison: *)
(* the two stencil faces, the capabilities with an index, the state per    *)
(* draw buffer or viewport and the image units, for every set of fields,   *)
(* values and textures and every number of indices and units.              *)
(***************************************************************************)
EXTENDS StencilFlush, IndexedCaps, SlotState, ImageUnits, TLAPS

-----------------------------------------------------------------------------
(* Stencil. *)

StencilInv == StencilTypeOK /\ StencilCoherent /\ StaleBackOnlyWhenMerged

LEMMA InitStencil == StencilInit => StencilInv
  BY InitialStencilType
     DEF StencilInit, StencilInv, StencilTypeOK, FaceStates, Faces, FrontFace, BackFace,
         StencilCoherent, StaleBackOnlyWhenMerged

LEMMA SetStencilStep ==
  ASSUME StencilInv, NEW field \in Fields, NEW faces \in SUBSET Faces,
         NEW v \in StencilValues, SetStencil(field, faces, v)
  PROVE  StencilInv'
<1>1. stencil' \in FaceStates
  BY DEF SetStencil, StencilInv, StencilTypeOK, FaceStates
<1> QED
  BY <1>1 DEF SetStencil, StencilInv, StencilTypeOK, StencilCoherent,
              StaleBackOnlyWhenMerged

\* apply() leaves the driver as the snapshot says, with the front face exact, and
\* the back face exact unless the two are equal in the application's state.
LEMMA ApplyStencilStep ==
  ASSUME StencilInv, ApplyStencil
  PROVE  /\ stencil' = stencil
         /\ stencilDriver' \in FaceStates
         /\ stencilApplied' = stencilDriver'
         /\ stencilDriver'[FrontFace] = stencil[FrontFace]
         /\ \/ stencilDriver'[BackFace] = stencil[BackFace]
            \/ stencil[FrontFace] = stencil[BackFace]
<1> USE DEF StencilInv, StencilTypeOK, StencilCoherent, FaceStates, Faces
<1>1. CASE stencil[FrontFace] # stencil[BackFace]
  BY <1>1 DEF ApplyStencil, PushDiffering
<1>2. CASE /\ stencil[FrontFace] = stencil[BackFace]
           /\ stencil[FrontFace] # stencilApplied[FrontFace]
  BY <1>2 DEF ApplyStencil, PushBoth
<1>3. CASE /\ stencil[FrontFace] = stencil[BackFace]
           /\ stencil[FrontFace] = stencilApplied[FrontFace]
  BY <1>3 DEF ApplyStencil
<1> QED
  BY <1>1, <1>2, <1>3

LEMMA StepStencil == StencilInv /\ [StencilNext]_stencilVars => StencilInv'
<1> SUFFICES ASSUME StencilInv, [StencilNext]_stencilVars
             PROVE  StencilInv'
  OBVIOUS
<1>1. CASE FlushStencil \/ DrawStencil
  BY <1>1, ApplyStencilStep
     DEF FlushStencil, DrawStencil, StencilInv, StencilTypeOK, StencilCoherent,
         StaleBackOnlyWhenMerged
<1>2. CASE UNCHANGED stencilVars
  BY <1>2 DEF stencilVars, StencilInv, StencilTypeOK, StencilCoherent,
              StaleBackOnlyWhenMerged
<1> QED
  BY <1>1, <1>2, SetStencilStep DEF StencilNext

LEMMA StencilAlways == StencilSpec => []StencilInv
  BY InitStencil, StepStencil, PTL DEF StencilSpec

\* stencilFrontApplied_ and stencilBackApplied_ describe the driver, whether the
\* faces were pushed with the both-faces call or one by one.
THEOREM StencilSnapshot == StencilSpec => []StencilCoherent
<1>1. StencilInv => StencilCoherent
  BY DEF StencilInv
<1> QED
  BY <1>1, StencilAlways, PTL

\* A draw sees the stencil state of the application; the one exception is the
\* back face while the application holds both faces equal, where apply()
\* compares the front one only.
THEOREM StencilDrawn == StencilSpec => []StaleBackOnlyWhenMerged
<1>1. StencilInv => StaleBackOnlyWhenMerged
  BY DEF StencilInv
<1> QED
  BY <1>1, StencilAlways, PTL
-----------------------------------------------------------------------------
(* Capabilities. *)

\* A flag that is down says that nothing waits in its map.
CapFlagsSound ==
  /\ capsDirty \/ capCurrent = capApplied
  /\ indexedDirty \/ indexedCurrent = indexedApplied

\* An entry is never removed from a map.
CapEntriesGrow ==
  /\ capCurrent = NoEntry => capApplied = NoEntry
  /\ \A i \in CapIndices : indexedCurrent[i] = NoEntry => indexedApplied[i] = NoEntry

\* What an entry says, the initial value when there is none.
EntryValue(entry) == IF entry = NoEntry THEN FALSE ELSE entry

\* A program that uses glEnablei only: both sides follow the indexed map.
OnlyIndexed ==
  capCurrent = NoEntry =>
    \A i \in CapIndices : /\ capGL[i] = EntryValue(indexedCurrent[i])
                          /\ capDriver[i] = EntryValue(indexedApplied[i])

\* One that uses glEnable only: both follow the capability's own entry.
OnlyWhole ==
  (\A i \in CapIndices : indexedCurrent[i] = NoEntry) =>
    \A i \in CapIndices : /\ capGL[i] = EntryValue(capCurrent)
                          /\ capDriver[i] = EntryValue(capApplied)

\* For any program an index of the driver holds what one of the two snapshots
\* says.
DriverFromSnapshots ==
  \A i \in CapIndices :
    \/ capDriver[i] \in {capApplied, indexedApplied[i]}
    \/ capApplied = NoEntry /\ indexedApplied[i] = NoEntry /\ capDriver[i] = FALSE

CapInv == /\ CapTypeOK /\ CapFlagsSound /\ CapEntriesGrow
          /\ OnlyIndexed /\ OnlyWhole /\ DriverFromSnapshots
          /\ CapsDrawn

LEMMA InitCap == CapInit => CapInv
<1> SUFFICES ASSUME CapInit
             PROVE  CapInv
  OBVIOUS
<1>1. CapTypeOK
  BY DEF CapInit, CapTypeOK, Entries
<1>2. CapFlagsSound /\ CapEntriesGrow /\ CapsDrawn
  BY DEF CapInit, CapFlagsSound, CapEntriesGrow, CapsDrawn
<1>3. OnlyIndexed /\ OnlyWhole /\ DriverFromSnapshots
  BY DEF CapInit, OnlyIndexed, OnlyWhole, DriverFromSnapshots, EntryValue
<1> QED
  BY <1>1, <1>2, <1>3 DEF CapInv

LEMMA SetCapStep ==
  ASSUME CapInv, NEW enabled \in BOOLEAN, SetCapability(enabled)
  PROVE  CapInv'
<1>1. CapTypeOK'
  BY DEF CapInv, CapTypeOK, SetCapability, Entries
<1>2. CapFlagsSound' /\ CapEntriesGrow' /\ CapsDrawn'
  BY NoEntryIsNoValue
     DEF CapInv, CapTypeOK, SetCapability, CapFlagsSound, CapEntriesGrow, CapsDrawn
<1>3. OnlyIndexed' /\ OnlyWhole' /\ DriverFromSnapshots'
  BY NoEntryIsNoValue
     DEF CapInv, CapTypeOK, SetCapability, OnlyIndexed, OnlyWhole,
         DriverFromSnapshots, EntryValue
<1> QED
  BY <1>1, <1>2, <1>3 DEF CapInv

LEMMA SetIndexedCapStep ==
  ASSUME CapInv, NEW i \in CapIndices, NEW enabled \in BOOLEAN,
         SetIndexedCapability(i, enabled)
  PROVE  CapInv'
<1>1. CapTypeOK'
  BY DEF CapInv, CapTypeOK, SetIndexedCapability, Entries
<1>2. CapFlagsSound' /\ CapEntriesGrow' /\ CapsDrawn'
  BY NoEntryIsNoValue
     DEF CapInv, CapTypeOK, SetIndexedCapability, CapFlagsSound, CapEntriesGrow, CapsDrawn
<1>3. OnlyIndexed' /\ OnlyWhole' /\ DriverFromSnapshots'
  BY NoEntryIsNoValue
     DEF CapInv, CapTypeOK, SetIndexedCapability, OnlyIndexed, OnlyWhole,
         DriverFromSnapshots, EntryValue
<1> QED
  BY <1>1, <1>2, <1>3 DEF CapInv

\* After apply() both snapshots are current and every index of the driver holds
\* what was pushed last.
LEMMA ApplyCapsStep ==
  ASSUME CapInv, ApplyCaps
  PROVE  /\ capDriver' \in [CapIndices -> BOOLEAN]
         /\ capApplied' = capCurrent /\ indexedApplied' = indexedCurrent
         /\ \A i \in CapIndices :
              capDriver'[i] =
                IF indexedCurrent[i] # indexedApplied[i] THEN indexedCurrent[i]
                ELSE IF capCurrent # capApplied THEN capCurrent ELSE capDriver[i]
<1>1. capApplied' = capCurrent /\ indexedApplied' = indexedCurrent
  BY DEF CapInv, CapFlagsSound, ApplyCaps
<1>2. ASSUME NEW i \in CapIndices
      PROVE  capDriver'[i] =
               IF indexedCurrent[i] # indexedApplied[i] THEN indexedCurrent[i]
               ELSE IF capCurrent # capApplied THEN capCurrent ELSE capDriver[i]
  BY DEF CapInv, CapFlagsSound, ApplyCaps, PushIndexed, PushCap
<1>3. ASSUME NEW i \in CapIndices
      PROVE  capDriver'[i] \in BOOLEAN
  BY <1>2 DEF CapInv, CapTypeOK, CapEntriesGrow, Entries
<1>4. capDriver' = [i \in CapIndices |-> capDriver'[i]]
  BY DEF ApplyCaps, PushIndexed
<1> QED
  BY <1>1, <1>2, <1>3, <1>4

LEMMA DrawCapStep ==
  ASSUME CapInv, ApplyCaps, capDrawn' \in {NoEntry, capDriver'}
  PROVE  CapInv'
<1>0. UNCHANGED <<capCurrent, indexedCurrent, capGL>> /\ ~capsDirty' /\ ~indexedDirty'
  BY DEF ApplyCaps
<1>1. CapTypeOK'
  BY <1>0, ApplyCapsStep DEF CapInv, CapTypeOK, ApplyCaps
<1>2. CapFlagsSound' /\ CapEntriesGrow'
  BY <1>0, ApplyCapsStep DEF CapFlagsSound, CapEntriesGrow
<1>3. OnlyIndexed'
  BY <1>0, ApplyCapsStep DEF CapInv, OnlyIndexed, EntryValue, CapEntriesGrow
<1>4. OnlyWhole'
  BY <1>0, ApplyCapsStep DEF CapInv, OnlyWhole, EntryValue, CapEntriesGrow
<1>5. DriverFromSnapshots'
  BY <1>0, ApplyCapsStep DEF CapInv, DriverFromSnapshots, CapEntriesGrow
<1>6. CapsDrawn'
  <2> SUFFICES ASSUME capDrawn' = capDriver'
               PROVE  CapsDrawn'
    BY DEF CapsDrawn
  <2>1. \/ capCurrent = NoEntry
        \/ \A i \in CapIndices : indexedCurrent[i] = NoEntry
        => \A i \in CapIndices : capDriver'[i] = capGL'[i]
    BY <1>0, <1>3, <1>4, ApplyCapsStep DEF OnlyIndexed, OnlyWhole
  <2>2. \A i \in CapIndices :
          capDriver'[i] \in {capCurrent, indexedCurrent[i]} \/ capDriver'[i] = capGL'[i]
    BY <1>0, <1>3, <1>5, ApplyCapsStep DEF DriverFromSnapshots, OnlyIndexed, EntryValue
  <2>3. (\A i \in CapIndices : capDriver'[i] = capGL'[i]) => capDriver' = capGL'
    BY <1>1 DEF CapTypeOK
  <2> QED
    BY <1>0, <2>1, <2>2, <2>3 DEF CapsDrawn
<1> QED
  BY <1>1, <1>2, <1>3, <1>4, <1>5, <1>6 DEF CapInv

LEMMA StepCap == CapInv /\ [CapNext]_capVars => CapInv'
<1> SUFFICES ASSUME CapInv, [CapNext]_capVars
             PROVE  CapInv'
  OBVIOUS
<1>1. CASE FlushCaps \/ DrawCaps
  BY <1>1, DrawCapStep DEF FlushCaps, DrawCaps
<1>2. CASE UNCHANGED capVars
  BY <1>2 DEF capVars, CapInv, CapTypeOK, CapFlagsSound, CapEntriesGrow, OnlyIndexed,
              OnlyWhole, DriverFromSnapshots, CapsDrawn
<1> QED
  BY <1>1, <1>2, SetCapStep, SetIndexedCapStep DEF CapNext

LEMMA CapAlways == CapSpec => []CapInv
  BY InitCap, StepCap, PTL DEF CapSpec

\* Blending per draw buffer and the scissor test per viewport: a program that
\* uses glEnable or glEnablei alone draws with what OpenGL prescribes, one that
\* mixes them with the last value of one of the two.
THEOREM CapsAreDrawn == CapSpec => []CapsDrawn
<1>1. CapInv => CapsDrawn
  BY DEF CapInv
<1> QED
  BY <1>1, CapAlways, PTL
-----------------------------------------------------------------------------
(* Draw buffers and viewports. *)

\* Slot 0 reaches every slot of the driver, so a slot holds its own snapshot or
\* that of slot 0.
DriverOwnOrZero ==
  \A i \in Slots : slotsDriver[i] \in {slotsApplied[i], slotsApplied[0]}

SlotInv == /\ SlotTypeOK /\ FrontendMatchesGL /\ DriverOwnOrZero
           /\ DrawUsesOwnSlotOrSlotZero

LEMMA ZeroIsSlot == 0 \in Slots
  BY SlotCountAssumption DEF Slots

LEMMA InitSlot == SlotInit => SlotInv
  BY DefaultSlotType, ZeroIsSlot
     DEF SlotInit, SlotInv, SlotTypeOK, SlotValues, FrontendMatchesGL, DriverOwnOrZero,
         DrawUsesOwnSlotOrSlotZero

\* The setters leave the driver and its snapshot alone.
LEMMA SetterKeepsDriver ==
  ASSUME SlotInv, slotValues' \in SlotValues, slotsGL' \in SlotValues, FrontendMatchesGL',
         slotsDrawn' = NoSlotDraw, UNCHANGED <<setsAll, slotsApplied, slotsDriver>>
  PROVE  SlotInv'
  BY DEF SlotInv, SlotTypeOK, DriverOwnOrZero, DrawUsesOwnSlotOrSlotZero

LEMMA SetPlainStep ==
  ASSUME SlotInv, NEW v \in SlotContents, SetPlain(v)
  PROVE  SlotInv'
<1>1. slotValues' \in SlotValues /\ slotsGL' \in SlotValues
  BY ZeroIsSlot DEF SetPlain, AssignPlain, SlotInv, SlotTypeOK, SlotValues
<1>2. FrontendMatchesGL'
  BY ZeroIsSlot
     DEF SetPlain, AssignPlain, SlotInv, SlotTypeOK, SlotValues, FrontendMatchesGL
<1> QED
  BY <1>1, <1>2, SetterKeepsDriver DEF SetPlain

LEMMA SetIndexedStep ==
  ASSUME SlotInv, NEW i \in 0 .. SlotCount, NEW v \in SlotContents, SetIndexed(i, v)
  PROVE  SlotInv'
<1>1. slotValues' \in SlotValues /\ slotsGL' \in SlotValues
  BY DEF SetIndexed, SlotInv, SlotTypeOK, SlotValues
<1>2. FrontendMatchesGL'
  BY DEF SetIndexed, SlotInv, SlotTypeOK, SlotValues, FrontendMatchesGL
<1> QED
  BY <1>1, <1>2, SetterKeepsDriver DEF SetIndexed

LEMMA SetRangeStep ==
  ASSUME SlotInv, NEW first \in Slots, NEW n \in 1 .. SlotCount,
         NEW vs \in [1 .. n -> SlotContents], SetRange(first, vs)
  PROVE  SlotInv'
<1>1. Len(vs) = n
  BY SlotCountAssumption
<1>2. ASSUME NEW i \in Slots, i \in first .. first + n - 1
      PROVE  vs[i - first + 1] \in SlotContents
  BY <1>2, SlotCountAssumption DEF Slots
<1>3. slotValues' \in SlotValues /\ slotsGL' \in SlotValues
  BY <1>1, <1>2 DEF SetRange, SlotInv, SlotTypeOK, SlotValues
<1>4. FrontendMatchesGL'
  BY DEF SetRange, SlotInv, SlotTypeOK, SlotValues, FrontendMatchesGL
<1> QED
  BY <1>3, <1>4, SetterKeepsDriver DEF SetRange

\* After apply() a slot of the driver holds its own value or that of slot 0.
LEMMA ApplySlotsStep ==
  ASSUME SlotInv, ApplySlots, slotsDrawn' \in {NoSlotDraw, slotsDriver'}
  PROVE  SlotInv'
<1>1. /\ slotsApplied' = slotValues
      /\ UNCHANGED <<setsAll, slotValues, slotsGL>>
      /\ slotsDriver' = PushOtherSlots(PushSlotZero(slotsDriver))
  BY DEF ApplySlots
<1>2. PushSlotZero(slotsDriver) \in SlotValues
  BY ZeroIsSlot DEF PushSlotZero, SlotInv, SlotTypeOK, SlotValues
<1>3. slotsDriver' \in SlotValues
  BY <1>1, <1>2 DEF PushOtherSlots, SlotInv, SlotTypeOK, SlotValues
<1>4. ASSUME NEW i \in Slots
      PROVE  slotsDriver'[i] \in {slotValues[i], slotValues[0]}
  <2>1. CASE slotValues[0] = slotsApplied[0]
    <3>1. PushSlotZero(slotsDriver)[i] \in {slotsApplied[i], slotsApplied[0]}
      BY <2>1 DEF PushSlotZero, SlotInv, DriverOwnOrZero
    <3> QED
      BY <1>1, <2>1, <3>1 DEF PushOtherSlots
  <2>2. CASE slotValues[0] # slotsApplied[0]
    <3>1. PushSlotZero(slotsDriver)[i] = slotValues[0]
      BY <2>2 DEF PushSlotZero
    <3> QED
      BY <1>1, <3>1 DEF PushOtherSlots
  <2> QED
    BY <2>1, <2>2
<1> QED
  BY <1>1, <1>3, <1>4
     DEF SlotInv, SlotTypeOK, FrontendMatchesGL, DriverOwnOrZero, DrawUsesOwnSlotOrSlotZero

LEMMA StepSlot == SlotInv /\ [SlotNext]_slotVars => SlotInv'
<1> SUFFICES ASSUME SlotInv, [SlotNext]_slotVars
             PROVE  SlotInv'
  OBVIOUS
<1>1. CASE FlushSlots \/ DrawSlots
  BY <1>1, ApplySlotsStep DEF FlushSlots, DrawSlots
<1>2. CASE UNCHANGED slotVars
  BY <1>2 DEF slotVars, SlotInv, SlotTypeOK, FrontendMatchesGL, DriverOwnOrZero,
              DrawUsesOwnSlotOrSlotZero
<1> QED
  BY <1>1, <1>2, SetPlainStep, SetIndexedStep, SetRangeStep DEF SlotNext

LEMMA SlotAlways == SlotSpec => []SlotInv
  BY InitSlot, StepSlot, PTL DEF SlotSpec

\* After any mix of glColorMask, glColorMaski, glViewport, glViewportArrayv and
\* their kin the tracker holds what OpenGL prescribes, in every slot where the
\* plain setter reaches every slot and in slot 0 where it does not.
THEOREM SlotsMatchGL == SlotSpec => []FrontendMatchesGL
<1>1. SlotInv => FrontendMatchesGL
  BY DEF SlotInv
<1> QED
  BY <1>1, SlotAlways, PTL

\* The push of slot 0 through the non-indexed call can leak into other slots of
\* a draw, and nothing else can.
THEOREM OnlySlotZeroLeaks == SlotSpec => []DrawUsesOwnSlotOrSlotZero
<1>1. SlotInv => DrawUsesOwnSlotOrSlotZero
  BY DEF SlotInv
<1> QED
  BY <1>1, SlotAlways, PTL
-----------------------------------------------------------------------------
(* Image units. *)

\* What is not pushed is in the driver already: a flag that is down vouches for
\* every unit, and the snapshot for each unit whose texture exists.
ImageFlagSound == ~imagesDirty => image = imageApplied
ImageSnapshotSound ==
  \A u \in Units : imageApplied[u].texture \notin gone => imageSink[u] = imageApplied[u]

ImageInv == ImageTypeOK /\ ImageFlagSound /\ ImageSnapshotSound /\ ImagesDrawn

LEMMA EmptyIsBinding == Empty \in Bindings /\ Empty.texture \notin Images
  BY NoImageAssumption DEF Empty, Bindings

LEMMA BindingParts ==
  ASSUME NEW b \in Bindings
  PROVE  b.texture \in Images \cup {NoImage}
  BY DEF Bindings, Empty

LEMMA MadeIsBinding ==
  ASSUME NEW n \in Images \cup {NoImage}
  PROVE  /\ [texture |-> n, way |-> Default] \in Bindings
         /\ \A way \in Ways : n # NoImage => [texture |-> n, way |-> way] \in Bindings
  BY DefaultIsWay DEF Bindings, Empty

LEMMA InitImages == ImageInit => ImageInv
  BY EmptyIsBinding
     DEF ImageInit, ImageInv, ImageTypeOK, ImageFlagSound, ImageSnapshotSound, ImagesDrawn

LEMMA SetImagesStep ==
  ASSUME ImageInv, NEW next \in [Units -> Bindings], SetImages(next)
  PROVE  ImageInv'
  BY DEF SetImages, ImageInv, ImageTypeOK, ImageFlagSound, ImageSnapshotSound, ImagesDrawn

LEMMA BindImageTextureStep ==
  ASSUME ImageInv, NEW u \in Units, NEW n \in Images \cup {NoImage}, NEW way \in Ways,
         BindImageTexture(u, n, way)
  PROVE  ImageInv'
<1> DEFINE b == IF n = NoImage THEN Empty ELSE [texture |-> n, way |-> way]
<1>1. b \in Bindings
  BY EmptyIsBinding, MadeIsBinding
<1>2. SetImages([image EXCEPT ![u] = b])
  BY DEF BindImageTexture
<1> HIDE DEF b
<1>3. [image EXCEPT ![u] = b] \in [Units -> Bindings]
  BY <1>1 DEF ImageInv, ImageTypeOK
<1> QED
  BY <1>2, <1>3, SetImagesStep

LEMMA BindImageTexturesStep ==
  ASSUME ImageInv, NEW first \in Units, NEW k \in 1 .. NumUnits,
         NEW names \in [1 .. k -> Images \cup {NoImage}], BindImageTextures(first, names)
  PROVE  ImageInv'
<1> DEFINE Given(u)    == names[u - first + 1]
           Resolved(u) == IF Given(u) \in gone THEN image[u].texture ELSE Given(u)
           Taken(u) == u \in first .. first + Len(names) - 1
           next == [u \in Units |-> IF Taken(u) THEN [texture |-> Resolved(u), way |-> Default]
                                               ELSE image[u]]
<1>1. SetImages(next)
  BY DEF BindImageTextures
<1>2. Len(names) = k /\ first \in Int /\ k \in Int
  BY NumUnitsAssumption DEF Units
<1>3. ASSUME NEW u \in Units
      PROVE  (IF Taken(u) THEN [texture |-> Resolved(u), way |-> Default] ELSE image[u])
               \in Bindings
  <2>1. image[u] \in Bindings
    BY DEF ImageInv, ImageTypeOK
  <2>2. CASE Taken(u)
    <3>1. u - first + 1 \in 1 .. k
      BY <1>2, <2>2 DEF Units
    <3>2. Resolved(u) \in Images \cup {NoImage}
      BY <2>1, <3>1, BindingParts
    <3> HIDE DEF Resolved, Taken
    <3> QED
      BY <2>2, <3>2, MadeIsBinding
  <2>3. CASE ~Taken(u)
    BY <2>1, <2>3
  <2> QED
    BY <2>2, <2>3
<1>4. next \in [Units -> Bindings]
  BY <1>3
<1> HIDE DEF next
<1> QED
  BY <1>1, <1>4, SetImagesStep

LEMMA DeleteImageStep ==
  ASSUME ImageInv, NEW n \in Images, DeleteImageTexture(n)
  PROVE  ImageInv'
<1>1. ImageTypeOK'
  BY EmptyIsBinding DEF DeleteImageTexture, ImageInv, ImageTypeOK
<1>2. ImageSnapshotSound'
  BY DEF DeleteImageTexture, ImageInv, ImageTypeOK, ImageSnapshotSound
<1> QED
  BY <1>1, <1>2 DEF DeleteImageTexture, ImageInv, ImageFlagSound, ImagesDrawn

\* After apply() every unit of the driver whose texture exists is the tracker's.
LEMMA ApplyImagesStep ==
  ASSUME ImageInv, ApplyImages
  PROVE  /\ imageSink' \in [Units -> Bindings]
         /\ imageApplied' = image /\ image' = image /\ gone' = gone /\ ~imagesDirty'
         /\ \A u \in Units : image[u].texture \notin gone => imageSink'[u] = image[u]
<1>1. imageApplied' = image
  BY DEF ApplyImages, ImageInv, ImageFlagSound
<1>2. ASSUME NEW u \in Units, image[u].texture \notin gone
      PROVE  imageSink'[u] = image[u]
  <2>1. CASE u \in Pushed
    BY <1>2, <2>1 DEF ApplyImages, Outcomes
  <2>2. CASE u \notin Pushed
    <3>1. image[u] = imageApplied[u]
      BY <2>2 DEF Pushed, ImageInv, ImageFlagSound
    <3>2. imageSink'[u] = imageSink[u]
      BY <2>2 DEF ApplyImages
    <3> QED
      BY <1>2, <3>1, <3>2 DEF ImageInv, ImageSnapshotSound
  <2> QED
    BY <2>1, <2>2
<1> QED
  BY <1>1, <1>2 DEF ApplyImages

LEMMA FlushImagesStep == ImageInv /\ (FlushImages \/ DrawImages) => ImageInv'
<1> SUFFICES ASSUME ImageInv, FlushImages \/ DrawImages
             PROVE  ImageInv'
  OBVIOUS
<1>1. ApplyImages /\ imagesDrawn' \in {Undrawn, imageSink'}
  BY DEF FlushImages, DrawImages
<1>2. ImageTypeOK'
  BY <1>1, ApplyImagesStep DEF ImageInv, ImageTypeOK, ApplyImages
<1>3. ImageFlagSound' /\ ImageSnapshotSound'
  BY <1>1, ApplyImagesStep DEF ImageFlagSound, ImageSnapshotSound
<1>4. ImagesDrawn'
  BY <1>1, ApplyImagesStep DEF ImagesDrawn
<1> QED
  BY <1>2, <1>3, <1>4 DEF ImageInv

LEMMA StepImages == ImageInv /\ [ImageNext]_imageVars => ImageInv'
<1> SUFFICES ASSUME ImageInv, [ImageNext]_imageVars
             PROVE  ImageInv'
  OBVIOUS
<1>1. CASE UNCHANGED imageVars
  BY <1>1 DEF imageVars, ImageInv, ImageTypeOK, ImageFlagSound, ImageSnapshotSound, ImagesDrawn
<1> QED
  BY <1>1, BindImageTextureStep, BindImageTexturesStep, DeleteImageStep, FlushImagesStep
     DEF ImageNext

LEMMA ImagesAlways == ImageSpec => []ImageInv
  BY InitImages, StepImages, PTL DEF ImageSpec

\* Every unit, of the tracker, of its snapshot and of the driver, is empty or holds
\* a texture bound some way: no bind leaves the name 0 with a level or a format.
THEOREM ImageTypes == ImageSpec => []ImageTypeOK
<1>1. ImageInv => ImageTypeOK
  BY DEF ImageInv
<1> QED
  BY <1>1, ImagesAlways, PTL

\* A draw has every image that is bound and exists, whatever was bound, deleted and
\* flushed before, and whatever the driver made of pushes to the other units.
THEOREM ImagesAreDrawn == ImageSpec => []ImagesDrawn
<1>1. ImageInv => ImagesDrawn
  BY DEF ImageInv
<1> QED
  BY <1>1, ImagesAlways, PTL
=============================================================================
