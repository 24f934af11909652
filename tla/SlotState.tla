----------------------------- MODULE SlotState -----------------------------
(***************************************************************************)
(* The per-slot categories of GLStateTracker: blend state and color masks  *)
(* per draw buffer, depth ranges, viewports and scissor boxes per viewport.*)
(* Slot 0 doubles as the non-indexed state: apply() pushes it through the  *)
(* non-indexed call, which sets every slot of a driver that has several.   *)
(***************************************************************************)
EXTENDS Integers, Sequences

CONSTANTS
  SlotCount,    \* kMaxDrawBuffers, kMaxViewports
  SlotContents,
  DefaultSlot,  \* the GL default of a slot
  NoSlotDraw    \* "the last call did not draw"

ASSUME SlotCountAssumption == SlotCount \in Nat \ {0}
ASSUME DefaultSlotType     == DefaultSlot \in SlotContents

Slots == 0 .. SlotCount - 1

VARIABLES
  setsAll,       \* the category, which does not change.  TRUE: its non-indexed setter
                 \* assigns every slot (glColorMask); FALSE: it assigns slot 0
                 \* (glBlendFunc, glViewport, glScissor, ...)
  slotValues,    \* blendBuf_, colorMask_, depthRange_, viewport_, scissor_
  slotsApplied,  \* the *Applied_ twins
  slotsDriver,   \* the slots of the driver
  slotsGL,       \* what OpenGL says the slots are after the same calls
  slotsDrawn     \* the driver's slots when the last call drew, or NoSlotDraw

slotVars == <<setsAll, slotValues, slotsApplied, slotsDriver, slotsGL, slotsDrawn>>

SlotValues == [Slots -> SlotContents]

SlotTypeOK ==
  /\ setsAll \in BOOLEAN
  /\ slotValues \in SlotValues /\ slotsApplied \in SlotValues
  /\ slotsDriver \in SlotValues /\ slotsGL \in SlotValues
  /\ slotsDrawn \in SlotValues \cup {NoSlotDraw}

SlotInit ==
  /\ setsAll \in BOOLEAN
  /\ slotValues = [i \in Slots |-> DefaultSlot]
  /\ slotsApplied = slotValues /\ slotsDriver = slotValues /\ slotsGL = slotValues
  /\ slotsDrawn = NoSlotDraw

\* The loop stops one slot short.
MutAssignPlain(v) ==
  IF setsAll THEN [i \in Slots |-> IF i = SlotCount - 1 THEN slotValues[i] ELSE v]
             ELSE [slotValues EXCEPT ![0] = v]

\* glColorMask; glBlendFunc*, glBlendEquation*, glDepthRange, glViewport,
\* glScissor.
AssignPlain(v) == IF setsAll THEN [i \in Slots |-> v] ELSE [slotValues EXCEPT ![0] = v]

SetPlain(v) ==
  /\ slotValues' = AssignPlain(v)
  /\ slotsGL' = [i \in Slots |-> v]
  /\ slotsDrawn' = NoSlotDraw
  /\ UNCHANGED <<setsAll, slotsApplied, slotsDriver>>

\* glColorMaski, glBlendFuncSeparatei, glDepthRangeIndexed ...: one slot.
\* An index that is not a slot is refused.
SetIndexed(i, v) ==
  /\ i \in Slots
  /\ slotValues' = [slotValues EXCEPT ![i] = v]
  /\ slotsGL' = [slotsGL EXCEPT ![i] = v]
  /\ slotsDrawn' = NoSlotDraw
  /\ UNCHANGED <<setsAll, slotsApplied, slotsDriver>>

\* glViewportArrayv, glScissorArrayv, glDepthRangeArrayv: a range of slots.
SetRange(first, vs) ==
  LET Assign(slots) == [i \in Slots |-> IF i \in first .. first + Len(vs) - 1
                                          THEN vs[i - first + 1] ELSE slots[i]]
  IN  /\ first + Len(vs) <= SlotCount
      /\ slotValues' = Assign(slotValues)
      /\ slotsGL' = Assign(slotsGL)
      /\ slotsDrawn' = NoSlotDraw
      /\ UNCHANGED <<setsAll, slotsApplied, slotsDriver>>

\* apply()'s loop over the slots compares each with its snapshot. It comes to
\* slot 0 first, whose call sets all slots of the driver.
PushSlotZero(held) ==
  IF slotValues[0] = slotsApplied[0] THEN held ELSE [i \in Slots |-> slotValues[0]]

\* Skipping the slots that hold the value of slot 0, as if its call had reached them.
MutPushOtherSlots(held) ==
  [i \in Slots |-> IF slotValues[i] # slotValues[0] /\ slotValues[i] # slotsApplied[i]
                     THEN slotValues[i] ELSE held[i]]

PushOtherSlots(held) ==
  [i \in Slots |-> IF i # 0 /\ slotValues[i] # slotsApplied[i]
                     THEN slotValues[i] ELSE held[i]]

ApplySlots ==
  /\ slotsDriver' = PushOtherSlots(PushSlotZero(slotsDriver))
  /\ slotsApplied' = slotValues
  /\ UNCHANGED <<setsAll, slotValues, slotsGL>>

FlushSlots == ApplySlots /\ slotsDrawn' = NoSlotDraw
DrawSlots  == ApplySlots /\ slotsDrawn' = slotsDriver'

SlotNext ==
  \/ \E v \in SlotContents : SetPlain(v)
  \/ \E i \in 0 .. SlotCount, v \in SlotContents : SetIndexed(i, v)
  \/ \E first \in Slots, n \in 1 .. SlotCount :
       \E vs \in [1 .. n -> SlotContents] : SetRange(first, vs)
  \/ FlushSlots
  \/ DrawSlots

SlotSpec == SlotInit /\ [][SlotNext]_slotVars
-----------------------------------------------------------------------------
\* Whatever a slot was given and whatever was flushed, a draw uses a slot's own
\* value or the value of slot 0: a push of slot 0 leaks to others, nothing else.
DrawUsesOwnSlotOrSlotZero ==
  slotsDrawn # NoSlotDraw => \A i \in Slots : slotsDrawn[i] \in {slotValues[i], slotValues[0]}

\* After any mix of plain, indexed and array setters the frontend holds what
\* OpenGL prescribes: in every slot where the plain setter reaches every slot
\* (gl_state.hpp:109-112), in slot 0 where it reaches only that one.
FrontendMatchesGL == \A i \in Slots : setsAll \/ i = 0 => slotValues[i] = slotsGL[i]
=============================================================================
