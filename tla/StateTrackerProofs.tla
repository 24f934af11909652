------------------------- MODULE StateTrackerProofs -------------------------
(***************************************************************************)
(* The state tracker is correct for every set of registers and values: its *)
(* snapshot is what the driver holds, its dirty flags are sound, it makes  *)
(* no redundant call, and it implements DrawState.                         *)
(***************************************************************************)
EXTENDS StateTracker, TLAPS

\* Entries are added to the maps and never removed, by a setter or by apply().
MapsGrow == \A r \in Registers : cur[r] = Absent => applied[r] = Absent

\* The tracker binds no sampler that was deleted.
NoDeletedBound == \A u \in SamplerUnits : cur[u] \notin deleted

IInv == TypeOK /\ Coherent /\ DirtySound /\ MapsGrow /\ NoDeletedBound

-----------------------------------------------------------------------------
(* Registers and flags. *)

LEMMA GuardedAreRegisters ==
  \A f \in Flags : Guarded(f) \subseteq Registers
  BY DEF Flags, Guarded, Registers, Names, Program, Pipeline

\* Every register is guarded by a flag or compared with its snapshot.
LEMMA RegistersCovered ==
  ASSUME NEW r \in Registers
  PROVE  r \in Snapshots \/ \E f \in Flags : r \in Guarded(f)
<1>1. CASE r \in Caps
  BY <1>1, "caps" \in Flags DEF Flags, Guarded
<1>2. CASE r \in HintTargets
  BY <1>2, "hints" \in Flags DEF Flags, Guarded
<1>3. CASE r \in SamplerUnits
  BY <1>3, "samplers" \in Flags DEF Flags, Guarded
<1>4. CASE r \in Names
  BY <1>4, r \in Flags DEF Flags, Guarded, Names, Program, Pipeline
<1>5. CASE r \in Snapshots
  BY <1>5
<1> QED
  BY <1>1, <1>2, <1>3, <1>4, <1>5 DEF Registers

\* The flag of a sampler unit is its own, and so is that of every other register.
LEMMA UnitsHaveOneFlag ==
  /\ "samplers" \in Flags /\ Guarded("samplers") = SamplerUnits
  /\ SamplerUnits \subseteq Registers /\ SamplerUnits \cap Snapshots = {}
  /\ \A f \in Flags \ {"samplers"} : Guarded(f) \cap SamplerUnits = {}
<1>1. "samplers" \in Flags /\ Guarded("samplers") = SamplerUnits
  BY DEF Flags, Guarded
<1>2. SamplerUnits \subseteq Registers
  BY DEF Registers
<1> QED
  BY <1>1, <1>2, Disjoint

LEMMA ExaminedAreRegisters == TypeOK => Examined \subseteq Registers
  BY GuardedAreRegisters DEF TypeOK, Examined, Registers

\* What a map, with its missing entries, stands for is a value.
LEMMA VisibleType ==
  ASSUME NEW entry \in [Registers -> Entries]
  PROVE  Visible(entry) \in [Registers -> Contents]
  BY InitialType DEF Visible, Entries, Contents

LEMMA NamesAreValues == None \in Values \ Samplers /\ Absent \notin Contents
  BY NoneIsValue, AbsentIsNoValue

LEMMA BindableType == Bindable \subseteq Contents /\ Bindable \cap deleted \subseteq {None}
  BY NoneIsValue DEF Bindable, Contents
-----------------------------------------------------------------------------
(* The initial state. *)

LEMMA InitialEntryType == InitialEntry \in [Registers -> Entries]
  BY InitialType DEF InitialEntry, Entries, Contents

LEMMA InitVisible == Init => Visible(cur) = Initial
<1> SUFFICES ASSUME Init
             PROVE  Visible(InitialEntry) = Initial
  BY DEF Init
<1>1. ASSUME NEW r \in Registers
      PROVE  Visible(InitialEntry)[r] = Initial[r]
  BY <1>1, InitialType DEF Visible, InitialEntry
<1>2. Visible(InitialEntry) \in [Registers -> Contents]
  BY InitialEntryType, VisibleType
<1> QED
  BY <1>1, <1>2, InitialType

LEMMA InitIInv == Init => IInv
<1> SUFFICES ASSUME Init
             PROVE  IInv
  OBVIOUS
<1>1. TypeOK
  BY InitialEntryType, InitialType DEF Init, TypeOK, Contents
<1>2. Coherent
  BY InitVisible, InitialType DEF Init, Coherent, Visible
<1>3. DirtySound /\ MapsGrow /\ NoDeletedBound
  BY DEF Init, DirtySound, MapsGrow, NoDeletedBound
<1> QED
  BY <1>1, <1>2, <1>3 DEF IInv
-----------------------------------------------------------------------------
(* Setters: an assignment to registers of one flag, of none, or a deletion. *)

\* What holds after an assignment of some contents to registers of one flag.
Assigned(f, units, names) ==
  /\ cur' = [r \in Registers |-> IF r \in units THEN names[r] ELSE cur[r]]
  /\ dirty' = dirty \cup {f}
  /\ UNCHANGED <<applied, sink, deleted>>
  /\ drawn' = Nothing

LEMMA AssignedStep ==
  ASSUME IInv, NEW f \in Flags, NEW units \in SUBSET Guarded(f),
         NEW names \in [units -> Contents], Assigned(f, units, names),
         f = "samplers" => \A u \in units : names[u] \in Bindable
  PROVE  IInv' /\ drawn' = Nothing
<1>1. units \subseteq Registers
  BY GuardedAreRegisters
<1>2. /\ cur' = [r \in Registers |-> IF r \in units THEN names[r] ELSE cur[r]]
      /\ dirty' = dirty \cup {f}
      /\ UNCHANGED <<applied, sink, deleted>>
      /\ drawn' = Nothing
  BY DEF Assigned
<1>3. cur' \in [Registers -> Entries]
  BY <1>2 DEF IInv, TypeOK, Entries
<1>4. TypeOK'
  BY <1>2, <1>3 DEF IInv, TypeOK
<1>5. Coherent'
  BY <1>2 DEF IInv, Coherent, Visible
<1>6. DirtySound'
  <2> SUFFICES ASSUME NEW g \in Flags \ dirty', NEW r \in Guarded(g)
               PROVE  cur'[r] = applied'[r]
    BY DEF DirtySound
  <2>1. g # f /\ g \in Flags \ dirty
    BY <1>2
  <2>2. r \notin units /\ r \in Registers
    BY <2>1, Disjoint, GuardedAreRegisters
  <2> QED
    BY <1>2, <2>1, <2>2 DEF IInv, DirtySound
<1>7. MapsGrow'
  BY <1>2, NamesAreValues DEF IInv, MapsGrow
<1>8. NoDeletedBound'
  <2> SUFFICES ASSUME NEW u \in SamplerUnits
               PROVE  cur'[u] \notin deleted
    BY <1>2 DEF NoDeletedBound
  <2>1. u \in units => names[u] \in Bindable
    BY UnitsHaveOneFlag
  <2>2. u \in Registers /\ deleted \subseteq Samplers /\ cur[u] \notin deleted
    BY UnitsHaveOneFlag DEF IInv, TypeOK, NoDeletedBound
  <2> QED
    BY <1>2, <2>1, <2>2, NamesAreValues, BindableType
<1> QED
  BY <1>2, <1>4, <1>5, <1>6, <1>7, <1>8 DEF IInv

LEMMA SetFlaggedStep ==
  ASSUME IInv, NEW f \in Flags, NEW r \in Guarded(f), NEW v \in Contents,
         SetFlagged(f, r, v), f = "samplers" => v \in Bindable
  PROVE  IInv' /\ drawn' = Nothing
<1> DEFINE names == [q \in {r} |-> v]
<1>1. r \in Registers
  BY GuardedAreRegisters
<1>2. cur' = [q \in Registers |-> IF q \in {r} THEN names[q] ELSE cur[q]]
  BY <1>1 DEF SetFlagged, IInv, TypeOK
<1>3. Assigned(f, {r}, names)
  BY <1>2 DEF Assigned, SetFlagged
<1>4. names \in [{r} -> Contents] /\ names[r] = v
  OBVIOUS
<1> HIDE DEF names
<1> QED
  BY <1>3, <1>4, AssignedStep

LEMMA SetSamplerBindingsStep ==
  ASSUME IInv, NEW us \in SUBSET SamplerUnits, NEW ns \in [us -> Bindable],
         SetSamplerBindings(us, ns)
  PROVE  IInv' /\ drawn' = Nothing
<1>1. Assigned("samplers", us, ns)
  BY DEF Assigned, SetSamplerBindings
<1>2. ns \in [us -> Contents]
  BY BindableType
<1> QED
  BY <1>1, <1>2, UnitsHaveOneFlag, AssignedStep

LEMMA SetSnapshotStep ==
  ASSUME IInv, NEW s \in Snapshots, NEW v \in Values, SetSnapshot(s, v)
  PROVE  IInv' /\ drawn' = Nothing
<1>1. s \in Registers /\ v \in Contents
  BY DEF Registers, Contents
<1>2. /\ cur' = [cur EXCEPT ![s] = v]
      /\ UNCHANGED <<applied, dirty, sink, deleted>>
      /\ drawn' = Nothing
  BY DEF SetSnapshot
<1>3. TypeOK'
  BY <1>1, <1>2 DEF IInv, TypeOK, Entries
<1>4. Coherent'
  BY <1>2 DEF IInv, Coherent, Visible
<1>5. DirtySound'
  <2> SUFFICES ASSUME NEW f \in Flags \ dirty', NEW r \in Guarded(f)
               PROVE  cur'[r] = applied'[r]
    BY DEF DirtySound
  <2>1. r # s /\ r \in Registers
    BY Disjoint, GuardedAreRegisters
  <2> QED
    BY <1>2, <2>1 DEF IInv, TypeOK, DirtySound
<1>6. MapsGrow'
  BY <1>1, <1>2, NamesAreValues DEF IInv, TypeOK, MapsGrow
<1>7. NoDeletedBound'
  BY <1>2, UnitsHaveOneFlag DEF IInv, TypeOK, NoDeletedBound
<1> QED
  BY <1>2, <1>3, <1>4, <1>5, <1>6, <1>7 DEF IInv

\* A deletion: the driver unbinds at once what the tracker resets, so the flag has
\* to go up only for the snapshot to follow.
LEMMA DeleteSamplerStep ==
  ASSUME IInv, NEW name \in Samplers, DeleteSampler(name)
  PROVE  IInv' /\ drawn' = Nothing
<1>1. /\ deleted' = deleted \cup {name}
      /\ cur' = Without(name, cur)
      /\ dirty' = IF cur' = cur THEN dirty ELSE dirty \cup {"samplers"}
      /\ sink' = Without(name, sink)
      /\ applied' = applied /\ drawn' = Nothing
  BY DEF DeleteSampler
<1>2. \A r \in Registers :
        /\ cur'[r] = IF r \in SamplerUnits /\ cur[r] = name THEN None ELSE cur[r]
        /\ sink'[r] = IF r \in SamplerUnits /\ sink[r] = name THEN None ELSE sink[r]
  BY <1>1 DEF Without
<1>3. cur' \in [Registers -> Entries] /\ sink' \in [Registers -> Contents]
  BY <1>1, NamesAreValues DEF IInv, TypeOK, Without, Entries, Contents
<1>4. TypeOK'
  BY <1>1, <1>3, UnitsHaveOneFlag DEF IInv, TypeOK
<1>5. Coherent'
  <2>1. ASSUME NEW r \in Registers
        PROVE  sink'[r] = IF r \in SamplerUnits /\ applied[r] \in deleted \cup {name}
                            THEN None ELSE Visible(applied)[r]
    <3>1. sink[r] = IF r \in SamplerUnits /\ applied[r] \in deleted
                      THEN None ELSE Visible(applied)[r]
      BY DEF IInv, Coherent
    <3>2. CASE r \notin SamplerUnits
      BY <1>2, <3>1, <3>2
    <3>3. CASE r \in SamplerUnits
      <4>1. Initial[r] = None /\ Absent \notin deleted \cup {name}
        BY <3>3, UnitsStartEmpty, NamesAreValues DEF IInv, TypeOK, Contents
      <4>2. Visible(applied)[r] = IF applied[r] = Absent THEN None ELSE applied[r]
        BY <4>1 DEF Visible
      <4> QED
        BY <1>2, <3>1, <3>3, <4>1, <4>2
    <3> QED
      BY <3>2, <3>3
  <2> QED
    BY <1>1, <1>3, <2>1 DEF Coherent, Visible
<1>6. DirtySound'
  <2> SUFFICES ASSUME NEW f \in Flags \ dirty', NEW r \in Guarded(f)
               PROVE  cur'[r] = applied[r]
    BY <1>1 DEF DirtySound
  <2>1. f \in Flags \ dirty /\ r \in Registers
    BY <1>1, GuardedAreRegisters
  <2>2. cur[r] = applied[r]
    BY <2>1 DEF IInv, DirtySound
  <2>3. CASE cur' = cur
    BY <2>2, <2>3
  <2>4. CASE f # "samplers"
    BY <1>2, <2>1, <2>2, <2>4, UnitsHaveOneFlag
  <2> QED
    BY <1>1, <2>3, <2>4
<1>7. MapsGrow'
  BY <1>1, <1>2, NamesAreValues DEF IInv, MapsGrow, Contents
<1>8. NoDeletedBound'
  <2> SUFFICES ASSUME NEW u \in SamplerUnits
               PROVE  cur'[u] \notin deleted \cup {name}
    BY <1>1 DEF NoDeletedBound
  <2>1. u \in Registers /\ cur[u] \notin deleted /\ deleted \subseteq Samplers
    BY UnitsHaveOneFlag DEF IInv, TypeOK, NoDeletedBound
  <2> QED
    BY <1>2, <2>1, NamesAreValues
<1> QED
  BY <1>1, <1>4, <1>5, <1>6, <1>7, <1>8 DEF IInv
-----------------------------------------------------------------------------
(* apply(). *)

LEMMA ApplyStep ==
  ASSUME IInv, Apply, drawn' \in [Registers -> Contents] \cup {Nothing}
  PROVE  IInv'
<1>1. Examined \subseteq Registers
  BY ExaminedAreRegisters DEF IInv
<1>2. /\ cur' = cur /\ deleted' = deleted
      /\ dirty' = {}
      /\ applied' = [r \in Registers |->
                       IF r \in Examined THEN cur[r] ELSE applied[r]]
      /\ sink' = [r \in Registers |-> IF r \in Pushes THEN cur[r] ELSE sink[r]]
  BY DEF Apply
<1>3. TypeOK'
  BY <1>2 DEF IInv, TypeOK, Pushes, Entries
<1>4. Coherent'
  <2>1. ASSUME NEW r \in Registers
        PROVE  sink'[r] = IF r \in SamplerUnits /\ applied'[r] \in deleted
                            THEN None ELSE Visible(applied')[r]
    <3>1. sink[r] = IF r \in SamplerUnits /\ applied[r] \in deleted
                      THEN None ELSE Visible(applied)[r]
      BY DEF IInv, Coherent
    <3>2. CASE r \in Pushes
      <4>1. applied'[r] = cur[r] /\ sink'[r] = cur[r] /\ cur[r] # Absent
        BY <1>2, <3>2 DEF Pushes
      <4>2. r \in SamplerUnits => cur[r] \notin deleted
        BY DEF IInv, NoDeletedBound
      <4> QED
        BY <4>1, <4>2 DEF Visible
    <3>3. CASE r \notin Examined
      BY <1>2, <3>1, <3>3 DEF Pushes, Visible
    <3>4. CASE r \in Examined /\ r \notin Pushes
      <4>1. cur[r] = Absent \/ cur[r] = applied[r]
        BY <3>4 DEF Pushes
      <4>2. cur[r] = applied[r]
        BY <4>1 DEF IInv, MapsGrow
      <4> QED
        BY <1>2, <3>1, <3>4, <4>2 DEF Visible
    <3> QED
      BY <3>2, <3>3, <3>4
  <2> QED
    BY <1>2, <2>1 DEF Coherent, Visible
<1>5. DirtySound'
  <2> SUFFICES ASSUME NEW f \in Flags, NEW r \in Guarded(f)
               PROVE  cur'[r] = applied'[r]
    BY DEF DirtySound
  <2>1. r \in Registers
    BY GuardedAreRegisters
  <2>2. CASE f \in dirty
    BY <1>2, <2>1, <2>2 DEF Examined
  <2>3. CASE f \notin dirty
    BY <1>2, <2>1, <2>3 DEF IInv, DirtySound
  <2> QED
    BY <2>2, <2>3
<1>6. MapsGrow' /\ NoDeletedBound'
  BY <1>2 DEF IInv, MapsGrow, NoDeletedBound
<1> QED
  BY <1>3, <1>4, <1>5, <1>6 DEF IInv

\* After apply() the driver holds exactly the current state.
LEMMA ApplyExact ==
  ASSUME IInv, Apply, IInv'
  PROVE  sink' = Visible(cur)
<1>1. ASSUME NEW r \in Registers
      PROVE  applied'[r] = cur[r]
  <2>1. CASE r \in Snapshots
    BY <1>1, <2>1 DEF Apply, Examined
  <2>2. ASSUME NEW f \in Flags, r \in Guarded(f)
        PROVE  applied'[r] = cur[r]
    BY <2>2 DEF Apply, IInv, DirtySound
  <2> QED
    BY <1>1, <2>1, <2>2, RegistersCovered
<1>2. ASSUME NEW r \in Registers
      PROVE  sink'[r] = Visible(applied')[r]
  <2>1. r \in SamplerUnits => applied'[r] \notin deleted'
    BY <1>1 DEF IInv, NoDeletedBound, Apply
  <2> QED
    BY <2>1 DEF IInv, Coherent, Visible
<1>3. sink' \in [Registers -> Contents]
  BY DEF IInv, TypeOK
<1> QED
  BY <1>1, <1>2, <1>3 DEF Visible

LEMMA FlushStep == IInv /\ FlushState => IInv'
  BY ApplyStep DEF FlushState

LEMMA DrawStep == IInv /\ Draw => IInv' /\ drawn' = Visible(cur)
<1> SUFFICES ASSUME IInv, Draw
             PROVE  IInv' /\ drawn' = Visible(cur)
  OBVIOUS
<1>1. Apply /\ drawn' = sink'
  BY DEF Draw
<1>2. sink' \in [Registers -> Contents]
  BY <1>1 DEF Apply, IInv, TypeOK, Pushes, Entries
<1>3. IInv'
  BY <1>1, <1>2, ApplyStep
<1> QED
  BY <1>1, <1>3, ApplyExact
-----------------------------------------------------------------------------
(* Every step: the setters as one disjunct. *)

Setter ==
  \/ \E f \in Flags : \E r \in Guarded(f), v \in Contents :
       SetFlagged(f, r, v) /\ (f = "samplers" => v \in Bindable)
  \/ \E us \in SUBSET SamplerUnits : \E ns \in [us -> Bindable] :
       SetSamplerBindings(us, ns)
  \/ \E name \in Samplers : DeleteSampler(name)
  \/ \E s \in Snapshots, v \in Values : SetSnapshot(s, v)

LEMMA NextCases == IInv /\ Next => Setter \/ FlushState \/ Draw
<1> SUFFICES ASSUME IInv, Next
             PROVE  Setter \/ FlushState \/ Draw
  OBVIOUS
<1>0. Values \subseteq Contents
  BY DEF Contents
<1>1. CASE \E c \in Caps, v \in Values : SetCapability(c, v)
  BY <1>0, <1>1, "caps" \in Flags, Guarded("caps") = Caps
     DEF Setter, SetCapability, Flags, Guarded
<1>2. CASE \E t \in HintTargets, v \in Values : SetHint(t, v)
  BY <1>0, <1>2, "hints" \in Flags, Guarded("hints") = HintTargets
     DEF Setter, SetHint, Flags, Guarded
<1>3. CASE \E v \in Values : UseProgram(v) \/ BindProgramPipeline(v)
  <2>1. PICK v \in Values : UseProgram(v) \/ BindProgramPipeline(v)
    BY <1>3
  <2>2. PICK f \in {Program, Pipeline} : SetFlagged(f, f, v)
    BY <2>1 DEF UseProgram, BindProgramPipeline
  <2>3. f \in Flags /\ f \in Guarded(f) /\ f # "samplers"
    BY DEF Flags, Guarded, Program, Pipeline
  <2> QED
    BY <1>0, <2>2, <2>3 DEF Setter
<1>4. CASE \E u \in SamplerUnits, v \in Bindable : SetSamplerBinding(u, v)
  BY <1>4, UnitsHaveOneFlag, BindableType DEF Setter, SetSamplerBinding
<1>5. CASE \E us \in SUBSET SamplerUnits : \E ns \in [us -> Bindable] :
             SetSamplerBindings(us, ns)
  BY <1>5 DEF Setter
<1>6. CASE \E v \in Samplers : DeleteSampler(v)
  BY <1>6 DEF Setter
<1>7. CASE \E s \in Snapshots, v \in Values : SetSnapshot(s, v)
  BY <1>7 DEF Setter
<1> QED
  BY <1>1, <1>2, <1>3, <1>4, <1>5, <1>6, <1>7 DEF Next

LEMMA SetterStep == IInv /\ Setter => IInv' /\ drawn' = Nothing
  BY SetFlaggedStep, SetSamplerBindingsStep, DeleteSamplerStep, SetSnapshotStep DEF Setter

LEMMA StepIInv == IInv /\ [Next]_vars => IInv'
<1> SUFFICES ASSUME IInv, [Next]_vars
             PROVE  IInv'
  OBVIOUS
<1>1. CASE Next
  BY <1>1, NextCases, SetterStep, FlushStep, DrawStep
<1>2. CASE UNCHANGED vars
  BY <1>2 DEF vars, IInv, TypeOK, Coherent, Visible, DirtySound, MapsGrow, NoDeletedBound
<1> QED
  BY <1>1, <1>2
-----------------------------------------------------------------------------
(* The theorems. *)

LEMMA SpecIInv == Spec => []IInv
  BY InitIInv, StepIInv, PTL DEF Spec

\* No sequence of setters and flushes leaves the type of the tracker: in
\* particular no missing entry of a map is ever pushed to the driver.
THEOREM TypeCorrect == Spec => []TypeOK
<1>1. IInv => TypeOK
  BY DEF IInv
<1> QED
  BY <1>1, SpecIInv, PTL

\* The *Applied_ members always describe what the driver holds, except that a
\* unit of the driver is empty where they name a sampler that was deleted.
THEOREM SnapshotCoherent == Spec => []Coherent
<1>1. IInv => Coherent
  BY DEF IInv
<1> QED
  BY <1>1, SpecIInv, PTL

\* A category whose flag is down holds exactly what was pushed.
THEOREM FlagsSound == Spec => []DirtySound
<1>1. IInv => DirtySound
  BY DEF IInv
<1> QED
  BY <1>1, SpecIInv, PTL

\* apply() repeats no call whose effect the driver already has, the program and
\* pipeline categories excepted, but one: it pushes 0 to a unit from which the
\* deletion of its sampler removed it.
THEOREM NoRedundantCalls == Spec => []NoRedundantPush
<1>1. ASSUME IInv
      PROVE  NoRedundantPush
  <2> SUFFICES ASSUME NEW r \in Pushes \ Names, applied[r] # Absent, sink[r] = cur[r]
               PROVE  r \in SamplerUnits /\ applied[r] \in deleted /\ cur[r] = None
    BY DEF NoRedundantPush
  <2>1. r \in Registers /\ cur[r] # applied[r]
    BY <1>1, ExaminedAreRegisters DEF IInv, Pushes
  <2>2. sink[r] = IF r \in SamplerUnits /\ applied[r] \in deleted
                    THEN None ELSE applied[r]
    BY <1>1, <2>1 DEF IInv, Coherent, Visible
  <2> QED
    BY <2>1, <2>2
<1> QED
  BY <1>1, SpecIInv, PTL

\* The tracker implements DrawState: a draw is executed with exactly the state
\* the application has set.
THEOREM Implements == Spec => DrawsExact
<1>1. Init => DS!Init
  BY InitVisible DEF DS!Init, Init
<1>2. IInv /\ IInv' /\ [Next]_vars => [DS!Next]_DS!vars
  <2> SUFFICES ASSUME IInv, IInv', [Next]_vars
               PROVE  [DS!Next]_DS!vars
    OBVIOUS
  <2>1. Visible(cur)' \in [Registers -> Contents]
    <3>1. Visible(cur') \in [Registers -> Contents]
      BY VisibleType DEF IInv, TypeOK
    <3> QED
      BY <3>1 DEF Visible
  <2>2. CASE Setter
    BY <2>1, <2>2, SetterStep DEF DS!Next, DS!Set
  <2>3. CASE FlushState
    BY <2>1, <2>3 DEF FlushState, DS!Next, DS!Set
  <2>4. CASE Draw
    <3>1. Visible(cur)' = Visible(cur)
      BY <2>4 DEF Draw, Apply, Visible
    <3> QED
      BY <2>4, <3>1, DrawStep DEF DS!Next, DS!Draw
  <2>5. CASE UNCHANGED vars
    BY <2>5 DEF vars, DS!vars, Visible
  <2> QED
    BY <2>2, <2>3, <2>4, <2>5, NextCases
<1> QED
  BY <1>1, <1>2, SpecIInv, PTL DEF Spec, DrawsExact, DS!Spec
=============================================================================
