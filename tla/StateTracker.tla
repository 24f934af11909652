---------------------------- MODULE StateTracker ----------------------------
(***************************************************************************)
(* GLStateTracker (src/state/gl_state.cpp): the current pipeline state, a  *)
(* snapshot of what was last pushed to the backend, and apply(), which     *)
(* pushes the difference.  This module has the categories whose registers  *)
(* are independent of one another; the two stencil faces, the indexed      *)
(* slots, the texture units and the image units have modules of their own. *)
(*                                                                         *)
(* The categories come in four shapes, and apply() treats each its own way:*)
(*   maps       capabilities and hints: an unordered_map whose entries     *)
(*              appear when first set, one dirty flag per map;             *)
(*   array      sampler units: all entries exist, one dirty flag;          *)
(*   names      the program and the pipeline: one name, one dirty flag,    *)
(*              pushed whenever the flag is set;                           *)
(*   snapshots  blend color, depth, raster, clip control, clear values ... *)
(*              no flag: apply() compares with the snapshot every time.    *)
(*                                                                         *)
(* A sampler that is deleted leaves every unit of the driver at once       *)
(* (glDeleteSamplers), before the tracker pushes anything.                 *)
(***************************************************************************)
EXTENDS FiniteSets

CONSTANTS
  Caps,          \* capability enums (capsCurrent_)
  HintTargets,   \* hint enums (hints_)
  SamplerUnits,  \* texture units as indices of samplerBound_
  Snapshots,     \* the categories compared by equal()
  Values,        \* what a register may hold that is no sampler unit
  Samplers,      \* the names of samplers
  None,          \* the name 0: no program, no pipeline, no sampler
  Initial,       \* the GL default of each register
  Absent,        \* "no entry" in a map
  Nothing,       \* "the last call did not draw"
  Dither         \* GL_DITHER, the capability a context starts with enabled

Program  == "program"
Pipeline == "pipeline"
Names    == {Program, Pipeline}

Registers == Caps \cup HintTargets \cup SamplerUnits \cup Snapshots \cup Names

Contents == Values \cup Samplers
Entries  == Contents \cup {Absent}

\* The registers guarded by each dirty flag.
Flags == {"caps", "hints", "samplers", Program, Pipeline}
Guarded(f) == CASE f = "caps"     -> Caps
                [] f = "hints"    -> HintTargets
                [] f = "samplers" -> SamplerUnits
                [] OTHER          -> {f}

\* Maps are empty in a new tracker, except for GL_DITHER, which the
\* constructor enters in both capability maps.
InitialEntry == [r \in Registers |->
                   IF r \in (Caps \ {Dither}) \cup HintTargets
                     THEN Absent ELSE Initial[r]]

ASSUME NoneIsValue     == None \in Values \ Samplers
ASSUME AbsentIsNoValue == Absent \notin Contents
ASSUME InitialType     == Initial \in [Registers -> Values]
ASSUME UnitsStartEmpty == \A u \in SamplerUnits : Initial[u] = None
ASSUME DitherIsCap     == Dither \in Caps
\* A register belongs to one category.
ASSUME Disjoint ==
  /\ \A f, g \in Flags : f # g => Guarded(f) \cap Guarded(g) = {}
  /\ \A f \in Flags : Guarded(f) \cap Snapshots = {}

VARIABLES
  cur,      \* capsCurrent_, hints_, activeProgram_, blendColor_ ...
  applied,  \* capsApplied_, hintsApplied_, activeProgramApplied_ ...
  dirty,    \* the *Dirty_ flags that are set
  sink,     \* what the GLStateSink (backend, driver) holds for each register
  deleted,  \* the samplers that were deleted: nextName_ never returns them again
  drawn     \* what the driver held when the last call drew, or Nothing

vars == <<cur, applied, dirty, sink, deleted, drawn>>

\* What bindSampler accepts: 0 or a sampler that exists.  (One that was not
\* deleted is generated before its first use, which changes nothing here.)
Bindable == {None} \cup (Samplers \ deleted)

\* The value a register stands for: a missing entry means the GL default
\* (isCapabilityEnabled, getHint).
Visible(entry) == [r \in Registers |->
                     IF entry[r] = Absent THEN Initial[r] ELSE entry[r]]

TypeOK ==
  /\ cur \in [Registers -> Entries]
  /\ applied \in [Registers -> Entries]
  /\ dirty \subseteq Flags
  /\ sink \in [Registers -> Contents]
  /\ deleted \subseteq Samplers
  /\ drawn \in [Registers -> Contents] \cup {Nothing}

Init ==
  /\ cur = InitialEntry
  /\ applied = InitialEntry
  /\ dirty = {}
  /\ sink = Initial
  /\ deleted = {}
  /\ drawn = Nothing

-----------------------------------------------------------------------------
(* Setters.  Each compares first and returns false, changing nothing, when *)
(* the value is the current one.                                           *)

SetFlagged(f, r, v) ==
  /\ cur[r] # v
  /\ cur' = [cur EXCEPT ![r] = v]
  /\ dirty' = dirty \cup {f}
  /\ UNCHANGED <<applied, sink, deleted>>
  /\ drawn' = Nothing

SetCapability(c, v)          == SetFlagged("caps", c, v)
SetHint(t, v)                == SetFlagged("hints", t, v)
UseProgram(v)                == SetFlagged(Program, Program, v)
BindProgramPipeline(v)       == SetFlagged(Pipeline, Pipeline, v)
SetSamplerBinding(u, v)      == SetFlagged("samplers", u, v)

\* Building the array from the given units alone.
MutSetSamplerBindings(units, names) ==
  /\ cur' = [r \in units |-> names[r]]
  /\ dirty' = dirty \cup {"samplers"}
  /\ UNCHANGED <<applied, sink, deleted>>
  /\ drawn' = Nothing

\* glBindSamplers: the units of the range that are given a bindable name take
\* it, the others keep theirs; the flag is set only if some unit changed.
SetSamplerBindings(units, names) ==
  LET next == [r \in Registers |-> IF r \in units THEN names[r] ELSE cur[r]]
  IN  /\ next # cur
      /\ cur' = next
      /\ dirty' = dirty \cup {"samplers"}
      /\ UNCHANGED <<applied, sink, deleted>>
      /\ drawn' = Nothing

\* The units of a register map that hold the sampler go back to 0.
Without(name, map) ==
  [r \in Registers |-> IF r \in SamplerUnits /\ map[r] = name THEN None ELSE map[r]]

\* A deletion that forgets to raise the flag.
MutDeleteSampler(name) ==
  /\ name \notin deleted
  /\ deleted' = deleted \cup {name}
  /\ cur' = Without(name, cur)
  /\ sink' = Without(name, sink)
  /\ UNCHANGED <<applied, dirty>>
  /\ drawn' = Nothing

\* Context::deleteSampler: clearSamplerBinding on the tracker; the object that is
\* erased deletes the sampler of the driver, which unbinds it everywhere.
DeleteSampler(name) ==
  /\ name \notin deleted
  /\ deleted' = deleted \cup {name}
  /\ cur' = Without(name, cur)
  /\ dirty' = IF cur' = cur THEN dirty ELSE dirty \cup {"samplers"}
  /\ sink' = Without(name, sink)
  /\ UNCHANGED applied
  /\ drawn' = Nothing

SetSnapshot(s, v) ==
  /\ cur[s] # v
  /\ cur' = [cur EXCEPT ![s] = v]
  /\ UNCHANGED <<applied, dirty, sink, deleted>>
  /\ drawn' = Nothing

-----------------------------------------------------------------------------
(* apply(): the registers it examines, those it sends, and their effect.   *)

Examined == Snapshots \cup UNION {Guarded(f) : f \in dirty}

\* Treating "no entry in the applied map" as "already applied".
MutPushesSkipsNew ==
  {r \in Examined : /\ cur[r] # Absent /\ applied[r] # Absent
                    /\ r \in Names \/ cur[r] # applied[r]}

Pushes ==
  {r \in Examined : /\ cur[r] # Absent
                    /\ r \in Names \/ cur[r] # applied[r]}

\* Forgetting to take the snapshot after the push.
MutApply ==
  /\ sink' = [r \in Registers |-> IF r \in Pushes THEN cur[r] ELSE sink[r]]
  /\ dirty' = {}
  /\ UNCHANGED <<cur, applied, deleted>>

Apply ==
  /\ sink' = [r \in Registers |-> IF r \in Pushes THEN cur[r] ELSE sink[r]]
  /\ applied' = [r \in Registers |->
                   IF r \in Examined THEN cur[r] ELSE applied[r]]
  /\ dirty' = {}
  /\ UNCHANGED <<cur, deleted>>

\* glFlushState and the calls that flush without drawing.
FlushState ==
  /\ Apply
  /\ drawn' = Nothing

\* Drawing before flushing.
MutDraw ==
  /\ cur[Program] # None
  /\ Apply
  /\ drawn' = sink

\* drawArrays and its siblings: refused without a program, else flush, draw.
Draw ==
  /\ cur[Program] # None
  /\ Apply
  /\ drawn' = sink'

Next ==
  \/ \E c \in Caps, v \in Values : SetCapability(c, v)
  \/ \E t \in HintTargets, v \in Values : SetHint(t, v)
  \/ \E v \in Values : UseProgram(v) \/ BindProgramPipeline(v)
  \/ \E u \in SamplerUnits, v \in Bindable : SetSamplerBinding(u, v)
  \/ \E us \in SUBSET SamplerUnits : \E ns \in [us -> Bindable] :
       SetSamplerBindings(us, ns)
  \/ \E v \in Samplers : DeleteSampler(v)
  \/ \E s \in Snapshots, v \in Values : SetSnapshot(s, v)
  \/ FlushState
  \/ Draw

Spec == Init /\ [][Next]_vars
-----------------------------------------------------------------------------
\* The snapshot of what was pushed is what the driver holds: every push of
\* apply() and every assignment to an *Applied_ member belong together.  Where
\* the snapshot still names a deleted sampler, the driver has unbound it.
Coherent ==
  sink = [r \in Registers |->
            IF r \in SamplerUnits /\ applied[r] \in deleted
              THEN None ELSE Visible(applied)[r]]

\* A flag that is not raised vouches for all its registers: whatever sequence
\* of setters, multi-binds and deletions ran, nothing apply() skips because of
\* the flag differs from what was pushed.
DirtySound ==
  \A f \in Flags \ dirty : \A r \in Guarded(f) : cur[r] = applied[r]

\* SPEC.md section 10, "avoid redundant backend calls": a call apply() would make
\* for a register that was pushed before changes what the driver holds, and each
\* redundant one is a unit whose sampler was deleted after it was pushed and that
\* takes 0.  (The program and the pipeline are pushed on their flag alone.)
NoRedundantPush ==
  \A r \in Pushes \ Names :
    applied[r] # Absent /\ sink[r] = cur[r]
      => r \in SamplerUnits /\ applied[r] \in deleted /\ cur[r] = None

\* A draw is executed with the state the application has set, no matter which
\* setters, deletions and flushes came before it.
DS == INSTANCE DrawState WITH state <- Visible(cur), Values <- Contents
DrawsExact == DS!Spec
=============================================================================
