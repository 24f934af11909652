----------------------------- MODULE IndexedCaps -----------------------------
(***************************************************************************)
(* A capability that is enabled as a whole (glEnable) and by index          *)
(* (glEnablei): blending per draw buffer, the scissor test per viewport.    *)
(* GLStateTracker keeps the two in separate maps, whose entries appear when *)
(* they are first set; in OpenGL glEnable sets every index.                 *)
(***************************************************************************)
CONSTANTS
  CapIndices,
  NoEntry      \* not in the map; the last call did not draw

ASSUME NoEntryIsNoValue == NoEntry \notin BOOLEAN

VARIABLES
  capCurrent,      \* the capability's entry of capsCurrent_
  capApplied,      \* its entry of capsApplied_
  capsDirty,       \* capsDirty_
  indexedCurrent,  \* its entries of indexedCapsCurrent_
  indexedApplied,  \* its entries of indexedCapsApplied_
  indexedDirty,    \* indexedCapsDirty_
  capDriver,       \* the driver
  capGL,           \* what OpenGL says after the same calls
  capDrawn         \* the driver's state when the last call drew, or NoEntry

capVars == <<capCurrent, capApplied, capsDirty, indexedCurrent, indexedApplied,
             indexedDirty, capDriver, capGL, capDrawn>>

Entries == BOOLEAN \cup {NoEntry}

CapTypeOK ==
  /\ {capCurrent, capApplied} \subseteq Entries
  /\ {capsDirty, indexedDirty} \subseteq BOOLEAN
  /\ {indexedCurrent, indexedApplied} \subseteq [CapIndices -> Entries]
  /\ {capDriver, capGL} \subseteq [CapIndices -> BOOLEAN]
  /\ capDrawn \in [CapIndices -> BOOLEAN] \cup {NoEntry}

CapInit ==
  /\ capCurrent = NoEntry /\ capApplied = NoEntry
  /\ capsDirty = FALSE /\ indexedDirty = FALSE
  /\ indexedCurrent = [i \in CapIndices |-> NoEntry]
  /\ indexedApplied = [i \in CapIndices |-> NoEntry]
  /\ capDriver = [i \in CapIndices |-> FALSE] /\ capGL = [i \in CapIndices |-> FALSE]
  /\ capDrawn = NoEntry

\* glEnable, glDisable.
SetCapability(enabled) ==
  /\ capCurrent' = enabled
  /\ capsDirty' = (capsDirty \/ capCurrent # enabled)
  /\ capGL' = [i \in CapIndices |-> enabled]
  /\ capDrawn' = NoEntry
  /\ UNCHANGED <<capApplied, indexedCurrent, indexedApplied, indexedDirty, capDriver>>

\* Compared with what was pushed last.
MutSetIndexedCapability(i, enabled) ==
  /\ indexedCurrent' = IF indexedApplied[i] = enabled THEN indexedCurrent
                                                      ELSE [indexedCurrent EXCEPT ![i] = enabled]
  /\ indexedDirty' = (indexedDirty \/ indexedApplied[i] # enabled)
  /\ capGL' = [capGL EXCEPT ![i] = enabled]
  /\ capDrawn' = NoEntry
  /\ UNCHANGED <<capCurrent, capApplied, capsDirty, indexedApplied, capDriver>>

\* glEnablei, glDisablei.
SetIndexedCapability(i, enabled) ==
  /\ indexedCurrent' = [indexedCurrent EXCEPT ![i] = enabled]
  /\ indexedDirty' = (indexedDirty \/ indexedCurrent[i] # enabled)
  /\ capGL' = [capGL EXCEPT ![i] = enabled]
  /\ capDrawn' = NoEntry
  /\ UNCHANGED <<capCurrent, capApplied, capsDirty, indexedApplied, capDriver>>

PushCap(held) ==
  IF capsDirty /\ capCurrent # capApplied THEN [i \in CapIndices |-> capCurrent] ELSE held

PushIndexed(held) ==
  [i \in CapIndices |-> IF indexedDirty /\ indexedCurrent[i] # indexedApplied[i]
                          THEN indexedCurrent[i] ELSE held[i]]

ApplyCaps ==
  /\ capDriver' = PushIndexed(PushCap(capDriver))
  /\ capApplied' = IF capsDirty THEN capCurrent ELSE capApplied
  /\ indexedApplied' = IF indexedDirty THEN indexedCurrent ELSE indexedApplied
  /\ capsDirty' = FALSE /\ indexedDirty' = FALSE
  /\ UNCHANGED <<capCurrent, indexedCurrent, capGL>>

FlushCaps == ApplyCaps /\ capDrawn' = NoEntry
DrawCaps  == ApplyCaps /\ capDrawn' = capDriver'

CapNext ==
  \/ \E enabled \in BOOLEAN : SetCapability(enabled)
  \/ \E i \in CapIndices, enabled \in BOOLEAN : SetIndexedCapability(i, enabled)
  \/ FlushCaps
  \/ DrawCaps

CapSpec == CapInit /\ [][CapNext]_capVars
-----------------------------------------------------------------------------
\* A program that uses one of the two forms draws with what OpenGL prescribes,
\* whatever was set back between two flushes; one that mixes glEnable and
\* glEnablei draws, for each index, with the last value of one of them.
CapsDrawn ==
  capDrawn # NoEntry =>
    /\ capCurrent = NoEntry \/ (\A i \in CapIndices : indexedCurrent[i] = NoEntry)
         => capDrawn = capGL
    /\ \A i \in CapIndices :
         capDrawn[i] \in {capCurrent, indexedCurrent[i]} \/ capDrawn[i] = capGL[i]
=============================================================================
