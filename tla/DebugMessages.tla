---------------------------- MODULE DebugMessages ----------------------------
(***************************************************************************)
(* Debug messages and groups (SPEC 20.4, 20.5). A message that passes the   *)
(* filter is handed to the callback and only then appended to the log, so   *)
(* that a callback which calls back into Context, to insert messages, to    *)
(* push and pop groups or to read the log, does so in the middle of it.     *)
(***************************************************************************)
EXTENDS Naturals, FiniteSets, SequencesExt

CONSTANTS
  RuleTypes,   \* message types a rule for a message id is made for
  DontCare,    \* GL_DONT_CARE, as the type of such a rule
  NoRule,
  LogMax,      \* kDebugLogMax
  MaxDepth,    \* bound: groups; callbacks inside callbacks
  MaxHeard     \* bound: messages that passed the filter

MessageTypes == {"marker", "push", "pop"}

ASSUME LogMaxAssumption == LogMax \in Nat \ {0}
ASSUME DebugBounds == {MaxDepth, MaxHeard} \subseteq Nat
ASSUME RuleTypesKnown == RuleTypes \subseteq MessageTypes /\ DontCare \notin MessageTypes

VARIABLES
  installed,     \* whether debugCallback_ is set
  spaceEnabled,  \* debugEnabled_, by type
  idRules,       \* debugIdEnabled_, by type
  groups,        \* the depth of debugGroups_
  log,           \* debugLog_; a message is its type and its number
  delivering,    \* the messages whose callback is running, outermost first
  heard,         \* how many messages passed the filter
  lost           \* those of them that were dropped from the log or read from it

debugVars == <<installed, spaceEnabled, idRules, groups, log, delivering, heard, lost>>

Messages == [type : MessageTypes, number : 1..MaxHeard]

DebugTypeOK ==
  /\ installed \in BOOLEAN
  /\ spaceEnabled \subseteq MessageTypes
  /\ idRules \in [RuleTypes \cup {DontCare} -> BOOLEAN \cup {NoRule}]
  /\ groups \in 0..MaxDepth
  /\ ToSet(log) \cup ToSet(delivering) \subseteq Messages
  /\ heard \in 0..MaxHeard /\ lost \subseteq 1..heard

DebugInit ==
  /\ installed = FALSE /\ spaceEnabled = MessageTypes
  /\ idRules = [type \in RuleTypes \cup {DontCare} |-> NoRule]
  /\ groups = 0 /\ log = <<>> /\ delivering = <<>> /\ heard = 0 /\ lost = {}

\* debugMessageEnabled: the rule of the exact type first, then the wildcard.
Rule(type) ==
  IF type \in RuleTypes /\ idRules[type] # NoRule THEN idRules[type] ELSE idRules[DontCare]
Enabled(type) == IF Rule(type) # NoRule THEN Rule(type) ELSE type \in spaceEnabled

\* The limit is applied when a callback starts, for what it is about to append.
MutAppendToLog(message) ==
  LET full == Len(log) >= LogMax /\ Len(delivering) <= 1
  IN  /\ log' = Append(IF full THEN Tail(log) ELSE log, message)
      /\ lost' = IF full THEN lost \cup {Head(log).number} ELSE lost

\* The oldest message makes room.
AppendToLog(message) ==
  LET full == Len(log) >= LogMax
  IN  /\ log' = Append(IF full THEN Tail(log) ELSE log, message)
      /\ lost' = IF full THEN lost \cup {Head(log).number} ELSE lost

\* emitDebugMessage, up to the callback if there is one.
Emit(type) ==
  LET message == [type |-> type, number |-> heard + 1]
  IN  IF ~Enabled(type) THEN UNCHANGED <<log, lost, delivering, heard>>
      ELSE /\ heard < MaxHeard
           /\ heard' = heard + 1
           /\ IF installed
                THEN /\ Len(delivering) < MaxDepth
                     /\ delivering' = Append(delivering, message)
                     /\ UNCHANGED <<log, lost>>
                ELSE /\ AppendToLog(message)
                     /\ UNCHANGED delivering

\* The innermost callback returns.
CallbackReturns ==
  /\ delivering # <<>>
  /\ AppendToLog(Last(delivering))
  /\ delivering' = Front(delivering)
  /\ UNCHANGED <<installed, spaceEnabled, idRules, groups, heard>>

DebugMessageCallback(on) ==
  /\ installed' = on
  /\ UNCHANGED <<spaceEnabled, idRules, groups, log, delivering, heard, lost>>

\* Without ids: a type or all of them.
DebugMessageControl(types, on) ==
  /\ spaceEnabled' = IF on THEN spaceEnabled \cup types ELSE spaceEnabled \ types
  /\ UNCHANGED <<installed, idRules, groups, log, delivering, heard, lost>>

DebugMessageControlId(type, on) ==
  /\ idRules' = [idRules EXCEPT ![type] = on]
  /\ UNCHANGED <<installed, spaceEnabled, groups, log, delivering, heard, lost>>

DebugMessageInsert ==
  /\ Emit("marker")
  /\ UNCHANGED <<installed, spaceEnabled, idRules, groups>>

PushDebugGroup ==
  /\ groups < MaxDepth
  /\ groups' = groups + 1
  /\ Emit("push")
  /\ UNCHANGED <<installed, spaceEnabled, idRules>>

PopDebugGroup ==
  /\ groups > 0
  /\ groups' = groups - 1
  /\ Emit("pop")
  /\ UNCHANGED <<installed, spaceEnabled, idRules>>

\* One message; the caller reads as many as it asks for.
GetDebugMessageLog ==
  /\ log # <<>>
  /\ log' = Tail(log)
  /\ lost' = lost \cup {Head(log).number}
  /\ UNCHANGED <<installed, spaceEnabled, idRules, groups, delivering, heard>>

DebugNext ==
  \/ CallbackReturns
  \/ \E on \in BOOLEAN : DebugMessageCallback(on)
  \/ \E type \in MessageTypes, on \in BOOLEAN : DebugMessageControl({type}, on)
  \/ \E on \in BOOLEAN : DebugMessageControl(MessageTypes, on)
  \/ \E type \in RuleTypes \cup {DontCare}, on \in BOOLEAN : DebugMessageControlId(type, on)
  \/ DebugMessageInsert
  \/ PushDebugGroup
  \/ PopDebugGroup
  \/ GetDebugMessageLog

DebugSpec == DebugInit /\ [][DebugNext]_debugVars
-----------------------------------------------------------------------------
\* However callbacks nest, and whatever they insert or read, the log stays within
\* its limit, and every message that passed the filter is in exactly one place:
\* in the log, under delivery, or read or dropped.
EveryMessageOnce ==
  LET in(seq) == {seq[i].number : i \in DOMAIN seq}
  IN  /\ Len(log) <= LogMax
      /\ in(log) \cup in(delivering) \cup lost = 1..heard
      /\ Len(log) + Len(delivering) + Cardinality(lost) = heard
=============================================================================
