---------------------------- MODULE TextureUnits ----------------------------
(***************************************************************************)
(* The texture units of GLStateTracker with the Context calls that change  *)
(* them and the driver they are pushed to.  The driver has one binding per *)
(* unit and target, and a selected unit that glBindTexture acts on; the    *)
(* tracker keeps its own idea of both.                                     *)
(***************************************************************************)
EXTENDS Integers, Sequences

CONSTANTS
  N,         \* kMaxTextureUnits
  Targets,   \* texture targets
  TwoD,      \* GL_TEXTURE_2D
  Textures,  \* the names glGenTextures may return
  TargetOf,  \* the target an application uses each texture with
  Zero,      \* the name 0
  Stray,     \* whatever texture the driver finds, or makes, under the number
             \* that is pushed for a name that does not exist
  Absent     \* "no entry" in the map of a unit

ASSUME NAssumption    == N \in Nat \ {0}
ASSUME TwoDIsTarget   == TwoD \in Targets
ASSUME TargetOfType   == TargetOf \in [Textures -> Targets]
ASSUME ZeroAndAbsent  == /\ Zero \notin Textures /\ Absent \notin Textures \cup {Zero}
                         /\ Stray \notin Textures \cup {Zero}

Units == 0 .. N - 1
Names == Textures \cup {Zero}

VARIABLES
  exists,         \* the names in textures_
  retired,        \* deleted names: nextName_ never returns them again
  active,         \* activeTextureUnit_
  activeApplied,  \* activeTextureApplied_
  bound,          \* texUnits_[unit].bound[target]
  applied,        \* texUnitsApplied_[unit].bound[target]
  dirty,          \* textureUnitsDirty_
  selected,       \* the driver's active unit
  driver          \* the driver's bindings, by frontend name

tracker == <<active, activeApplied, bound, applied, dirty>>
vars == <<exists, retired, tracker, selected, driver>>

Maps     == [Units -> [Targets -> Names \cup {Absent}]]
Bindings == [Units -> [Targets -> Names \cup {Stray}]]

\* The texture a map binds to a unit and target: a missing entry means 0.
Name(entry) == IF entry = Absent THEN Zero ELSE entry
Visible(map) == [u \in Units |-> [t \in Targets |-> Name(map[u][t])]]

\* What the driver gets for an entry: nativeMap_ keeps the numbers of textures that
\* were deleted, and a name it lacks is passed on as it is.
Denoted(entry) == IF Name(entry) \in exists \cup {Zero} THEN Name(entry) ELSE Stray

TypeOK ==
  /\ exists \subseteq Textures /\ retired \subseteq Textures
  /\ active \in Units /\ activeApplied \in Units /\ selected \in Units
  /\ bound \in Maps /\ applied \in Maps
  /\ dirty \in BOOLEAN
  /\ driver \in Bindings

Init ==
  /\ exists = {} /\ retired = {}
  /\ active = 0 /\ activeApplied = 0 /\ selected = 0
  /\ bound = [u \in Units |-> [t \in Targets |-> Absent]]
  /\ applied = bound
  /\ dirty = FALSE
  /\ driver = Visible(bound)
-----------------------------------------------------------------------------
(* Texture objects. *)

GenTexture(n) ==
  /\ n \notin exists \cup retired
  /\ exists' = exists \cup {n}
  /\ UNCHANGED <<retired, tracker, selected, driver>>

\* clearTextureBinding on the tracker; the driver unbinds what it deletes.
MutDeleteTexture(n) ==
  /\ n \in exists
  /\ exists' = exists \ {n}
  /\ retired' = retired \cup {n}
  /\ bound' = [bound EXCEPT ![active] =
                 [t \in Targets |-> IF @[t] = n THEN Zero ELSE @[t]]]
  /\ dirty' = (dirty \/ bound' # bound)
  /\ driver' = [u \in Units |->
                  [t \in Targets |-> IF driver[u][t] = n THEN Zero ELSE driver[u][t]]]
  /\ UNCHANGED <<active, activeApplied, applied, selected>>

DeleteTexture(n) ==
  LET Forget(map) == [u \in Units |->
                        [t \in Targets |-> IF map[u][t] = n THEN Zero ELSE map[u][t]]]
  IN  /\ n \in exists
      /\ exists' = exists \ {n}
      /\ retired' = retired \cup {n}
      /\ bound' = Forget(bound)
      /\ dirty' = (dirty \/ bound' # bound)
      /\ driver' = Forget(driver)
      /\ UNCHANGED <<active, activeApplied, applied, selected>>

\* glTexImage* and its kin: the backend binds the texture bound to the active
\* unit to whatever unit the driver has selected, and leaves it there.
Upload(t) ==
  LET n == Name(bound[active][t]) IN
  /\ n \in exists
  /\ driver' = [driver EXCEPT ![selected][t] = n]
  /\ UNCHANGED <<exists, retired, tracker, selected>>
-----------------------------------------------------------------------------
(* Bindings. *)

MutActiveTexture(u) ==
  /\ u # active
  /\ active' = u
  /\ UNCHANGED <<exists, retired, activeApplied, bound, applied, dirty, selected, driver>>

ActiveTexture(u) ==
  /\ u # active
  /\ active' = u
  /\ dirty' = TRUE
  /\ UNCHANGED <<exists, retired, activeApplied, bound, applied, selected, driver>>

Bind(newBound) ==
  /\ bound' = newBound
  /\ dirty' = TRUE
  /\ UNCHANGED <<exists, retired, active, activeApplied, applied, selected, driver>>

\* glBindTexture on the active unit, which takes any name: one that exists, one
\* that was deleted and one that was never generated.
BindTexture(t, n) ==
  /\ n # Zero => t = TargetOf[n]
  /\ bound[active][t] # n
  /\ Bind([bound EXCEPT ![active][t] = n])

\* setTextureUnitBinding on the map of a unit: a name goes to its target, 0 clears
\* the map, unless the entry of the target already holds the name.
AssignUnit(map, n) ==
  LET t == IF n = Zero THEN TwoD ELSE TargetOf[n] IN
  IF map[t] = n     THEN map
  ELSE IF n = Zero  THEN [s \in Targets |-> Absent]
  ELSE [map EXCEPT ![t] = n]

BindTextureUnit(u, n) ==
  /\ n = Zero \/ n \in exists
  /\ AssignUnit(bound[u], n) # bound[u]
  /\ Bind([bound EXCEPT ![u] = AssignUnit(@, n)])

\* glBindTextures: each unit of the range, skipping the names that were never
\* generated.
BindTextures(first, names) ==
  LET Given(u) == names[u - first + 1]
      result == [u \in Units |->
                   IF u \in first .. first + Len(names) - 1 /\ Given(u) \in exists \cup {Zero}
                     THEN AssignUnit(bound[u], Given(u)) ELSE bound[u]]
  IN  /\ first + Len(names) <= N
      /\ result # bound
      /\ Bind(result)
-----------------------------------------------------------------------------
(* apply(), over a record of the driver's selected unit and bindings and of *)
(* lastUnit, the unit the loop believes is selected.                        *)

\* Pushing the entry of the map instead of the name it stands for.
MutPushUnitEntry(d, u) ==
  LET changed == {t \in Targets : bound[u][t] # applied[u][t]}
      unit == IF u # d.last THEN u ELSE d.unit
  IN  IF changed = {} THEN d
      ELSE [unit |-> unit, last |-> u,
            names |-> [d.names EXCEPT ![unit] =
                         [t \in Targets |-> IF t \in changed THEN bound[u][t] ELSE @[t]]]]

\* Only the targets that are still in the current map.
MutPushUnit(d, u) ==
  LET changed == {t \in Targets : /\ bound[u][t] # Absent
                                  /\ Name(bound[u][t]) # Name(applied[u][t])}
      unit == IF u # d.last THEN u ELSE d.unit
  IN  IF changed = {} THEN d
      ELSE [unit |-> unit, last |-> u,
            names |-> [d.names EXCEPT ![unit] =
                         [t \in Targets |-> IF t \in changed THEN Denoted(bound[u][t]) ELSE @[t]]]]

PushUnit(d, u) ==
  LET changed == {t \in Targets : Name(bound[u][t]) # Name(applied[u][t])}
      unit == IF u # d.last THEN u ELSE d.unit
  IN  IF changed = {} THEN d
      ELSE [unit |-> unit, last |-> u,
            names |-> [d.names EXCEPT ![unit] =
                         [t \in Targets |-> IF t \in changed THEN Denoted(bound[u][t]) ELSE @[t]]]]

\* The driver's active unit is made the frontend's.
Start == [unit |-> IF activeApplied # active THEN active ELSE selected,
          last |-> active, names |-> driver]

\* The loop over the units, after the first k of them.
pushed[k \in 0 .. N] == IF k = 0 THEN Start ELSE PushUnit(pushed[k - 1], k - 1)

Apply ==
  /\ UNCHANGED <<exists, retired, active, bound>>
  /\ dirty' = FALSE
  /\ activeApplied' = IF dirty THEN active ELSE activeApplied
  /\ applied' = IF dirty THEN bound ELSE applied
  /\ LET last == pushed[N] IN
       IF dirty THEN selected' = last.unit /\ driver' = last.names
                ELSE UNCHANGED <<selected, driver>>

\* A draw flushes and then uses the driver's bindings; so do glClear and the
\* reads, which is why flushing without drawing is no case of its own.
FlushState == Apply

Next ==
  \/ \E n \in Textures : GenTexture(n) \/ DeleteTexture(n)
  \/ \E t \in Targets : Upload(t)
  \/ \E u \in Units : ActiveTexture(u)
  \/ \E t \in Targets, n \in Names : BindTexture(t, n)
  \/ \E u \in Units, n \in Names : BindTextureUnit(u, n)
  \/ \E first \in Units, k \in 1 .. N : \E names \in [1 .. k -> Names] :
       BindTextures(first, names)
  \/ FlushState

Spec == Init /\ [][Next]_vars
-----------------------------------------------------------------------------
\* A clear textureUnitsDirty_ vouches for every unit, target and for the active
\* unit: apply() returns early only when there is nothing to push.
DirtySound ==
  ~dirty => Visible(bound) = Visible(applied) /\ active = activeApplied

\* A deletion leaves no binding behind, in any unit, whether or not it was pushed:
\* a unit comes to name a texture that does not exist only when the application
\* binds that name, and only then can the driver be given a number that is not
\* the texture's.
Dangles(u, t) == Name(bound[u][t]) \notin exists \cup {Zero}
DanglesOnlyIfBound ==
  [][\A u \in Units, t \in Targets :
       /\ Dangles(u, t)' /\ ~Dangles(u, t)
            => u = active /\ BindTexture(t, Name(bound'[u][t]))
       /\ driver'[u][t] = Stray /\ driver[u][t] # Stray
            => \E w \in Units : Dangles(w, t)]_vars

\* When the driver's selected unit is the one the tracker believes, and each
\* binding that will not be pushed is right, a draw uses every binding of the
\* frontend: bindings added, replaced, removed one by one, cleared with their
\* unit, and left by a deletion.
Synchronized ==
  /\ selected = activeApplied
  /\ \A u \in Units, t \in Targets :
       Name(bound[u][t]) = Name(applied[u][t]) => driver[u][t] = Denoted(bound[u][t])
FlushExactIfSynchronized ==
  [][FlushState /\ Synchronized =>
       driver' = [u \in Units |-> [t \in Targets |-> Denoted(bound[u][t])]]]_vars
=============================================================================
