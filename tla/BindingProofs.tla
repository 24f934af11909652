---------------------------- MODULE BindingProofs ----------------------------
(***************************************************************************)
(* What a draw is bound to, for every number of programs, handles, texture *)
(* units, targets and textures.                                            *)
(***************************************************************************)
EXTENDS MCBindings, LoopLemmas

-----------------------------------------------------------------------------
(* Programs. *)

\* The active program exists and has been linked once, so a flush finds its
\* handle in nativeMap_.
ActiveHasHandle ==
  activeProgram = 0 \/ activeProgram \in DOMAIN programs \cap DOMAIN nativeMap

\* What the driver should have in use for the active program.
ActiveHandle == IF activeProgram = 0 THEN 0 ELSE programs[activeProgram]

\* A clear programDirty_ vouches for the driver where a flush bound it last.
FlushBound == ~programDirty /\ boundBy = "flush" => current = ActiveHandle

ProgramInv ==
  /\ ProgramTypeOK /\ ActiveHasHandle /\ FlushBound
  /\ CacheCoherent /\ UniformReachesItsProgram /\ FlushedDrawExact

LEMMA NamesInNat == ProgramNames \subseteq Nat /\ 0 \notin ProgramNames
  BY BoundsType DEF ProgramNames

LEMMA InitProgram == ProgramInit => ProgramInv
<1> SUFFICES ASSUME ProgramInit
             PROVE  ProgramInv
  OBVIOUS
<1>1. ProgramTypeOK
  <2>1. Range(programs) = {}
    BY DEF ProgramInit, Range
  <2>2. DOMAIN programs = {} /\ DOMAIN nativeMap = {} /\ linked = {}
    BY DEF ProgramInit
  <2>3. /\ nextName = 1 /\ activeProgram = 0 /\ programDirty = FALSE /\ cached = 0 /\ current = 0
        /\ built = {} /\ boundBy = "flush" /\ drawn = Nothing /\ wrote = Nothing
    BY DEF ProgramInit
  <2>4. Nothing \in Seen
    BY DEF Seen
  <2>5. native \in [Handles -> {"free", "live", "doomed"}]
    BY DEF ProgramInit
  <2>6. 1 \in 1 .. MaxName + 1 /\ 0 \in 0 .. MaxName
    BY BoundsType
  <2> QED
    BY <2>1, <2>2, <2>3, <2>4, <2>5, <2>6 DEF ProgramTypeOK
<1> QED
  BY <1>1 DEF ProgramInit, ProgramInv, ActiveHasHandle, FlushBound, ActiveHandle,
              CacheCoherent, UniformReachesItsProgram, FlushedDrawExact

\* glUseProgram of the driver: live programs stay, a doomed one may go.
LEMMA DriverUseStep ==
  ASSUME ProgramTypeOK, NEW h \in Handles \cup {0}, DriverUse(h)
  PROVE  /\ current' \in Handles \cup {0}
         /\ Usable(h) => current' = h
         /\ native' \in [Handles -> {"free", "live", "doomed"}]
         /\ \A g \in Handles : native[g] = "live" => native'[g] = "live"
         /\ built' \subseteq Handles
<1>1. current' \in Handles \cup {0} /\ (Usable(h) => current' = h)
  BY DEF DriverUse, ProgramTypeOK
<1>2. /\ native' \in [Handles -> {"free", "live", "doomed"}]
      /\ \A g \in Handles : native[g] = "live" => native'[g] = "live"
  BY DEF DriverUse, ProgramTypeOK
<1>3. built' \subseteq Handles
  BY DEF DriverUse, ProgramTypeOK
<1> QED
  BY <1>1, <1>2, <1>3

LEMMA HandleOfProgram ==
  ASSUME ProgramTypeOK, NEW n \in DOMAIN programs
  PROVE  programs[n] \in Handles /\ native[programs[n]] = "live" /\ n \in ProgramNames
  BY BoundsType DEF ProgramTypeOK, Range, ProgramNames

LEMMA CreateProgramStep ==
  ASSUME ProgramInv, NEW h \in Handles, CreateProgram(h)
  PROVE  ProgramInv'
<1>1. nextName \notin DOMAIN programs /\ nextName \notin DOMAIN nativeMap
  BY BoundsType DEF ProgramInv, ProgramTypeOK
<1>2. /\ DOMAIN programs' = DOMAIN programs \cup {nextName}
      /\ programs'[nextName] = h
      /\ \A n \in DOMAIN programs : programs'[n] = programs[n]
  BY <1>1 DEF CreateProgram
<1>3. \A n \in DOMAIN programs : programs[n] # h /\ native'[programs[n]] = "live"
  BY HandleOfProgram DEF CreateProgram, ProgramInv, ProgramTypeOK
<1>4. Range(programs') \subseteq {g \in Handles : native'[g] = "live"}
  <2>1. \A n \in DOMAIN programs' : programs'[n] \in Handles /\ native'[programs'[n]] = "live"
    BY <1>2, <1>3, HandleOfProgram DEF CreateProgram, ProgramInv, ProgramTypeOK
  <2> QED
    BY <2>1, Zenon DEF Range
<1>5. \A m, n \in DOMAIN programs' : programs'[m] = programs'[n] => m = n
  BY <1>2, <1>3 DEF ProgramInv, ProgramTypeOK
<1>6. /\ nextName' \in 1 .. MaxName + 1
      /\ DOMAIN programs' \cup DOMAIN nativeMap' \subseteq 1 .. nextName' - 1
  BY <1>2, BoundsType DEF CreateProgram, ProgramInv, ProgramTypeOK
<1>7. ProgramTypeOK'
  BY <1>1, <1>2, <1>4, <1>5, <1>6 DEF CreateProgram, Quiet, ProgramInv, ProgramTypeOK, Seen
<1> QED
  BY <1>2, <1>7 DEF CreateProgram, Quiet, ProgramInv, ActiveHasHandle, FlushBound,
     ActiveHandle, CacheCoherent, UniformReachesItsProgram, FlushedDrawExact

LEMMA LinkProgramStep ==
  ASSUME ProgramInv, NEW n \in DOMAIN programs, NEW ok \in BOOLEAN, LinkProgram(n, ok)
  PROVE  ProgramInv'
<1>1. /\ DOMAIN nativeMap' = DOMAIN nativeMap \cup {n}
      /\ nativeMap'[n] = programs[n]
      /\ \A m \in DOMAIN nativeMap \ {n} : nativeMap'[m] = nativeMap[m]
  BY DEF LinkProgram
<1>2. ProgramTypeOK'
  BY <1>1, HandleOfProgram DEF LinkProgram, Quiet, ProgramInv, ProgramTypeOK, Seen
<1> QED
  BY <1>1, <1>2 DEF LinkProgram, Quiet, ProgramInv, ActiveHasHandle, FlushBound,
     ActiveHandle, CacheCoherent, UniformReachesItsProgram, FlushedDrawExact

LEMMA UseProgramStep ==
  ASSUME ProgramInv, NEW n \in 0 .. MaxName, UseProgram(n)
  PROVE  ProgramInv'
<1>1. ProgramTypeOK'
  BY DEF UseProgram, Quiet, ProgramInv, ProgramTypeOK, Seen, programDriver
<1>2. ActiveHasHandle'
  BY DEF UseProgram, ProgramInv, ProgramTypeOK, ActiveHasHandle
<1> QED
  BY <1>1, <1>2 DEF UseProgram, Quiet, ProgramInv, FlushBound, ActiveHandle,
     CacheCoherent, UniformReachesItsProgram, FlushedDrawExact, programDriver

LEMMA DeleteProgramStep ==
  ASSUME ProgramInv, NEW n \in DOMAIN programs, DeleteProgram(n)
  PROVE  ProgramInv'
<1>1. /\ DOMAIN programs' = DOMAIN programs \ {n}
      /\ \A m \in DOMAIN programs \ {n} : programs'[m] = programs[m]
  BY DEF DeleteProgram, Restrict
<1>2. \A m \in DOMAIN programs' : programs'[m] # programs[n]
  BY <1>1 DEF ProgramInv, ProgramTypeOK
<1>3. Range(programs') \subseteq {g \in Handles : native'[g] = "live"}
  <2>1. \A m \in DOMAIN programs' : programs'[m] \in Handles /\ native'[programs'[m]] = "live"
    BY <1>1, <1>2, HandleOfProgram DEF DeleteProgram, ProgramInv, ProgramTypeOK
  <2> QED
    BY <2>1, Zenon DEF Range
<1>4. ProgramTypeOK'
  <2>1. /\ DOMAIN programs' \cup DOMAIN nativeMap' \subseteq 1 .. nextName' - 1
        /\ linked' \subseteq DOMAIN programs' \cap DOMAIN nativeMap'
        /\ \A m \in DOMAIN programs' \cap DOMAIN nativeMap' : nativeMap'[m] = programs'[m]
    BY <1>1 DEF DeleteProgram, ProgramInv, ProgramTypeOK
  <2>2. \A l, m \in DOMAIN programs' : programs'[l] = programs'[m] => l = m
    BY <1>1 DEF ProgramInv, ProgramTypeOK
  <2>3. native' \in [Handles -> {"free", "live", "doomed"}] /\ built' \subseteq Handles
    BY DEF DeleteProgram, ProgramInv, ProgramTypeOK
  <2>4. activeProgram' \in 0 .. MaxName /\ programDirty' \in BOOLEAN
    BY BoundsType DEF DeleteProgram, ProgramInv, ProgramTypeOK
  <2> QED
    BY <1>3, <2>1, <2>2, <2>3, <2>4 DEF DeleteProgram, Quiet, ProgramInv, ProgramTypeOK, Seen
<1>5. ActiveHasHandle'
  BY <1>1 DEF DeleteProgram, ProgramInv, ActiveHasHandle
<1>6. FlushBound'
  BY <1>1 DEF DeleteProgram, ProgramInv, ActiveHasHandle, FlushBound, ActiveHandle
<1> QED
  BY <1>4, <1>5, <1>6 DEF DeleteProgram, Quiet, ProgramInv, CacheCoherent,
     UniformReachesItsProgram, FlushedDrawExact

\* GLESBackendProgram::bind leaves the program in use, or says that the driver
\* refused it.
LEMMA WriteUniformStep ==
  ASSUME ProgramInv, NEW n, WriteUniform(n)
  PROVE  ProgramInv'
<1> DEFINE h == programs[n]
<1>0. n \in DOMAIN programs /\ h \in Handles /\ n \in ProgramNames
  BY HandleOfProgram DEF WriteUniform, ProgramInv, ProgramTypeOK
<1>1. /\ UNCHANGED <<programFrontend, nativeMap>>
      /\ drawn' = Nothing /\ wrote' = [program |-> n, handle |-> current']
  BY DEF WriteUniform
<1> HIDE DEF h
<1>2. CASE cached # h
  <2>1. DriverUse(h) /\ cached' = h /\ boundBy' = Binder(h, "uniform")
    BY <1>2 DEF WriteUniform, BindNative, h
  <2>2. ProgramTypeOK'
    BY <1>0, <1>1, <2>1, DriverUseStep
       DEF ProgramInv, ProgramTypeOK, Seen, Range, programFrontend, Binder
  <2>3. boundBy' # "refused" => current' = h /\ boundBy' = "uniform"
    BY <1>0, <2>1, DriverUseStep DEF Binder, ProgramInv
  <2> QED
    BY <1>1, <2>1, <2>2, <2>3
       DEF ProgramInv, ActiveHasHandle, FlushBound, ActiveHandle, CacheCoherent,
           UniformReachesItsProgram, FlushedDrawExact, programFrontend, Binder, h
<1>3. CASE cached = h
  <2>1. UNCHANGED <<programDriver, cached, boundBy>>
    BY <1>3 DEF WriteUniform, BindNative, h
  <2>2. ProgramTypeOK'
    BY <1>0, <1>1, <2>1
       DEF ProgramInv, ProgramTypeOK, Seen, Range, programFrontend, programDriver
  <2> QED
    BY <1>1, <1>3, <2>1, <2>2
       DEF ProgramInv, ActiveHasHandle, FlushBound, ActiveHandle, CacheCoherent,
           UniformReachesItsProgram, FlushedDrawExact, programFrontend, programDriver, h
<1> QED
  BY <1>2, <1>3

\* A flush hands the driver the active program's own handle.
LEMMA FlushProgramStep ==
  ASSUME ProgramInv, FlushProgram,
         \/ Quiet
         \/ /\ activeProgram # 0 /\ wrote' = Nothing
            /\ drawn' = [program |-> activeProgram, handle |-> current']
  PROVE  ProgramInv'
<1>1. UNCHANGED <<nextName, programs, linked, activeProgram, nativeMap>> /\ programDirty' = FALSE
  BY DEF FlushProgram
<1>2. NativeOf(activeProgram) = ActiveHandle /\ ActiveHandle \in Handles \cup {0}
  <2>1. CASE activeProgram = 0
    BY <2>1, BoundsType DEF ProgramInv, ProgramTypeOK, NativeOf, ActiveHandle
  <2>2. CASE activeProgram # 0
    BY <2>2, HandleOfProgram DEF ProgramInv, ProgramTypeOK, ActiveHasHandle, NativeOf, ActiveHandle
  <2> QED
    BY <2>1, <2>2
<1>3. /\ current' \in Handles \cup {0} /\ cached' \in Handles \cup {0}
      /\ native' \in [Handles -> {"free", "live", "doomed"}]
      /\ \A g \in Handles : native[g] = "live" => native'[g] = "live"
      /\ built' \subseteq Handles
      /\ boundBy' \in {"flush", "uniform", "refused"}
      /\ boundBy' # "refused" => cached' = current'
      /\ boundBy' = "flush" => current' = ActiveHandle
  <2>1. CASE programDirty
    <3>1. /\ DriverUse(ActiveHandle) /\ cached' = ActiveHandle
          /\ boundBy' = Binder(ActiveHandle, "flush")
      BY <1>2, <2>1 DEF FlushProgram, SinkUse
    <3> QED
      BY <1>2, <3>1, DriverUseStep DEF ProgramInv, Binder
  <2>2. CASE ~programDirty
    BY <2>2 DEF FlushProgram, programDriver, ProgramInv, ProgramTypeOK, CacheCoherent, FlushBound
  <2> QED
    BY <2>1, <2>2 DEF ProgramInv, ProgramTypeOK
<1>4. activeProgram # 0 => activeProgram \in ProgramNames
  BY BoundsType DEF ProgramInv, ProgramTypeOK, ProgramNames
<1>5. drawn' \in Seen /\ wrote' \in Seen
  BY <1>3, <1>4 DEF Quiet, Seen
<1>6. ProgramTypeOK'
  <2>1. Range(programs') \subseteq {g \in Handles : native'[g] = "live"}
    BY <1>1, <1>3 DEF ProgramInv, ProgramTypeOK
  <2> QED
    BY <1>1, <1>3, <1>5, <2>1 DEF ProgramInv, ProgramTypeOK
<1>7. ActiveHasHandle' /\ FlushBound' /\ CacheCoherent'
  BY <1>1, <1>3 DEF ProgramInv, ActiveHasHandle, FlushBound, ActiveHandle, CacheCoherent
<1>8. UniformReachesItsProgram' /\ FlushedDrawExact'
  BY <1>1, <1>3 DEF Quiet, UniformReachesItsProgram, FlushedDrawExact, ActiveHandle
<1> QED
  BY <1>6, <1>7, <1>8 DEF ProgramInv

LEMMA StepProgram == ProgramInv /\ [ProgramNext]_programVars => ProgramInv'
<1> SUFFICES ASSUME ProgramInv, [ProgramNext]_programVars
             PROVE  ProgramInv'
  OBVIOUS
<1>1. CASE Uniform \/ \E n \in ProgramNames : ProgramUniform(n)
  BY <1>1, WriteUniformStep DEF Uniform, ProgramUniform
<1>2. CASE DrawProgram \/ ClearProgram
  BY <1>2, FlushProgramStep DEF DrawProgram, ClearProgram
<1>3. CASE UNCHANGED programVars
  BY <1>3 DEF programVars, programFrontend, programDriver, ProgramInv, ProgramTypeOK,
     ActiveHasHandle, FlushBound, ActiveHandle, CacheCoherent, UniformReachesItsProgram,
     FlushedDrawExact
<1> QED
  BY <1>1, <1>2, <1>3, CreateProgramStep, LinkProgramStep, UseProgramStep, DeleteProgramStep
     DEF ProgramNext

LEMMA ProgramAlways == ProgramSpec => []ProgramInv
  BY InitProgram, StepProgram, PTL DEF ProgramSpec

\* GLESLib::currentProgram is the program the driver has in use, across flushes,
\* uniform calls, deletions and handles that are used again, unless the driver
\* refused the last one.
THEOREM CurrentProgramCached == ProgramSpec => []CacheCoherent
<1>1. ProgramInv => CacheCoherent
  BY DEF ProgramInv
<1> QED
  BY <1>1, ProgramAlways, PTL

\* GLESBackendProgram::bind may skip its glUseProgram and the uniform still goes
\* to the program it is meant for.
THEOREM UniformsReachPrograms == ProgramSpec => []UniformReachesItsProgram
<1>1. ProgramInv => UniformReachesItsProgram
  BY DEF ProgramInv
<1> QED
  BY <1>1, ProgramAlways, PTL

\* A draw runs the active program where a flush bound the one in use, whatever
\* was created, deleted, relinked and used in between.
THEOREM FlushedDrawsExact == ProgramSpec => []FlushedDrawExact
<1>1. ProgramInv => FlushedDrawExact
  BY DEF ProgramInv
<1> QED
  BY <1>1, ProgramAlways, PTL
-----------------------------------------------------------------------------
(* Texture units. *)

TextureInv == TypeOK /\ DirtySound

LEMMA NamesAndAbsent ==
  /\ \A entry \in Names \cup {Absent} : Name(entry) \in Names
  /\ \A n \in Names : Name(n) = n
  BY ZeroAndAbsent DEF Name, Names

LEMMA DenotedType ==
  ASSUME NEW entry \in Names \cup {Absent}
  PROVE  Denoted(entry) \in Names \cup {Stray}
  BY NamesAndAbsent DEF Denoted

LEMMA InitTexture == Init => TextureInv
<1> SUFFICES ASSUME Init
             PROVE  TextureInv
  OBVIOUS
<1>1. 0 \in Units
  BY NAssumption DEF Units
<1>2. bound \in Maps /\ driver \in Bindings
  BY DEF Init, Maps, Bindings, Visible, Name, Names
<1> QED
  BY <1>1, <1>2 DEF Init, TextureInv, TypeOK, DirtySound

\* A binding call: the map keeps its type, and the flag goes up.
LEMMA BindStep ==
  ASSUME TextureInv, NEW map \in Maps, Bind(map)
  PROVE  TextureInv'
  BY DEF Bind, TextureInv, TypeOK, DirtySound

LEMMA AssignUnitType ==
  ASSUME NEW map \in [Targets -> Names \cup {Absent}], NEW n \in Names
  PROVE  AssignUnit(map, n) \in [Targets -> Names \cup {Absent}]
  BY DEF AssignUnit

LEMMA BindTextureStep ==
  ASSUME TextureInv, NEW t \in Targets, NEW n \in Names, BindTexture(t, n)
  PROVE  TextureInv'
<1>1. [bound EXCEPT ![active][t] = n] \in Maps
  BY DEF TextureInv, TypeOK, Maps
<1> QED
  BY <1>1, BindStep DEF BindTexture

LEMMA BindTextureUnitStep ==
  ASSUME TextureInv, NEW u \in Units, NEW n \in Names, BindTextureUnit(u, n)
  PROVE  TextureInv'
<1>1. AssignUnit(bound[u], n) \in [Targets -> Names \cup {Absent}]
  BY AssignUnitType DEF TextureInv, TypeOK, Maps
<1>2. [bound EXCEPT ![u] = AssignUnit(bound[u], n)] \in Maps
  BY <1>1 DEF TextureInv, TypeOK, Maps
<1> QED
  BY <1>2, BindStep DEF BindTextureUnit

LEMMA BindTexturesStep ==
  ASSUME TextureInv, NEW first \in Units, NEW k \in 1 .. N,
         NEW names \in [1 .. k -> Names], BindTextures(first, names)
  PROVE  TextureInv'
<1> DEFINE Given(u) == names[u - first + 1]
           Takes(u) == /\ u \in first .. first + Len(names) - 1
                       /\ Given(u) \in exists \cup {Zero}
           result == [u \in Units |-> IF Takes(u) THEN AssignUnit(bound[u], Given(u))
                                                  ELSE bound[u]]
<1>1. ASSUME NEW u \in Units
      PROVE  (IF Takes(u) THEN AssignUnit(bound[u], Given(u)) ELSE bound[u])
               \in [Targets -> Names \cup {Absent}]
  <2>1. bound[u] \in [Targets -> Names \cup {Absent}]
    BY DEF TextureInv, TypeOK, Maps
  <2>2. CASE Takes(u)
    <3>1. Given(u) \in Names
      BY <2>2 DEF TextureInv, TypeOK, Names
    <3> QED
      BY <2>1, <2>2, <3>1, AssignUnitType
  <2>3. CASE ~Takes(u)
    BY <2>1, <2>3
  <2> QED
    BY <2>2, <2>3
<1>2. Bind(result)
  BY DEF BindTextures
<1>3. result \in Maps
  BY <1>1 DEF Maps
<1> QED
  BY <1>2, <1>3, BindStep

LEMMA GenTextureStep ==
  ASSUME TextureInv, NEW n \in Textures, GenTexture(n)
  PROVE  TextureInv'
  BY DEF GenTexture, tracker, TextureInv, TypeOK, DirtySound

LEMMA ActiveTextureStep ==
  ASSUME TextureInv, NEW u \in Units, ActiveTexture(u)
  PROVE  TextureInv'
  BY DEF ActiveTexture, TextureInv, TypeOK, DirtySound

LEMMA UploadStep ==
  ASSUME TextureInv, NEW t \in Targets, Upload(t)
  PROVE  TextureInv'
<1> DEFINE n == Name(bound[active][t])
<1>1. n \in exists /\ driver' = [driver EXCEPT ![selected][t] = n]
      /\ UNCHANGED <<exists, retired, tracker, selected>>
  BY DEF Upload
<1> HIDE DEF n
<1>2. TypeOK'
  BY <1>1 DEF tracker, TextureInv, TypeOK, Bindings, Names
<1>3. DirtySound'
  BY <1>1 DEF tracker, TextureInv, DirtySound
<1> QED
  BY <1>2, <1>3 DEF TextureInv

LEMMA DeleteTextureStep ==
  ASSUME TextureInv, NEW n \in Textures, DeleteTexture(n)
  PROVE  TextureInv'
<1> DEFINE Forget(map) == [u \in Units |->
                             [t \in Targets |-> IF map[u][t] = n THEN Zero ELSE map[u][t]]]
<1>1. /\ exists' = exists \ {n} /\ retired' = retired \cup {n}
      /\ bound' = Forget(bound) /\ driver' = Forget(driver)
      /\ dirty' = (dirty \/ bound' # bound)
      /\ UNCHANGED <<active, activeApplied, applied, selected>>
  BY DEF DeleteTexture
<1>2. bound' \in Maps
  BY <1>1 DEF TextureInv, TypeOK, Maps, Names
<1>3. driver' \in Bindings
  BY <1>1 DEF TextureInv, TypeOK, Bindings, Names
<1>4. TypeOK'
  BY <1>1, <1>2, <1>3 DEF TextureInv, TypeOK
<1>5. DirtySound'
  BY <1>1 DEF TextureInv, DirtySound
<1> QED
  BY <1>4, <1>5 DEF TextureInv
-----------------------------------------------------------------------------
(* The loop of apply(). *)

\* A target of a unit may hold a stray after the flush that starts here: the
\* driver has one there, or a unit names a texture that does not exist.
StrayAt(u, t) == driver[u][t] = Stray \/ \E w \in Units : Dangles(w, t)

\* The bindings a flush may leave in the driver.
LoopBindings == {m \in Bindings : \A u \in Units, t \in Targets :
                                    m[u][t] = Stray => StrayAt(u, t)}

\* The states of the loop: a unit the driver has selected, the unit the loop
\* believes it has, and the driver's bindings.
LoopStates == [unit : Units, last : Units, names : LoopBindings]

LEMMA StartType == TextureInv => Start \in LoopStates
<1> SUFFICES ASSUME TextureInv
             PROVE  Start \in LoopStates
  OBVIOUS
<1>1. driver \in LoopBindings
  BY DEF TextureInv, TypeOK, LoopBindings, StrayAt
<1> QED
  BY <1>1 DEF Start, LoopStates, TextureInv, TypeOK

LEMMA PushUnitType ==
  ASSUME TextureInv, NEW d \in LoopStates, NEW u \in Units
  PROVE  PushUnit(d, u) \in LoopStates
<1> DEFINE changed == {t \in Targets : Name(bound[u][t]) # Name(applied[u][t])}
           unit == IF u # d.last THEN u ELSE d.unit
           now == [t \in Targets |-> IF t \in changed THEN Denoted(bound[u][t])
                                                      ELSE d.names[unit][t]]
           after == [d.names EXCEPT ![unit] = now]
<1>1. PushUnit(d, u) = IF changed = {} THEN d
                       ELSE [unit |-> unit, last |-> u, names |-> after]
  BY DEF PushUnit
<1>2. unit \in Units /\ d.names \in Bindings /\ d.names \in LoopBindings
  BY DEF LoopStates, LoopBindings
<1>3. \A t \in Targets : bound[u][t] \in Names \cup {Absent}
  BY DEF TextureInv, TypeOK, Maps
<1>4. now \in [Targets -> Names \cup {Stray}]
  BY <1>2, <1>3, DenotedType DEF Bindings
<1>5. \A t \in Targets : now[t] = Stray => StrayAt(unit, t)
  <2> SUFFICES ASSUME NEW t \in Targets, now[t] = Stray
               PROVE  StrayAt(unit, t)
    OBVIOUS
  <2>1. CASE t \in changed
    <3>1. Denoted(bound[u][t]) = Stray
      BY <2>1
    <3>2. Name(bound[u][t]) \notin exists \cup {Zero}
      BY <3>1, ZeroAndAbsent DEF Denoted, TextureInv, TypeOK
    <3> QED
      BY <3>2 DEF StrayAt, Dangles
  <2>2. CASE t \notin changed
    BY <1>2, <2>2 DEF LoopBindings
  <2> QED
    BY <2>1, <2>2
<1> HIDE DEF changed, unit, now
<1>6. after \in LoopBindings
  <2>1. after \in Bindings
    BY <1>2, <1>4 DEF Bindings
  <2>2. ASSUME NEW v \in Units, NEW t \in Targets, after[v][t] = Stray
        PROVE  StrayAt(v, t)
    <3>1. after[v] = IF v = unit THEN now ELSE d.names[v]
      BY <1>2 DEF Bindings
    <3> QED
      BY <1>2, <1>5, <2>2, <3>1 DEF LoopBindings
  <2> QED
    BY <2>1, <2>2 DEF LoopBindings
<1> HIDE DEF after
<1> QED
  BY <1>1, <1>2, <1>6 DEF LoopStates

\* The loop has a run, which is what its definition says.
LEMMA LoopRuns ==
  ASSUME TextureInv
  PROVE  /\ pushed \in [0 .. N -> LoopStates]
         /\ pushed[0] = Start
         /\ \A k \in 0 .. N - 1 : pushed[k + 1] = PushUnit(pushed[k], k)
<1> DEFINE F == [u \in 0 .. N - 1 |-> [d \in LoopStates |-> PushUnit(d, u)]]
<1>1. F \in [0 .. N - 1 -> [LoopStates -> LoopStates]]
  BY PushUnitType DEF Units
<1>2. N \in Nat /\ Start \in LoopStates
  BY NAssumption, StartType
<1>3. PICK f \in [0 .. N -> LoopStates] :
        f[0] = Start /\ \A k \in 0 .. N - 1 : f[k + 1] = F[k][f[k]]
  <2> HIDE DEF F
  <2>1. \E f \in [0 .. N -> LoopStates] : IsRun(f, Start, N, F)
    BY <1>1, <1>2, LoopExists, Zenon
  <2> QED
    BY <2>1 DEF IsRun
<1>4. \A k \in 0 .. N - 1 : f[k + 1] = PushUnit(f[k], k)
  <2> SUFFICES ASSUME NEW k \in 0 .. N - 1
               PROVE  F[k][f[k]] = PushUnit(f[k], k)
    BY <1>3
  <2>1. k \in 0 .. N
    BY <1>2
  <2> QED
    BY <1>3, <2>1
<1>5. ASSUME NEW k \in 0 .. N
      PROVE  f[k] = IF k = 0 THEN Start ELSE PushUnit(f[k - 1], k - 1)
  <2>1. k = 0 \/ (k - 1 \in 0 .. N - 1 /\ (k - 1) + 1 = k)
    BY <1>2
  <2> QED
    BY <1>3, <1>4, <2>1
<1>6. f = [k \in 0 .. N |-> IF k = 0 THEN Start ELSE PushUnit(f[k - 1], k - 1)]
  BY <1>3, <1>5
<1>7. pushed = [k \in 0 .. N |-> IF k = 0 THEN Start ELSE PushUnit(pushed[k - 1], k - 1)]
  BY <1>6, Zenon DEF pushed
<1>8. \A k \in 0 .. N - 1 : pushed[k + 1] = PushUnit(pushed[k], k)
  <2> SUFFICES ASSUME NEW k \in 0 .. N - 1
               PROVE  pushed[k + 1] = PushUnit(pushed[k], k)
    OBVIOUS
  <2>1. k + 1 \in 0 .. N /\ k + 1 # 0 /\ (k + 1) - 1 = k
    BY <1>2
  <2> QED
    BY <1>7, <2>1
<1>9. pushed[0] = Start
  <2>1. 0 \in 0 .. N
    BY <1>2
  <2> QED
    BY <1>7, <2>1
<1>10. \A k \in 0 .. N : pushed[k] \in LoopStates
  <2> DEFINE S == {k \in 0 .. N : pushed[k] \in LoopStates}
  <2>1. 0 \in S
    BY <1>2, <1>9
  <2>2. \A k \in 0 .. N - 1 : k \in S => k + 1 \in S
    BY <1>2, <1>8, PushUnitType DEF Units
  <2> HIDE DEF S
  <2>3. \A k \in 0 .. N : k \in S
    BY <1>2, <2>1, <2>2, UpTo
  <2> QED
    BY <2>3 DEF S
<1>11. pushed = [k \in 0 .. N |-> pushed[k]]
  BY <1>7
<1> QED
  BY <1>8, <1>9, <1>10, <1>11

LEMMA ApplyTextures ==
  TextureInv /\ FlushState => TextureInv' /\ driver' \in LoopBindings
<1> SUFFICES ASSUME TextureInv, FlushState
             PROVE  TextureInv' /\ driver' \in LoopBindings
  OBVIOUS
<1>1. /\ dirty' = FALSE
      /\ activeApplied' = IF dirty THEN active ELSE activeApplied
      /\ applied' = IF dirty THEN bound ELSE applied
      /\ UNCHANGED <<exists, retired, active, bound>>
  BY DEF FlushState, Apply
<1>2. selected' \in Units /\ driver' \in LoopBindings
  <2>1. CASE dirty
    <3>1. pushed[N] \in LoopStates
      BY LoopRuns, NAssumption
    <3>2. selected' = pushed[N].unit /\ driver' = pushed[N].names
      BY <2>1 DEF FlushState, Apply
    <3> QED
      BY <3>1, <3>2 DEF LoopStates
  <2>2. CASE ~dirty
    BY <2>2 DEF FlushState, Apply, TextureInv, TypeOK, LoopBindings, StrayAt
  <2> QED
    BY <2>1, <2>2
<1>3. TypeOK'
  BY <1>1, <1>2 DEF TextureInv, TypeOK, LoopBindings
<1>4. DirtySound'
  BY <1>1 DEF TextureInv, DirtySound, Visible
<1> QED
  BY <1>2, <1>3, <1>4 DEF TextureInv

LEMMA StepTexture == TextureInv /\ [Next]_vars => TextureInv'
<1> SUFFICES ASSUME TextureInv, [Next]_vars
             PROVE  TextureInv'
  OBVIOUS
<1>1. CASE UNCHANGED vars
  BY <1>1 DEF vars, tracker, TextureInv, TypeOK, DirtySound, Visible
<1> QED
  BY <1>1, GenTextureStep, DeleteTextureStep, UploadStep, ActiveTextureStep, BindTextureStep,
     BindTextureUnitStep, BindTexturesStep, ApplyTextures
     DEF Next

LEMMA TextureAlways == Spec => []TextureInv
  BY InitTexture, StepTexture, PTL DEF Spec

\* From a synchronized driver the loop has the driver on the unit it believes,
\* and has brought the units before its counter up to date.
LEMMA SynchronizedLoop ==
  ASSUME TextureInv, Synchronized, NEW k \in 0 .. N
  PROVE  /\ pushed[k].unit = pushed[k].last
         /\ \A u \in Units, t \in Targets :
              pushed[k].names[u][t] = IF u < k THEN Denoted(bound[u][t]) ELSE driver[u][t]
<1> DEFINE UpToDate(i) ==
             /\ pushed[i].unit = pushed[i].last
             /\ \A u \in Units, t \in Targets :
                  pushed[i].names[u][t] = IF u < i THEN Denoted(bound[u][t]) ELSE driver[u][t]
           S == {i \in 0 .. N : UpToDate(i)}
<1>0. N \in Nat
  BY NAssumption
<1>1. 0 \in S
  <2>1. pushed[0] = Start /\ Start.unit = Start.last /\ Start.names = driver
    BY LoopRuns DEF Start, Synchronized
  <2> QED
    BY <1>0, <2>1 DEF Units
<1>2. ASSUME NEW i \in 0 .. N - 1, UpToDate(i)
      PROVE  UpToDate(i + 1)
  <2> DEFINE d == pushed[i]
             changed == {t \in Targets : Name(bound[i][t]) # Name(applied[i][t])}
             now == [t \in Targets |-> IF t \in changed THEN Denoted(bound[i][t])
                                                        ELSE d.names[i][t]]
  <2>1. i \in Units /\ i \in 0 .. N /\ pushed[i + 1] = PushUnit(d, i) /\ d \in LoopStates
    BY <1>0, LoopRuns DEF Units
  <2>2. (IF i # d.last THEN i ELSE d.unit) = i
    BY <1>2
  <2>3. pushed[i + 1] = IF changed = {} THEN d
                        ELSE [unit |-> i, last |-> i, names |-> [d.names EXCEPT ![i] = now]]
    BY <2>1, <2>2 DEF PushUnit
  <2>4. \A t \in Targets : d.names[i][t] = driver[i][t]
    BY <1>2, <2>1
  <2>5. \A t \in Targets \ changed : driver[i][t] = Denoted(bound[i][t])
    BY <2>1 DEF Synchronized
  <2>6. \A u \in Units : u < i + 1 <=> u < i \/ u = i
    BY <1>0 DEF Units
  <2>7. CASE changed = {}
    <3>1. pushed[i + 1] = d
      BY <2>3, <2>7
    <3>2. \A t \in Targets : d.names[i][t] = Denoted(bound[i][t])
      BY <2>4, <2>5, <2>7
    <3> QED
      BY <1>2, <2>6, <3>1, <3>2
  <2>8. CASE changed # {}
    <3>1. pushed[i + 1] = [unit |-> i, last |-> i, names |-> [d.names EXCEPT ![i] = now]]
      BY <2>3, <2>8
    <3>2. \A t \in Targets : now[t] = Denoted(bound[i][t])
      BY <2>4, <2>5
    <3>3. d.names \in [Units -> [Targets -> Names \cup {Stray}]]
      BY <2>1 DEF LoopStates, LoopBindings, Bindings
    <3> HIDE DEF now, changed, d
    <3>4. pushed[i + 1].unit = pushed[i + 1].last
      BY <3>1
    <3>5. \A u \in Units : pushed[i + 1].names[u] = IF u = i THEN now ELSE d.names[u]
      BY <3>1, <3>3
    <3>6. ASSUME NEW u \in Units, NEW t \in Targets
          PROVE  pushed[i + 1].names[u][t] = IF u < i + 1 THEN Denoted(bound[u][t])
                                                          ELSE driver[u][t]
      <4>1. CASE u = i
        BY <2>6, <3>2, <3>5, <4>1
      <4>2. CASE u # i
        BY <1>2, <2>6, <3>5, <4>2 DEF d
      <4> QED
        BY <4>1, <4>2
    <3> QED
      BY <3>4, <3>6
  <2> QED
    BY <2>7, <2>8
<1>3. \A i \in 0 .. N - 1 : i \in S => i + 1 \in S
  <2>1. \A i \in 0 .. N - 1 : i + 1 \in 0 .. N
    BY <1>0
  <2> HIDE DEF UpToDate
  <2> QED
    BY <1>2, <2>1
<1>4. \A i \in 0 .. N : i \in S
  <2> HIDE DEF S
  <2> QED
    BY <1>0, <1>1, <1>3, UpTo
<1> QED
  BY <1>4

LEMMA FlushExact ==
  ASSUME TextureInv, FlushState, Synchronized
  PROVE  driver' = [u \in Units |-> [t \in Targets |-> Denoted(bound[u][t])]]
<1>1. \A u \in Units, t \in Targets : driver'[u][t] = Denoted(bound[u][t])
  <2>1. CASE dirty
    <3>1. N \in 0 .. N /\ \A u \in Units : u < N
      BY NAssumption DEF Units
    <3>2. driver' = pushed[N].names
      BY <2>1 DEF FlushState, Apply
    <3> QED
      BY <3>1, <3>2, SynchronizedLoop
  <2>2. CASE ~dirty
    <3>1. driver' = driver
      BY <2>2 DEF FlushState, Apply
    <3>2. ASSUME NEW u \in Units, NEW t \in Targets
          PROVE  Name(bound[u][t]) = Name(applied[u][t])
      <4>1. Visible(bound)[u][t] = Visible(applied)[u][t]
        BY <2>2 DEF TextureInv, DirtySound
      <4> QED
        BY <4>1 DEF Visible
    <3> QED
      BY <3>1, <3>2 DEF Synchronized
  <2> QED
    BY <2>1, <2>2
<1>2. driver' \in [Units -> [Targets -> Names \cup {Stray}]]
  BY ApplyTextures DEF TextureInv, TypeOK, Bindings
<1>3. \A u \in Units : driver'[u] = [t \in Targets |-> Denoted(bound[u][t])]
  BY <1>1, <1>2
<1> QED
  BY <1>2, <1>3

\* Which steps make an entry name a texture that does not exist, or give the
\* driver a stray.
LEMMA DanglesStep ==
  ASSUME TextureInv, Next, NEW u \in Units, NEW t \in Targets
  PROVE  /\ Dangles(u, t)' /\ ~Dangles(u, t)
              => u = active /\ BindTexture(t, Name(bound'[u][t]))
         /\ driver'[u][t] = Stray /\ driver[u][t] # Stray
              => \E w \in Units : Dangles(w, t)
<1> DEFINE Goal == /\ Dangles(u, t)' /\ ~Dangles(u, t)
                        => u = active /\ BindTexture(t, Name(bound'[u][t]))
                   /\ driver'[u][t] = Stray /\ driver[u][t] # Stray
                        => \E w \in Units : Dangles(w, t)
<1>0. bound[u][t] \in Names \cup {Absent} /\ Zero \in Names /\ exists \subseteq Names
  BY DEF TextureInv, TypeOK, Maps, Names
<1>1. CASE \E n \in Textures : GenTexture(n)
  BY <1>1 DEF GenTexture, tracker, Dangles
<1>2. ASSUME NEW n \in Textures, DeleteTexture(n)
      PROVE  Goal
  <2>1. /\ exists' = exists \ {n}
        /\ bound'[u][t] = IF bound[u][t] = n THEN Zero ELSE bound[u][t]
        /\ driver'[u][t] = IF driver[u][t] = n THEN Zero ELSE driver[u][t]
    BY <1>2 DEF DeleteTexture
  <2>2. Name(Zero) = Zero /\ (Name(bound[u][t]) = n => bound[u][t] = n)
    BY <1>0, ZeroAndAbsent DEF Name
  <2>3. Name(bound'[u][t]) \notin exists' \cup {Zero}
          => Name(bound[u][t]) \notin exists \cup {Zero}
    BY <2>1, <2>2
  <2> QED
    BY <2>1, <2>3, ZeroAndAbsent DEF Dangles
<1>3. ASSUME NEW s \in Targets, Upload(s)
      PROVE  Goal
  <2> DEFINE n == Name(bound[active][s])
  <2>1. n \in exists /\ driver' = [driver EXCEPT ![selected][s] = n]
        /\ exists' = exists /\ bound' = bound
    BY <1>3 DEF Upload, tracker
  <2>2. n # Stray
    BY <2>1, ZeroAndAbsent DEF TextureInv, TypeOK
  <2> HIDE DEF n
  <2>3. driver'[u][t] = driver[u][t] \/ driver'[u][t] = n
    BY <2>1 DEF TextureInv, TypeOK, Bindings
  <2> QED
    BY <2>1, <2>2, <2>3 DEF Dangles
<1>4. CASE \E v \in Units : ActiveTexture(v)
  BY <1>4 DEF ActiveTexture, Dangles
<1>5. ASSUME NEW s \in Targets, NEW n \in Names, BindTexture(s, n)
      PROVE  Goal
  <2>1. /\ bound' = [bound EXCEPT ![active][s] = n]
        /\ exists' = exists /\ driver' = driver
    BY <1>5 DEF BindTexture, Bind
  <2>2. bound'[u][t] = IF u = active /\ t = s THEN n ELSE bound[u][t]
    BY <2>1 DEF TextureInv, TypeOK, Maps
  <2>3. Name(n) = n
    BY NamesAndAbsent
  <2>4. CASE u = active /\ t = s
    BY <1>5, <2>1, <2>2, <2>3, <2>4
  <2>5. CASE ~(u = active /\ t = s)
    BY <2>1, <2>2, <2>5 DEF Dangles
  <2> QED
    BY <2>4, <2>5
<1>6. ASSUME NEW v \in Units, NEW n \in Names, BindTextureUnit(v, n)
      PROVE  Goal
  <2>1. /\ bound' = [bound EXCEPT ![v] = AssignUnit(bound[v], n)]
        /\ exists' = exists /\ driver' = driver /\ n \in exists \cup {Zero}
    BY <1>6 DEF BindTextureUnit, Bind
  <2>2. bound'[u] = IF u = v THEN AssignUnit(bound[u], n) ELSE bound[u]
    BY <2>1 DEF TextureInv, TypeOK, Maps
  <2>3. bound[u] \in [Targets -> Names \cup {Absent}]
    BY DEF TextureInv, TypeOK, Maps
  <2>4. bound'[u][t] \in {bound[u][t], n, Absent}
    BY <2>2, <2>3 DEF AssignUnit
  <2>5. Name(n) = n /\ Name(Absent) = Zero
    BY <2>1, <1>0, NamesAndAbsent DEF Name
  <2> QED
    BY <2>1, <2>4, <2>5 DEF Dangles
<1>7. ASSUME NEW first \in Units, NEW k \in 1 .. N, NEW names \in [1 .. k -> Names],
             BindTextures(first, names)
      PROVE  Goal
  <2> DEFINE Given(v) == names[v - first + 1]
             Takes(v) == /\ v \in first .. first + Len(names) - 1
                         /\ Given(v) \in exists \cup {Zero}
  <2>1. /\ bound'[u] = IF Takes(u) THEN AssignUnit(bound[u], Given(u)) ELSE bound[u]
        /\ exists' = exists /\ driver' = driver
    BY <1>7 DEF BindTextures, Bind
  <2>2. bound[u] \in [Targets -> Names \cup {Absent}]
    BY DEF TextureInv, TypeOK, Maps
  <2>3. CASE Takes(u)
    <3>1. PICK n \in exists \cup {Zero} : n = Given(u)
      BY <2>3
    <3>2. bound'[u][t] \in {bound[u][t], n, Absent}
      BY <2>1, <2>2, <2>3, <3>1 DEF AssignUnit
    <3>3. Name(n) = n /\ Name(Absent) = Zero
      BY <1>0, NamesAndAbsent DEF Name
    <3> QED
      BY <2>1, <3>2, <3>3 DEF Dangles
  <2>4. CASE ~Takes(u)
    BY <2>1, <2>4 DEF Dangles
  <2> QED
    BY <2>3, <2>4
<1>8. CASE FlushState
  <2>1. exists' = exists /\ bound' = bound
    BY <1>8 DEF FlushState, Apply
  <2>2. driver'[u][t] = Stray => StrayAt(u, t)
    BY <1>8, ApplyTextures DEF LoopBindings
  <2> QED
    BY <2>1, <2>2 DEF Dangles, StrayAt
<1> QED
  BY <1>1, <1>2, <1>3, <1>4, <1>5, <1>6, <1>7, <1>8 DEF Next

\* The flag of the category is sound: when textureUnitsDirty_ is clear, every
\* unit, every target and the active unit are as they were last pushed.
THEOREM UnitFlagSound == Spec => []DirtySound
<1>1. TextureInv => DirtySound
  BY DEF TextureInv
<1> QED
  BY <1>1, TextureAlways, PTL

\* glDeleteTextures leaves no binding to the texture in any unit: an entry comes to
\* name a texture that does not exist only by a glBindTexture of that name, and the
\* driver is given a number that is not the texture's only while there is one.
THEOREM DeletedNowhereBound == Spec => DanglesOnlyIfBound
<1>1. TextureInv /\ [Next]_vars =>
        [\A u \in Units, t \in Targets :
           /\ Dangles(u, t)' /\ ~Dangles(u, t)
                => u = active /\ BindTexture(t, Name(bound'[u][t]))
           /\ driver'[u][t] = Stray /\ driver[u][t] # Stray
                => \E w \in Units : Dangles(w, t)]_vars
  BY DanglesStep
<1> QED
  BY <1>1, TextureAlways, PTL DEF Spec, DanglesOnlyIfBound

\* apply()'s loop over the units, with its belief about the driver's selected
\* unit, brings a synchronized driver to exactly the frontend's bindings.
THEOREM FlushesExact == Spec => FlushExactIfSynchronized
<1>1. TextureInv /\ [Next]_vars => [FlushState /\ Synchronized =>
           driver' = [u \in Units |-> [t \in Targets |-> Denoted(bound[u][t])]]]_vars
  BY FlushExact
<1> QED
  BY <1>1, TextureAlways, PTL DEF Spec, FlushExactIfSynchronized

\* A behaviour of the two checked together is one of each.
LEMMA BothBehave == MCSpec => Spec /\ ProgramSpec
<1>1. MCInit => Init /\ ProgramInit
  BY DEF MCInit
<1>2. [MCNext]_<<moves, vars, programVars>> => [Next]_vars /\ [ProgramNext]_programVars
  BY DEF MCNext
<1> QED
  BY <1>1, <1>2, PTL DEF MCSpec, Spec, ProgramSpec

\* The tables of both keep their types and, for programs, what relates them: each
\* program has a handle of its own, which is live and is what nativeMap_ says.
THEOREM BindingTypes == MCSpec => []MCTypeOK
<1>1. TextureInv /\ ProgramInv => MCTypeOK
  BY DEF TextureInv, ProgramInv, MCTypeOK
<1> QED
  BY <1>1, BothBehave, TextureAlways, ProgramAlways, PTL
=============================================================================
