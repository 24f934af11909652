--------------------------- MODULE ProgramBinding ---------------------------
(***************************************************************************)
(* Programs from the frontend to the driver: names and link status in      *)
(* Context, the program category of GLStateTracker, the map from names to  *)
(* native handles in GLESBackend, the cache of the driver's current        *)
(* program in the loader (GLESLib::currentProgram), and the uniform calls  *)
(* of GLESBackendProgram, which bind their program in the driver.          *)
(***************************************************************************)
EXTENDS Integers, Functions

CONSTANTS
  MaxName,    \* bound: how many programs are created
  MaxHandle,  \* bound: how many program handles the driver has
  Nothing     \* no program; no draw, no uniform write

ASSUME BoundsType  == MaxName \in Nat \ {0} /\ MaxHandle \in Nat \ {0}
ASSUME NothingType == Nothing \notin Nat

ProgramNames == 1 .. MaxName
Handles      == 1 .. MaxHandle

VARIABLES
  nextName,      \* nextName_
  programs,      \* programs_: the handle behind each name that exists
  linked,        \* ProgramObject::linked
  nativeMap,     \* nativeMap_: entries are never removed
  activeProgram, \* activeProgram_
  programDirty,  \* programDirty_
  cached,        \* GLESLib::currentProgram
  native,        \* the driver: the state of each handle
  built,         \* the driver: the handles whose last link succeeded
  current,       \* the driver: the program in use
  boundBy,       \* what last bound a program in the driver: a flush, a uniform call,
                 \* or nothing, because the driver refused the program
  drawn,         \* the program the last call drew with
  wrote          \* the program the last call wrote a uniform of

programFrontend == <<nextName, programs, linked, activeProgram, programDirty>>
programDriver == <<native, built, current>>
programVars   == <<programFrontend, nativeMap, cached, programDriver, boundBy, drawn, wrote>>

\* A program as the application names it and as the driver does.
Seen == [program : ProgramNames, handle : Handles \cup {0}] \cup {Nothing}

Exists(n) == n \in DOMAIN programs

\* Type invariant, with what relates the tables: only programs that exist are
\* linked, each has a handle of its own, and its entry in nativeMap_ is right.
ProgramTypeOK ==
  /\ nextName \in 1 .. MaxName + 1
  /\ DOMAIN programs \cup DOMAIN nativeMap \subseteq 1 .. nextName - 1
  /\ Range(programs) \subseteq {h \in Handles : native[h] = "live"}
  /\ \A m, n \in DOMAIN programs : programs[m] = programs[n] => m = n
  /\ \A n \in DOMAIN programs \cap DOMAIN nativeMap : nativeMap[n] = programs[n]
  /\ linked \subseteq DOMAIN programs \cap DOMAIN nativeMap
  /\ activeProgram \in 0 .. MaxName /\ programDirty \in BOOLEAN
  /\ native \in [Handles -> {"free", "live", "doomed"}]
  /\ built \subseteq Handles
  /\ cached \in Handles \cup {0} /\ current \in Handles \cup {0}
  /\ boundBy \in {"flush", "uniform", "refused"}
  /\ drawn \in Seen /\ wrote \in Seen

ProgramInit ==
  /\ nextName = 1 /\ programs = <<>> /\ linked = {} /\ nativeMap = <<>>
  /\ activeProgram = 0 /\ programDirty = FALSE
  /\ cached = 0 /\ current = 0 /\ boundBy = "flush"
  /\ native = [h \in Handles |-> "free"] /\ built = {}
  /\ drawn = Nothing /\ wrote = Nothing

Quiet == drawn' = Nothing /\ wrote' = Nothing
-----------------------------------------------------------------------------
(* The driver. *)

\* glUseProgram(h): a program that is not linked is refused; a deleted program
\* that was in use is freed.
Usable(h) == h = 0 \/ (h \in built /\ native[h] # "free")

DriverUse(h) ==
  /\ current' = IF Usable(h) THEN h ELSE current
  /\ native' = [g \in Handles |-> IF native[g] = "doomed" /\ current' # g
                                    THEN "free" ELSE native[g]]
  /\ built' = {g \in built : native'[g] # "free"}

\* Who bound the program when h is used.
Binder(h, who) == IF Usable(h) THEN who ELSE "refused"

\* GLESBackend::useProgram: the sink's half of a flush.
NativeOf(n) == IF n \in DOMAIN nativeMap THEN nativeMap[n] ELSE n

MutSinkUse == DriverUse(NativeOf(activeProgram)) /\ cached' = cached

SinkUse == DriverUse(NativeOf(activeProgram)) /\ cached' = NativeOf(activeProgram)

\* GLESBackendProgram::bind
MutBindNative(h) ==
  IF cached # h THEN DriverUse(h) /\ cached' = cached
                ELSE UNCHANGED <<programDriver, cached>>

BindNative(h) ==
  IF cached # h THEN DriverUse(h) /\ cached' = h
                ELSE UNCHANGED <<programDriver, cached>>
-----------------------------------------------------------------------------
(* The calls of the application. *)

CreateProgram(h) ==
  /\ nextName <= MaxName
  /\ native[h] = "free"
  /\ nextName' = nextName + 1
  /\ programs' = [n \in DOMAIN programs \cup {nextName} |->
                    IF n = nextName THEN h ELSE programs[n]]
  /\ native' = [native EXCEPT ![h] = "live"]
  /\ Quiet
  /\ UNCHANGED <<linked, activeProgram, programDirty, nativeMap, cached, built, current,
                 boundBy>>

LinkProgram(n, ok) ==
  LET h == programs[n] IN
  /\ Exists(n)
  /\ linked' = IF ok THEN linked \cup {n} ELSE linked \ {n}
  /\ built' = IF ok THEN built \cup {h} ELSE built \ {h}
  /\ nativeMap' = [m \in DOMAIN nativeMap \cup {n} |-> IF m = n THEN h ELSE nativeMap[m]]
  /\ Quiet
  /\ UNCHANGED <<nextName, programs, activeProgram, programDirty, cached, native, current,
                 boundBy>>

\* glUseProgram refuses a program that does not exist or is not linked.
MutUseProgram(n) ==
  /\ n = 0 \/ n \in linked
  /\ activeProgram' = n
  /\ programDirty' = (activeProgram = n)
  /\ Quiet
  /\ UNCHANGED <<nextName, programs, linked, nativeMap, cached, programDriver, boundBy>>

UseProgram(n) ==
  /\ n = 0 \/ n \in linked
  /\ activeProgram' = n
  /\ programDirty' = (programDirty \/ activeProgram # n)
  /\ Quiet
  /\ UNCHANGED <<nextName, programs, linked, nativeMap, cached, programDriver, boundBy>>

\* The native program goes with its object; the driver keeps one that is in
\* use until another is used.
DeleteProgram(n) ==
  LET h == programs[n] IN
  /\ Exists(n)
  /\ activeProgram' = IF activeProgram = n THEN 0 ELSE activeProgram
  /\ programDirty' = (programDirty \/ activeProgram = n)
  /\ programs' = Restrict(programs, DOMAIN programs \ {n})
  /\ linked' = linked \ {n}
  /\ native' = [native EXCEPT ![h] = IF current = h THEN "doomed" ELSE "free"]
  /\ built' = IF current = h THEN built ELSE built \ {h}
  /\ Quiet
  /\ UNCHANGED <<nextName, nativeMap, cached, current, boundBy>>

WriteUniform(n) ==
  /\ n \in linked
  /\ BindNative(programs[n])
  /\ boundBy' = IF cached # programs[n] THEN Binder(programs[n], "uniform") ELSE boundBy
  /\ drawn' = Nothing /\ wrote' = [program |-> n, handle |-> current']
  /\ UNCHANGED <<programFrontend, nativeMap>>

\* glUniform* writes the active program, glProgramUniform* the program named.
Uniform           == WriteUniform(activeProgram)
ProgramUniform(n) == WriteUniform(n)

\* flushState: the program category of apply().
FlushProgram ==
  /\ IF programDirty THEN SinkUse /\ boundBy' = Binder(NativeOf(activeProgram), "flush")
              ELSE UNCHANGED <<programDriver, cached, boundBy>>
  /\ programDirty' = FALSE
  /\ UNCHANGED <<nextName, programs, linked, activeProgram, nativeMap>>

\* A draw without a program is an error; glClear flushes without one.
DrawProgram ==
  /\ activeProgram # 0
  /\ FlushProgram
  /\ drawn' = [program |-> activeProgram, handle |-> current'] /\ wrote' = Nothing

ClearProgram == FlushProgram /\ Quiet

ProgramNext ==
  \/ \E h \in Handles : CreateProgram(h)
  \/ \E n \in DOMAIN programs, ok \in BOOLEAN : LinkProgram(n, ok)
  \/ \E n \in 0 .. MaxName : UseProgram(n)
  \/ \E n \in DOMAIN programs : DeleteProgram(n)
  \/ Uniform
  \/ \E n \in ProgramNames : ProgramUniform(n)
  \/ DrawProgram
  \/ ClearProgram

ProgramSpec == ProgramInit /\ [][ProgramNext]_programVars
-----------------------------------------------------------------------------
\* "The shared loader's currentProgram is the single source of truth"
\* (gles_resources.hpp:1210-1213): across flushes, uniform calls, deletions and
\* handles that are used again, it is the program the driver has in use, unless
\* the driver refused the last one, which had failed to relink.
CacheCoherent == boundBy # "refused" => cached = current

\* A uniform goes to the program it is meant for, though the bind before it may
\* be skipped and the driver may have another program in use.
UniformReachesItsProgram ==
  wrote # Nothing /\ boundBy # "refused" => wrote.handle = programs[wrote.program]

\* Where the program in use was last bound by a flush, a draw runs the active
\* program, whatever was created, deleted, relinked and used in between.
FlushedDrawExact ==
  drawn # Nothing /\ boundBy = "flush" => drawn.handle = programs[drawn.program]
=============================================================================
