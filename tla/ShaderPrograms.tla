---------------------------- MODULE ShaderPrograms ----------------------------
(***************************************************************************)
(* Shaders and the programs they are linked into. Context keeps the list   *)
(* of shaders of a program and attaches them in the driver when it links;   *)
(* a shader is translated before the driver compiles it; the driver keeps   *)
(* the code it compiled last, a deleted shader as long as a program holds   *)
(* it, and in OpenGL ES one shader of a program per stage.                  *)
(***************************************************************************)
EXTENDS Integers, SequencesExt

CONSTANTS
  Shaders,        \* names of shaders, and of programs; one that nothing refers to
  Programs,       \* any more stands for the next that nextName_ gives
  VertexShaders,  \* the other shaders are of another stage
  MaxShaders,     \* bound: shaders that exist at a time
  MaxAttached     \* bound: attached shaders of a program

ASSUME ShaderStages == VertexShaders \subseteq Shaders
ASSUME ShaderBounds == MaxAttached \in Nat \ {0} /\ MaxShaders \in Nat

\* A source by what becomes of it: it compiles; the translator or the version
\* check refuses it; the driver refuses its translation.
Sources == {"compiles", "untranslatable", "rejected"}
NoCode  == "none"

VARIABLES
  shaders,          \* keys of shaders_
  source,           \* ShaderObject::source
  compiled,         \* the shaders with ShaderObject::compiled
  shaderPrograms,   \* keys of programs_
  attachedShaders,  \* ProgramObject::attachedShaders
  linkedPrograms,   \* the programs with ProgramObject::linked
  \* The driver.
  driverCode,       \* the source a shader was compiled from last, or NoCode
  driverAttached,   \* the shaders of a program
  \* History.
  tidy              \* programs that, since they were last empty, had no shader
                    \* deleted while attached nor two shaders of a stage

shVars == <<shaders, source, compiled, driverCode>>
prVars == <<shaderPrograms, attachedShaders, linkedPrograms, driverAttached, tidy>>
shaderVars == <<shVars, prVars>>

SPTypeOK ==
  /\ shaders \subseteq Shaders /\ compiled \subseteq shaders
  /\ source \in [Shaders -> Sources \cup {NoCode}]
  /\ driverCode \in [Shaders -> {"compiles", "rejected", NoCode}]
  /\ \A s \in compiled : driverCode[s] = "compiles"
  /\ shaderPrograms \subseteq Programs
  /\ linkedPrograms \subseteq shaderPrograms /\ tidy \subseteq shaderPrograms
  /\ DOMAIN attachedShaders = Programs /\ DOMAIN driverAttached = Programs
  /\ \A p \in Programs : /\ ToSet(attachedShaders[p]) \cup driverAttached[p] \subseteq Shaders
                         /\ Len(attachedShaders[p]) <= MaxAttached

SPInit ==
  /\ shaders = {} /\ compiled = {} /\ shaderPrograms = {} /\ linkedPrograms = {}
  /\ source = [s \in Shaders |-> NoCode] /\ driverCode = [s \in Shaders |-> NoCode]
  /\ attachedShaders = [p \in Programs |-> <<>>]
  /\ driverAttached = [p \in Programs |-> {}]
  /\ tidy = {}

Attached(p) == ToSet(attachedShaders[p])
SameStage(s, t) == s \in VertexShaders <=> t \in VertexShaders

Unused(s) == s \notin shaders /\ \A p \in Programs : s \notin Attached(p) \cup driverAttached[p]

\* After the step: an empty program is tidy again.
Tidy(programs, untidy) ==
  tidy' = {p \in programs : \/ attachedShaders'[p] = <<>> /\ driverAttached'[p] = {}
                            \/ p \in tidy \ untidy}
-----------------------------------------------------------------------------
(* Shaders. *)

CreateShader(s) ==
  /\ Unused(s) /\ Cardinality(shaders) < MaxShaders
  /\ shaders' = shaders \cup {s}
  /\ driverCode' = [driverCode EXCEPT ![s] = NoCode]
  /\ UNCHANGED <<source, compiled, prVars>>

ShaderSource(s, src) ==
  /\ s \in shaders
  /\ source' = [source EXCEPT ![s] = src]
  /\ UNCHANGED <<shaders, compiled, driverCode, prVars>>

\* What the driver has of a shader after compileShader: a source that is not
\* translated never reaches it.
Compile(src, code) == IF src = "untranslatable" THEN code ELSE src

CompileShader(s) ==
  /\ s \in shaders /\ source[s] # NoCode
  /\ driverCode' = [driverCode EXCEPT ![s] = Compile(source[s], @)]
  /\ compiled' = IF source[s] = "compiles" THEN compiled \cup {s} ELSE compiled \ {s}
  /\ UNCHANGED <<shaders, source, prVars>>

\* The programs keep its name, and the driver keeps it for them.
DeleteShader(s) ==
  /\ s \in shaders
  /\ shaders' = shaders \ {s} /\ compiled' = compiled \ {s}
  /\ source' = [source EXCEPT ![s] = NoCode]
  /\ UNCHANGED <<driverCode, shaderPrograms, attachedShaders, linkedPrograms,
                 driverAttached>>
  /\ Tidy(shaderPrograms, {p \in Programs : s \in Attached(p) \cup driverAttached[p]})
-----------------------------------------------------------------------------
(* Programs. *)

CreateProgram(p) ==
  /\ p \notin shaderPrograms
  /\ shaderPrograms' = shaderPrograms \cup {p}
  /\ tidy' = tidy \cup {p}
  /\ UNCHANGED <<shVars, attachedShaders, linkedPrograms, driverAttached>>

DeleteProgram(p) ==
  /\ p \in shaderPrograms
  /\ shaderPrograms' = shaderPrograms \ {p}
  /\ attachedShaders' = [attachedShaders EXCEPT ![p] = <<>>]
  /\ driverAttached' = [driverAttached EXCEPT ![p] = {}]
  /\ linkedPrograms' = linkedPrograms \ {p}
  /\ tidy' = tidy \ {p}
  /\ UNCHANGED shVars

\* The driver is told when the program is linked.
AttachShader(p, s) ==
  /\ p \in shaderPrograms /\ s \in shaders
  /\ Len(attachedShaders[p]) < MaxAttached
  /\ attachedShaders' = [attachedShaders EXCEPT ![p] = Append(@, s)]
  /\ UNCHANGED <<shVars, shaderPrograms, linkedPrograms, driverAttached>>
  /\ Tidy(shaderPrograms, {q \in {p} : \E t \in Attached(q) \ {s} : SameStage(s, t)})

\* A list without the entries that are a shader's.
Without(list, s) ==
  LET kept[k \in 0 .. Len(list)] ==
        IF k = 0 THEN <<>>
        ELSE IF list[k] = s THEN kept[k - 1] ELSE Append(kept[k - 1], list[k])
  IN  kept[Len(list)]

DetachShader(p, s) ==
  /\ p \in shaderPrograms /\ s \in shaders
  /\ attachedShaders' = [attachedShaders EXCEPT ![p] = Without(@, s)]
  /\ driverAttached' = [driverAttached EXCEPT ![p] = @ \ {s}]
  /\ UNCHANGED <<shVars, shaderPrograms, linkedPrograms>>
  /\ Tidy(shaderPrograms, {})

\* The driver's shaders of a program once one more is attached: a deleted one is
\* left out, one of a stage that is taken is refused.
Attaching(held, s) ==
  IF s \in shaders /\ \A t \in held : ~SameStage(s, t) THEN held \cup {s} ELSE held

\* The loop over a list of shaders.
DriverAttach(list, held) ==
  LET taken[k \in 0 .. Len(list)] ==
        IF k = 0 THEN held ELSE Attaching(taken[k - 1], list[k])
  IN  taken[Len(list)]

\* glLinkProgram of the driver, for programs whose shaders match.
DriverLinks(held, code) == held # {} /\ \A s \in held : code[s] = "compiles"

Linked(p, held) ==
  linkedPrograms' = IF DriverLinks(held, driverCode) THEN linkedPrograms \cup {p}
                                                     ELSE linkedPrograms \ {p}

\* The driver attaches the shaders when the program is first linked only.
MutLinkProgram(p) ==
  LET held == IF p \in linkedPrograms THEN driverAttached[p]
                ELSE DriverAttach(attachedShaders[p], driverAttached[p])
  IN  /\ p \in shaderPrograms
      /\ driverAttached' = [driverAttached EXCEPT ![p] = held]
      /\ Linked(p, held)
      /\ UNCHANGED <<shVars, shaderPrograms, attachedShaders>>
      /\ Tidy(shaderPrograms, {})

LinkProgram(p) ==
  LET held == DriverAttach(attachedShaders[p], driverAttached[p])
  IN  /\ p \in shaderPrograms
      /\ driverAttached' = [driverAttached EXCEPT ![p] = held]
      /\ Linked(p, held)
      /\ UNCHANGED <<shVars, shaderPrograms, attachedShaders>>
      /\ Tidy(shaderPrograms, {})

\* A shader is created, compiled, attached, linked and deleted.
CreateShaderProgramv(p, s, src) ==
  /\ p \notin shaderPrograms /\ Unused(s) /\ src # NoCode
  /\ driverCode' = [driverCode EXCEPT ![s] = Compile(src, NoCode)]
  /\ shaderPrograms' = shaderPrograms \cup {p}
  /\ attachedShaders' = [attachedShaders EXCEPT ![p] = <<s>>]
  /\ driverAttached' = [driverAttached EXCEPT ![p] = {s}]
  /\ linkedPrograms' = IF src = "compiles" THEN linkedPrograms \cup {p} ELSE linkedPrograms
  /\ UNCHANGED <<shaders, source, compiled, tidy>>

SPNext ==
  \/ \E s \in Shaders : CreateShader(s) \/ CompileShader(s) \/ DeleteShader(s)
  \/ \E s \in Shaders, src \in Sources : ShaderSource(s, src)
  \/ \E p \in Programs : CreateProgram(p) \/ DeleteProgram(p) \/ LinkProgram(p)
  \/ \E p \in Programs, s \in Shaders : AttachShader(p, s) \/ DetachShader(p, s)
  \/ \E p \in Programs, s \in Shaders, src \in Sources : CreateShaderProgramv(p, s, src)

SPSpec == SPInit /\ [][SPNext]_shaderVars
-----------------------------------------------------------------------------
\* The driver never keeps a shader the program was told to give up
\* (glDetachShader), across any number of links.
NoShaderLeftBehind ==
  \A p \in tidy : driverAttached[p] \subseteq Attached(p)

\* A link builds the program from exactly the shaders that are attached to it,
\* recompiled, detached and replaced ones included, and it succeeds when the last
\* compilation of each of them did.
LinkBuildsAttached ==
  [][\A p \in tidy : LinkProgram(p) =>
       /\ driverAttached'[p] = Attached(p)
       /\ Attached(p) # {} /\ Attached(p) \subseteq compiled => p \in linkedPrograms']_shaderVars

\* "a shader may be attached before its source is loaded or it is compiled; only
\* linking rejects an uncompiled shader" (context.cpp:8075).
LinkRejectsUncompiled ==
  \A p \in shaderPrograms :
    DriverLinks(DriverAttach(attachedShaders[p], driverAttached[p]), driverCode)
      => Attached(p) \cap shaders \subseteq compiled
=============================================================================
