------------------------------ MODULE EglShim ------------------------------
(***************************************************************************)
(* The libEGL shim (src/egl_shim/egl_shim.cpp): the registry of YAGLT      *)
(* contexts, one per context of the host EGL, and the current context of   *)
(* the gl* entry points.  Creating, destroying and making current first    *)
(* call the host and then, as a separate step, touch the registry, so that *)
(* the operations of different threads interleave between the two.         *)
(***************************************************************************)
EXTENDS Integers, FiniteSets

CONSTANTS
  Threads,
  Handles,      \* EGLContext values the host may return
  Objects,      \* YAGLT contexts, each with its GLES backend
  NoContext,    \* EGL_NO_CONTEXT
  NoObject,     \* a null Context pointer; a handle that is not in the map
  Nothing,      \* "the last call was not a gl* call that ran"
  Prompt        \* the handles that the host may give out again while the shim has
                \* not finished the destruction of the context that had them

ASSUME NoContextIsNoHandle == NoContext \notin Handles
ASSUME NoObjectIsNoObject  == NoObject \notin Objects
ASSUME PromptType          == Prompt \subseteq Handles

VARIABLES
  host,         \* the host's view of a handle
  hostCurrent,  \* the host context current on each thread
  registry,     \* g_contexts: handle -> YAGLT context
  alive,        \* the YAGLT contexts that are allocated
  spent,        \* the YAGLT contexts that were deleted
  initialized,  \* ShimContext::initialized
  adopted,      \* the handle each backend adopted (setAdopt)
  current,      \* g_current, one for the process
  pc,           \* what each thread does between the host's step and its own
  gl            \* who ran the last gl* call on which YAGLT context

hostVars == <<host, hostCurrent>>
shimVars == <<registry, alive, spent, initialized, adopted, current>>
vars == <<hostVars, shimVars, pc, gl>>

Idle == [op |-> "idle", handle |-> NoContext]
Ops  == [op : {"create", "destroy", "activate"}, handle : Handles \cup {NoContext}]

TypeOK ==
  /\ host \in [Handles -> {"free", "live", "doomed"}]
  /\ hostCurrent \in [Threads -> Handles \cup {NoContext}]
  /\ registry \in [Handles -> Objects \cup {NoObject}]
  /\ alive \subseteq Objects /\ spent \subseteq Objects /\ initialized \subseteq Objects
  /\ adopted \in [Objects -> Handles \cup {NoContext}]
  /\ current \in Objects \cup {NoObject}
  /\ pc \in [Threads -> Ops \cup {Idle}]
  /\ gl \in [thread : Threads, object : Objects] \cup {Nothing}

Init ==
  /\ host = [h \in Handles |-> "free"]
  /\ hostCurrent = [t \in Threads |-> NoContext]
  /\ registry = [h \in Handles |-> NoObject]
  /\ alive = {} /\ spent = {} /\ initialized = {}
  /\ adopted = [o \in Objects |-> NoContext]
  /\ current = NoObject
  /\ pc = [t \in Threads |-> Idle]
  /\ gl = Nothing

Begin(t, op, h) ==
  /\ pc[t] = Idle
  /\ pc' = [pc EXCEPT ![t] = [op |-> op, handle |-> h]]
  /\ gl' = Nothing
  /\ UNCHANGED shimVars

End(t, op) ==
  /\ pc[t].op = op
  /\ pc' = [pc EXCEPT ![t] = Idle]
  /\ gl' = Nothing
  /\ UNCHANGED hostVars

\* No call on the handle is under way.
Settled(h)   == \A t \in Threads : pc[t].handle # h
IsCurrent(h) == \E t \in Threads : hostCurrent[t] = h

\* An application uses a handle only once eglCreateContext has returned it.
Returned(h) == \A t \in Threads : pc[t] # [op |-> "create", handle |-> h]
-----------------------------------------------------------------------------
(* The calls to the host. *)

\* Bound: a YAGLT context is left for every creation under way.
RoomForObject ==
  Cardinality(alive \cup spent \cup {u \in Threads : pc[u].op = "create"})
    < Cardinality(Objects)

HostCreate(t, h) ==
  /\ RoomForObject
  /\ host[h] = "free"
  /\ h \in Prompt \/ Settled(h)
  /\ host' = [host EXCEPT ![h] = "live"]
  /\ UNCHANGED hostCurrent
  /\ Begin(t, "create", h)

\* A context that is current lives on until its thread releases it.
HostDestroy(t, h) ==
  /\ host[h] = "live"
  /\ Returned(h)
  /\ host' = [host EXCEPT ![h] = IF IsCurrent(h) THEN "doomed" ELSE "free"]
  /\ UNCHANGED hostCurrent
  /\ Begin(t, "destroy", h)

\* The host refuses a context that is destroyed or current on another thread.
HostMakeCurrent(t, h) ==
  /\ h # NoContext => /\ host[h] = "live"
                      /\ \A u \in Threads \ {t} : hostCurrent[u] # h
                      /\ Returned(h)
  /\ hostCurrent' = [hostCurrent EXCEPT ![t] = h]
  /\ host' = [g \in Handles |-> IF host[g] = "doomed" /\ hostCurrent[t] = g
                                  THEN "free" ELSE host[g]]
  /\ Begin(t, "activate", h)
-----------------------------------------------------------------------------
(* What the shim does when the host has answered. *)

\* Under g_mapMutex; an entry the handle had is overwritten.
Register(t, o) ==
  /\ End(t, "create")
  /\ o \notin alive \cup spent
  /\ registry' = [registry EXCEPT ![pc[t].handle] = o]
  /\ alive' = alive \cup {o}
  /\ UNCHANGED <<spent, initialized, adopted, current>>

\* Under g_mapMutex: shut the backend down, delete both, erase the entry.
MutUnregister(t) ==
  /\ End(t, "destroy")
  /\ alive' = alive \ {registry[pc[t].handle]}
  /\ spent' = spent \cup ({registry[pc[t].handle]} \ {NoObject})
  /\ UNCHANGED <<registry, initialized, adopted, current>>

\* Keeping the entry of a context that is still current, which EGL keeps too.
MutUnregisterCurrent(t) ==
  LET o == registry[pc[t].handle] IN
  /\ End(t, "destroy")
  /\ IF host[pc[t].handle] = "doomed" THEN UNCHANGED <<alive, spent, registry>>
     ELSE /\ alive' = alive \ {o}
          /\ spent' = spent \cup ({o} \ {NoObject})
          /\ registry' = [registry EXCEPT ![pc[t].handle] = NoObject]
  /\ UNCHANGED <<initialized, adopted, current>>

Unregister(t) ==
  LET o == registry[pc[t].handle] IN
  /\ End(t, "destroy")
  /\ alive' = alive \ {o}
  /\ spent' = spent \cup ({o} \ {NoObject})
  /\ registry' = [registry EXCEPT ![pc[t].handle] = NoObject]
  /\ UNCHANGED <<initialized, adopted, current>>

\* Returning early for a context that is already initialized.
MutActivateEarly(t, up) ==
  LET h == pc[t].handle
      o == IF h = NoContext THEN NoObject ELSE registry[h]
  IN  /\ End(t, "activate")
      /\ current' = IF o \in initialized THEN current ELSE o
      /\ adopted' = IF o = NoObject \/ o \in initialized
                      THEN adopted ELSE [adopted EXCEPT ![o] = h]
      /\ initialized' = IF o # NoObject /\ up
                          THEN initialized \cup {o} ELSE initialized
      /\ UNCHANGED <<registry, alive, spent>>

\* Leaving g_current alone when no context is made current.
MutActivate(t, up) ==
  LET h == pc[t].handle
      o == IF h = NoContext THEN NoObject ELSE registry[h]
  IN  /\ End(t, "activate")
      /\ current' = IF o = NoObject THEN current ELSE o
      /\ adopted' = IF o = NoObject \/ o \in initialized
                      THEN adopted ELSE [adopted EXCEPT ![o] = h]
      /\ initialized' = IF o # NoObject /\ up
                          THEN initialized \cup {o} ELSE initialized
      /\ UNCHANGED <<registry, alive, spent>>

\* Missing the early returns for no context and for an unknown one.
MutActivateNull(t, up) ==
  LET h == pc[t].handle
      o == IF h = NoContext THEN NoObject ELSE registry[h]
  IN  /\ End(t, "activate")
      /\ current' = o
      /\ adopted' = IF o \in {NoObject} \cup initialized
                      THEN adopted ELSE [adopted EXCEPT ![o] = h]
      /\ initialized' = IF up THEN initialized \cup {o} ELSE initialized
      /\ UNCHANGED <<registry, alive, spent>>

\* activateContext: a context is adopted and initialized when it becomes current and
\* is not yet, and g_current is set whether or not its backend comes `up`.
Activate(t, up) ==
  LET h == pc[t].handle
      o == IF h = NoContext THEN NoObject ELSE registry[h]
  IN  /\ End(t, "activate")
      /\ current' = o
      /\ adopted' = IF o = NoObject \/ o \in initialized
                      THEN adopted ELSE [adopted EXCEPT ![o] = h]
      /\ initialized' = IF o # NoObject /\ up
                          THEN initialized \cup {o} ELSE initialized
      /\ UNCHANGED <<registry, alive, spent>>

\* A gl* entry point: nothing without a current context, else it runs on that
\* context, whose native calls reach the host context of the calling thread.
GLCall(t) ==
  /\ pc[t] = Idle
  /\ gl' = IF current = NoObject THEN Nothing ELSE [thread |-> t, object |-> current]
  /\ UNCHANGED <<hostVars, shimVars, pc>>

Next ==
  \E t \in Threads :
    \/ \E h \in Handles : HostCreate(t, h)
    \/ \E h \in Handles : HostDestroy(t, h)
    \/ \E h \in Handles \cup {NoContext} : HostMakeCurrent(t, h)
    \/ \E o \in Objects : Register(t, o)
    \/ Unregister(t)
    \/ \E up \in BOOLEAN : Activate(t, up)
    \/ GLCall(t)

Spec == Init /\ [][Next]_vars

\* A thread that is inside a call of the shim finishes it: nothing there waits
\* but for g_mapMutex, which is held for a bounded time. Nothing is assumed of
\* the calls the application makes.
Finish(t) ==
  \/ \E o \in Objects : Register(t, o)
  \/ Unregister(t)
  \/ \E up \in BOOLEAN : Activate(t, up)
FairSpec == Spec /\ \A t \in Threads : WF_vars(Finish(t))
-----------------------------------------------------------------------------
\* Whatever handles the host gives out: a YAGLT context is registered under one
\* handle at most, an entry of g_contexts is never of a deleted context, and the
\* entry of a handle the host has destroyed lasts no longer than the call that
\* destroyed it.
EntriesOwned ==
  /\ \A h \in Handles : registry[h] \in alive \cup {NoObject}
  /\ \A h, g \in Handles : registry[h] = registry[g] => h = g \/ registry[h] = NoObject
  /\ \A h \in Handles :
       host[h] # "live" /\ registry[h] # NoObject =>
         \E t \in Threads : pc[t] = [op |-> "destroy", handle |-> h]

\* "the backend adopts the application's real EGL context so YAGLT issues
\* native GL on it" (egl_shim.cpp:20-21): while no other thread has a context
\* or is in the middle of a call, whatever the threads did before, a gl* call
\* runs on the YAGLT context that adopted the context of the calling thread.
Alone(t) == \A u \in Threads \ {t} : hostCurrent[u] = NoContext /\ pc[u] = Idle
GLOnAdoptedContext ==
  gl # Nothing /\ Alone(gl.thread) /\ hostCurrent[gl.thread] # NoContext
    => adopted[gl.object] = hostCurrent[gl.thread]

\* A context may be destroyed while a thread makes it current or has it current. Once
\* the calls under way have ended, a gl* call of any thread runs on a YAGLT context
\* that was not deleted, except between the destruction of a context that is current
\* and its release, when g_current still points at the deleted one; contexts of
\* handles that the host gives out early are left out.
GLOnLiveContext ==
  gl # Nothing /\ (\A t \in Threads : pc[t] = Idle) /\ adopted[gl.object] \notin Prompt
    => gl.object \in alive \/ host[adopted[gl.object]] = "doomed"

\* What the host did to a context reaches the registry: a context that stays
\* alive gets its YAGLT context (eglCreateContext) and keeps it, unless its handle
\* is given out early; and that of a context that was destroyed, current on some
\* thread or not, is given up (eglDestroyContext) and does not wait for the thread
\* to release it.
RegistryCatchesUp ==
  \A h \in Handles :
    /\ h \notin Prompt => (host[h] = "live" ~> (host[h] # "live" \/ registry[h] \in alive))
    /\ host[h] # "live" ~> (host[h] = "live" \/ registry[h] = NoObject)

\* "a YAGLT Context backed by the GLES backend is created per real EGL context"
\* (egl_shim.cpp:17-18): a live context of the host that no call is under way on has
\* its YAGLT context. False if the host gives the handle out again before the shim
\* has erased the entry of the context that had it (egl_shim.cpp:217, 219-220).
ContextPerHostContext ==
  \A h \in Handles : Settled(h) /\ host[h] = "live" => registry[h] \in alive
=============================================================================
