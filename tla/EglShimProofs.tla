---------------------------- MODULE EglShimProofs ----------------------------
(***************************************************************************)
(* The registry and the current context of the EGL shim, for every number  *)
(* of threads, handles and contexts, and for every host: one that gives    *)
(* out a handle whose destruction is still under way in the shim, too.     *)
(***************************************************************************)
EXTENDS EglShim, TLAPS

LEMMA CallType ==
  ASSUME TypeOK, NEW t \in Threads
  PROVE  /\ pc[t].handle \in Handles \cup {NoContext}
         /\ pc[t].op \in {"idle", "create", "destroy", "activate"}
         /\ pc[t].op = "idle" <=> pc[t] = Idle
         /\ pc[t] = Idle => pc[t].handle = NoContext
<1>1. pc[t] \in Ops \cup {Idle}
  BY DEF TypeOK
<1> QED
  BY <1>1 DEF Ops, Idle
-----------------------------------------------------------------------------
(* The registry, whatever handles the host gives out. *)

\* A handle stays live until the call that created it has registered it; a YAGLT context
\* that was deleted is not allocated again.
Creations ==
  /\ \A t \in Threads : pc[t].op \in {"create", "destroy"} => pc[t].handle \in Handles
  /\ \A t \in Threads : pc[t].op = "create" => host[pc[t].handle] = "live"
  /\ alive \cap spent = {}

OwnInv == TypeOK /\ Creations /\ EntriesOwned

LEMMA InitOwn == Init => OwnInv
<1> SUFFICES ASSUME Init
             PROVE  OwnInv
  OBVIOUS
<1>1. TypeOK /\ Creations
  BY NoContextIsNoHandle DEF Init, TypeOK, Creations, Idle
<1>2. EntriesOwned
  BY DEF Init, EntriesOwned
<1> QED
  BY <1>1, <1>2 DEF OwnInv

\* The host's step of a call: the registry is as it was, and a handle that is not live
\* any more is in the hands of the thread that destroyed it.
LEMMA OwnBegin ==
  ASSUME OwnInv, NEW t \in Threads, NEW op \in {"create", "destroy", "activate"},
         NEW h \in Handles \cup {NoContext}, Begin(t, op, h),
         host' \in [Handles -> {"free", "live", "doomed"}],
         hostCurrent' \in [Threads -> Handles \cup {NoContext}],
         op # "activate" => h \in Handles, op = "create" => host'[h] = "live",
         \A g \in Handles : host'[g] = host[g] \/ host[g] # "live" \/ (g = h /\ op = "destroy"),
         op = "destroy" => Returned(h)
  PROVE  OwnInv'
<1>1. /\ pc[t] = Idle /\ pc'[t] = [op |-> op, handle |-> h]
      /\ \A u \in Threads \ {t} : pc'[u] = pc[u]
      /\ pc' \in [Threads -> Ops \cup {Idle}] /\ gl' = Nothing
  BY DEF Begin, OwnInv, TypeOK, Ops
<1>2. UNCHANGED <<registry, alive, spent, initialized, adopted, current>>
  BY DEF Begin, shimVars
<1>3. TypeOK'
  BY <1>1, <1>2 DEF OwnInv, TypeOK
<1>4. Creations'
  <2> SUFFICES ASSUME NEW u \in Threads, pc'[u].op \in {"create", "destroy"}
               PROVE  /\ pc'[u].handle \in Handles
                      /\ pc'[u].op = "create" => host'[pc'[u].handle] = "live"
    BY <1>2 DEF OwnInv, Creations
  <2>1. CASE u = t
    BY <1>1, <2>1
  <2>2. CASE u # t /\ pc[u].op = "destroy"
    BY <1>1, <2>2 DEF OwnInv, Creations
  <2>3. CASE u # t /\ pc[u].op # "destroy"
    <3>1. pc[u] = pc'[u] /\ pc[u].handle \in Handles /\ host[pc[u].handle] = "live"
      BY <1>1, <2>3 DEF OwnInv, Creations
    <3>2. pc[u] = [op |-> "create", handle |-> pc[u].handle]
      BY <1>1, <2>3 DEF OwnInv, TypeOK, Ops, Idle
    <3>3. ~(pc[u].handle = h /\ op = "destroy")
      BY <3>2 DEF Returned
    <3> QED
      BY <3>1, <3>3
  <2> QED
    BY <2>1, <2>2, <2>3
<1>5. EntriesOwned'
  <2> SUFFICES ASSUME NEW g \in Handles, host'[g] # "live", registry[g] # NoObject
               PROVE  \E u \in Threads : pc'[u] = [op |-> "destroy", handle |-> g]
    BY <1>2 DEF OwnInv, EntriesOwned
  <2>1. CASE host[g] = "live"
    BY <1>1, <2>1
  <2>2. CASE host[g] # "live"
    <3>1. PICK u \in Threads : pc[u] = [op |-> "destroy", handle |-> g]
      BY <2>2 DEF OwnInv, EntriesOwned
    <3>2. u # t
      BY <1>1, <3>1 DEF Idle
    <3> QED
      BY <1>1, <3>1, <3>2
  <2> QED
    BY <2>1, <2>2
<1> QED
  BY <1>3, <1>4, <1>5 DEF OwnInv

LEMMA OwnHost ==
  ASSUME OwnInv, NEW t \in Threads,
         \/ \E h \in Handles : HostCreate(t, h) \/ HostDestroy(t, h)
         \/ \E h \in Handles \cup {NoContext} : HostMakeCurrent(t, h)
  PROVE  OwnInv'
<1>1. ASSUME NEW h \in Handles, HostCreate(t, h)
      PROVE  OwnInv'
  <2>1. host' \in [Handles -> {"free", "live", "doomed"}] /\ host'[h] = "live"
    BY <1>1 DEF HostCreate, OwnInv, TypeOK
  <2>2. \A g \in Handles : host'[g] = host[g] \/ host[g] # "live"
    BY <1>1 DEF HostCreate, OwnInv, TypeOK
  <2>3. hostCurrent' \in [Threads -> Handles \cup {NoContext}] /\ Begin(t, "create", h)
    BY <1>1 DEF HostCreate, OwnInv, TypeOK
  <2> QED
    BY <2>1, <2>2, <2>3, OwnBegin
<1>2. ASSUME NEW h \in Handles, HostDestroy(t, h)
      PROVE  OwnInv'
  <2>1. host' \in [Handles -> {"free", "live", "doomed"}]
    BY <1>2 DEF HostDestroy, OwnInv, TypeOK
  <2>2. \A g \in Handles : host'[g] = host[g] \/ host[g] # "live" \/ g = h
    BY <1>2 DEF HostDestroy, OwnInv, TypeOK
  <2>3. hostCurrent' \in [Threads -> Handles \cup {NoContext}] /\ Begin(t, "destroy", h)
    BY <1>2 DEF HostDestroy, OwnInv, TypeOK
  <2>4. Returned(h)
    BY <1>2 DEF HostDestroy
  <2> QED
    BY <2>1, <2>2, <2>3, <2>4, OwnBegin
<1>3. ASSUME NEW h \in Handles \cup {NoContext}, HostMakeCurrent(t, h)
      PROVE  OwnInv'
  <2>1. host' \in [Handles -> {"free", "live", "doomed"}]
    BY <1>3 DEF HostMakeCurrent, OwnInv, TypeOK
  <2>2. \A g \in Handles : host'[g] = host[g] \/ host[g] # "live"
    BY <1>3 DEF HostMakeCurrent, OwnInv, TypeOK
  <2>3. hostCurrent' \in [Threads -> Handles \cup {NoContext}] /\ Begin(t, "activate", h)
    BY <1>3 DEF HostMakeCurrent, OwnInv, TypeOK
  <2> QED
    BY <2>1, <2>2, <2>3, OwnBegin
<1> QED
  BY <1>1, <1>2, <1>3

\* The shim's step of a call: what is left is that the registry stays owned.
LEMMA OwnEnd ==
  ASSUME OwnInv, NEW t \in Threads, NEW op, End(t, op),
         registry' \in [Handles -> Objects \cup {NoObject}],
         alive' \subseteq Objects, spent' \subseteq Objects, initialized' \subseteq Objects,
         adopted' \in [Objects -> Handles \cup {NoContext}],
         current' \in Objects \cup {NoObject},
         alive' \cap spent' = {}
  PROVE  /\ TypeOK' /\ Creations'
         /\ pc[t].op = op /\ UNCHANGED host
         /\ \A g \in Handles, u \in Threads :
              pc[u] = [op |-> "destroy", handle |-> g] =>
                pc'[u] = pc[u] \/ (u = t /\ op = "destroy" /\ g = pc[t].handle)
<1>1. /\ pc[t].op = op /\ pc'[t] = Idle
      /\ \A u \in Threads \ {t} : pc'[u] = pc[u]
      /\ pc' \in [Threads -> Ops \cup {Idle}]
      /\ UNCHANGED <<host, hostCurrent>> /\ gl' = Nothing
  BY DEF End, OwnInv, TypeOK, hostVars
<1>2. TypeOK'
  BY <1>1 DEF OwnInv, TypeOK
<1>3. Creations'
  BY <1>1 DEF OwnInv, Creations, Idle
<1> QED
  BY <1>1, <1>2, <1>3

LEMMA OwnRegister ==
  ASSUME OwnInv, NEW t \in Threads, NEW o \in Objects, Register(t, o)
  PROVE  OwnInv'
<1> DEFINE h == pc[t].handle
<1>1. /\ End(t, "create") /\ o \notin alive \cup spent
      /\ registry' = [registry EXCEPT ![h] = o] /\ alive' = alive \cup {o}
      /\ UNCHANGED <<spent, initialized, adopted, current>>
  BY DEF Register
<1>2. h \in Handles /\ host[h] = "live"
  BY <1>1 DEF End, OwnInv, Creations
<1>3. \A g \in Handles : registry'[g] = IF g = h THEN o ELSE registry[g]
  BY <1>1, <1>2 DEF OwnInv, TypeOK
<1>4. /\ registry' \in [Handles -> Objects \cup {NoObject}]
      /\ alive' \subseteq Objects /\ spent' \subseteq Objects /\ initialized' \subseteq Objects
      /\ adopted' \in [Objects -> Handles \cup {NoContext}]
      /\ current' \in Objects \cup {NoObject}
      /\ alive' \cap spent' = {}
  BY <1>1, <1>2 DEF OwnInv, TypeOK, Creations
<1>5. /\ TypeOK' /\ Creations' /\ UNCHANGED host
      /\ \A g \in Handles, u \in Threads :
           pc[u] = [op |-> "destroy", handle |-> g] => pc'[u] = pc[u]
  BY <1>1, <1>4, OwnEnd
<1> HIDE DEF h
<1>6. \A g \in Handles : registry[g] # o
  BY <1>1, NoObjectIsNoObject DEF OwnInv, EntriesOwned
<1>7. /\ \A g \in Handles : registry'[g] \in alive' \cup {NoObject}
      /\ \A g, k \in Handles : registry'[g] = registry'[k] => g = k \/ registry'[g] = NoObject
  BY <1>1, <1>3, <1>6 DEF OwnInv, EntriesOwned
<1>8. ASSUME NEW g \in Handles, host'[g] # "live", registry'[g] # NoObject
      PROVE  \E u \in Threads : pc'[u] = [op |-> "destroy", handle |-> g]
  <2>1. host[g] # "live" /\ registry[g] # NoObject
    BY <1>2, <1>3, <1>5, <1>8
  <2>2. PICK u \in Threads : pc[u] = [op |-> "destroy", handle |-> g]
    BY <2>1 DEF OwnInv, EntriesOwned
  <2> QED
    BY <1>5, <2>2
<1> QED
  BY <1>5, <1>7, <1>8 DEF OwnInv, EntriesOwned

LEMMA OwnUnregister ==
  ASSUME OwnInv, NEW t \in Threads, Unregister(t)
  PROVE  OwnInv'
<1> DEFINE h == pc[t].handle
           o == registry[h]
<1>1. /\ End(t, "destroy")
      /\ alive' = alive \ {o} /\ spent' = spent \cup ({o} \ {NoObject})
      /\ registry' = [registry EXCEPT ![h] = NoObject]
      /\ UNCHANGED <<initialized, adopted, current>>
  BY DEF Unregister
<1>2. h \in Handles /\ pc[t].op = "destroy"
  BY <1>1 DEF End, OwnInv, Creations
<1>3. /\ o \in Objects \cup {NoObject}
      /\ \A g \in Handles : registry'[g] = IF g = h THEN NoObject ELSE registry[g]
  BY <1>1, <1>2 DEF OwnInv, TypeOK
<1>4. /\ registry' \in [Handles -> Objects \cup {NoObject}]
      /\ alive' \subseteq Objects /\ spent' \subseteq Objects /\ initialized' \subseteq Objects
      /\ adopted' \in [Objects -> Handles \cup {NoContext}]
      /\ current' \in Objects \cup {NoObject}
      /\ alive' \cap spent' = {}
  BY <1>1, <1>3 DEF OwnInv, TypeOK, Creations
<1>5. /\ TypeOK' /\ Creations' /\ UNCHANGED host
      /\ \A g \in Handles, u \in Threads :
           pc[u] = [op |-> "destroy", handle |-> g] => pc'[u] = pc[u] \/ g = h
  BY <1>1, <1>4, OwnEnd
<1>6. o = registry[h]
  OBVIOUS
<1> HIDE DEF h, o
<1>7. /\ \A g \in Handles : registry'[g] \in alive' \cup {NoObject}
      /\ \A g, k \in Handles : registry'[g] = registry'[k] => g = k \/ registry'[g] = NoObject
  BY <1>1, <1>2, <1>3, <1>6 DEF OwnInv, EntriesOwned
<1>8. ASSUME NEW g \in Handles, host'[g] # "live", registry'[g] # NoObject
      PROVE  \E u \in Threads : pc'[u] = [op |-> "destroy", handle |-> g]
  <2>1. host[g] # "live" /\ registry[g] # NoObject /\ g # h
    BY <1>3, <1>5, <1>8
  <2>2. PICK u \in Threads : pc[u] = [op |-> "destroy", handle |-> g]
    BY <2>1 DEF OwnInv, EntriesOwned
  <2> QED
    BY <1>5, <2>1, <2>2
<1> QED
  BY <1>5, <1>7, <1>8 DEF OwnInv, EntriesOwned

LEMMA OwnActivate ==
  ASSUME OwnInv, NEW t \in Threads, NEW up \in BOOLEAN, Activate(t, up)
  PROVE  OwnInv'
<1> DEFINE h == pc[t].handle
           o == IF h = NoContext THEN NoObject ELSE registry[h]
<1>1. /\ End(t, "activate") /\ current' = o
      /\ adopted' = IF o = NoObject \/ o \in initialized
                      THEN adopted ELSE [adopted EXCEPT ![o] = h]
      /\ initialized' = IF o # NoObject /\ up
                          THEN initialized \cup {o} ELSE initialized
      /\ UNCHANGED <<registry, alive, spent>>
  BY DEF Activate
<1>2. h \in Handles \cup {NoContext} /\ o \in Objects \cup {NoObject}
  BY CallType DEF OwnInv, TypeOK
<1> HIDE DEF h, o
<1>3. initialized' \subseteq Objects /\ adopted' \in [Objects -> Handles \cup {NoContext}]
  BY <1>1, <1>2 DEF OwnInv, TypeOK
<1>4. /\ TypeOK' /\ Creations' /\ UNCHANGED host
      /\ \A g \in Handles, u \in Threads :
           pc[u] = [op |-> "destroy", handle |-> g] => pc'[u] = pc[u]
  BY <1>1, <1>2, <1>3, OwnEnd DEF OwnInv, TypeOK, Creations
<1>5. EntriesOwned'
  <2> SUFFICES ASSUME NEW g \in Handles, host[g] # "live", registry[g] # NoObject
               PROVE  \E u \in Threads : pc'[u] = [op |-> "destroy", handle |-> g]
    BY <1>1, <1>4 DEF OwnInv, EntriesOwned
  <2>1. PICK u \in Threads : pc[u] = [op |-> "destroy", handle |-> g]
    BY DEF OwnInv, EntriesOwned
  <2> QED
    BY <1>4, <2>1
<1> QED
  BY <1>4, <1>5 DEF OwnInv

LEMMA StepOwn == OwnInv /\ [Next]_vars => OwnInv'
<1> SUFFICES ASSUME OwnInv, [Next]_vars
             PROVE  OwnInv'
  OBVIOUS
<1>1. CASE UNCHANGED vars
  BY <1>1 DEF vars, hostVars, shimVars, OwnInv, TypeOK, Creations, EntriesOwned
<1>2. ASSUME NEW t \in Threads, GLCall(t)
      PROVE  OwnInv'
  <2>1. /\ UNCHANGED <<host, hostCurrent, registry, alive, spent, initialized, adopted,
                       current, pc>>
        /\ gl' \in [thread : Threads, object : Objects] \cup {Nothing}
    BY <1>2 DEF GLCall, hostVars, shimVars, OwnInv, TypeOK
  <2> QED
    BY <2>1 DEF OwnInv, TypeOK, Creations, EntriesOwned
<1>3. CASE Next
  BY <1>2, <1>3, OwnHost, OwnRegister, OwnUnregister, OwnActivate DEF Next
<1> QED
  BY <1>1, <1>3

LEMMA OwnAlways == Spec => []OwnInv
BY InitOwn, StepOwn, PTL DEF Spec

\* The state of the shim stays well typed, g_current and the thread of the last
\* gl* call included, whatever handles the host gives out.
THEOREM ShimTypes == Spec => []TypeOK
<1>1. OwnInv => TypeOK
  BY DEF OwnInv
<1> QED
  BY OwnAlways, <1>1, PTL

\* In every interleaving of the threads' calls, also when the host gives out a handle
\* whose destruction is still under way in the shim, g_contexts never shares a YAGLT
\* context between handles, never points to a deleted one, and drops the entry of a
\* destroyed handle with the call that destroyed it.
THEOREM RegistryOwned == Spec => []EntriesOwned
<1>1. OwnInv => EntriesOwned
  BY DEF OwnInv
<1> QED
  BY OwnAlways, <1>1, PTL
-----------------------------------------------------------------------------
(* The current context. *)

\* activateContext runs on the thread the host made the handle current on.
Activating ==
  \A t \in Threads : pc[t].op = "activate" => hostCurrent[t] = pc[t].handle

\* A backend that is up adopted the handle its context is registered under.
Adoption ==
  /\ initialized \subseteq alive \cup spent
  /\ \A h \in Handles : registry[h] \in initialized => adopted[registry[h]] = h

\* g_current adopted the context of some thread, unless the thread that let go of it
\* has not yet reached activateContext.
CurrentFollows ==
  current # NoObject =>
    /\ adopted[current] \in Handles
    /\ \/ \E t \in Threads : pc[t].op = "activate"
       \/ \E t \in Threads : hostCurrent[t] = adopted[current]

\* A gl* call has just run on g_current.
CallOnCurrent == gl # Nothing => gl.object = current /\ current # NoObject /\ pc[gl.thread] = Idle

CallInv == OwnInv /\ Activating /\ Adoption /\ CurrentFollows /\ CallOnCurrent

LEMMA InitCall == Init => CallInv
<1> SUFFICES ASSUME Init
             PROVE  CallInv
  OBVIOUS
<1>1. OwnInv
  BY InitOwn
<1>2. Activating /\ Adoption
  BY NoObjectIsNoObject DEF Init, Activating, Adoption, Idle
<1>3. CurrentFollows /\ CallOnCurrent
  BY DEF Init, CurrentFollows, CallOnCurrent
<1> QED
  BY <1>1, <1>2, <1>3 DEF CallInv

\* The host's step moves what is current only on the thread of the call, which is
\* then on its way to activateContext.
LEMMA CallBegin ==
  ASSUME CallInv, OwnInv', NEW t \in Threads, NEW op \in {"create", "destroy", "activate"},
         NEW h \in Handles \cup {NoContext}, Begin(t, op, h),
         \A u \in Threads : hostCurrent'[u] = IF u = t /\ op = "activate" THEN h
                                                                      ELSE hostCurrent[u]
  PROVE  CallInv'
<1>1. /\ pc[t] = Idle /\ pc'[t] = [op |-> op, handle |-> h]
      /\ \A u \in Threads \ {t} : pc'[u] = pc[u]
      /\ UNCHANGED <<registry, alive, spent, initialized, adopted, current>> /\ gl' = Nothing
  BY DEF Begin, CallInv, OwnInv, TypeOK, shimVars
<1>2. Activating'
  BY <1>1 DEF CallInv, Activating
<1>3. Adoption' /\ CallOnCurrent'
  BY <1>1 DEF CallInv, Adoption, CallOnCurrent
<1>4. CurrentFollows'
  <2>1. (\E u \in Threads : pc[u].op = "activate") => \E u \in Threads : pc'[u].op = "activate"
    BY <1>1 DEF Idle
  <2>2. op = "activate" => \E u \in Threads : pc'[u].op = "activate"
    BY <1>1
  <2> QED
    BY <1>1, <2>1, <2>2 DEF CallInv, CurrentFollows
<1> QED
  BY <1>2, <1>3, <1>4 DEF CallInv

LEMMA CallHost ==
  ASSUME CallInv, OwnInv', NEW t \in Threads,
         \/ \E h \in Handles : HostCreate(t, h) \/ HostDestroy(t, h)
         \/ \E h \in Handles \cup {NoContext} : HostMakeCurrent(t, h)
  PROVE  CallInv'
<1>1. ASSUME NEW h \in Handles, HostCreate(t, h) \/ HostDestroy(t, h)
      PROVE  CallInv'
  <2>1. UNCHANGED hostCurrent /\ (Begin(t, "create", h) \/ Begin(t, "destroy", h))
    BY <1>1 DEF HostCreate, HostDestroy
  <2> QED
    BY <2>1, CallBegin
<1>2. ASSUME NEW h \in Handles \cup {NoContext}, HostMakeCurrent(t, h)
      PROVE  CallInv'
  <2>1. /\ Begin(t, "activate", h)
        /\ \A u \in Threads : hostCurrent'[u] = IF u = t THEN h ELSE hostCurrent[u]
    BY <1>2 DEF HostMakeCurrent, CallInv, OwnInv, TypeOK
  <2> QED
    BY <2>1, CallBegin
<1> QED
  BY <1>1, <1>2

\* eglCreateContext and eglDestroyContext leave g_current and what is adopted alone.
LEMMA CallRegistry ==
  ASSUME CallInv, OwnInv', NEW t \in Threads,
         (\E o \in Objects : Register(t, o)) \/ Unregister(t)
  PROVE  CallInv'
<1>1. /\ End(t, "create") \/ End(t, "destroy")
      /\ UNCHANGED <<initialized, adopted, current>>
      /\ alive \cup spent \subseteq alive' \cup spent' \cup {NoObject}
  BY DEF Register, Unregister
<1>2. /\ pc[t].op \in {"create", "destroy"} /\ pc'[t] = Idle
      /\ \A u \in Threads \ {t} : pc'[u] = pc[u]
      /\ UNCHANGED hostCurrent /\ gl' = Nothing
  BY <1>1 DEF End, CallInv, OwnInv, TypeOK, hostVars
<1>3. \A h \in Handles : registry'[h] \in initialized => registry'[h] = registry[h]
  <2>1. ASSUME NEW o \in Objects, Register(t, o)
        PROVE  o \notin initialized /\ registry' = [registry EXCEPT ![pc[t].handle] = o]
    BY <2>1 DEF Register, CallInv, Adoption
  <2>2. Unregister(t) => registry' = [registry EXCEPT ![pc[t].handle] = NoObject]
    BY DEF Unregister
  <2>3. NoObject \notin initialized
    BY NoObjectIsNoObject DEF CallInv, OwnInv, TypeOK
  <2> QED
    BY <2>1, <2>2, <2>3 DEF CallInv, OwnInv, TypeOK
<1>4. Activating'
  BY <1>2 DEF CallInv, Activating, Idle
<1>5. Adoption'
  <2>1. initialized \subseteq alive' \cup spent'
    BY <1>1, NoObjectIsNoObject DEF CallInv, Adoption, OwnInv, TypeOK
  <2> QED
    BY <1>1, <1>3, <2>1 DEF CallInv, Adoption
<1>6. CurrentFollows'
  BY <1>1, <1>2 DEF CallInv, CurrentFollows
<1>7. CallOnCurrent'
  BY <1>2 DEF CallOnCurrent
<1> QED
  BY <1>4, <1>5, <1>6, <1>7 DEF CallInv

LEMMA CallActivate ==
  ASSUME CallInv, OwnInv', NEW t \in Threads, NEW up \in BOOLEAN, Activate(t, up)
  PROVE  CallInv'
<1> DEFINE h == pc[t].handle
           o == IF h = NoContext THEN NoObject ELSE registry[h]
<1>1. /\ End(t, "activate") /\ current' = o
      /\ adopted' = IF o = NoObject \/ o \in initialized
                      THEN adopted ELSE [adopted EXCEPT ![o] = h]
      /\ initialized' = IF o # NoObject /\ up
                          THEN initialized \cup {o} ELSE initialized
      /\ UNCHANGED <<registry, alive, spent>>
  BY DEF Activate
<1>2. /\ pc[t].op = "activate" /\ pc'[t] = Idle
      /\ \A u \in Threads \ {t} : pc'[u] = pc[u]
      /\ UNCHANGED hostCurrent /\ gl' = Nothing
  BY <1>1 DEF End, CallInv, OwnInv, TypeOK, hostVars
<1>3. h \in Handles \cup {NoContext} /\ hostCurrent[t] = h
  BY <1>2, CallType DEF CallInv, OwnInv, Activating
<1>4. o # NoObject => h \in Handles /\ o = registry[h] /\ o \in Objects /\ o \in alive
  BY <1>3 DEF CallInv, OwnInv, EntriesOwned, TypeOK
<1> HIDE DEF h, o
<1>5. Activating'
  BY <1>2 DEF CallInv, Activating, Idle
<1>6. o # NoObject => adopted'[o] = h
  BY <1>1, <1>4 DEF CallInv, Adoption, OwnInv, TypeOK
<1>7. Adoption'
  <2>1. initialized' \subseteq alive \cup spent
    BY <1>1, <1>4 DEF CallInv, Adoption
  <2>2. ASSUME NEW g \in Handles, registry[g] \in initialized'
        PROVE  adopted'[registry[g]] = g
    <3>1. CASE registry[g] = o /\ o # NoObject
      BY <1>4, <1>6, <3>1 DEF CallInv, OwnInv, EntriesOwned
    <3>2. CASE registry[g] # o \/ o = NoObject
      <4>1. registry[g] \in initialized
        BY <1>1, <2>2, <3>2
      <4> QED
        BY <1>1, <3>2, <4>1 DEF CallInv, Adoption, OwnInv, TypeOK
    <3> QED
      BY <3>1, <3>2
  <2> QED
    BY <1>1, <2>1, <2>2 DEF Adoption
<1>8. CurrentFollows'
  BY <1>1, <1>2, <1>3, <1>4, <1>6 DEF CurrentFollows
<1>9. CallOnCurrent'
  BY <1>2 DEF CallOnCurrent
<1> QED
  BY <1>5, <1>7, <1>8, <1>9 DEF CallInv

LEMMA CallGL ==
  ASSUME CallInv, OwnInv', NEW t \in Threads, GLCall(t)
  PROVE  CallInv'
<1>1. /\ pc[t] = Idle
      /\ gl' = IF current = NoObject THEN Nothing ELSE [thread |-> t, object |-> current]
      /\ UNCHANGED <<host, hostCurrent, registry, alive, spent, initialized, adopted,
                     current, pc>>
  BY DEF GLCall, hostVars, shimVars
<1>2. Activating' /\ Adoption' /\ CurrentFollows'
  BY <1>1 DEF CallInv, Activating, Adoption, CurrentFollows
<1>3. CallOnCurrent'
  BY <1>1 DEF CallOnCurrent
<1> QED
  BY <1>2, <1>3 DEF CallInv

LEMMA StepCall == CallInv /\ [Next]_vars => CallInv'
<1> SUFFICES ASSUME CallInv, [Next]_vars
             PROVE  CallInv'
  OBVIOUS
<1>1. OwnInv'
  BY StepOwn DEF CallInv
<1>2. CASE UNCHANGED vars
  BY <1>1, <1>2 DEF vars, hostVars, shimVars, CallInv, Activating, Adoption,
                    CurrentFollows, CallOnCurrent
<1>3. CASE Next
  BY <1>1, <1>3, CallHost, CallRegistry, CallActivate, CallGL DEF Next
<1> QED
  BY <1>2, <1>3

LEMMA CallAlways == Spec => []CallInv
BY InitCall, StepCall, PTL DEF Spec

\* A gl* call of a thread that is alone runs on the YAGLT context that adopted
\* the context of the host current on that thread, after any history of
\* creations, activations and destructions on any number of threads.
THEOREM CallsReachAdopted == Spec => []GLOnAdoptedContext
<1>1. ASSUME CallInv, gl # Nothing, Alone(gl.thread), hostCurrent[gl.thread] # NoContext
      PROVE  adopted[gl.object] = hostCurrent[gl.thread]
  <2>1. gl.object = current /\ current # NoObject /\ pc[gl.thread] = Idle
    BY <1>1 DEF CallInv, CallOnCurrent
  <2>2. \A t \in Threads : pc[t] = Idle
    BY <1>1, <2>1 DEF Alone
  <2>3. ~(\E t \in Threads : pc[t].op = "activate")
    BY <2>2 DEF Idle
  <2>4. adopted[current] \in Handles
    BY <1>1, <2>1 DEF CallInv, CurrentFollows
  <2>5. PICK t \in Threads : hostCurrent[t] = adopted[current]
    BY <1>1, <2>1, <2>3 DEF CallInv, CurrentFollows
  <2>6. t = gl.thread
    BY <1>1, <2>4, <2>5, NoContextIsNoHandle DEF Alone
  <2> QED
    BY <2>1, <2>5, <2>6
<1>2. CallInv => GLOnAdoptedContext
  BY <1>1 DEF GLOnAdoptedContext
<1> QED
  BY CallAlways, <1>2, PTL
-----------------------------------------------------------------------------
(* Contexts that are destroyed while a thread has them.  Of a handle that the host *)
(* gives out again only when no call on it is under way, the registry has the      *)
(* context of the host as long as the host has it.                                 *)

\* The host: a context that is current on a thread is not free, and on no other thread.
HostHolds ==
  \A t \in Threads : hostCurrent[t] # NoContext =>
    /\ host[hostCurrent[t]] # "free"
    /\ \A u \in Threads : hostCurrent[u] = hostCurrent[t] => u = t

\* A call that creates is the only one of its kind, and no entry is in its way; one
\* that destroys has a handle that stays dead.
LateCalls ==
  \A t \in Threads : pc[t].handle \in Handles \ Prompt =>
    /\ pc[t].op = "create" =>
         /\ registry[pc[t].handle] = NoObject
         /\ \A u \in Threads : pc[u] = pc[t] => u = t
    /\ pc[t].op = "destroy" => host[pc[t].handle] # "live"

\* g_current is what the registry has for the context of some thread, unless that was
\* destroyed there.
CurrentLives ==
  current # NoObject /\ adopted[current] \notin Prompt =>
    \/ \E t \in Threads : pc[t].op = "activate"
    \/ \E t \in Threads :
         /\ hostCurrent[t] = adopted[current]
         /\ registry[adopted[current]] = current \/ host[adopted[current]] = "doomed"

LiveInv == CallInv /\ HostHolds /\ LateCalls /\ CurrentLives

LEMMA InitLive == Init => LiveInv
<1> SUFFICES ASSUME Init
             PROVE  LiveInv
  OBVIOUS
<1>1. CallInv
  BY InitCall
<1>2. HostHolds /\ CurrentLives
  BY DEF Init, HostHolds, CurrentLives
<1>3. LateCalls
  BY DEF Init, LateCalls, Idle
<1> QED
  BY <1>1, <1>2, <1>3 DEF LiveInv

LEMMA LiveHost ==
  ASSUME LiveInv, CallInv', NEW t \in Threads,
         \/ \E h \in Handles : HostCreate(t, h) \/ HostDestroy(t, h)
         \/ \E h \in Handles \cup {NoContext} : HostMakeCurrent(t, h)
  PROVE  LiveInv'
<1>1. ASSUME NEW h \in Handles, HostCreate(t, h)
      PROVE  LiveInv'
  <2>1. /\ host[h] = "free" /\ (h \in Prompt \/ Settled(h))
        /\ \A g \in Handles : host'[g] = IF g = h THEN "live" ELSE host[g]
        /\ UNCHANGED <<hostCurrent, registry, adopted, current>>
        /\ pc[t] = Idle /\ pc'[t] = [op |-> "create", handle |-> h]
        /\ \A u \in Threads \ {t} : pc'[u] = pc[u]
    BY <1>1 DEF HostCreate, Begin, shimVars, LiveInv, CallInv, OwnInv, TypeOK
  <2>2. HostHolds'
    BY <2>1 DEF LiveInv, HostHolds, CallInv, OwnInv, TypeOK
  <2>3. h \notin Prompt => registry[h] = NoObject
    <3>1. ASSUME h \notin Prompt, registry[h] # NoObject
          PROVE  FALSE
      <4>1. PICK u \in Threads : pc[u] = [op |-> "destroy", handle |-> h]
        BY <2>1, <3>1 DEF LiveInv, CallInv, OwnInv, EntriesOwned
      <4> QED
        BY <2>1, <3>1, <4>1 DEF Settled
    <3> QED
      BY <3>1
  <2>4. LateCalls'
    <3> SUFFICES ASSUME NEW u \in Threads, pc'[u].handle \in Handles \ Prompt
                 PROVE  /\ pc'[u].op = "create" =>
                             /\ registry[pc'[u].handle] = NoObject
                             /\ \A w \in Threads : pc'[w] = pc'[u] => w = u
                        /\ pc'[u].op = "destroy" => host'[pc'[u].handle] # "live"
      BY <2>1 DEF LateCalls
    <3>1. CASE u = t
      <4>1. pc'[u] = [op |-> "create", handle |-> h] /\ h \notin Prompt
        BY <2>1, <3>1
      <4>2. \A w \in Threads \ {t} : pc'[w].handle # h
        BY <2>1, <4>1 DEF Settled
      <4> QED
        BY <2>3, <3>1, <4>1, <4>2
    <3>2. CASE u # t
      <4>1. pc'[u] = pc[u]
        BY <2>1, <3>2
      <4>2. pc[u].handle # h
        BY <2>1, <4>1 DEF Settled
      <4> QED
        BY <2>1, <4>1, <4>2 DEF LiveInv, LateCalls
    <3> QED
      BY <3>1, <3>2
  <2>5. CurrentLives'
    <3>1. (\E u \in Threads : pc[u].op = "activate") => \E u \in Threads : pc'[u].op = "activate"
      BY <2>1 DEF Idle
    <3>2. \A g \in Handles : host[g] = "doomed" => host'[g] = "doomed"
      BY <2>1
    <3> QED
      BY <2>1, <3>1, <3>2 DEF LiveInv, CallInv, CurrentFollows, CurrentLives
  <2> QED
    BY <2>2, <2>4, <2>5 DEF LiveInv
<1>2. ASSUME NEW h \in Handles, HostDestroy(t, h)
      PROVE  LiveInv'
  <2>1. /\ host[h] = "live" /\ Returned(h)
        /\ \A g \in Handles :
             host'[g] = IF g # h THEN host[g]
                        ELSE IF IsCurrent(h) THEN "doomed" ELSE "free"
        /\ UNCHANGED <<hostCurrent, registry, adopted, current>>
        /\ pc[t] = Idle /\ pc'[t] = [op |-> "destroy", handle |-> h]
        /\ \A u \in Threads \ {t} : pc'[u] = pc[u]
    BY <1>2 DEF HostDestroy, Begin, shimVars, LiveInv, CallInv, OwnInv, TypeOK
  <2>2. HostHolds'
    BY <2>1 DEF LiveInv, HostHolds, CallInv, OwnInv, TypeOK, IsCurrent
  <2>3. LateCalls'
    <3> SUFFICES ASSUME NEW u \in Threads, pc'[u].handle \in Handles \ Prompt
                 PROVE  /\ pc'[u].op = "create" =>
                             /\ registry[pc'[u].handle] = NoObject
                             /\ \A w \in Threads : pc'[w] = pc'[u] => w = u
                        /\ pc'[u].op = "destroy" => host'[pc'[u].handle] # "live"
      BY <2>1 DEF LateCalls
    <3>1. CASE u = t
      BY <2>1, <3>1
    <3>2. CASE u # t
      <4>1. pc'[u] = pc[u]
        BY <2>1, <3>2
      <4>2. pc[u].op = "destroy" => host'[pc[u].handle] # "live"
        BY <2>1, <4>1 DEF LiveInv, LateCalls
      <4>3. ASSUME pc[u].op = "create"
            PROVE  /\ registry[pc[u].handle] = NoObject
                   /\ \A w \in Threads : pc'[w] = pc[u] => w = u
        <5>1. pc'[t] # pc[u]
          BY <2>1, <4>3
        <5> QED
          BY <2>1, <4>1, <4>3, <5>1 DEF LiveInv, LateCalls
      <4> QED
        BY <4>1, <4>2, <4>3
    <3> QED
      BY <3>1, <3>2
  <2>4. CurrentLives'
    <3>1. (\E u \in Threads : pc[u].op = "activate") => \E u \in Threads : pc'[u].op = "activate"
      BY <2>1 DEF Idle
    <3>2. \A g \in Handles : host[g] = "doomed" => host'[g] = "doomed"
      BY <2>1
    <3> QED
      BY <2>1, <3>1, <3>2 DEF LiveInv, CallInv, CurrentFollows, CurrentLives
  <2> QED
    BY <2>2, <2>3, <2>4 DEF LiveInv
<1>3. ASSUME NEW h \in Handles \cup {NoContext}, HostMakeCurrent(t, h)
      PROVE  LiveInv'
  <2>1. /\ h # NoContext => host[h] = "live" /\ \A u \in Threads \ {t} : hostCurrent[u] # h
        /\ \A u \in Threads : hostCurrent'[u] = IF u = t THEN h ELSE hostCurrent[u]
        /\ \A g \in Handles :
             host'[g] = IF host[g] = "doomed" /\ hostCurrent[t] = g THEN "free" ELSE host[g]
        /\ UNCHANGED <<registry, adopted, current>>
        /\ pc[t] = Idle /\ pc'[t] = [op |-> "activate", handle |-> h]
        /\ \A u \in Threads \ {t} : pc'[u] = pc[u]
    BY <1>3 DEF HostMakeCurrent, Begin, shimVars, LiveInv, CallInv, OwnInv, TypeOK
  <2>2. HostHolds'
    <3> SUFFICES ASSUME NEW u \in Threads, hostCurrent'[u] # NoContext
                 PROVE  /\ host'[hostCurrent'[u]] # "free"
                        /\ \A w \in Threads : hostCurrent'[w] = hostCurrent'[u] => w = u
      BY DEF HostHolds
    <3>1. CASE u = t
      BY <2>1, <3>1
    <3>2. CASE u # t
      <4>1. hostCurrent'[u] = hostCurrent[u] /\ hostCurrent[u] \in Handles
        BY <2>1, <3>2 DEF LiveInv, CallInv, OwnInv, TypeOK
      <4>2. hostCurrent[t] # hostCurrent[u] /\ h # hostCurrent[u]
        BY <2>1, <3>2, <4>1 DEF LiveInv, HostHolds
      <4> QED
        BY <2>1, <4>1, <4>2 DEF LiveInv, HostHolds
    <3> QED
      BY <3>1, <3>2
  <2>3. LateCalls'
    <3> SUFFICES ASSUME NEW u \in Threads, pc'[u].handle \in Handles \ Prompt
                 PROVE  /\ pc'[u].op = "create" =>
                             /\ registry[pc'[u].handle] = NoObject
                             /\ \A w \in Threads : pc'[w] = pc'[u] => w = u
                        /\ pc'[u].op = "destroy" => host'[pc'[u].handle] # "live"
      BY <2>1 DEF LateCalls
    <3>1. CASE u = t
      BY <2>1, <3>1
    <3>2. CASE u # t
      <4>1. pc'[u] = pc[u]
        BY <2>1, <3>2
      <4>2. pc[u].op = "destroy" => host'[pc[u].handle] # "live"
        BY <2>1, <4>1 DEF LiveInv, LateCalls
      <4>3. ASSUME pc[u].op = "create"
            PROVE  /\ registry[pc[u].handle] = NoObject
                   /\ \A w \in Threads : pc'[w] = pc[u] => w = u
        <5>1. pc'[t] # pc[u]
          BY <2>1, <4>3
        <5> QED
          BY <2>1, <4>1, <4>3, <5>1 DEF LiveInv, LateCalls
      <4> QED
        BY <4>1, <4>2, <4>3
    <3> QED
      BY <3>1, <3>2
  <2>4. CurrentLives'
    BY <2>1 DEF CurrentLives
  <2> QED
    BY <2>2, <2>3, <2>4 DEF LiveInv
<1> QED
  BY <1>1, <1>2, <1>3

\* What the end of a call leaves as it was.
LEMMA LiveEnd ==
  ASSUME LiveInv, NEW t \in Threads, NEW op \in {"create", "destroy", "activate"}, End(t, op)
  PROVE  /\ pc[t].op = op /\ pc'[t] = Idle
         /\ \A u \in Threads \ {t} : pc'[u] = pc[u]
         /\ UNCHANGED <<host, hostCurrent>>
         /\ HostHolds'
         /\ \A u \in Threads : pc'[u].op \in {"create", "destroy"} => u # t
<1>1. /\ pc[t].op = op /\ pc'[t] = Idle
      /\ \A u \in Threads \ {t} : pc'[u] = pc[u]
      /\ UNCHANGED <<host, hostCurrent>>
  BY DEF End, LiveInv, CallInv, OwnInv, TypeOK, hostVars
<1>2. HostHolds'
  BY <1>1 DEF LiveInv, HostHolds
<1>3. \A u \in Threads : pc'[u].op \in {"create", "destroy"} => u # t
  BY <1>1 DEF Idle
<1> QED
  BY <1>1, <1>2, <1>3

LEMMA LiveRegister ==
  ASSUME LiveInv, CallInv', NEW t \in Threads, NEW o \in Objects, Register(t, o)
  PROVE  LiveInv'
<1> DEFINE h == pc[t].handle
<1>1. /\ End(t, "create") /\ registry' = [registry EXCEPT ![h] = o]
      /\ UNCHANGED <<adopted, current>>
  BY DEF Register
<1>2. /\ pc[t].op = "create" /\ pc'[t] = Idle
      /\ \A u \in Threads \ {t} : pc'[u] = pc[u]
      /\ UNCHANGED <<host, hostCurrent>>
      /\ HostHolds'
      /\ \A u \in Threads : pc'[u].op \in {"create", "destroy"} => u # t
  BY <1>1, LiveEnd
<1>3. /\ h \in Handles /\ host[h] = "live"
      /\ \A g \in Handles : registry'[g] = IF g = h THEN o ELSE registry[g]
  BY <1>1, <1>2 DEF LiveInv, CallInv, OwnInv, Creations, TypeOK
<1>4. pc[t] = [op |-> "create", handle |-> h]
  BY <1>2 DEF LiveInv, CallInv, OwnInv, TypeOK, Ops, Idle
<1>5. h = pc[t].handle
  OBVIOUS
<1> HIDE DEF h
<1>6. LateCalls'
  <2> SUFFICES ASSUME NEW u \in Threads, pc'[u].handle \in Handles \ Prompt
               PROVE  /\ pc'[u].op = "create" =>
                           /\ registry'[pc'[u].handle] = NoObject
                           /\ \A w \in Threads : pc'[w] = pc'[u] => w = u
                      /\ pc'[u].op = "destroy" => host[pc'[u].handle] # "live"
    BY <1>2 DEF LateCalls
  <2>1. ASSUME pc'[u].op = "create"
        PROVE  /\ registry'[pc'[u].handle] = NoObject
               /\ \A w \in Threads : pc'[w] = pc'[u] => w = u
    <3>1. u # t /\ pc'[u] = pc[u]
      BY <1>2, <2>1
    <3>2. pc[u] = [op |-> "create", handle |-> pc[u].handle]
      BY <2>1, <3>1 DEF LiveInv, CallInv, OwnInv, TypeOK, Ops, Idle
    <3>3. registry[pc[u].handle] = NoObject /\ \A w \in Threads : pc[w] = pc[u] => w = u
      BY <2>1, <3>1 DEF LiveInv, LateCalls
    <3>4. pc[u].handle # h
      BY <1>4, <3>1, <3>2, <3>3
    <3>5. pc'[t] # pc[u]
      BY <1>2, <2>1, <3>1
    <3> QED
      BY <1>2, <1>3, <3>1, <3>3, <3>4, <3>5
  <2>2. ASSUME pc'[u].op = "destroy"
        PROVE  host[pc'[u].handle] # "live"
    BY <1>2, <2>2 DEF LiveInv, LateCalls
  <2> QED
    BY <2>1, <2>2
<1>7. CurrentLives'
  <2> SUFFICES ASSUME current # NoObject, adopted[current] \notin Prompt,
                      ~ \E u \in Threads : pc'[u].op = "activate"
               PROVE  \E u \in Threads :
                        /\ hostCurrent[u] = adopted[current]
                        /\ registry'[adopted[current]] = current \/ host[adopted[current]] = "doomed"
    BY <1>1, <1>2 DEF CurrentLives
  <2>1. ~ \E u \in Threads : pc[u].op = "activate"
    BY <1>2
  <2>2. PICK u \in Threads :
          /\ hostCurrent[u] = adopted[current]
          /\ registry[adopted[current]] = current \/ host[adopted[current]] = "doomed"
    BY <2>1 DEF LiveInv, CurrentLives
  <2>3. adopted[current] \in Handles
    BY DEF LiveInv, CallInv, CurrentFollows
  <2>4. adopted[current] = h => registry[h] = NoObject
    BY <1>2, <1>3, <1>5 DEF LiveInv, LateCalls
  <2> QED
    BY <1>3, <2>2, <2>3, <2>4
<1> QED
  BY <1>2, <1>6, <1>7 DEF LiveInv

LEMMA LiveUnregister ==
  ASSUME LiveInv, CallInv', NEW t \in Threads, Unregister(t)
  PROVE  LiveInv'
<1> DEFINE h == pc[t].handle
<1>1. /\ End(t, "destroy") /\ registry' = [registry EXCEPT ![h] = NoObject]
      /\ UNCHANGED <<adopted, current>>
  BY DEF Unregister
<1>2. /\ pc[t].op = "destroy" /\ pc'[t] = Idle
      /\ \A u \in Threads \ {t} : pc'[u] = pc[u]
      /\ UNCHANGED <<host, hostCurrent>>
      /\ HostHolds'
      /\ \A u \in Threads : pc'[u].op \in {"create", "destroy"} => u # t
  BY <1>1, LiveEnd
<1>3. /\ h \in Handles
      /\ \A g \in Handles : registry'[g] = IF g = h THEN NoObject ELSE registry[g]
  BY <1>1, <1>2 DEF LiveInv, CallInv, OwnInv, Creations, TypeOK
<1>4. h \notin Prompt => host[h] # "live"
  BY <1>2, <1>3 DEF LiveInv, LateCalls
<1> HIDE DEF h
<1>5. LateCalls'
  <2> SUFFICES ASSUME NEW u \in Threads, pc'[u].handle \in Handles \ Prompt
               PROVE  /\ pc'[u].op = "create" =>
                           /\ registry'[pc'[u].handle] = NoObject
                           /\ \A w \in Threads : pc'[w] = pc'[u] => w = u
                      /\ pc'[u].op = "destroy" => host[pc'[u].handle] # "live"
    BY <1>2 DEF LateCalls
  <2>1. ASSUME pc'[u].op = "create"
        PROVE  /\ registry'[pc'[u].handle] = NoObject
               /\ \A w \in Threads : pc'[w] = pc'[u] => w = u
    <3>1. u # t /\ pc'[u] = pc[u]
      BY <1>2, <2>1
    <3>2. registry[pc[u].handle] = NoObject /\ \A w \in Threads : pc[w] = pc[u] => w = u
      BY <2>1, <3>1 DEF LiveInv, LateCalls
    <3>3. pc'[t] # pc[u]
      BY <1>2, <2>1, <3>1
    <3> QED
      BY <1>2, <1>3, <3>1, <3>2, <3>3
  <2>2. ASSUME pc'[u].op = "destroy"
        PROVE  host[pc'[u].handle] # "live"
    BY <1>2, <2>2 DEF LiveInv, LateCalls
  <2> QED
    BY <2>1, <2>2
<1>6. CurrentLives'
  <2> SUFFICES ASSUME current # NoObject, adopted[current] \notin Prompt,
                      ~ \E u \in Threads : pc'[u].op = "activate"
               PROVE  \E u \in Threads :
                        /\ hostCurrent[u] = adopted[current]
                        /\ registry'[adopted[current]] = current \/ host[adopted[current]] = "doomed"
    BY <1>1, <1>2 DEF CurrentLives
  <2>1. ~ \E u \in Threads : pc[u].op = "activate"
    BY <1>2
  <2>2. PICK u \in Threads :
          /\ hostCurrent[u] = adopted[current]
          /\ registry[adopted[current]] = current \/ host[adopted[current]] = "doomed"
    BY <2>1 DEF LiveInv, CurrentLives
  <2>3. adopted[current] \in Handles
    BY DEF LiveInv, CallInv, CurrentFollows
  <2>4. adopted[current] = h => host[h] = "doomed"
    <3>1. adopted[current] = h => host[h] # "free"
      BY <2>2, <2>3, NoContextIsNoHandle DEF LiveInv, HostHolds
    <3> QED
      BY <1>3, <1>4, <3>1 DEF LiveInv, CallInv, OwnInv, TypeOK
  <2> QED
    BY <1>3, <2>2, <2>3, <2>4
<1> QED
  BY <1>2, <1>5, <1>6 DEF LiveInv

LEMMA LiveActivate ==
  ASSUME LiveInv, CallInv', NEW t \in Threads, NEW up \in BOOLEAN, Activate(t, up)
  PROVE  LiveInv'
<1> DEFINE h == pc[t].handle
           o == IF h = NoContext THEN NoObject ELSE registry[h]
<1>1. /\ End(t, "activate") /\ current' = o
      /\ adopted' = IF o = NoObject \/ o \in initialized
                      THEN adopted ELSE [adopted EXCEPT ![o] = h]
      /\ UNCHANGED registry
  BY DEF Activate
<1>2. /\ pc[t].op = "activate" /\ pc'[t] = Idle
      /\ \A u \in Threads \ {t} : pc'[u] = pc[u]
      /\ UNCHANGED <<host, hostCurrent>>
      /\ HostHolds'
      /\ \A u \in Threads : pc'[u].op \in {"create", "destroy"} => u # t
  BY <1>1, LiveEnd
<1>3. h \in Handles \cup {NoContext} /\ hostCurrent[t] = h
  BY <1>2, CallType DEF LiveInv, CallInv, OwnInv, Activating
<1>4. o # NoObject => h \in Handles /\ o = registry[h] /\ o \in Objects
  BY <1>3 DEF LiveInv, CallInv, OwnInv, TypeOK
<1> HIDE DEF h, o
<1>5. o # NoObject => adopted'[o] = h
  BY <1>1, <1>4 DEF LiveInv, CallInv, Adoption, OwnInv, TypeOK
<1>6. LateCalls'
  <2> SUFFICES ASSUME NEW u \in Threads, pc'[u].handle \in Handles \ Prompt
               PROVE  /\ pc'[u].op = "create" =>
                           /\ registry[pc'[u].handle] = NoObject
                           /\ \A w \in Threads : pc'[w] = pc'[u] => w = u
                      /\ pc'[u].op = "destroy" => host[pc'[u].handle] # "live"
    BY <1>1, <1>2 DEF LateCalls
  <2>1. ASSUME pc'[u].op = "create"
        PROVE  /\ registry[pc'[u].handle] = NoObject
               /\ \A w \in Threads : pc'[w] = pc'[u] => w = u
    <3>1. u # t /\ pc'[u] = pc[u]
      BY <1>2, <2>1
    <3>2. registry[pc[u].handle] = NoObject /\ \A w \in Threads : pc[w] = pc[u] => w = u
      BY <2>1, <3>1 DEF LiveInv, LateCalls
    <3>3. pc'[t] # pc[u]
      BY <1>2, <2>1, <3>1
    <3> QED
      BY <1>2, <3>1, <3>2, <3>3
  <2>2. ASSUME pc'[u].op = "destroy"
        PROVE  host[pc'[u].handle] # "live"
    BY <1>2, <2>2 DEF LiveInv, LateCalls
  <2> QED
    BY <2>1, <2>2
<1>7. CurrentLives'
  BY <1>1, <1>2, <1>3, <1>4, <1>5 DEF CurrentLives
<1> QED
  BY <1>2, <1>6, <1>7 DEF LiveInv

LEMMA StepLive == LiveInv /\ [Next]_vars => LiveInv'
<1> SUFFICES ASSUME LiveInv, [Next]_vars
             PROVE  LiveInv'
  OBVIOUS
<1>1. CallInv'
  BY StepCall DEF LiveInv
<1>2. ASSUME UNCHANGED <<host, hostCurrent, registry, adopted, current, pc>>
      PROVE  LiveInv'
  BY <1>1, <1>2 DEF LiveInv, HostHolds, LateCalls, CurrentLives
<1>3. CASE UNCHANGED vars
  BY <1>2, <1>3 DEF vars, hostVars, shimVars
<1>4. ASSUME NEW t \in Threads, GLCall(t)
      PROVE  LiveInv'
  BY <1>2, <1>4 DEF GLCall, hostVars, shimVars
<1>5. CASE Next
  BY <1>1, <1>4, <1>5, LiveHost, LiveRegister, LiveUnregister, LiveActivate DEF Next
<1> QED
  BY <1>3, <1>5

LEMMA LiveAlways == Spec => []LiveInv
BY InitLive, StepLive, PTL DEF Spec

\* Once the calls under way have ended, a gl* call of any thread runs on a YAGLT context
\* that was not deleted, however contexts were destroyed while other threads made them
\* current or had them, unless the context was destroyed while current and is not yet
\* released, or its handle is one that the host gives out early.
THEOREM CallsOnLiveContexts == Spec => []GLOnLiveContext
<1>1. ASSUME LiveInv, gl # Nothing, \A t \in Threads : pc[t] = Idle,
             adopted[gl.object] \notin Prompt, host[adopted[gl.object]] # "doomed"
      PROVE  gl.object \in alive
  <2>1. gl.object = current /\ current # NoObject
    BY <1>1 DEF LiveInv, CallInv, CallOnCurrent
  <2>2. ~(\E t \in Threads : pc[t].op = "activate")
    BY <1>1 DEF Idle
  <2>3. registry[adopted[current]] = current
    BY <1>1, <2>1, <2>2 DEF LiveInv, CurrentLives
  <2>4. adopted[current] \in Handles
    BY <1>1, <2>1 DEF LiveInv, CallInv, CurrentFollows
  <2> QED
    BY <1>1, <2>1, <2>3, <2>4 DEF LiveInv, CallInv, OwnInv, EntriesOwned
<1>2. LiveInv => GLOnLiveContext
  BY <1>1 DEF GLOnLiveContext
<1> QED
  BY LiveAlways, <1>2, PTL
=============================================================================
