------------------------------- MODULE Queries -------------------------------
(***************************************************************************)
(* Query objects and conditional rendering. Context records which query is *)
(* active on every target, and for the two counter targets also on every   *)
(* index; GLESBackendQuery begins and ends them in the driver, which knows  *)
(* one query per target, fixes the target of a query when it first begins,  *)
(* and keeps a deleted query running until its target is ended.            *)
(***************************************************************************)
CONSTANTS
  QueryNames,     \* numbers of names; one that nothing refers to any more stands
                  \* for the next name that nextName_ gives to a query
  NoQuery,        \* 0
  Orphan,         \* a deleted query that the driver keeps
  PlainTargets,   \* targets without an index
  CounterTargets, \* GL_PRIMITIVES_GENERATED, GL_TRANSFORM_FEEDBACK_PRIMITIVES_WRITTEN
  Occlusion,      \* targets whose queries the driver accepts for a region
  RegionTargets,  \* isConditionalRenderQueryType
  Indices

Timestamp == "timestamp"
NoTarget  == "none"

ASSUME NoQueryIsNoName == {NoQuery, Orphan} \cap QueryNames = {} /\ NoQuery # Orphan
ASSUME TargetsDistinct ==
  /\ {Timestamp, NoTarget} \cap (PlainTargets \cup CounterTargets) = {}
  /\ Occlusion \subseteq RegionTargets
  /\ RegionTargets \subseteq PlainTargets \cup CounterTargets

QueryTargets == PlainTargets \cup CounterTargets
QueryRefs    == QueryNames \cup {NoQuery}

VARIABLES
  queries,         \* keys of queries_
  queryTarget,     \* QueryObject::target
  queryActive,     \* the queries whose QueryObject::active is set
  activeQueries,   \* activeQueries_
  activeIndexed,   \* activeIndexedQueries_
  region,          \* conditionalRenderQuery_, NoQuery outside a region
  \* The driver.
  nativeQuery,     \* the number of each native query
  running,         \* the query that runs on each target
  nativeTarget,    \* the target a query was first used with
  results,         \* queries that have a result
  nativeRegion,    \* the query of the driver's region
  \* History of what the program did.
  orderly,         \* targets that never had two queries active at a time, nor
                   \* one deleted while active, since they were last idle
  misused          \* queries last used with another target than at first

queryFrontend == <<queryTarget, queryActive, activeQueries, activeIndexed>>
queryDriver   == <<running, nativeTarget, results>>
queryNames    == <<queries, nativeQuery>>
queryRegions  == <<region, nativeRegion>>
queryHistory  == <<orderly, misused>>
queryVars == <<queryFrontend, queryDriver, queryNames, queryRegions, queryHistory>>

QueryTypeOK ==
  /\ queries \subseteq QueryNames
  /\ queryTarget \in [QueryNames -> QueryTargets \cup {Timestamp, NoTarget}]
  /\ queryActive \subseteq queries
  /\ activeQueries \in [QueryTargets -> QueryRefs]
  /\ activeIndexed \in [CounterTargets -> [Indices -> QueryRefs]]
  /\ \A t \in QueryTargets : activeQueries[t] \in queryActive \cup {NoQuery}
  /\ nativeQuery \in [QueryNames -> {0} \cup QueryNames]
  /\ running \in [QueryTargets -> queries \cup {NoQuery, Orphan}]
  /\ nativeTarget \in [QueryNames -> QueryTargets \cup {Timestamp, NoTarget}]
  /\ results \subseteq queries /\ misused \subseteq queries
  /\ region \in QueryRefs /\ nativeRegion \in queries \cup {NoQuery, Orphan}
  /\ orderly \subseteq QueryTargets

QueryInit ==
  /\ queries = {} /\ queryActive = {} /\ results = {}
  /\ queryTarget = [q \in QueryNames |-> NoTarget]
  /\ nativeTarget = [q \in QueryNames |-> NoTarget]
  /\ nativeQuery = [q \in QueryNames |-> 0]
  /\ activeQueries = [t \in QueryTargets |-> NoQuery]
  /\ activeIndexed = [t \in CounterTargets |-> [i \in Indices |-> NoQuery]]
  /\ running = [t \in QueryTargets |-> NoQuery]
  /\ region = NoQuery /\ nativeRegion = NoQuery
  /\ orderly = QueryTargets /\ misused = {}

\* The queries that Context holds active on a target, deleted ones included.
ActiveIn(plain, indexed, t) ==
  ({plain[t]} \cup (IF t \in CounterTargets
                      THEN {indexed[t][i] : i \in Indices} ELSE {})) \ {NoQuery}
ActiveOn(t) == ActiveIn(activeQueries, activeIndexed, t)

\* After the step: a target with nothing active on either side is orderly again.
Watch(disturbed) ==
  orderly' = {t \in QueryTargets :
                \/ ActiveIn(activeQueries', activeIndexed', t) = {} /\ running'[t] = NoQuery
                \/ t \in orderly \ disturbed}
-----------------------------------------------------------------------------
(* Names. The driver gives out any number it does not use. *)

GenQuery(q, target, n) ==
  /\ q \notin queries \cup {region}
  /\ \A t \in CounterTargets : q \notin ActiveOn(t)
  /\ \A p \in queries : nativeQuery[p] # n
  /\ queries' = queries \cup {q}
  /\ queryTarget' = [queryTarget EXCEPT ![q] = target]
  /\ nativeQuery' = [nativeQuery EXCEPT ![q] = n]
  /\ UNCHANGED <<queryActive, activeQueries, activeIndexed, queryDriver,
                 queryRegions, queryHistory>>

Orphaned(ref, q) == IF ref = q THEN Orphan ELSE ref

\* The binding of a plain target goes; that of an index stays. The driver is
\* not told to end the query.
DeleteQuery(q) ==
  /\ q \in queries
  /\ queries' = queries \ {q}
  /\ queryActive' = queryActive \ {q}
  /\ activeQueries' = [t \in QueryTargets |->
                         IF q \in queryActive /\ activeQueries[t] = q
                           THEN NoQuery ELSE activeQueries[t]]
  /\ queryTarget' = [queryTarget EXCEPT ![q] = NoTarget]
  /\ nativeTarget' = [nativeTarget EXCEPT ![q] = NoTarget]
  /\ nativeQuery' = [nativeQuery EXCEPT ![q] = 0]
  /\ running' = [t \in QueryTargets |-> Orphaned(running[t], q)]
  /\ nativeRegion' = Orphaned(nativeRegion, q)
  /\ results' = results \ {q} /\ misused' = misused \ {q}
  /\ UNCHANGED <<activeIndexed, region>>
  /\ Watch({t \in QueryTargets : q \in ActiveOn(t)})
-----------------------------------------------------------------------------
(* Begin and end. *)

\* glBeginQuery of the driver.
DriverTakes(q, t) ==
  /\ nativeTarget[q] \in {NoTarget, t}
  /\ running[t] = NoQuery
  /\ \A u \in QueryTargets : running[u] # q

DriverBegin(q, t) ==
  /\ running' = IF DriverTakes(q, t) THEN [running EXCEPT ![t] = q] ELSE running
  /\ nativeTarget' = IF DriverTakes(q, t) THEN [nativeTarget EXCEPT ![q] = t]
                                          ELSE nativeTarget
  /\ UNCHANGED results

Begin(q, t) ==
  /\ queryTarget' = [queryTarget EXCEPT ![q] = t]
  /\ queryActive' = queryActive \cup {q}
  /\ DriverBegin(q, t)
  /\ misused' = IF nativeTarget[q] \in {NoTarget, t} THEN misused \ {q} ELSE misused \cup {q}
  /\ UNCHANGED <<queryNames, queryRegions>>
  /\ Watch(IF ActiveOn(t) = {} THEN {} ELSE {t})

\* Asking only whether the target is free.
MutBeginQuery(t, q) ==
  /\ q \in queries
  /\ activeQueries[t] = NoQuery
  /\ activeQueries' = [activeQueries EXCEPT ![t] = q]
  /\ UNCHANGED activeIndexed
  /\ Begin(q, t)

BeginQuery(t, q) ==
  /\ q \in queries \ queryActive
  /\ activeQueries[t] = NoQuery
  /\ activeQueries' = [activeQueries EXCEPT ![t] = q]
  /\ UNCHANGED activeIndexed
  /\ Begin(q, t)

\* The driver is not told the index.
BeginQueryIndexed(t, i, q) ==
  /\ q \in queries \ queryActive
  /\ activeIndexed[t][i] = NoQuery
  /\ activeIndexed' = [activeIndexed EXCEPT ![t][i] = q]
  /\ UNCHANGED activeQueries
  /\ Begin(q, t)

\* glEndQuery of the driver ends whatever runs on the target the backend query
\* began on; nothing is sent for a query that was deleted.
End(q, t) ==
  /\ queryActive' = queryActive \ {q}
  /\ results' = IF q \in queries THEN results \cup ({running[t]} \cap queries) ELSE results
  /\ running' = IF q \in queries THEN [running EXCEPT ![t] = NoQuery] ELSE running
  /\ UNCHANGED <<queryTarget, nativeTarget, queryNames, queryRegions, misused>>
  /\ Watch({})

EndQuery(t) ==
  /\ activeQueries[t] # NoQuery
  /\ activeQueries' = [activeQueries EXCEPT ![t] = NoQuery]
  /\ UNCHANGED activeIndexed
  /\ End(activeQueries[t], t)

EndQueryIndexed(t, i) ==
  /\ activeIndexed[t][i] # NoQuery
  /\ activeIndexed' = [activeIndexed EXCEPT ![t][i] = NoQuery]
  /\ UNCHANGED activeQueries
  /\ End(activeIndexed[t][i], t)

\* A timestamp, which has no end.
QueryCounter(q) ==
  LET taken == nativeTarget[q] \in {NoTarget, Timestamp}
  IN  /\ q \in queries \ queryActive
      /\ queryTarget' = [queryTarget EXCEPT ![q] = Timestamp]
      /\ nativeTarget' = IF taken THEN [nativeTarget EXCEPT ![q] = Timestamp] ELSE nativeTarget
      /\ results' = IF taken THEN results \cup {q} ELSE results
      /\ misused' = IF taken THEN misused \ {q} ELSE misused \cup {q}
      /\ UNCHANGED <<queryActive, activeQueries, activeIndexed, running, queryNames,
                     queryRegions, orderly>>
-----------------------------------------------------------------------------
(* Conditional rendering. The sink passes the name of the query to the      *)
(* driver: queries are never entered in nativeMap_.                         *)

\* glBeginConditionalRenderNV of the driver, with a number.
DriverRegion(n) ==
  {q \in queries : /\ nativeQuery[q] = n /\ nativeTarget[q] \in Occlusion
                   /\ \A t \in QueryTargets : running[t] # q}

EnterRegion(q) ==
  /\ region = NoQuery
  /\ region' = q
  /\ nativeRegion' = IF DriverRegion(q) = {} THEN NoQuery
                                             ELSE CHOOSE p \in DriverRegion(q) : TRUE
  /\ UNCHANGED <<queryFrontend, queryDriver, queryNames, queryHistory>>

\* A query that is still active is let through.
MutBeginConditionalRender(q) ==
  /\ q \in queries
  /\ queryTarget[q] \in RegionTargets
  /\ EnterRegion(q)

BeginConditionalRender(q) ==
  /\ q \in queries \ queryActive
  /\ queryTarget[q] \in RegionTargets
  /\ EnterRegion(q)

EndConditionalRender ==
  /\ region # NoQuery
  /\ region' = NoQuery /\ nativeRegion' = NoQuery
  /\ UNCHANGED <<queryFrontend, queryDriver, queryNames, queryHistory>>

QueryNext ==
  \/ \E q \in QueryNames, t \in QueryTargets \cup {NoTarget}, n \in QueryNames :
       GenQuery(q, t, n)
  \/ \E q \in QueryNames : DeleteQuery(q)
  \/ \E t \in QueryTargets, q \in QueryNames : BeginQuery(t, q)
  \/ \E t \in CounterTargets, i \in Indices, q \in QueryNames : BeginQueryIndexed(t, i, q)
  \/ \E t \in QueryTargets : EndQuery(t)
  \/ \E t \in CounterTargets, i \in Indices : EndQueryIndexed(t, i)
  \/ \E q \in QueryNames : QueryCounter(q)
  \/ \E q \in QueryNames : BeginConditionalRender(q)
  \/ EndConditionalRender

QuerySpec == QueryInit /\ [][QueryNext]_queryVars
-----------------------------------------------------------------------------
\* On a target the program uses in order the driver runs the query that Context
\* holds active there, and none when there is none (glBeginQuery, glEndQuery and
\* their indexed forms), so what a query counts is what lies between its begin
\* and its end. Queries used with a second target, which Context accepts and the
\* driver refuses, are left out.
QueryRunsWhereActive ==
  \A t \in orderly : {running[t]} \ {NoQuery} = ActiveOn(t) \ misused

\* A region whose query has a result of an occlusion target, and whose name is
\* by luck its native number, is a region of that query in the driver too: the
\* checks of glBeginConditionalRender leave the driver nothing to refuse.
RegionEntered ==
  [][region = NoQuery /\ region' \in (results \cap QueryNames) \ misused
       /\ nativeQuery[region'] = region' /\ nativeTarget[region'] \in Occlusion
     => nativeRegion' = region']_queryVars
=============================================================================
