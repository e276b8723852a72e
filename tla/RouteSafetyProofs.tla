-------------------------- MODULE RouteSafetyProofs --------------------------
(***************************************************************************)
(* What the registry guarantees about its rules, its public URLs and the   *)
(* list it gives the gateway, for every value of the constants.  All of it *)
(* rests on the inductive invariant of RouteLifecycleProofs.               *)
(***************************************************************************)
EXTENDS RouteLifecycleProofs

\* The steps that touch table rule: of all there is, only the commit of an
\* update whose document was accepted.
LEMMA RulesMove ==
    ASSUME IInv, [Next]_lifeVars
    PROVE  rules' = rules \/ \E p \in Procs : CommitRules(p)
<1>1. CASE UNCHANGED lifeVars
  BY <1>1 DEF lifeVars
<1>2. ASSUME NEW p \in Procs, UpdateStep(p)
      PROVE  rules' = rules
  BY <1>2 DEF UpdateStep, Fetch, StoreRules, DeleteResumes, dbVars
<1>3. ASSUME NEW p \in Procs, UpdateReturns(p) \/ UpdateRaises(p)
      PROVE  rules' = rules \/ CommitRules(p)
  BY <1>3 DEF UpdateReturns, UpdateRaises, FetchRaises, CommitFailure,
              CommitDuplicate, CommitDeadlock, CommitSwallowed, dbVars
<1>4. ASSUME NEW v \in Servers, Register(v) \/ Track(v)
      PROVE  rules' = rules \/ \E p \in Procs : CommitRules(p)
  <2>1. v \in Procs
    BY LifecycleAssumption
  <2>2. CASE Register(v)
    BY <2>2 DEF Register, RegisterRenew, RegisterCreate, RegisterFails,
                RegisterDelay, dbVars
  <2>3. CASE PassUpdates(v) \/ PassUpdated(v)
    BY <1>2, <1>3, <2>1, <2>3 DEF PassUpdates, PassUpdated
  <2> QED
    BY <1>4, <2>2, <2>3 DEF Track, PassStarts, PassPicks, Load, PassKeeps,
                            UnverifyReads, UnverifyCommits, dbVars
<1>5. ASSUME NEW t \in Tasks, Work(t)
      PROVE  rules' = rules \/ \E p \in Procs : CommitRules(p)
  <2>1. t \in Procs
    BY LifecycleAssumption
  <2> QED
    BY <1>2, <1>3, <1>5, <2>1 DEF Work, TaskStarts, TaskRuns, TaskSucceeds,
                                  TaskRetries, TaskFails, Load, dbVars
<1>6. CASE Client \/ Surroundings \/ Failure
  BY <1>6 DEF Client, RegisterRead, RotateJwt, Surroundings, AppChanges, Tick,
              AddEntity, RemoveEntity, Failure, RegisterDelayFails,
              ServerCrashes, WorkerCrashes, dbVars
<1> QED
  BY <1>1, <1>4, <1>5, <1>6 DEF Next, Operation

\* The registry's own steps, clients and failures leave table entity alone.
LEMMA EntitiesMove ==
    ASSUME IInv, [Next]_lifeVars, ~Surroundings
    PROVE  entities' = entities
<1>1. CASE UNCHANGED lifeVars
  BY <1>1 DEF lifeVars
<1>2. ASSUME NEW p \in Procs, UpdateStep(p) \/ UpdateReturns(p) \/ UpdateRaises(p)
      PROVE  entities' = entities
  BY <1>2, UpdateEndEffect
     DEF IInv, UpdateStep, Fetch, StoreRules, DeleteResumes, dbVars
<1>3. ASSUME NEW v \in Servers, Register(v) \/ Track(v)
      PROVE  entities' = entities
  <2>1. v \in Procs
    BY LifecycleAssumption
  <2>2. CASE Register(v)
    BY <2>2 DEF Register, RegisterRenew, RegisterCreate, RegisterFails,
                RegisterDelay, dbVars
  <2>3. CASE PassUpdates(v) \/ PassUpdated(v)
    BY <1>2, <2>1, <2>3 DEF PassUpdates, PassUpdated
  <2> QED
    BY <1>3, <2>2, <2>3 DEF Track, PassStarts, PassPicks, Load, PassKeeps,
                            UnverifyReads, UnverifyCommits, dbVars
<1>4. ASSUME NEW t \in Tasks, Work(t)
      PROVE  entities' = entities
  <2>1. t \in Procs
    BY LifecycleAssumption
  <2> QED
    BY <1>2, <1>4, <2>1 DEF Work, TaskStarts, TaskRuns, TaskSucceeds,
                            TaskRetries, TaskFails, Load, dbVars
<1>5. CASE Client \/ Failure
  BY <1>5 DEF Client, RegisterRead, RotateJwt, Failure, RegisterDelayFails,
              ServerCrashes, WorkerCrashes, dbVars
<1> QED
  BY <1>1, <1>3, <1>4, <1>5 DEF Next, Operation

\* A flush that commits broke no constraint.
LEMMA CommittedMeansSound ==
    ASSUME NEW unique \in BOOLEAN, NEW other \in BOOLEAN,
           Committed \in CommitEnds(unique, other)
    PROVE  ~unique /\ ~other
BY DEF CommitEnds, Committed, Duplicate, Swallowed

\* The rules that a commit leaves behind.
LEMMA CommitRulesSound ==
    ASSUME IInv, NEW p \in Procs, CommitRules(p)
    PROVE  /\ \A x \in Inserted(p), y \in Kept(p) \cup Inserted(p) :
                 x.entity = y.entity => x = y
           /\ \A x \in Inserted(p) : x.entity \in entities
           /\ update[p].src \in Srcs
           /\ rules' = [rules EXCEPT ![update[p].src] = Kept(p) \cup Inserted(p)]
           /\ Kept(p) \subseteq rules[update[p].src]
           /\ entities' = entities
<1>1. /\ ~ \E x \in Inserted(p) : \E y \in Kept(p) \cup (Inserted(p) \ {x}) :
             x.entity = y.entity
      /\ ~ \E x \in Inserted(p) : x.entity \notin entities
  BY CommittedMeansSound DEF CommitRules, RuleCommitEnds
<1>2. update[p].src \in Srcs
  BY DEF CommitRules, AtRuleCommit, At, IInv, TypeOK, UpdateTypeOK, Update
<1> QED
  BY <1>1, <1>2 DEF CommitRules, Kept

-----------------------------------------------------------------------------
\* However many updates of one route overlap, whatever documents they carry,
\* and wherever processes die, no entity is both allowed and denied.
THEOREM OnePolicy == Spec => []OnePolicyPerPair
<1>1. Init => OnePolicyPerPair
  BY DEF Init, StoreInit, OnePolicyPerPair
<1>2. ASSUME IInv, OnePolicyPerPair, [Next]_lifeVars
      PROVE  OnePolicyPerPair'
  <2>1. CASE rules' = rules
    BY <1>2, <2>1 DEF OnePolicyPerPair
  <2>2. ASSUME NEW p \in Procs, CommitRules(p)
        PROVE  OnePolicyPerPair'
    <3>1. ASSUME NEW s \in Srcs, NEW x \in rules'[s], NEW y \in rules'[s],
                 x.entity = y.entity
          PROVE  x = y
      <4>1. rules \in [Srcs -> SUBSET Rule]
        BY <1>2 DEF IInv, TypeOK, StoreTypeOK
      <4>2. CASE s # update[p].src
        BY <1>2, <2>2, <3>1, <4>1, <4>2, CommitRulesSound DEF OnePolicyPerPair
      <4>3. CASE s = update[p].src
        <5>1. x \in Kept(p) \cup Inserted(p) /\ y \in Kept(p) \cup Inserted(p)
          BY <1>2, <2>2, <3>1, <4>1, <4>3, CommitRulesSound
        <5>2. CASE x \in Kept(p) /\ y \in Kept(p)
          BY <1>2, <2>2, <3>1, <4>3, <5>2, CommitRulesSound DEF OnePolicyPerPair
        <5> QED
          BY <1>2, <2>2, <3>1, <5>1, <5>2, CommitRulesSound
      <4> QED
        BY <4>2, <4>3
    <3> QED
      BY <3>1 DEF OnePolicyPerPair
  <2> QED
    BY <1>2, <2>1, <2>2, RulesMove
<1> QED
  BY <1>1, <1>2, IInvHolds, PTL DEF Spec

\* No stored rule outlives its entity, although an operator may remove the
\* entity any time between its lookup and the commit that names it.
THEOREM RulesHaveEntities == Spec => []RulesNameEntities
<1>1. Init => RulesNameEntities
  BY DEF Init, StoreInit, RulesNameEntities
<1>2. ASSUME IInv, RulesNameEntities, [Next]_lifeVars
      PROVE  RulesNameEntities'
  <2>1. ASSUME NEW p \in Procs, CommitRules(p)
        PROVE  RulesNameEntities'
    <3>1. rules \in [Srcs -> SUBSET Rule]
      BY <1>2 DEF IInv, TypeOK, StoreTypeOK
    <3> QED
      BY <1>2, <2>1, <3>1, CommitRulesSound DEF RulesNameEntities
  <2>2. CASE rules' = rules
    <3>1. \A s \in Srcs : \A x \in rules[s] : x.entity \in entities'
      <4>1. CASE Surroundings
        BY <1>2, <4>1 DEF RulesNameEntities, Surroundings, AppChanges, Tick,
                          AddEntity, RemoveEntity, dbVars
      <4>2. CASE ~Surroundings
        BY <1>2, <4>2, EntitiesMove DEF RulesNameEntities
      <4> QED
        BY <4>1, <4>2
    <3> QED
      BY <2>2, <3>1 DEF RulesNameEntities
  <2> QED
    BY <1>2, <2>1, <2>2, RulesMove
<1> QED
  BY <1>1, <1>2, IInvHolds, PTL DEF Spec

-----------------------------------------------------------------------------
(***************************************************************************)
(* What a step does to the rows of table route, whoever takes it.          *)
(***************************************************************************)

\* The registry reached the app or heard from the owner of s today, and has
\* raised what is known of the route, or left it.
Contacted(s, old) ==
    /\ route' = [route EXCEPT
                   ![s].verification = route'[s].verification,
                   ![s].status = route'[s].status, ![s].contact = day]
    /\ route'[s].verification \in {old.verification, "VERIFIED"}
    /\ route'[s].status \in {old.status, "UP"}

\* What is known of s got worse, or stayed.
Degraded(s, old) ==
    /\ route' = [route EXCEPT
                   ![s].verification = route'[s].verification,
                   ![s].status = route'[s].status]
    /\ route'[s].verification \in {old.verification, "UNVERIFIED"}
    /\ route'[s].status \in {old.status} \cup (Status \ {"UP"})

\* The five things that can happen to the rows: nothing, a contact, a
\* degradation, a first registration, the removal of an owner.
RouteChange ==
    \/ route' = route /\ rules' = rules
    \/ \E s \in Srcs : /\ route[s] # None /\ Contacted(s, route[s])
                       /\ \/ rules' = rules
                          \/ \E p \in Procs : CommitRules(p) /\ update[p].src = s
    \/ \E s \in Srcs : route[s] # None /\ Degraded(s, route[s]) /\ rules' = rules
    \/ \E s \in Srcs, u \in Users :
         /\ route[s] = None
         /\ route' = [route EXCEPT ![s] = NewRow(u)]
         /\ rules' = rules
    \/ \E e \in Entities : RemoveEntity(e)

\* The update of a route, at each of its steps.
LEMMA UpdateRouteChange ==
    ASSUME IInv, NEW p \in Procs,
           UpdateStep(p) \/ UpdateReturns(p) \/ UpdateRaises(p)
    PROVE  RouteChange
<1> USE DEF IInv, At, AtRuleCommit
<1>1. CASE UNCHANGED dbVars
  BY <1>1 DEF dbVars, RouteChange
<1>2. CASE CommitFailure(p) \/ CommitRules(p)
  <2> DEFINE s == update[p].src
             old == route[s]
  <2>1. update[p] # None /\ update[p] \in Update /\ s \in Srcs
    BY <1>2 DEF CommitFailure, CommitRules, TypeOK, UpdateTypeOK, Update
  <2>2. old # None /\ old \in Row
    BY <2>1 DEF WorkHasRow, TypeOK, StoreTypeOK
  <2>3. CASE CommitFailure(p)
    <3> DEFINE new == Flushed(old.status, update[p].loaded, update[p].verdict)
    <3>1. new \in {old.status} \cup (Status \ {"UP"})
      BY <2>1, <2>3 DEF CommitFailure, Flushed, Update
    <3>2. route' = [route EXCEPT ![s] = [old EXCEPT !.status = new]]
      BY <2>3 DEF CommitFailure
    <3>3. route'[s] = [old EXCEPT !.status = new]
      BY <2>1, <3>2 DEF TypeOK, StoreTypeOK
    <3>4. route'[s].status = new /\ route'[s].verification = old.verification
      BY <2>2, <3>3 DEF Row
    <3>5. [old EXCEPT !.status = new]
            = [old EXCEPT !.verification = old.verification, !.status = new]
      BY <2>2 DEF Row
    <3> HIDE DEF new
    <3>6. Degraded(s, old)
      BY <2>1, <3>1, <3>2, <3>4, <3>5 DEF Degraded, TypeOK, StoreTypeOK
    <3> QED
      BY <2>1, <2>2, <2>3, <3>6 DEF CommitFailure, RouteChange
  <2>4. CASE CommitRules(p)
    <3> DEFINE new == Flushed(old.status, update[p].loaded, "UP")
    <3>1. new \in {old.status, "UP"}
      BY DEF Flushed
    <3>2. route' = [route EXCEPT ![s] = [old EXCEPT !.status = new, !.contact = day]]
      BY <2>1, <2>4 DEF CommitRules, TypeOK, StoreTypeOK
    <3>3. route'[s] = [old EXCEPT !.status = new, !.contact = day]
      BY <2>1, <3>2 DEF TypeOK, StoreTypeOK
    <3>4. route'[s].status = new /\ route'[s].verification = old.verification
      BY <2>2, <3>3 DEF Row
    <3>5. [old EXCEPT !.status = new, !.contact = day]
            = [old EXCEPT !.verification = old.verification, !.status = new,
                          !.contact = day]
      BY <2>2 DEF Row
    <3> HIDE DEF new
    <3>6. Contacted(s, old)
      BY <2>1, <3>1, <3>2, <3>4, <3>5 DEF Contacted, TypeOK, StoreTypeOK
    <3> QED
      BY <2>1, <2>2, <2>4, <3>6 DEF RouteChange
  <2> QED
    BY <1>2, <2>3, <2>4
<1> QED
  BY <1>1, <1>2
     DEF UpdateStep, Fetch, StoreRules, DeleteResumes, UpdateReturns,
         UpdateRaises, FetchRaises, CommitDuplicate, CommitDeadlock,
         CommitSwallowed

\* A registration, at each of its steps.
LEMMA RegisterRouteChange ==
    ASSUME IInv, NEW v \in Servers, Register(v)
    PROVE  RouteChange
<1> USE DEF IInv, RequestAt
<1> DEFINE s == request[v].src
           old == route[s]
<1>1. request[v] # None /\ request[v] \in Request /\ s \in Srcs
      /\ request[v].user \in Users
  BY DEF Register, RegisterRenew, RegisterCreate, RegisterFails, RegisterDelay,
         TypeOK, Request
<1>2. CASE RegisterRenew(v)
  <2> DEFINE new == Flushed(old.verification, request[v].seen.verification,
                            "VERIFIED")
  <2>1. old # None /\ old \in Row
    BY <1>1, <1>2 DEF RegisterRenew, WorkHasRow, TypeOK, StoreTypeOK
  <2>2. new \in {old.verification, "VERIFIED"}
    BY DEF Flushed
  <2>3. route' = [route EXCEPT ![s] = [old EXCEPT !.verification = new,
                                                  !.contact = day]]
    BY <1>1, <1>2 DEF RegisterRenew, TypeOK, StoreTypeOK
  <2>4. route'[s] = [old EXCEPT !.verification = new, !.contact = day]
    BY <1>1, <2>3 DEF TypeOK, StoreTypeOK
  <2>5. route'[s].verification = new /\ route'[s].status = old.status
    BY <2>1, <2>4 DEF Row
  <2>6. [old EXCEPT !.verification = new, !.contact = day]
          = [old EXCEPT !.verification = new, !.status = old.status,
                        !.contact = day]
    BY <2>1 DEF Row
  <2> HIDE DEF new
  <2>7. Contacted(s, old)
    BY <1>1, <2>2, <2>3, <2>5, <2>6 DEF Contacted, TypeOK, StoreTypeOK
  <2> QED
    BY <1>1, <1>2, <2>1, <2>7 DEF RegisterRenew, RouteChange
<1>3. CASE RegisterCreate(v)
  <2>1. route[s] = None
    BY <1>3, CommittedMeansSound DEF RegisterCreate, CreateEnds
  <2> QED
    BY <1>1, <1>3, <2>1 DEF RegisterCreate, RouteChange
<1> QED
  BY <1>2, <1>3 DEF Register, RegisterFails, RegisterDelay, dbVars, RouteChange

\* The tracker's verdict on a stale route.
LEMMA UnverifyRouteChange ==
    ASSUME IInv, NEW v \in Servers, UnverifyCommits(v)
    PROVE  RouteChange
<1> USE DEF IInv, PassAt
<1> DEFINE s == pass[v].src
           old == route[s]
           verification == Flushed(old.verification, pass[v].seen.verification,
                                   "UNVERIFIED")
           status == Flushed(old.status, pass[v].seen.status, "DOWN")
           row == [old EXCEPT !.verification = verification, !.status = status]
<1>1. pass[v] # None /\ s \in Srcs /\ old # None /\ old \in Row
  BY DEF UnverifyCommits, TypeOK, StoreTypeOK, Pass, WorkHasRow
<1>2. /\ verification \in {old.verification, "UNVERIFIED"}
      /\ status \in {old.status} \cup (Status \ {"UP"})
  BY DEF Flushed, Status
<1>3. route' = [route EXCEPT ![s] = row] /\ rules' = rules
  BY <1>1 DEF UnverifyCommits, TypeOK, StoreTypeOK
<1>4. route'[s] = row
  BY <1>1, <1>3 DEF TypeOK, StoreTypeOK
<1> HIDE DEF verification, status
<1>5. route'[s].verification = verification /\ route'[s].status = status
  BY <1>1, <1>4 DEF Row
<1>6. Degraded(s, old)
  BY <1>1, <1>2, <1>3, <1>5 DEF Degraded
<1> QED
  BY <1>1, <1>3, <1>6 DEF RouteChange

\* Every step of the registry is one of the five.
LEMMA NextRouteChange ==
    ASSUME IInv, [Next]_lifeVars
    PROVE  RouteChange
<1>1. CASE UNCHANGED lifeVars
  BY <1>1 DEF lifeVars, RouteChange
<1>2. ASSUME NEW v \in Servers, Track(v)
      PROVE  RouteChange
  <2>1. v \in Procs
    BY LifecycleAssumption
  <2>2. CASE PassUpdates(v) \/ PassUpdated(v)
    BY <2>1, <2>2, UpdateRouteChange DEF PassUpdates, PassUpdated
  <2>3. CASE UnverifyCommits(v)
    BY <2>3, UnverifyRouteChange
  <2> QED
    BY <1>2, <2>2, <2>3 DEF Track, PassStarts, PassPicks, Load, PassKeeps,
                            UnverifyReads, dbVars, RouteChange
<1>3. ASSUME NEW t \in Tasks, Work(t)
      PROVE  RouteChange
  <2>1. t \in Procs
    BY LifecycleAssumption
  <2>2. CASE TaskStarts(t)
    BY <2>2 DEF TaskStarts, Load, dbVars, RouteChange
  <2> QED
    BY <1>3, <2>1, <2>2, UpdateRouteChange
       DEF Work, TaskRuns, TaskSucceeds, TaskRetries, TaskFails
<1>4. CASE Client \/ Failure
  BY <1>4 DEF Client, RegisterRead, RotateJwt, Failure, RegisterDelayFails,
              ServerCrashes, WorkerCrashes, dbVars, RouteChange
<1>5. CASE Surroundings
  <2>1. CASE \E e \in Entities : RemoveEntity(e)
    BY <2>1 DEF RouteChange
  <2> QED
    BY <1>5, <2>1 DEF Surroundings, AppChanges, Tick, AddEntity, dbVars,
                      RouteChange
<1> QED
  BY <1>1, <1>2, <1>3, <1>4, <1>5, RegisterRouteChange DEF Next, Operation

\* No row is ever deleted.
LEMMA NextRows ==
    ASSUME IInv, [Next]_lifeVars
    PROVE  RowsStay
<1>1. ASSUME NEW s \in Srcs, route[s] # None
      PROVE  route'[s] # None
  <2>1. route \in [Srcs -> Row \cup {None}] /\ route'[s] \in Row \cup {None}
    BY <1>1, NextIInv DEF IInv, TypeOK, StoreTypeOK
  <2>2. ASSUME NEW z \in Srcs, route[z] # None,
               Contacted(z, route[z]) \/ Degraded(z, route[z])
        PROVE  route'[z] \in Row
    <3>1. /\ route[z] \in Row /\ day \in Days
          /\ route'[z].verification \in Verification
          /\ route'[z].status \in Status
      BY <1>1, <2>2
         DEF Contacted, Degraded, IInv, TypeOK, StoreTypeOK, Row, Verification, Status
    <3> DEFINE v == route'[z].verification
               st == route'[z].status
    <3> HIDE DEF v, st
    <3>2. /\ [route[z] EXCEPT !.verification = v, !.status = st] \in Row
          /\ [route[z] EXCEPT !.verification = v, !.status = st, !.contact = day]
                \in Row
      BY <3>1 DEF Row, v, st
    <3> QED
      BY <1>1, <2>1, <2>2, <3>2 DEF Contacted, Degraded, v, st
  <2>3. ASSUME NEW z \in Srcs, route[z] # None,
               Contacted(z, route[z]) \/ Degraded(z, route[z])
        PROVE  route'[s] # None
    <3>1. CASE z = s
      BY <2>2, <2>3, <3>1, StoreAssumption
    <3>2. CASE z # s
      BY <1>1, <2>1, <2>3, <3>2 DEF Contacted, Degraded
    <3> QED
      BY <3>1, <3>2
  <2>4. ASSUME NEW z \in Srcs, NEW u \in Users, route[z] = None,
               route' = [route EXCEPT ![z] = NewRow(u)]
        PROVE  route'[s] # None
    BY <1>1, <2>4
  <2>5. ASSUME NEW e \in Entities, RemoveEntity(e)
        PROVE  route'[s] # None
    <3>1. route[s] \in Row
      BY <1>1, <2>1
    <3>2. [route[s] EXCEPT !.owners = @ \ {e}] \in Row
      BY <3>1 DEF Row
    <3> QED
      BY <1>1, <2>5, <3>2, StoreAssumption DEF RemoveEntity
  <2> QED
    BY <1>1, <2>3, <2>4, <2>5, NextRouteChange DEF RouteChange
<1> QED
  BY <1>1 DEF RowsStay

\* A URL that is taken stays with its owners: concurrent registrations through
\* several servers, retries and crashes never add one or start it afresh.
THEOREM UrlsStay == Spec => NoTakeover
<1>1. ASSUME IInv, [Next]_lifeVars, NEW s \in Srcs, route[s] # None
      PROVE  route'[s] # None /\ route'[s].owners \subseteq route[s].owners
  <2>1. route[s] \in Row /\ route \in [Srcs -> Row \cup {None}]
    BY <1>1 DEF IInv, TypeOK, StoreTypeOK
  <2>2. ASSUME NEW z \in Srcs, Contacted(z, route[z]) \/ Degraded(z, route[z])
        PROVE  route'[s].owners = route[s].owners
    BY <2>1, <2>2 DEF Contacted, Degraded, Row
  <2>3. route'[s] # None
    BY <1>1, NextRows DEF RowsStay
  <2>4. ASSUME NEW e \in Entities, RemoveEntity(e)
        PROVE  route'[s].owners \subseteq route[s].owners
    <3>1. route'[s] = [route[s] EXCEPT !.owners = @ \ {e}]
      BY <1>1, <2>4 DEF RemoveEntity
    <3> QED
      BY <2>1, <3>1 DEF Row
  <2>5. ASSUME NEW z \in Srcs, NEW u \in Users, route[z] = None,
               route' = [route EXCEPT ![z] = NewRow(u)]
        PROVE  route'[s].owners = route[s].owners
    BY <1>1, <2>5
  <2> QED
    BY <1>1, <2>2, <2>3, <2>4, <2>5, NextRouteChange DEF RouteChange
<1>2. IInv /\ [Next]_lifeVars =>
        [\A s \in Srcs : route[s] # None =>
            route'[s] # None /\ route'[s].owners \subseteq route[s].owners]_lifeVars
  BY <1>1
<1> QED
  BY <1>2, IInvHolds, PTL DEF Spec, NoTakeover

-----------------------------------------------------------------------------
(***************************************************************************)
(* The life of routes implements RouteExposure.                            *)
(***************************************************************************)

Published == [s \in Srcs |-> IF IsAvailable(s) THEN rules[s] ELSE None]
LastContact == [s \in Srcs |-> IF route[s] = None THEN None ELSE route[s].contact]

\* A step on one route s changes what is published of s alone.
LEMMA PublishedMoves ==
    ASSUME NEW s \in Srcs,
           \A z \in Srcs \ {s} : route'[z] = route[z] /\ rules'[z] = rules[z]
    PROVE  /\ Published' = [Published EXCEPT ![s] =
                              IF IsAvailable(s)' THEN rules'[s] ELSE None]
           /\ LastContact' = [LastContact EXCEPT ![s] =
                              IF route'[s] = None THEN None ELSE route'[s].contact]
BY DEF Published, LastContact, IsAvailable

LEMMA ContactStep ==
    ASSUME IInv, OnePolicyPerPair, OnePolicyPerPair', [Next]_lifeVars,
           NEW s \in Srcs, route[s] # None, Contacted(s, route[s]), day' = day,
           rules' = rules \/ \E p \in Procs : CommitRules(p) /\ update[p].src = s
    PROVE  Exposure!Contact(s)
<1> DEFINE R == rules'[s]
<1>1. /\ route \in [Srcs -> Row \cup {None}] /\ route[s] \in Row
      /\ rules' \in [Srcs -> SUBSET Rule] /\ rules \in [Srcs -> SUBSET Rule]
  BY NextIInv DEF IInv, TypeOK, StoreTypeOK
<1>2. \A z \in Srcs \ {s} : route'[z] = route[z] /\ rules'[z] = rules[z]
  BY <1>1, CommitRulesSound DEF Contacted
<1>3. route'[s] # None
  BY NextRows DEF RowsStay
<1>4. route'[s].contact = day
  BY <1>1 DEF Contacted, Row
<1>5. LastContact' = [LastContact EXCEPT ![s] = day]
  BY <1>2, <1>3, <1>4, PublishedMoves
<1>6. R \in SUBSET Rule /\ Exposure!OnePolicy(R)
  BY <1>1 DEF OnePolicyPerPair, Exposure!OnePolicy
<1>7. CASE IsAvailable(s)'
  <2>1. Published' = [Published EXCEPT ![s] = R]
    BY <1>2, <1>7, PublishedMoves
  <2> QED
    BY <1>5, <1>6, <2>1 DEF Exposure!Contact, Published, LastContact
<1>8. CASE ~IsAvailable(s)'
  <2>1. ~IsAvailable(s)
    BY <1>3, <1>8 DEF IsAvailable, Contacted
  <2>2. Published' = [Published EXCEPT ![s] = None] /\ Published[s] = None
    BY <1>2, <1>8, <2>1, PublishedMoves DEF Published
  <2>3. Published' = Published
    BY <2>2 DEF Published
  <2> QED
    BY <1>5, <2>3 DEF Exposure!Contact, Published, LastContact
<1> QED
  BY <1>7, <1>8

LEMMA WithdrawStep ==
    ASSUME IInv, [Next]_lifeVars, NEW s \in Srcs, route[s] # None,
           Degraded(s, route[s]), rules' = rules, day' = day
    PROVE  Exposure!Withdraw(s) \/ UNCHANGED Exposure!exposureVars
<1>1. route \in [Srcs -> Row \cup {None}] /\ route[s] \in Row
  BY DEF IInv, TypeOK, StoreTypeOK
<1>2. \A z \in Srcs \ {s} : route'[z] = route[z] /\ rules'[z] = rules[z]
  BY <1>1 DEF Degraded
<1>3. route'[s] # None /\ route'[s].contact = route[s].contact
  BY <1>1, NextRows DEF RowsStay, Degraded, Row
<1>4. LastContact' = LastContact
  BY <1>2, <1>3, PublishedMoves DEF LastContact
<1>5. CASE IsAvailable(s)'
  <2>1. IsAvailable(s)
    BY <1>5 DEF IsAvailable, Degraded
  <2>2. Published' = Published
    BY <1>2, <1>5, <2>1 DEF Published, IsAvailable
  <2> QED
    BY <1>4, <2>2 DEF Exposure!exposureVars, Published, LastContact
<1>6. CASE ~IsAvailable(s)'
  <2>1. Published' = [Published EXCEPT ![s] = None]
    BY <1>2, <1>6, PublishedMoves
  <2> QED
    BY <1>4, <2>1 DEF Exposure!Withdraw, Published, LastContact
<1> QED
  BY <1>5, <1>6

LEMMA CreateStep ==
    ASSUME IInv, [Next]_lifeVars, NEW s \in Srcs, NEW u \in Users,
           route[s] = None, route' = [route EXCEPT ![s] = NewRow(u)],
           rules' = rules, day' = day
    PROVE  Exposure!Contact(s)
<1>1. route \in [Srcs -> Row \cup {None}] /\ day \in Days /\ u \in Users
  BY DEF IInv, TypeOK, StoreTypeOK
<1>2. NewRow(u) \in Row
  BY <1>1 DEF NewRow, Row, Verification, Status
<1>3. /\ route'[s] = NewRow(u) /\ route'[s] # None
      /\ route'[s].contact = day /\ ~IsAvailable(s)'
  BY <1>1, <1>2, StoreAssumption DEF NewRow, IsAvailable
<1>4. \A z \in Srcs \ {s} : route'[z] = route[z] /\ rules'[z] = rules[z]
  BY <1>1
<1>5. LastContact' = [LastContact EXCEPT ![s] = day]
  BY <1>3, <1>4, PublishedMoves
<1>6. Published' = Published
  BY <1>3, <1>4 DEF Published, IsAvailable
<1> QED
  BY <1>5, <1>6 DEF Exposure!Contact, Published, LastContact

\* A removal changes the owners of routes, and nothing the gateway is told.
LEMMA RemovalUnseen ==
    ASSUME IInv, NEW e \in Entities, RemoveEntity(e)
    PROVE  UNCHANGED Exposure!exposureVars
<1>1. route \in [Srcs -> Row \cup {None}]
  BY DEF IInv, TypeOK, StoreTypeOK
<1>2. ASSUME NEW s \in Srcs
      PROVE  /\ IsAvailable(s)' <=> IsAvailable(s)
             /\ route'[s] = None <=> route[s] = None
             /\ route[s] # None => route'[s].contact = route[s].contact
  <2>1. CASE route[s] = None
    BY <2>1 DEF RemoveEntity, IsAvailable
  <2>2. CASE route[s] # None
    <3>1. route[s] \in Row
      BY <1>1, <2>2
    <3>2. /\ [route[s] EXCEPT !.owners = @ \ {e}] \in Row
          /\ route'[s] = [route[s] EXCEPT !.owners = @ \ {e}]
      BY <2>2, <3>1 DEF RemoveEntity, Row
    <3>3. /\ route'[s].status = route[s].status
          /\ route'[s].verification = route[s].verification
          /\ route'[s].contact = route[s].contact
      BY <3>1, <3>2 DEF Row
    <3> QED
      BY <2>2, <3>2, <3>3, StoreAssumption DEF IsAvailable
  <2> QED
    BY <2>1, <2>2
<1>3. rules' = rules /\ day' = day
  BY DEF RemoveEntity
<1>4. Published' = Published /\ LastContact' = LastContact
  BY <1>2, <1>3 DEF Published, LastContact
<1> QED
  BY <1>3, <1>4 DEF Exposure!exposureVars, Published, LastContact

\* Only the calendar moves the day, and it moves nothing else.
LEMMA DayMoves ==
    ASSUME IInv, [Next]_lifeVars
    PROVE  day' = day \/ (day' = day + 1 /\ UNCHANGED dbVars)
<1>1. CASE UNCHANGED lifeVars
  BY <1>1 DEF lifeVars
<1>2. ASSUME NEW v \in Servers, Register(v) \/ Track(v)
      PROVE  day' = day
  BY <1>2 DEF Register, RegisterRenew, RegisterCreate, RegisterFails,
              RegisterDelay, Track, PassStarts, PassPicks, PassUpdates,
              PassUpdated, PassKeeps, UnverifyReads, UnverifyCommits
<1>3. ASSUME NEW t \in Tasks, Work(t)
      PROVE  day' = day
  BY <1>3 DEF Work, TaskStarts, TaskRuns, TaskSucceeds, TaskRetries, TaskFails
<1>4. CASE Client \/ Failure
  BY <1>4 DEF Client, RegisterRead, RotateJwt, Failure, RegisterDelayFails,
              ServerCrashes, WorkerCrashes
<1>5. CASE Surroundings
  BY <1>5 DEF Surroundings, AppChanges, Tick, AddEntity, RemoveEntity
<1> QED
  BY <1>1, <1>2, <1>3, <1>4, <1>5 DEF Next, Operation

LEMMA StepIsExposed ==
    ASSUME IInv, OnePolicyPerPair, OnePolicyPerPair', [Next]_lifeVars
    PROVE  [Exposure!Next]_Exposure!exposureVars
<1>1. CASE day' = day + 1 /\ UNCHANGED dbVars
  BY <1>1 DEF dbVars, Exposure!Next, Exposure!NextDay, IsAvailable
<1>2. CASE day' = day
  <2>1. CASE route' = route /\ rules' = rules
    BY <1>2, <2>1 DEF Exposure!exposureVars, IsAvailable
  <2>2. ASSUME NEW s \in Srcs, route[s] # None, Contacted(s, route[s]),
               rules' = rules \/ \E p \in Procs : CommitRules(p) /\ update[p].src = s
        PROVE  Exposure!Next
    BY <1>2, <2>2, ContactStep DEF Exposure!Next
  <2>3. ASSUME NEW s \in Srcs, route[s] # None, Degraded(s, route[s]), rules' = rules
        PROVE  [Exposure!Next]_Exposure!exposureVars
    BY <1>2, <2>3, WithdrawStep DEF Exposure!Next
  <2>4. ASSUME NEW s \in Srcs, NEW u \in Users, route[s] = None,
               route' = [route EXCEPT ![s] = NewRow(u)], rules' = rules
        PROVE  Exposure!Next
    BY <1>2, <2>4, CreateStep DEF Exposure!Next
  <2>5. ASSUME NEW e \in Entities, RemoveEntity(e)
        PROVE  UNCHANGED Exposure!exposureVars
    BY <2>5, RemovalUnseen
  <2> QED
    BY <2>1, <2>2, <2>3, <2>4, <2>5, NextRouteChange DEF RouteChange
<1> QED
  BY <1>1, <1>2, DayMoves

\* Whatever servers, workers and trackers do at once, what the gateway is told
\* of a URL changes only as RouteExposure allows.
THEOREM Implementation == Spec => ImplementsExposure
<1>1. Init => Exposure!Init
  BY DEF Init, StoreInit, Exposure!Init, IsAvailable
<1> QED
  BY <1>1, StepIsExposed, IInvHolds, OnePolicy, PTL
     DEF Spec, ImplementsExposure, Exposure!Spec

-----------------------------------------------------------------------------
\* The ways an update transaction and the rules may change in one step.
UpdateChange ==
    \/ UNCHANGED <<update, rules>>
    \/ \E p \in Procs : update' = [update EXCEPT ![p] = None] /\ rules' = rules
    \/ \E p \in Procs, s \in Srcs : Load(p, s)
    \/ \E p \in Procs : UpdateStep(p) \/ CommitRules(p)

LEMMA NextUpdateChange ==
    ASSUME IInv, [Next]_lifeVars
    PROVE  UpdateChange
<1>1. CASE UNCHANGED lifeVars
  BY <1>1 DEF lifeVars, UpdateChange
<1>2. ASSUME NEW p \in Procs, UpdateReturns(p) \/ UpdateRaises(p)
      PROVE  UpdateChange
  BY <1>2 DEF UpdateReturns, UpdateRaises, FetchRaises, CommitFailure,
              CommitDuplicate, CommitDeadlock, CommitSwallowed, dbVars,
              UpdateChange
<1>3. ASSUME NEW v \in Servers, Register(v) \/ Track(v)
      PROVE  UpdateChange
  <2>1. v \in Procs
    BY LifecycleAssumption
  <2>2. CASE Register(v)
    BY <2>2 DEF Register, RegisterRenew, RegisterCreate, RegisterFails,
                RegisterDelay, dbVars, UpdateChange
  <2>3. CASE PassUpdates(v) \/ PassUpdated(v)
    BY <1>2, <2>1, <2>3 DEF PassUpdates, PassUpdated, UpdateChange
  <2>4. CASE \E s \in Srcs : PassPicks(v, s)
    BY <2>1, <2>4 DEF PassPicks, UpdateChange
  <2> QED
    BY <1>3, <2>2, <2>3, <2>4 DEF Track, PassStarts, PassKeeps, UnverifyReads,
                                  UnverifyCommits, dbVars, UpdateChange
<1>4. ASSUME NEW t \in Tasks, Work(t)
      PROVE  UpdateChange
  <2>1. t \in Procs
    BY LifecycleAssumption
  <2>2. CASE TaskStarts(t)
    <3>1. task[t].src \in Srcs
      BY <2>2 DEF TaskStarts, IInv, TypeOK, Task
    <3> QED
      BY <2>1, <2>2, <3>1 DEF TaskStarts, UpdateChange
  <2>3. CASE TaskRuns(t)
    BY <2>1, <2>3 DEF TaskRuns, UpdateChange
  <2> QED
    BY <1>2, <1>4, <2>1, <2>2, <2>3 DEF Work, TaskSucceeds, TaskRetries, TaskFails
<1>5. CASE Client \/ Surroundings \/ Failure
  <2>1. Servers \subseteq Procs /\ Tasks \subseteq Procs
    BY LifecycleAssumption
  <2> QED
    BY <1>5, <2>1 DEF Client, RegisterRead, RotateJwt, Surroundings, AppChanges,
              Tick, AddEntity, RemoveEntity, Failure, RegisterDelayFails,
              ServerCrashes, WorkerCrashes, Abandon, dbVars, UpdateChange
<1> QED
  BY <1>1, <1>3, <1>4, <1>5 DEF Next, Operation

-----------------------------------------------------------------------------
(***************************************************************************)
(* A route that has settled stays so.  The argument needs no strengthening *)
(* of IInv: what a commit keeps of the old rules and what it inserts are   *)
(* both those of the document.                                             *)
(***************************************************************************)

\* What is inserted for a document on which the route has settled.
LEMMA SettledCommit ==
    ASSUME IInv, NEW s \in Srcs, NEW reply \in Replies, SettledOn(s, reply),
           NEW p \in Procs, CommitRules(p)
    PROVE  rules'[s] = rules[s]
<1>1. /\ update[p] # None /\ update[p].at = "commit"
      /\ update[p].verdict = "UP" /\ update[p].reply # None
  BY DEF CommitRules, AtRuleCommit, At, IInv, RepliesHeld, ReplyHeld
<1>2. CASE update[p].src = s
  <2>1. update[p].reply = reply /\ rules[s] = Policies(reply)
    BY <1>1, <1>2 DEF SettledOn
  <2>2. Kept(p) \cup Inserted(p) = rules[s]
    BY <1>2, <2>1 DEF Kept, Inserted
  <2> QED
    BY <1>2, <2>2, CommitRulesSound DEF IInv, TypeOK, StoreTypeOK
<1>3. CASE update[p].src # s
  BY <1>3, CommitRulesSound DEF IInv, TypeOK, StoreTypeOK
<1> QED
  BY <1>2, <1>3

\* What a transaction on a settled route holds after a step of its own.
LEMMA SettledStep ==
    ASSUME IInv, NEW s \in Srcs, NEW reply \in Replies, SettledOn(s, reply),
           NEW p \in Procs, UpdateStep(p), update[p].src = s
    PROVE  update'[p].reply \in {None, reply}
<1> USE DEF At
<1>1. update[p] # None /\ update[p] \in Update
  BY DEF IInv, TypeOK, UpdateTypeOK, UpdateStep, Fetch, StoreRules, DeleteResumes
<1>2. update[p].reply \in {None, reply} /\ app[s] = reply
  BY <1>1 DEF SettledOn
<1> QED
  BY <1>1, <1>2 DEF IInv, TypeOK, UpdateTypeOK, Update, UpdateStep, Fetch,
                    StoreRules, DeleteResumes

\* However updates of a route overlap, fail or die, the rules it has settled on
\* stay for as long as its app serves the document they were made of.
THEOREM SettledStays == Spec => PolicyStays
<1>1. ASSUME IInv, [Next]_lifeVars, NEW s \in Srcs, NEW reply \in Replies,
             SettledOn(s, reply), app'[s] = reply
      PROVE  SettledOn(s, reply)'
  <2>1. rules'[s] = rules[s]
    BY <1>1, RulesMove, SettledCommit
  <2>2. ASSUME NEW q \in Procs, update'[q] # None, update'[q].src = s
        PROVE  update'[q].reply \in {None, reply}
    <3>1. ASSUME update[q] # None, update[q].src = s,
                 update'[q].reply = update[q].reply
          PROVE  update'[q].reply \in {None, reply}
      BY <1>1, <3>1 DEF SettledOn
    <3>2. CASE UNCHANGED <<update, rules>>
      BY <2>2, <3>1, <3>2
    <3>3. ASSUME NEW p \in Procs, update' = [update EXCEPT ![p] = None]
          PROVE  update'[q].reply \in {None, reply}
      BY <1>1, <2>2, <3>1, <3>3 DEF IInv, TypeOK, UpdateTypeOK
    <3>4. ASSUME NEW p \in Procs, NEW z \in Srcs, Load(p, z)
          PROVE  update'[q].reply \in {None, reply}
      BY <1>1, <2>2, <3>1, <3>4 DEF Load, IInv, TypeOK, UpdateTypeOK
    <3>5. ASSUME NEW p \in Procs, UpdateStep(p)
          PROVE  update'[q].reply \in {None, reply}
      <4>1. CASE q = p
        BY <1>1, <2>2, <3>5, <4>1, UpdateStepEffect, SettledStep DEF IInv
      <4>2. CASE q # p
        BY <1>1, <2>2, <3>1, <3>5, <4>2, UpdateStepEffect DEF IInv, OthersStay
      <4> QED
        BY <4>1, <4>2
    <3>6. ASSUME NEW p \in Procs, CommitRules(p)
          PROVE  update'[q].reply \in {None, reply}
      BY <1>1, <2>2, <3>1, <3>6, UpdateEndEffect DEF IInv, UpdateReturns, OthersStay
    <3> QED
      BY <1>1, <3>2, <3>3, <3>4, <3>5, <3>6, NextUpdateChange DEF UpdateChange
  <2> QED
    BY <1>1, <2>1, <2>2 DEF SettledOn
<1>2. IInv /\ [Next]_lifeVars =>
        [\A s \in Srcs, reply \in Replies :
            SettledOn(s, reply) /\ app'[s] = reply => SettledOn(s, reply)']_lifeVars
  BY <1>1
<1> QED
  BY <1>2, IInvHolds, PTL DEF Spec, PolicyStays
-----------------------------------------------------------------------------
(***************************************************************************)
(* Why the verdicts of a tracker are just although it judges objects that  *)
(* are detached since: contacts only advance, no clock is ahead, and what  *)
(* was found stale is not looked at again.                                 *)
(***************************************************************************)
ContactsPast == \A s \in Srcs : route[s] # None => route[s].contact <= day

ListedPast ==
    \A v \in Servers : pass[v] # None =>
        /\ pass[v].now <= day
        /\ \A s \in pass[v].todo \cup {pass[v].src} :
              pass[v].contact[s] <= route[s].contact
        /\ pass[v].at = "unverify" => ListedStale(v)

ClockInv == ContactsPast /\ ListedPast

\* The last contact of a route only moves forward, and not past the day.
LEMMA ContactsAdvance ==
    ASSUME IInv, ContactsPast, [Next]_lifeVars, NEW s \in Srcs
    PROVE  /\ route[s] # None => route[s].contact <= route'[s].contact
           /\ route'[s] # None => route'[s].contact <= day'
<1>1. /\ route \in [Srcs -> Row \cup {None}] /\ day \in Nat /\ day' \in Nat
      /\ day <= day'
  BY DayMoves, NextIInv DEF IInv, TypeOK, StoreTypeOK, Days
<1>2. /\ route[s] # None => route[s] \in Row /\ route[s].contact \in Nat
      /\ route[s] # None => route[s].contact <= day
  BY <1>1 DEF ContactsPast, Row, Days
<1>3. ASSUME route'[s] = route[s]
      PROVE  /\ route[s] # None => route[s].contact <= route'[s].contact
             /\ route'[s] # None => route'[s].contact <= day'
  BY <1>1, <1>2, <1>3
<1>4. ASSUME NEW z \in Srcs, route[z] # None, Contacted(z, route[z])
      PROVE  /\ route[s] # None => route[s].contact <= route'[s].contact
             /\ route'[s] # None => route'[s].contact <= day'
  <2>1. CASE z = s
    <3>1. route'[s].contact = day
      BY <1>1, <1>2, <1>4, <2>1 DEF Contacted, Row
    <3> QED
      BY <1>1, <1>2, <3>1
  <2>2. CASE z # s
    BY <1>1, <1>3, <1>4, <2>2 DEF Contacted
  <2> QED
    BY <2>1, <2>2
<1>5. ASSUME NEW z \in Srcs, route[z] # None, Degraded(z, route[z])
      PROVE  /\ route[s] # None => route[s].contact <= route'[s].contact
             /\ route'[s] # None => route'[s].contact <= day'
  <2>1. CASE z = s
    <3>1. route'[s].contact = route[s].contact
      BY <1>1, <1>2, <1>5, <2>1 DEF Degraded, Row
    <3> QED
      BY <1>1, <1>2, <1>5, <2>1, <3>1
  <2>2. CASE z # s
    BY <1>1, <1>3, <1>5, <2>2 DEF Degraded
  <2> QED
    BY <2>1, <2>2
<1>6. ASSUME NEW z \in Srcs, NEW u \in Users, route[z] = None,
             route' = [route EXCEPT ![z] = NewRow(u)]
      PROVE  /\ route[s] # None => route[s].contact <= route'[s].contact
             /\ route'[s] # None => route'[s].contact <= day'
  <2>1. CASE z = s
    BY <1>1, <1>6, <2>1 DEF NewRow
  <2>2. CASE z # s
    BY <1>1, <1>3, <1>6, <2>2
  <2> QED
    BY <2>1, <2>2
<1>7. ASSUME NEW e \in Entities, RemoveEntity(e)
      PROVE  /\ route[s] # None => route[s].contact <= route'[s].contact
             /\ route'[s] # None => route'[s].contact <= day'
  <2>1. CASE route[s] = None
    BY <1>1, <1>3, <1>7, <2>1 DEF RemoveEntity
  <2>2. CASE route[s] # None
    <3>1. route'[s] = [route[s] EXCEPT !.owners = @ \ {e}]
      BY <1>7, <2>2 DEF RemoveEntity
    <3>2. route'[s].contact = route[s].contact
      BY <1>2, <2>2, <3>1 DEF Row
    <3> QED
      BY <1>1, <1>2, <2>2, <3>2
  <2> QED
    BY <2>1, <2>2
<1> QED
  BY <1>3, <1>4, <1>5, <1>6, <1>7, NextRouteChange DEF RouteChange

\* What a step may do to the runs of the trackers.
PassChange ==
    \/ pass' = pass
    \/ \E v \in Servers :
          \/ pass' = [pass EXCEPT ![v] = None]
          \/ pass[v] # None /\ pass' = [pass EXCEPT ![v] = NextRoute(v)]
          \/ pass[v] # None /\ pass' = [pass EXCEPT ![v].at = "stale"]
          \/ PassStarts(v)
          \/ UnverifyReads(v)
          \/ \E s \in Srcs : PassPicks(v, s)

LEMMA NextPassChange ==
    ASSUME IInv, [Next]_lifeVars
    PROVE  PassChange
<1>1. CASE UNCHANGED lifeVars
  BY <1>1 DEF lifeVars, PassChange
<1>2. ASSUME NEW v \in Servers, Register(v) \/ Track(v)
      PROVE  PassChange
  <2>1. CASE Register(v)
    BY <2>1 DEF Register, RegisterRenew, RegisterCreate, RegisterFails,
                RegisterDelay, PassChange
  <2>2. CASE PassUpdated(v)
    <3>1. v \in Procs
      BY LifecycleAssumption
    <3>2. pass[v] # None
      BY <2>2, <3>1, UpdateEndEffect DEF PassUpdated, IInv, UpdatesAreOwned, PassAt
    <3> QED
      BY <2>2, <3>2 DEF PassUpdated, PassChange
  <2>3. CASE Track(v) /\ ~PassUpdated(v)
    BY <2>3 DEF Track, PassUpdates, PassKeeps, UnverifyCommits, PassAt,
                PassChange
  <2> QED
    BY <1>2, <2>1, <2>2, <2>3
<1>3. ASSUME NEW t \in Tasks, Work(t)
      PROVE  PassChange
  BY <1>3 DEF Work, TaskStarts, TaskRuns, TaskSucceeds, TaskRetries, TaskFails,
              PassChange
<1>4. CASE Client \/ Surroundings \/ Failure
  BY <1>4 DEF Client, RegisterRead, RotateJwt, Surroundings, Failure,
              RegisterDelayFails, ServerCrashes, WorkerCrashes, PassChange
<1> QED
  BY <1>1, <1>2, <1>3, <1>4 DEF Next, Operation

LEMMA NextKeepsClock ==
    ASSUME IInv, ClockInv, [Next]_lifeVars
    PROVE  ClockInv'
<1>1. ContactsPast'
  BY ContactsAdvance DEF ClockInv, ContactsPast
<1>2. /\ day \in Nat /\ day' \in Nat /\ day <= day' /\ IInv'
      /\ pass \in [Servers -> Pass \cup {None}]
      /\ pass' \in [Servers -> Pass \cup {None}]
  BY DayMoves, NextIInv DEF IInv, TypeOK, StoreTypeOK, Days
<1>3. \A s \in Srcs : route[s] # None =>
        /\ route[s].contact \in Nat /\ route'[s].contact \in Nat
        /\ route[s].contact <= route'[s].contact
  <2>1. ASSUME NEW s \in Srcs, route[s] # None
        PROVE  route[s] \in Row /\ route'[s] \in Row
    BY <1>2, <2>1, NextRows DEF RowsStay, IInv, TypeOK, StoreTypeOK
  <2> QED
    BY <2>1, ContactsAdvance DEF ClockInv, Row, Days
<1>4. ASSUME NEW v \in Servers, pass'[v] # None, pass[v] # None,
             pass'[v].now = pass[v].now, pass'[v].contact = pass[v].contact,
             pass'[v].todo \cup {pass'[v].src} \subseteq
               pass[v].todo \cup {pass[v].src},
             pass'[v].at = "unverify" =>
               pass'[v].src = pass[v].src /\ ListedStale(v)
      PROVE  /\ pass'[v].now <= day'
             /\ \A s \in pass'[v].todo \cup {pass'[v].src} :
                   pass'[v].contact[s] <= route'[s].contact
             /\ pass'[v].at = "unverify" => ListedStale(v)'
  <2>1. pass[v] \in Pass /\ pass'[v] \in Pass
    BY <1>2, <1>4
  <2>2. /\ pass[v].now \in Nat /\ pass[v].contact \in [Srcs -> Nat]
        /\ pass[v].todo \cup {pass[v].src} \subseteq Srcs
    BY <2>1 DEF Pass, Days
  <2>3. \A s \in pass[v].todo \cup {pass[v].src} :
          route[s] # None /\ pass[v].contact[s] <= route[s].contact
    BY <1>4 DEF ClockInv, ListedPast, IInv, WorkHasRow
  <2>4. pass[v].now <= day
    BY <1>4 DEF ClockInv, ListedPast
  <2>5. \A s \in pass'[v].todo \cup {pass'[v].src} :
          pass'[v].contact[s] <= route'[s].contact
    BY <1>3, <1>4, <2>2, <2>3
  <2> QED
    BY <1>2, <1>4, <2>2, <2>4, <2>5 DEF ListedStale
<1>5. ASSUME NEW v \in Servers, pass'[v] # None
      PROVE  /\ pass'[v].now <= day'
             /\ \A s \in pass'[v].todo \cup {pass'[v].src} :
                   pass'[v].contact[s] <= route'[s].contact
             /\ pass'[v].at = "unverify" => ListedStale(v)'
  <2>1. CASE pass'[v] = pass[v]
    BY <1>4, <1>5, <2>1 DEF ClockInv, ListedPast
  <2>2. CASE pass' = [pass EXCEPT ![v] = None]
    BY <1>2, <1>5, <2>2
  <2>3. CASE pass[v] # None /\ pass' = [pass EXCEPT ![v] = NextRoute(v)]
    <3> DEFINE new == [pass[v] EXCEPT !.at = "next", !.seen = None]
    <3>1. pass'[v] = NextRoute(v)
      BY <1>2, <2>3
    <3>2. pass[v] # None /\ pass[v] \in Pass
      BY <1>2, <2>3
    <3>3. /\ new.now = pass[v].now /\ new.contact = pass[v].contact
          /\ new.todo = pass[v].todo /\ new.src = pass[v].src
          /\ new.at = "next"
      BY <3>2 DEF Pass
    <3>4. pass'[v] = new
      BY <1>5, <3>1 DEF NextRoute
    <3> HIDE DEF new
    <3> QED
      BY <1>4, <1>5, <3>2, <3>3, <3>4
  <2>4. CASE pass[v] # None /\ pass' = [pass EXCEPT ![v].at = "stale"]
    <3> DEFINE new == [pass[v] EXCEPT !.at = "stale"]
    <3>1. /\ new.now = pass[v].now /\ new.contact = pass[v].contact
          /\ new.todo = pass[v].todo /\ new.src = pass[v].src
          /\ new.at = "stale"
      BY <1>2, <2>4 DEF Pass
    <3>2. pass'[v] = new
      BY <1>2, <2>4
    <3> HIDE DEF new
    <3> QED
      BY <1>4, <1>5, <2>4, <3>1, <3>2
  <2>5. CASE PassStarts(v)
    <3> DEFINE listed == {s \in Srcs : IsActive(s)}
    <3>1. /\ pass'[v].at = "next" /\ pass'[v].now = day
          /\ pass'[v].todo = listed /\ pass'[v].src \in listed
          /\ \A s \in listed : pass'[v].contact[s] = route[s].contact
      BY <1>2, <2>5 DEF PassStarts
    <3>2. \A s \in listed : route[s] # None
      BY DEF IsActive
    <3>3. route' = route
      BY <2>5 DEF PassStarts, dbVars
    <3> QED
      BY <1>2, <1>3, <3>1, <3>2, <3>3
  <2>6. CASE UnverifyReads(v)
    BY <1>2, <1>4, <1>5, <2>6 DEF UnverifyReads, PassAt, Pass
  <2>7. ASSUME NEW s \in Srcs, PassPicks(v, s)
        PROVE  /\ pass'[v].now <= day'
               /\ \A z \in pass'[v].todo \cup {pass'[v].src} :
                     pass'[v].contact[z] <= route'[z].contact
               /\ pass'[v].at = "unverify" => ListedStale(v)'
    BY <1>2, <1>4, <1>5, <2>7 DEF PassPicks, PassAt, Pass
  <2>8. ASSUME NEW w \in Servers, w # v,
               \/ pass' = [pass EXCEPT ![w] = None]
               \/ pass' = [pass EXCEPT ![w] = NextRoute(w)]
               \/ pass' = [pass EXCEPT ![w].at = "stale"]
               \/ PassStarts(w)
               \/ UnverifyReads(w)
               \/ \E s \in Srcs : PassPicks(w, s)
        PROVE  pass'[v] = pass[v]
    BY <1>2, <2>8 DEF PassStarts, UnverifyReads, PassPicks
  <2> QED
    BY <2>1, <2>2, <2>3, <2>4, <2>5, <2>6, <2>7, <2>8, NextPassChange DEF PassChange
<1>6. ListedPast'
  BY <1>5 DEF ListedPast
<1> QED
  BY <1>1, <1>6 DEF ClockInv

\* Nothing but the commit of a tracker's verdict takes a verification away.
LEMMA OnlyTrackersUnverify ==
    ASSUME IInv, [Next]_lifeVars, NEW s \in Srcs, route[s] # None,
           route[s].verification = "VERIFIED",
           route'[s].verification = "UNVERIFIED"
    PROVE  \E v \in Servers : UnverifyCommits(v) /\ pass[v].src = s
<1>1. route \in [Srcs -> Row \cup {None}] /\ route[s] \in Row
  BY DEF IInv, TypeOK, StoreTypeOK
<1>2. route' # route
  BY <1>1
<1>3. ASSUME NEW p \in Procs, UpdateStep(p) \/ UpdateReturns(p) \/ UpdateRaises(p)
      PROVE  FALSE
  <2>1. ASSUME NEW z, NEW new, route' = [route EXCEPT ![z].status = new]
        PROVE  FALSE
    BY <1>1, <2>1 DEF Row
  <2>2. ASSUME NEW z, NEW new, NEW d,
               route' = [route EXCEPT ![z].status = new, ![z].contact = d]
        PROVE  FALSE
    BY <1>1, <2>2 DEF Row
  <2>3. CASE CommitFailure(p)
    BY <2>1, <2>3 DEF CommitFailure
  <2>4. CASE CommitRules(p)
    BY <2>2, <2>4 DEF CommitRules
  <2> QED
    BY <1>2, <1>3, <2>3, <2>4
       DEF UpdateStep, Fetch, StoreRules, DeleteResumes, UpdateReturns,
           CommitSwallowed, UpdateRaises, FetchRaises, CommitDuplicate,
           CommitDeadlock, dbVars
<1>4. ASSUME NEW v \in Servers, Register(v)
      PROVE  FALSE
  <2>1. CASE RegisterRenew(v)
    BY <1>1, <2>1 DEF RegisterRenew, Flushed, Row
  <2>2. CASE RegisterCreate(v)
    BY <1>1, <2>2 DEF RegisterCreate, NewRow
  <2> QED
    BY <1>2, <1>4, <2>1, <2>2 DEF Register, RegisterFails, RegisterDelay, dbVars
<1>5. ASSUME NEW v \in Servers, Track(v)
      PROVE  UnverifyCommits(v) /\ pass[v].src = s
  <2>1. v \in Procs
    BY LifecycleAssumption
  <2>2. CASE UnverifyCommits(v)
    BY <1>1, <2>2 DEF UnverifyCommits
  <2> QED
    BY <1>2, <1>3, <1>5, <2>1, <2>2
       DEF Track, PassStarts, PassPicks, Load, PassUpdates, PassUpdated,
           PassKeeps, UnverifyReads, dbVars
<1>6. ASSUME NEW t \in Tasks, Work(t)
      PROVE  FALSE
  <2>1. t \in Procs
    BY LifecycleAssumption
  <2> QED
    BY <1>2, <1>3, <1>6, <2>1 DEF Work, TaskStarts, TaskRuns, TaskSucceeds,
                                  TaskRetries, TaskFails, Load, dbVars
<1>7. CASE Client \/ Failure \/ UNCHANGED lifeVars
  BY <1>2, <1>7 DEF Client, RegisterRead, RotateJwt, Failure, RegisterDelayFails,
                    ServerCrashes, WorkerCrashes, lifeVars, dbVars
<1>8. CASE Surroundings
  <2>1. ASSUME NEW e \in Entities, RemoveEntity(e)
        PROVE  FALSE
    <3>1. route'[s] = [route[s] EXCEPT !.owners = @ \ {e}]
      BY <1>1, <2>1 DEF RemoveEntity
    <3> QED
      BY <1>1, <3>1 DEF Row
  <2> QED
    BY <1>2, <1>8, <2>1 DEF Surroundings, AppChanges, Tick, AddEntity, dbVars
<1> QED
  BY <1>4, <1>5, <1>6, <1>7, <1>8 DEF Next, Operation

\* A verified route is unverified only for a silence of more than
\* stale_duration that a tracker has seen, for any number of trackers, updates
\* and registrations that overlap with its run.
THEOREM JustVerdicts == Spec => VerdictsAreJust
<1>1. Init => ClockInv
  BY DEF Init, StoreInit, ClockInv, ContactsPast, ListedPast
<1>2. IInv /\ ClockInv /\ [Next]_lifeVars => ClockInv'
  BY NextKeepsClock
<1>3. ASSUME IInv, ClockInv, [Next]_lifeVars, NEW s \in Srcs,
             route[s] # None, route[s].verification = "VERIFIED",
             route'[s].verification = "UNVERIFIED"
      PROVE  \E v \in Servers :
                /\ pass[v] # None
                /\ pass[v].src = s
                /\ pass[v].contact[s] <= route[s].contact
                /\ pass[v].contact[s] + StaleDuration < pass[v].now
                /\ pass[v].now <= day
  <2>1. PICK v \in Servers : UnverifyCommits(v) /\ pass[v].src = s
    BY <1>3, OnlyTrackersUnverify
  <2>2. pass[v] # None /\ pass[v].at = "unverify" /\ pass[v] \in Pass
    BY <1>3, <2>1 DEF UnverifyCommits, PassAt, IInv, TypeOK
  <2>3. /\ pass[v].now \in Nat /\ pass[v].contact[s] \in Nat
        /\ StaleDuration \in Nat
    BY <2>2, StoreAssumption DEF Pass, Days
  <2>4. /\ pass[v].now <= day
        /\ pass[v].contact[s] <= route[s].contact
        /\ ListedStale(v)
    BY <1>3, <2>1, <2>2 DEF ClockInv, ListedPast
  <2> QED
    BY <2>1, <2>2, <2>3, <2>4 DEF ListedStale
<1>4. IInv /\ ClockInv /\ [Next]_lifeVars =>
        [\A s \in Srcs :
          /\ route[s] # None
          /\ route[s].verification = "VERIFIED"
          /\ route'[s].verification = "UNVERIFIED"
          => \E v \in Servers :
                /\ pass[v] # None
                /\ pass[v].src = s
                /\ pass[v].contact[s] <= route[s].contact
                /\ pass[v].contact[s] + StaleDuration < pass[v].now
                /\ pass[v].now <= day]_lifeVars
  BY <1>3
<1> QED
  BY <1>1, <1>2, <1>4, IInvHolds, PTL DEF Spec, VerdictsAreJust

-----------------------------------------------------------------------------
(***************************************************************************)
(* What the two findings come from, and nothing else: rules are torn only  *)
(* where two updates of one route are between their DELETE and their       *)
(* commit, and a verification is lost only where a verdict of a tracker is *)
(* about to be committed while a registration is.  A lock on the row of    *)
(* the route, taken when it is read, would keep both apart.                *)
(***************************************************************************)

\* A transaction that goes on to insert its rules has deleted all there are.
SeesAll ==
    \A p \in Procs : Rewriting(p) => Named(update[p].src) \subseteq update[p].delete

\* A step of p itself keeps what it sees: the DELETE is of all rows.
LEMMA StepSeesAll ==
    ASSUME IInv, SeesAll, NEW p \in Procs, UpdateStep(p)
    PROVE  SeesAll'
<1> DEFINE NamedNext(z) == {x.entity : x \in rules'[z]}
<1>1. rules' = rules
  BY DEF UpdateStep, Fetch, StoreRules, DeleteResumes, dbVars
<1>2. update \in [Procs -> Update \cup {None}] /\ update[p] # None
  BY DEF IInv, TypeOK, UpdateTypeOK, UpdateStep, Fetch, StoreRules, DeleteResumes, At
<1>3. \A z \in Srcs : NamedNext(z) = Named(z)
  BY <1>1 DEF Named, NamedNext
<1>4. ASSUME NEW q \in Procs, q # p
      PROVE  update'[q] = update[q]
  BY <1>2, <1>4 DEF UpdateStep, Fetch, StoreRules, DeleteResumes
<1>5. Rewriting(p)' => /\ update'[p].src \in Srcs
                       /\ Named(update'[p].src) \subseteq update'[p].delete
  <2>1. CASE Fetch(p)
    <3>1. \A kind \in DOMAIN FaultStatus : FaultStatus[kind] # "UP"
      BY DEF FaultStatus
    <3>2. CASE update' = [update EXCEPT ![p].at = "store",
                                       ![p].reply = app[update[p].src]]
      <4>1. update'[p].at = "store"
        BY <1>2, <3>2 DEF Update
      <4> QED
        BY <4>1 DEF Rewriting, AtRuleCommit, At
    <3>3. ASSUME NEW kind \in DOMAIN FaultStatus,
                 update' = [update EXCEPT ![p].at = "commit",
                                          ![p].verdict = FaultStatus[kind]]
          PROVE  ~Rewriting(p)'
      <4>1. update'[p].at = "commit" /\ update'[p].verdict # "UP"
        BY <1>2, <3>1, <3>3 DEF Update
      <4> QED
        BY <4>1 DEF Rewriting, AtRuleCommit, At
    <3> QED
      BY <2>1, <3>2, <3>3 DEF Fetch
  <2>2. CASE StoreRules(p)
    BY <1>2, <2>2 DEF StoreRules, Rewriting, AtRuleCommit, At, Update
  <2>3. CASE DeleteResumes(p)
    BY <1>2, <2>3 DEF DeleteResumes, Rewriting, At, SeesAll, Update
  <2> QED
    BY <2>1, <2>2, <2>3 DEF UpdateStep
<1>6. ASSUME NEW q \in Procs, Rewriting(q)'
      PROVE  NamedNext(update'[q].src) \subseteq update'[q].delete
  <2>1. CASE q = p
    BY <1>3, <1>5, <1>6, <2>1
  <2>2. CASE q # p
    <3>1. Rewriting(q) /\ update[q].src \in Srcs
      BY <1>2, <1>4, <1>6, <2>2 DEF Rewriting, AtRuleCommit, At, Update
    <3>2. update'[q] = update[q]
      BY <1>4, <2>2
    <3> QED
      BY <1>3, <3>1, <3>2 DEF SeesAll
  <2> QED
    BY <2>1, <2>2
<1> QED
  BY <1>6 DEF SeesAll, Named, NamedNext

\* A commit changes the rows of no route on which another is to commit.
LEMMA CommitSeesAll ==
    ASSUME IInv, SeesAll, RewritesTakeTurns, NEW p \in Procs, CommitRules(p)
    PROVE  SeesAll'
<1> DEFINE NamedNext(z) == {x.entity : x \in rules'[z]}
<1>1. /\ update \in [Procs -> Update \cup {None}]
      /\ rules \in [Srcs -> SUBSET Rule]
  BY DEF IInv, TypeOK, StoreTypeOK, UpdateTypeOK
<1>2. Rewriting(p) /\ update[p].src \in Srcs
  BY CommitRulesSound DEF CommitRules, Rewriting
<1>3. /\ rules' = [rules EXCEPT ![update[p].src] = Kept(p) \cup Inserted(p)]
      /\ update' = [SkipDeleted(update[p].src, update[p].delete) EXCEPT ![p] = None]
  BY DEF CommitRules
<1>4. ASSUME NEW q \in Procs, Rewriting(q)'
      PROVE  NamedNext(update'[q].src) \subseteq update'[q].delete
  <2>1. q # p
    BY <1>1, <1>3, <1>4 DEF Rewriting, AtRuleCommit, At, SkipDeleted
  <2>2. Rewriting(q) /\ update'[q].src = update[q].src
    BY <1>1, <1>3, <1>4, <2>1 DEF Rewriting, AtRuleCommit, At, SkipDeleted, Update
  <2>3. update[q].src # update[p].src /\ update[q].src \in Srcs
    BY <1>1, <1>2, <2>1, <2>2 DEF RewritesTakeTurns, Rewriting, AtRuleCommit, At, Update
  <2>4. update'[q] = update[q]
    BY <1>1, <1>3, <2>1, <2>3 DEF SkipDeleted
  <2>5. rules'[update[q].src] = rules[update[q].src]
    BY <1>1, <1>2, <1>3, <2>3
  <2> QED
    BY <2>2, <2>4, <2>5 DEF SeesAll, Named, NamedNext
<1> QED
  BY <1>4 DEF SeesAll, Named, NamedNext

LEMMA NextSeesAll ==
    ASSUME IInv, SeesAll, RewritesTakeTurns, [Next]_lifeVars
    PROVE  SeesAll'
<1> USE DEF Rewriting, AtRuleCommit, At, Named
<1>1. CASE UNCHANGED <<update, rules>>
  BY <1>1 DEF SeesAll
<1>2. ASSUME NEW p \in Procs, update' = [update EXCEPT ![p] = None], rules' = rules
      PROVE  SeesAll'
  BY <1>2 DEF SeesAll, IInv, TypeOK, UpdateTypeOK
<1>3. ASSUME NEW p \in Procs, NEW s \in Srcs, Load(p, s)
      PROVE  SeesAll'
  BY <1>3 DEF Load, dbVars, SeesAll, IInv, TypeOK, UpdateTypeOK
<1> QED
  BY <1>1, <1>2, <1>3, StepSeesAll, CommitSeesAll, NextUpdateChange DEF UpdateChange

\* As long as the updates of a route take turns between their DELETE and their
\* commit, its rules are those of one document: the finding that they are not
\* (RulesOfOneDocument) has no other cause, whatever else overlaps, fails, is
\* retried or dies.
THEOREM TurnsKeepDocuments == Spec /\ []RewritesTakeTurns => []RulesOfOneDocument
<1>1. Init => SeesAll /\ RulesOfOneDocument
  BY DEF Init, StoreInit, SeesAll, Rewriting, AtRuleCommit, At, RulesOfOneDocument
<1>2. IInv /\ SeesAll /\ RewritesTakeTurns /\ [Next]_lifeVars => SeesAll'
  BY NextSeesAll
<1>3. ASSUME IInv, SeesAll, RulesOfOneDocument, [Next]_lifeVars
      PROVE  RulesOfOneDocument'
  <2>1. rules \in [Srcs -> SUBSET Rule]
    BY <1>3 DEF IInv, TypeOK, StoreTypeOK
  <2>2. CASE rules' = rules
    BY <1>3, <2>2 DEF RulesOfOneDocument
  <2>3. ASSUME NEW p \in Procs, CommitRules(p)
        PROVE  RulesOfOneDocument'
    <3>1. /\ update[p] \in Update /\ update[p].reply \in Replies
          /\ Rewriting(p)
      BY <1>3, <2>3 DEF IInv, TypeOK, UpdateTypeOK, RepliesHeld, ReplyHeld, Update,
                        CommitRules, Rewriting, AtRuleCommit, At
    <3>2. Kept(p) = {}
      BY <1>3, <3>1 DEF SeesAll, Kept, Named
    <3>3. rules' = [rules EXCEPT ![update[p].src] = Policies(update[p].reply)]
      BY <2>3, <3>2 DEF CommitRules, Inserted
    <3> QED
      BY <1>3, <2>1, <3>1, <3>3 DEF RulesOfOneDocument
  <2> QED
    BY <1>3, <2>2, <2>3, RulesMove
<1> QED
  BY <1>1, <1>2, <1>3, IInvHolds, PTL DEF Spec

\* A route that a registration has read as verified is verified still.
StillVerified ==
    \A v \in Servers :
        /\ RequestAt(v, "commit")
        /\ request[v].seen # None
        /\ request[v].seen.verification = "VERIFIED"
        => route[request[v].src].verification = "VERIFIED"

\* A request that is to be committed in the end has been so before, or has just
\* been read.
LEMMA RequestsToCommit ==
    ASSUME IInv, [Next]_lifeVars, NEW v \in Servers, RequestAt(v, "commit")'
    PROVE  \/ RequestAt(v, "commit") /\ request'[v] = request[v]
           \/ /\ route' = route
              /\ request'[v].src \in Srcs /\ request'[v].seen = route[request'[v].src]
<1> USE DEF RequestAt
<1>0. request \in [Servers -> Request \cup {None}]
  BY DEF IInv, TypeOK
<1>1. CASE UNCHANGED request
  BY <1>1
<1>2. ASSUME NEW w \in Servers, Register(w)
      PROVE  RequestAt(v, "commit") /\ request'[v] = request[v]
  BY <1>0, <1>2 DEF Register, RegisterRenew, RegisterCreate, RegisterFails,
                    RegisterDelay, Request
<1>3. ASSUME NEW w \in Servers, NEW u \in Users, NEW s \in Srcs, RegisterRead(w, u, s)
      PROVE  \/ RequestAt(v, "commit") /\ request'[v] = request[v]
             \/ /\ route' = route
                /\ request'[v].src \in Srcs /\ request'[v].seen = route[request'[v].src]
  BY <1>0, <1>3 DEF RegisterRead, dbVars
<1>4. ASSUME NEW w \in Servers, RegisterDelayFails(w) \/ ServerCrashes(w)
      PROVE  RequestAt(v, "commit") /\ request'[v] = request[v]
  BY <1>0, <1>4 DEF RegisterDelayFails, ServerCrashes
<1>5. ASSUME NEW w \in Servers, Track(w)
      PROVE  UNCHANGED request
  BY <1>5 DEF Track, PassStarts, PassPicks, PassUpdates, PassUpdated, PassKeeps,
              UnverifyReads, UnverifyCommits
<1>6. ASSUME NEW t \in Tasks, Work(t)
      PROVE  UNCHANGED request
  BY <1>6 DEF Work, TaskStarts, TaskRuns, TaskSucceeds, TaskRetries, TaskFails
<1>7. ASSUME NEW s \in Srcs, NEW t \in Tasks, RotateJwt(s, t)
      PROVE  UNCHANGED request
  BY <1>7 DEF RotateJwt
<1>8. ASSUME NEW t \in Tasks, WorkerCrashes(t)
      PROVE  UNCHANGED request
  BY <1>8 DEF WorkerCrashes
<1>9. CASE Surroundings \/ UNCHANGED lifeVars
  BY <1>9 DEF Surroundings, lifeVars
<1> QED
  BY <1>1, <1>2, <1>3, <1>4, <1>5, <1>6, <1>7, <1>8, <1>9
     DEF Next, Operation, Client, Failure

LEMMA NextStillVerified ==
    ASSUME IInv, StillVerified, VerdictsTakeTurns, [Next]_lifeVars
    PROVE  StillVerified'
<1>1. ASSUME NEW v \in Servers, RequestAt(v, "commit")', request'[v].seen # None,
             request'[v].seen.verification = "VERIFIED"
      PROVE  route'[request'[v].src].verification = "VERIFIED"
  <2> DEFINE s == request'[v].src
  <2>1. CASE RequestAt(v, "commit") /\ request'[v] = request[v]
    <3>0. request[v] # None /\ request[v] \in Request
      BY <2>1 DEF IInv, TypeOK, RequestAt
    <3>1. s \in Srcs /\ route[s] # None /\ route[s].verification = "VERIFIED"
      BY <1>1, <2>1, <3>0 DEF StillVerified, IInv, Request, WorkHasRow
    <3>2. route'[s] # None /\ route'[s] \in Row
      <4>1. route' \in [Srcs -> Row \cup {None}]
        BY NextIInv DEF IInv, TypeOK, StoreTypeOK
      <4>2. \A z \in Srcs : route[z] # None => route'[z] # None
        BY NextRows DEF RowsStay
      <4> HIDE DEF s
      <4> QED
        BY <3>1, <4>1, <4>2
    <3>3. ~ \E w \in Servers : UnverifyCommits(w) /\ pass[w].src = s
      BY <2>1 DEF VerdictsTakeTurns, UnverifyCommits
    <3>4. route'[s].verification # "UNVERIFIED"
      BY <3>1, <3>3, OnlyTrackersUnverify
    <3> QED
      BY <3>2, <3>4 DEF Row, Verification
  <2>2. CASE /\ route' = route
             /\ s \in Srcs /\ request'[v].seen = route[s]
    BY <1>1, <2>2
  <2> QED
    BY <1>1, <2>1, <2>2, RequestsToCommit
<1> QED
  BY <1>1 DEF StillVerified, RequestAt

\* As long as no tracker commits its verdict on a route between the read and the
\* commit of a registration of it, a registration that succeeds leaves the route
\* verified: the finding that it may not has no other cause.
THEOREM TurnsKeepVerification ==
    Spec /\ []VerdictsTakeTurns => RegistrationVerifies
<1>1. Init => StillVerified
  BY DEF Init, StillVerified, RequestAt
<1>2. IInv /\ StillVerified /\ VerdictsTakeTurns /\ [Next]_lifeVars => StillVerified'
  BY NextStillVerified
<1>3. ASSUME IInv, StillVerified, NEW v \in Servers, RegisterRenew(v)
      PROVE  route'[request[v].src].verification = "VERIFIED"
  <2>1. /\ request[v] \in Request /\ request[v].src \in Srcs
        /\ request[v].seen \in Row /\ route[request[v].src] \in Row
    BY <1>3 DEF RegisterRenew, RequestAt, IInv, TypeOK, StoreTypeOK, Request, WorkHasRow
  <2>2. route \in [Srcs -> Row \cup {None}]
    BY <1>3 DEF IInv, TypeOK, StoreTypeOK
  <2>3. route'[request[v].src].verification =
          Flushed(route[request[v].src].verification, request[v].seen.verification,
                  "VERIFIED")
    BY <1>3, <2>1, <2>2 DEF RegisterRenew, Row
  <2>4. request[v].seen.verification = "VERIFIED" =>
          route[request[v].src].verification = "VERIFIED"
    BY <1>3, <2>1 DEF StillVerified, RegisterRenew
  <2> QED
    BY <2>3, <2>4 DEF Flushed
<1>4. IInv /\ StillVerified /\ [Next]_lifeVars =>
        [\A v \in Servers : RegisterRenew(v) =>
            route'[request[v].src].verification = "VERIFIED"]_lifeVars
  BY <1>3
<1> QED
  BY <1>1, <1>2, <1>4, IInvHolds, PTL DEF Spec, RegistrationVerifies
=============================================================================
