------------------------ MODULE RouteLifecycleProofs ------------------------
(***************************************************************************)
(* What holds of RouteLifecycle for every set of routes, entities, servers *)
(* and tasks, every reply, every bound.                                    *)
(***************************************************************************)
EXTENDS RouteLifecycle, TLAPS

(***************************************************************************)
(* The inductive invariant.  The types alone are not inductive: an update  *)
(* of a field of route[s] keeps the type only if route[s] is a row, and of *)
(* a field of task[t] only if there is a task.                             *)
(***************************************************************************)

\* Whatever work is at hand, its route is a row.
WorkHasRow ==
    /\ \A p \in Procs : update[p] # None => route[update[p].src] # None
    /\ \A t \in Tasks : task[t] # None => route[task[t].src] # None
    /\ \A v \in Servers :
         /\ request[v] # None
         /\ request[v].at = "delay" \/ request[v].seen # None
         => route[request[v].src] # None
    /\ \A v \in Servers : pass[v] # None =>
         /\ route[pass[v].src] # None
         /\ \A s \in pass[v].todo : route[s] # None
         /\ pass[v].at = "unverify" => pass[v].seen # None

\* The status is to be UP until the app or the directory says otherwise, and
\* a transaction past its fetch with that verdict holds the document.
ReplyHeld(p) ==
    update[p] # None =>
        /\ update[p].at # "commit" => update[p].verdict = "UP"
        /\ update[p].at # "fetch" /\ update[p].verdict = "UP"
             => update[p].reply # None

RepliesHeld == \A p \in Procs : ReplyHeld(p)

IInv == TypeOK /\ UpdatesAreOwned /\ WorkHasRow /\ RepliesHeld

-----------------------------------------------------------------------------
(***************************************************************************)
(* The update transaction, for whatever process runs it.                   *)
(***************************************************************************)

\* A flush writes what was assigned or leaves the column alone.
LEMMA FlushedIn ==
    ASSUME NEW S, NEW current \in S, NEW loaded, NEW assigned \in S
    PROVE  Flushed(current, loaded, assigned) \in S
BY DEF Flushed

\* The rows made of a reply are rows of table rule.
LEMMA PoliciesAreRules ==
    ASSUME NEW reply \in Replies
    PROVE  Policies(reply) \in SUBSET Rule
<1>1. reply \in Reply
  BY StoreAssumption
<1> QED
  BY <1>1 DEF Policies, Reply, Rule, Policy

\* What a step of another module sees of an update: the transaction of p goes
\* on or ends, those of the others keep their place, route and document.
OthersStay(p) ==
    \A q \in Procs \ {p} :
        IF update[q] = None THEN update'[q] = None
        ELSE /\ update'[q] # None
             /\ update'[q].at = update[q].at
             /\ update'[q].src = update[q].src
             /\ update'[q].reply = update[q].reply
             /\ update'[q].verdict = update[q].verdict

\* No row disappears.
RowsStay == \A s \in Srcs : route[s] # None => route'[s] # None

LEMMA LoadEffect ==
    ASSUME TypeOK, NEW p \in Procs, NEW s \in Srcs, Load(p, s)
    PROVE  /\ UpdateTypeOK'
           /\ update'[p] # None /\ update'[p].src = s
           /\ ReplyHeld(p)'
           /\ OthersStay(p)
           /\ UNCHANGED dbVars /\ update[p] = None /\ route[s] # None
<1> DEFINE new == [at |-> "fetch", src |-> s, loaded |-> route[s].status,
                   reply |-> None, verdict |-> "UP", delete |-> {}]
<1>1. route[s] \in Row
  BY DEF Load, TypeOK, StoreTypeOK
<1>2. new \in Update /\ new # None
  BY <1>1, UpdateAssumption DEF Update, Row, Status
<1>3. update' = [update EXCEPT ![p] = new]
  BY DEF Load
<1>4. update'[p] = new
  BY <1>3 DEF TypeOK, UpdateTypeOK
<1> QED
  BY <1>2, <1>3, <1>4 DEF TypeOK, UpdateTypeOK, OthersStay, ReplyHeld, At, Load

LEMMA UpdateStepEffect ==
    ASSUME TypeOK, RepliesHeld, NEW p \in Procs, UpdateStep(p)
    PROVE  /\ UpdateTypeOK'
           /\ update[p] # None /\ update'[p] # None
           /\ update'[p].src = update[p].src
           /\ ReplyHeld(p)'
           /\ OthersStay(p)
           /\ UNCHANGED dbVars
<1> USE DEF At
<1>1. update[p] # None /\ update[p] \in Update
  BY DEF TypeOK, UpdateTypeOK, UpdateStep, Fetch, StoreRules, DeleteResumes
<1>2. update[p].src \in Srcs
  BY <1>1 DEF Update
<1> DEFINE Goes(new) ==
             /\ update' = [update EXCEPT ![p] = new]
             /\ new \in Update
             /\ new.src = update[p].src
             /\ new.at # "commit" => new.verdict = "UP"
             /\ new.at # "fetch" /\ new.verdict = "UP" => new.reply # None
<1>3. ASSUME NEW new, Goes(new)
      PROVE  /\ UpdateTypeOK'
             /\ update'[p] # None
             /\ update'[p].src = update[p].src
             /\ ReplyHeld(p)'
             /\ OthersStay(p)
  BY <1>1, <1>3, UpdateAssumption
     DEF TypeOK, UpdateTypeOK, OthersStay, ReplyHeld
<1> HIDE DEF Goes
<1>4. CASE Fetch(p)
  <2> DEFINE reply == app[update[p].src]
  <2>1. reply \in Replies /\ reply # None
    BY <1>2, StoreAssumption DEF TypeOK, StoreTypeOK
  <2>2. update[p].verdict = "UP"
    BY <1>1, <1>4 DEF Fetch, RepliesHeld, ReplyHeld
  <2>3. CASE update' = [update EXCEPT ![p].at = "store", ![p].reply = reply]
    <3> Goes([update[p] EXCEPT !.at = "store", !.reply = reply])
      BY <1>1, <2>1, <2>2, <2>3 DEF Goes, Update
    <3> QED
      BY <1>1, <1>3, <1>4 DEF Fetch
  <2>4. CASE /\ reply.kind \in DOMAIN FaultStatus
             /\ update' = [update EXCEPT ![p].at = "commit",
                                         ![p].verdict = FaultStatus[reply.kind]]
    <3>1. FaultStatus[reply.kind] \in Status \ {"UP"}
      BY <2>4 DEF FaultStatus, Status
    <3> Goes([update[p] EXCEPT !.at = "commit",
                               !.verdict = FaultStatus[reply.kind]])
      BY <1>1, <2>4, <3>1 DEF Goes, Update
    <3> QED
      BY <1>1, <1>3, <1>4 DEF Fetch
  <2> QED
    BY <1>4, <2>3, <2>4 DEF Fetch
<1>5. CASE StoreRules(p)
  <2> DEFINE seen == Named(update[p].src)
  <2>1. seen \in SUBSET Entities
    BY <1>2 DEF TypeOK, StoreTypeOK, Named, Rule
  <2>2. /\ update[p].verdict = "UP"
        /\ update[p].reply # None
    BY <1>1, <1>5 DEF StoreRules, RepliesHeld, ReplyHeld
  <2>3. CASE update' = [update EXCEPT ![p].at = "commit", ![p].reply = None,
                                      ![p].verdict = "MISSING_ENTITY"]
    <3> Goes([update[p] EXCEPT !.at = "commit", !.reply = None,
                               !.verdict = "MISSING_ENTITY"])
      BY <1>1, <2>3 DEF Goes, Update, Status
    <3> QED
      BY <1>1, <1>3, <1>5 DEF StoreRules
  <2>4. ASSUME NEW place \in {"commit", "waiting"},
               update' = [update EXCEPT ![p].at = place, ![p].delete = seen]
        PROVE  Goes([update[p] EXCEPT !.at = place, !.delete = seen])
    BY <1>1, <2>1, <2>2, <2>4 DEF Goes, Update
  <2> QED
    BY <1>1, <1>3, <1>5, <2>3, <2>4 DEF StoreRules
<1>6. CASE DeleteResumes(p)
  <2> Goes([update[p] EXCEPT !.at = "commit"])
    BY <1>1, <1>6 DEF Goes, DeleteResumes, Update, RepliesHeld, ReplyHeld
  <2> QED
    BY <1>1, <1>3, <1>6 DEF DeleteResumes
<1> QED
  BY <1>4, <1>5, <1>6 DEF UpdateStep

\* An exception out of the unit of work, or a crash: only p's transaction goes.
LEMMA DropEffect ==
    ASSUME TypeOK, NEW p \in Procs, update' = [update EXCEPT ![p] = None]
    PROVE  UpdateTypeOK' /\ update'[p] = None /\ OthersStay(p)
BY DEF TypeOK, UpdateTypeOK, OthersStay

\* The end of an update transaction, whatever the end.
LEMMA UpdateEndEffect ==
    ASSUME TypeOK, WorkHasRow, RepliesHeld, NEW p \in Procs,
           UpdateReturns(p) \/ UpdateRaises(p)
    PROVE  /\ update[p] # None /\ UpdateTypeOK'
           /\ update'[p] = None /\ OthersStay(p)
           /\ route' \in [Srcs -> Row \cup {None}]
           /\ rules' \in [Srcs -> SUBSET Rule]
           /\ entities' = entities
           /\ RowsStay
<1> USE DEF At, AtRuleCommit
<1>1. update[p] # None /\ update[p] \in Update
  BY DEF TypeOK, UpdateTypeOK, UpdateReturns, UpdateRaises, FetchRaises,
         CommitFailure, CommitRules, CommitSwallowed, CommitDuplicate,
         CommitDeadlock
<1> DEFINE s == update[p].src
<1>2. s \in Srcs /\ route[s] # None /\ route[s] \in Row
  BY <1>1 DEF Update, WorkHasRow, TypeOK, StoreTypeOK
<1>3. CASE /\ update' = [update EXCEPT ![p] = None]
           /\ UNCHANGED dbVars
  BY <1>1, <1>3, DropEffect DEF TypeOK, StoreTypeOK, dbVars, RowsStay
<1>4. CASE CommitFailure(p)
  <2> DEFINE status == Flushed(route[s].status, update[p].loaded,
                               update[p].verdict)
  <2>1. status \in Status
    BY <1>1, <1>2, FlushedIn DEF Update, Row
  <2>2. route' = [route EXCEPT ![s] = [route[s] EXCEPT !.status = status]]
    BY <1>4 DEF CommitFailure
  <2>3. [route[s] EXCEPT !.status = status] \in Row
    BY <1>2, <2>1 DEF Row
  <2>4. route' \in [Srcs -> Row \cup {None}] /\ RowsStay
    BY <1>2, <2>2, <2>3, StoreAssumption DEF TypeOK, StoreTypeOK, RowsStay
  <2> QED
    BY <1>1, <1>4, <2>4, DropEffect DEF CommitFailure, TypeOK, StoreTypeOK
<1>5. CASE CommitRules(p)
  <2> DEFINE status == Flushed(route[s].status, update[p].loaded, "UP")
             row == [route[s] EXCEPT !.status = status, !.contact = day]
             skipped == SkipDeleted(s, update[p].delete)
  <2>1. status \in Status
    BY <1>1, <1>2, FlushedIn DEF Row, Status
  <2>2. row \in Row /\ row # None
    BY <1>2, <2>1, StoreAssumption DEF Row, TypeOK, StoreTypeOK
  <2>3. route' = [route EXCEPT ![s] = row]
    BY <1>2, <1>5 DEF CommitRules, TypeOK, StoreTypeOK
  <2>4. route' \in [Srcs -> Row \cup {None}] /\ RowsStay
    BY <2>2, <2>3 DEF TypeOK, StoreTypeOK, RowsStay
  <2>5. Inserted(p) \in SUBSET Rule
    <3>1. update[p].reply \in Replies
      BY <1>1, <1>5 DEF CommitRules, Update, RepliesHeld, ReplyHeld
    <3> QED
      BY <3>1, PoliciesAreRules DEF Inserted
  <2>6. rules' \in [Srcs -> SUBSET Rule]
    BY <1>2, <1>5, <2>5 DEF CommitRules, Kept, TypeOK, StoreTypeOK
  <2>7. \A q \in Procs :
          /\ skipped[q] \in Update \cup {None}
          /\ IF update[q] = None THEN skipped[q] = None
             ELSE /\ skipped[q] # None
                  /\ skipped[q].at = update[q].at
                  /\ skipped[q].src = update[q].src
                  /\ skipped[q].reply = update[q].reply
                  /\ skipped[q].verdict = update[q].verdict
    BY UpdateAssumption DEF SkipDeleted, TypeOK, UpdateTypeOK, Update
  <2>8. update' = [skipped EXCEPT ![p] = None]
    BY <1>5 DEF CommitRules
  <2>9. skipped = [q \in Procs |-> skipped[q]]
    BY DEF SkipDeleted
  <2> HIDE DEF skipped
  <2>10. UpdateTypeOK' /\ update'[p] = None /\ OthersStay(p)
    BY <2>7, <2>8, <2>9 DEF UpdateTypeOK, OthersStay
  <2> QED
    BY <1>1, <1>5, <2>4, <2>6, <2>10 DEF CommitRules
<1> QED
  BY <1>3, <1>4, <1>5
     DEF UpdateReturns, UpdateRaises, FetchRaises, CommitSwallowed,
         CommitDuplicate, CommitDeadlock

-----------------------------------------------------------------------------
(***************************************************************************)
(* Each action of RouteLifecycle preserves IInv.                           *)
(***************************************************************************)

LEMMA InitIInv == Init => IInv
<1> SUFFICES ASSUME Init PROVE IInv
  OBVIOUS
<1> USE DEF Init, StoreInit
<1>1. 0 \in Days
  BY StoreAssumption DEF Days
<1>2. TypeOK
  BY <1>1 DEF TypeOK, StoreTypeOK, UpdateTypeOK
<1>3. UpdatesAreOwned
  BY LifecycleAssumption DEF UpdatesAreOwned, PassAt
<1>4. WorkHasRow /\ RepliesHeld
  BY DEF WorkHasRow, RepliesHeld, ReplyHeld
<1> QED
  BY <1>2, <1>3, <1>4 DEF IInv

\* An API server's steps touch no update, no task that exists and no pass.
LEMMA RegisterIInv ==
    ASSUME IInv, NEW v \in Servers, Register(v)
    PROVE  IInv'
<1> USE DEF IInv, RequestAt
<1> DEFINE r == request[v]
<1>1. r # None /\ r \in Request
  BY DEF TypeOK, Register, RegisterRenew, RegisterCreate, RegisterFails,
         RegisterDelay
<1>2. r.src \in Srcs
  BY <1>1 DEF Request
<1>3. ASSUME NEW row \in Row, route' = [route EXCEPT ![r.src] = row],
             request' = [request EXCEPT ![v].at = "delay"],
             UNCHANGED <<rules, entities, app, day, update, task, pass>>
      PROVE  IInv'
  <2>1. row # None
    BY StoreAssumption
  <2>2. /\ route'[r.src] # None
        /\ \A s \in Srcs : route[s] # None => route'[s] # None
        /\ route' \in [Srcs -> Row \cup {None}]
    BY <1>2, <1>3, <2>1 DEF TypeOK, StoreTypeOK
  <2>3. [r EXCEPT !.at = "delay"] \in Request \ {None}
    BY <1>1, LifecycleAssumption DEF Request
  <2>4. TypeOK'
    BY <1>3, <2>2, <2>3 DEF TypeOK, StoreTypeOK, UpdateTypeOK
  <2>5. UpdatesAreOwned' /\ RepliesHeld'
    BY <1>3 DEF UpdatesAreOwned, RepliesHeld, ReplyHeld, PassAt
  <2>6. WorkHasRow'
    BY <1>1, <1>3, <2>2 DEF WorkHasRow, TypeOK, UpdateTypeOK, Update, Task,
                            Request, Pass
  <2> QED
    BY <2>4, <2>5, <2>6
<1>4. CASE RegisterRenew(v)
  <2> DEFINE old == route[r.src]
             new == Flushed(old.verification, r.seen.verification, "VERIFIED")
             row == [old EXCEPT !.verification = new, !.contact = day]
  <2>1. old \in Row
    BY <1>1, <1>2, <1>4 DEF RegisterRenew, WorkHasRow, TypeOK, StoreTypeOK
  <2>2. new \in Verification
    BY <2>1, FlushedIn DEF Row, Verification
  <2>3. row \in Row
    BY <2>1, <2>2 DEF Row, TypeOK, StoreTypeOK
  <2>4. route' = [route EXCEPT ![r.src] = row]
    BY <1>2, <1>4 DEF RegisterRenew, TypeOK, StoreTypeOK
  <2> QED
    BY <1>3, <1>4, <2>3, <2>4 DEF RegisterRenew
<1>5. CASE RegisterCreate(v)
  <2>1. NewRow(r.user) \in Row
    BY <1>1 DEF NewRow, Row, Request, Verification, Status, TypeOK, StoreTypeOK
  <2> QED
    BY <1>3, <1>5, <2>1 DEF RegisterCreate
<1>6. CASE RegisterFails(v)
  BY <1>6 DEF RegisterFails, TypeOK, StoreTypeOK, UpdateTypeOK, dbVars,
              UpdatesAreOwned, WorkHasRow, RepliesHeld, ReplyHeld, PassAt
<1>7. ASSUME NEW t \in Tasks, RegisterDelay(v, t)
      PROVE  IInv'
  <2>1. Queued(r.src) \in Task \ {None}
    BY <1>2, LifecycleAssumption DEF Queued, Task
  <2>2. route[r.src] # None
    BY <1>1, <1>7 DEF RegisterDelay, WorkHasRow
  <2>3. TypeOK'
    BY <1>7, <2>1 DEF RegisterDelay, TypeOK, StoreTypeOK, UpdateTypeOK, dbVars
  <2>4. UpdatesAreOwned'
    BY <1>7, <2>1 DEF RegisterDelay, UpdatesAreOwned, Queued, PassAt, TypeOK
  <2>5. WorkHasRow' /\ RepliesHeld'
    BY <1>7, <2>1, <2>2 DEF RegisterDelay, WorkHasRow, RepliesHeld, ReplyHeld,
                            Queued, dbVars, TypeOK
  <2> QED
    BY <2>3, <2>4, <2>5
<1> QED
  BY <1>4, <1>5, <1>6, <1>7 DEF Register

LEMMA ClientIInv ==
    ASSUME IInv, Client
    PROVE  IInv'
<1> USE DEF IInv
<1>1. ASSUME NEW v \in Servers, NEW u \in Users, NEW s \in Srcs,
             RegisterRead(v, u, s)
      PROVE  IInv'
  <2> DEFINE new == [src |-> s, at |-> "commit", user |-> u, seen |-> route[s]]
  <2>1. new \in Request \ {None}
    BY LifecycleAssumption DEF Request, TypeOK, StoreTypeOK
  <2>2. request' = [request EXCEPT ![v] = new]
    BY <1>1 DEF RegisterRead
  <2>3. TypeOK'
    BY <1>1, <2>1, <2>2 DEF RegisterRead, TypeOK, StoreTypeOK, UpdateTypeOK, dbVars
  <2>4. UpdatesAreOwned' /\ RepliesHeld'
    BY <1>1 DEF RegisterRead, UpdatesAreOwned, RepliesHeld, ReplyHeld, PassAt
  <2>5. WorkHasRow'
    BY <1>1, <2>2 DEF RegisterRead, WorkHasRow, dbVars, TypeOK
  <2> QED
    BY <2>3, <2>4, <2>5
<1>2. ASSUME NEW s \in Srcs, NEW t \in Tasks, RotateJwt(s, t)
      PROVE  IInv'
  <2>1. Queued(s) \in Task \ {None}
    BY LifecycleAssumption DEF Queued, Task
  <2>2. TypeOK'
    BY <1>2, <2>1 DEF RotateJwt, TypeOK, StoreTypeOK, UpdateTypeOK, dbVars
  <2>3. UpdatesAreOwned'
    BY <1>2, <2>1 DEF RotateJwt, UpdatesAreOwned, Queued, PassAt, TypeOK
  <2>4. WorkHasRow' /\ RepliesHeld'
    BY <1>2, <2>1 DEF RotateJwt, WorkHasRow, RepliesHeld, ReplyHeld, Queued,
                      dbVars, TypeOK
  <2> QED
    BY <2>2, <2>3, <2>4
<1> QED
  BY <1>1, <1>2 DEF Client

\* What remains to be shown of a step that moves or ends the transaction of one
\* process p, when no row disappears.
LEMMA UpdateMoves ==
    ASSUME IInv, NEW p \in Procs, UpdateTypeOK', OthersStay(p), RowsStay,
           update'[p] # None => /\ update'[p].src \in Srcs
                                /\ route[update'[p].src] # None
                                /\ ReplyHeld(p)'
    PROVE  /\ RepliesHeld'
           /\ \A q \in Procs : update'[q] # None => route'[update'[q].src] # None
<1>1. \A q \in Procs \ {p} : ReplyHeld(q)'
  BY DEF IInv, RepliesHeld, ReplyHeld, OthersStay
<1>2. ReplyHeld(p)'
  BY DEF ReplyHeld
<1>3. ASSUME NEW q \in Procs \ {p}, update'[q] # None
      PROVE  route'[update'[q].src] # None
  <2>1. update[q] # None /\ update'[q].src = update[q].src
    BY <1>3 DEF OthersStay
  <2>2. update[q].src \in Srcs
    BY <2>1 DEF IInv, TypeOK, UpdateTypeOK, Update
  <2> QED
    BY <2>1, <2>2 DEF IInv, WorkHasRow, RowsStay
<1> QED
  BY <1>1, <1>2, <1>3 DEF RepliesHeld, RowsStay

LEMMA WorkIInv ==
    ASSUME IInv, NEW t \in Tasks, Work(t)
    PROVE  IInv'
<1> USE DEF IInv
<1>1. t \in Procs /\ t \notin Servers
  BY LifecycleAssumption
<1>2. task[t] # None /\ task[t] \in Task /\ task[t].src \in Srcs
      /\ route[task[t].src] # None
  <2>1. task[t] # None
    BY <1>1, UpdateStepEffect, UpdateEndEffect
       DEF Work, TaskStarts, TaskRuns, TaskSucceeds, TaskRetries, TaskFails,
           UpdatesAreOwned
  <2> QED
    BY <2>1 DEF TypeOK, Task, WorkHasRow
<1>3. UNCHANGED <<app, day, request, pass>>
  BY DEF Work, TaskStarts, TaskRuns, TaskSucceeds, TaskRetries, TaskFails
\* What a step does to the task, and the rest.
<1>4. ASSUME NEW new \in Task \cup {None}, task' = [task EXCEPT ![t] = new],
             new # None => new.src = task[t].src,
             IF update'[t] = None THEN new = None \/ new.at = "queued"
             ELSE new # None /\ new.at = "running" /\ new.src = update'[t].src,
             UpdateTypeOK', OthersStay(t), RowsStay,
             route' \in [Srcs -> Row \cup {None}],
             rules' \in [Srcs -> SUBSET Rule],
             entities' = entities,
             update'[t] # None => ReplyHeld(t)'
      PROVE  IInv'
  <2>1. TypeOK'
    BY <1>3, <1>4 DEF TypeOK, StoreTypeOK
  <2>2. UpdatesAreOwned'
    <3>1. ASSUME NEW q \in Tasks, q # t
          PROVE  IF update'[q] = None
                 THEN task'[q] = None \/ task'[q].at = "queued"
                 ELSE /\ task'[q] # None
                      /\ task'[q].at = "running"
                      /\ task'[q].src = update'[q].src
      <4>1. task'[q] = task[q]
        BY <1>4, <3>1 DEF TypeOK
      <4> QED
        BY <1>4, <3>1, <4>1, LifecycleAssumption DEF OthersStay, UpdatesAreOwned
    <3>2. task'[t] = new
      BY <1>4 DEF TypeOK
    <3>3. ASSUME NEW v \in Servers
          PROVE  IF update'[v] = None THEN ~PassAt(v, "update")'
                 ELSE PassAt(v, "update")' /\ pass'[v].src = update'[v].src
      BY <1>1, <1>3, <1>4, LifecycleAssumption
         DEF OthersStay, UpdatesAreOwned, PassAt
    <3> QED
      BY <1>4, <3>1, <3>2, <3>3 DEF UpdatesAreOwned
  <2>3. /\ RepliesHeld'
        /\ \A q \in Procs : update'[q] # None => route'[update'[q].src] # None
    <3>1. update'[t] # None => update'[t].src \in Srcs
                               /\ route[update'[t].src] # None
      BY <1>2, <1>4
    <3> QED
      BY <1>1, <1>4, <3>1, UpdateMoves
  <2>4. \A q \in Tasks : task'[q] # None => route'[task'[q].src] # None
    BY <1>2, <1>4 DEF WorkHasRow, RowsStay, TypeOK, Task
  <2>5. WorkHasRow'
    <3>1. \A v \in Servers :
            /\ request[v] # None => request[v].src \in Srcs
            /\ pass[v] # None => pass[v].src \in Srcs /\ pass[v].todo \subseteq Srcs
      BY DEF TypeOK, Request, Pass
    <3>2. request' = request /\ pass' = pass
      BY <1>3
    <3> QED
      BY <1>4, <2>3, <2>4, <3>1, <3>2 DEF WorkHasRow, RowsStay
  <2> QED
    BY <2>1, <2>2, <2>3, <2>5
<1>5. CASE TaskStarts(t)
  <2> DEFINE new == [task[t] EXCEPT !.at = "running"]
  <2>1. /\ new \in Task /\ new # None /\ new.src = task[t].src
        /\ new.at = "running"
    BY <1>2, LifecycleAssumption DEF Task
  <2>2. Load(t, task[t].src) /\ task' = [task EXCEPT ![t] = new]
    BY <1>5 DEF TaskStarts
  <2>3. /\ UpdateTypeOK' /\ update'[t] # None /\ update'[t].src = task[t].src
        /\ ReplyHeld(t)' /\ OthersStay(t) /\ UNCHANGED dbVars
    BY <1>1, <1>2, <2>2, LoadEffect
  <2> HIDE DEF new
  <2> QED
    BY <1>4, <2>1, <2>2, <2>3 DEF dbVars, RowsStay, TypeOK, StoreTypeOK
<1>6. CASE TaskRuns(t)
  <2>1. /\ UpdateTypeOK' /\ update[t] # None /\ update'[t] # None
        /\ update'[t].src = update[t].src
        /\ ReplyHeld(t)' /\ OthersStay(t) /\ UNCHANGED dbVars
    BY <1>1, <1>6, UpdateStepEffect DEF TaskRuns
  <2>2. task[t].at = "running" /\ task[t].src = update[t].src
    BY <2>1 DEF UpdatesAreOwned
  <2>3. task' = [task EXCEPT ![t] = task[t]]
    BY <1>6 DEF TaskRuns, TypeOK
  <2> QED
    BY <1>2, <1>4, <2>1, <2>2, <2>3 DEF dbVars, RowsStay, TypeOK, StoreTypeOK
<1>7. CASE TaskSucceeds(t) \/ TaskFails(t)
  <2>1. task' = [task EXCEPT ![t] = None]
    BY <1>7 DEF TaskSucceeds, TaskFails
  <2> QED
    BY <1>1, <1>4, <1>7, <2>1, UpdateEndEffect DEF TaskSucceeds, TaskFails
<1>8. CASE TaskRetries(t)
  <2> DEFINE new == [task[t] EXCEPT !.at = "queued", !.tries = @ + 1]
  <2>1. new \in Task /\ new.at = "queued" /\ new.src = task[t].src
    <3>1. task[t].tries + 1 \in 0..MaxRetries
      BY <1>2, <1>8, LifecycleAssumption DEF Task, TaskRetries
    <3> QED
      BY <1>2, <3>1 DEF Task
  <2>2. task' = [task EXCEPT ![t] = new]
    BY <1>8 DEF TaskRetries
  <2> HIDE DEF new
  <2> QED
    BY <1>1, <1>4, <1>8, <2>1, <2>2, UpdateEndEffect DEF TaskRetries
<1> QED
  BY <1>5, <1>6, <1>7, <1>8 DEF Work

LEMMA TrackIInv ==
    ASSUME IInv, NEW v \in Servers, Track(v)
    PROVE  IInv'
<1> USE DEF IInv
<1>1. v \in Procs /\ v \notin Tasks
  BY LifecycleAssumption
<1>2. UNCHANGED <<app, day, task, request>>
  BY DEF Track, PassStarts, PassPicks, PassUpdates, PassUpdated, PassKeeps,
         UnverifyReads, UnverifyCommits
\* What a step does to the pass, and the rest.
<1>3. ASSUME NEW new \in Pass \cup {None}, pass' = [pass EXCEPT ![v] = new],
             new # None => /\ route[new.src] # None
                           /\ \A s \in new.todo : route[s] # None
                           /\ new.at = "unverify" => new.seen # None,
             IF update'[v] = None THEN new = None \/ new.at # "update"
             ELSE new # None /\ new.at = "update" /\ new.src = update'[v].src,
             UpdateTypeOK', OthersStay(v), RowsStay,
             route' \in [Srcs -> Row \cup {None}],
             rules' \in [Srcs -> SUBSET Rule],
             entities' = entities,
             update'[v] # None => ReplyHeld(v)'
      PROVE  IInv'
  <2>1. TypeOK'
    BY <1>2, <1>3 DEF TypeOK, StoreTypeOK
  <2>2. \A w \in Servers \ {v} : pass'[w] = pass[w]
    BY <1>3 DEF TypeOK
  <2>3. pass'[v] = new
    BY <1>3 DEF TypeOK
  <2>4. UpdatesAreOwned'
    <3>1. ASSUME NEW t \in Tasks
          PROVE  IF update'[t] = None
                 THEN task'[t] = None \/ task'[t].at = "queued"
                 ELSE /\ task'[t] # None
                      /\ task'[t].at = "running"
                      /\ task'[t].src = update'[t].src
      BY <1>1, <1>2, <1>3, LifecycleAssumption DEF OthersStay, UpdatesAreOwned
    <3>2. ASSUME NEW w \in Servers, w # v
          PROVE  IF update'[w] = None THEN ~PassAt(w, "update")'
                 ELSE PassAt(w, "update")' /\ pass'[w].src = update'[w].src
      BY <1>3, <2>2, <3>2, LifecycleAssumption
         DEF OthersStay, UpdatesAreOwned, PassAt
    <3> QED
      BY <1>3, <2>3, <3>1, <3>2 DEF UpdatesAreOwned, PassAt
  <2>5. /\ RepliesHeld'
        /\ \A q \in Procs : update'[q] # None => route'[update'[q].src] # None
    <3>1. update'[v] # None => update'[v].src \in Srcs
                               /\ route[update'[v].src] # None
      BY <1>3 DEF Pass
    <3> QED
      BY <1>1, <1>3, <3>1, UpdateMoves
  <2>6. WorkHasRow'
    <3>1. /\ \A t \in Tasks : task[t] # None => task[t].src \in Srcs
          /\ \A w \in Servers :
               /\ request[w] # None => request[w].src \in Srcs
               /\ pass[w] # None => pass[w].src \in Srcs /\ pass[w].todo \subseteq Srcs
          /\ new # None => new.src \in Srcs /\ new.todo \subseteq Srcs
      BY <1>3 DEF TypeOK, Task, Request, Pass
    <3>2. task' = task /\ request' = request
      BY <1>2
    <3> QED
      BY <1>3, <2>2, <2>3, <2>5, <3>1, <3>2 DEF WorkHasRow, RowsStay
  <2> QED
    BY <2>1, <2>4, <2>5, <2>6
<1>4. ASSUME UNCHANGED <<dbVars, update>>
      PROVE  /\ UpdateTypeOK' /\ OthersStay(v) /\ RowsStay
             /\ route' \in [Srcs -> Row \cup {None}]
             /\ rules' \in [Srcs -> SUBSET Rule]
             /\ entities' = entities
             /\ update'[v] # None => ReplyHeld(v)'
             /\ update'[v] = update[v]
  BY <1>1, <1>4 DEF dbVars, TypeOK, StoreTypeOK, UpdateTypeOK, OthersStay,
                    RowsStay, RepliesHeld, ReplyHeld
\* The next route of a run that has one.
<1>5. ASSUME pass[v] # None, update[v] = None
      PROVE  /\ NextRoute(v) \in Pass \cup {None}
             /\ NextRoute(v) # None => /\ NextRoute(v).at = "next"
                                      /\ route[NextRoute(v).src] # None
                                      /\ \A s \in NextRoute(v).todo : route[s] # None
  BY <1>5 DEF NextRoute, TypeOK, Pass, WorkHasRow
<1>6. CASE PassStarts(v)
  <2> DEFINE listed == {s \in Srcs : IsActive(s)}
             first == CHOOSE s \in listed : TRUE
             seen == [s \in Srcs |-> IF s \in listed THEN route[s].contact ELSE 0]
             new == [at |-> "next", now |-> day, todo |-> listed,
                     contact |-> seen, src |-> first, seen |-> None]
  <2>1. pass' = [pass EXCEPT ![v] = new] /\ listed # {} /\ pass[v] = None
        /\ UNCHANGED <<dbVars, update>>
    BY <1>6 DEF PassStarts
  <2>2. first \in listed /\ \A s \in listed : s \in Srcs /\ route[s] # None
    BY <2>1 DEF IsActive
  <2>3. seen \in [Srcs -> Days]
    <3>1. \A s \in listed : route[s].contact \in Days
      BY <2>2 DEF TypeOK, StoreTypeOK, Row
    <3>2. 0 \in Days
      BY StoreAssumption DEF Days
    <3> HIDE DEF listed
    <3> QED
      BY <3>1, <3>2
  <2>4. update[v] = None
    BY <2>1 DEF UpdatesAreOwned, PassAt
  <2> HIDE DEF listed, first, seen
  <2>5. new \in Pass
    BY <2>2, <2>3 DEF Pass, TypeOK, StoreTypeOK
  <2> QED
    BY <1>3, <1>4, <2>1, <2>2, <2>4, <2>5
<1>7. ASSUME NEW s \in Srcs, PassPicks(v, s)
      PROVE  IInv'
  <2> DEFINE new == [pass[v] EXCEPT !.at = "update", !.src = s, !.todo = @ \ {s}]
  <2>1. pass[v] # None /\ pass[v] \in Pass /\ Load(v, s)
        /\ pass' = [pass EXCEPT ![v] = new]
    BY <1>7 DEF PassPicks, PassAt, TypeOK
  <2>2. /\ new \in Pass /\ new.at = "update" /\ new.src = s
        /\ new.todo \subseteq pass[v].todo
    BY <2>1 DEF Pass
  <2>3. /\ UpdateTypeOK' /\ update'[v] # None /\ update'[v].src = s
        /\ ReplyHeld(v)' /\ OthersStay(v) /\ UNCHANGED dbVars
        /\ route[s] # None
    BY <1>1, <2>1, LoadEffect
  <2>4. new # None
    BY <2>2, LifecycleAssumption
  <2> HIDE DEF new
  <2> QED
    BY <1>3, <2>1, <2>2, <2>3, <2>4
       DEF dbVars, RowsStay, TypeOK, StoreTypeOK, WorkHasRow
<1>8. CASE PassUpdates(v)
  <2>1. /\ UpdateTypeOK' /\ update[v] # None /\ update'[v] # None
        /\ update'[v].src = update[v].src
        /\ ReplyHeld(v)' /\ OthersStay(v) /\ UNCHANGED dbVars
    BY <1>1, <1>8, UpdateStepEffect DEF PassUpdates
  <2>2. pass[v] # None /\ pass[v].at = "update" /\ pass[v].src = update[v].src
    BY <2>1 DEF UpdatesAreOwned, PassAt
  <2>3. pass' = [pass EXCEPT ![v] = pass[v]] /\ pass[v] \in Pass
    BY <1>8, <2>2 DEF PassUpdates, TypeOK
  <2> QED
    BY <1>3, <2>1, <2>2, <2>3 DEF dbVars, RowsStay, TypeOK, StoreTypeOK, WorkHasRow
<1>9. CASE PassUpdated(v)
  <2> DEFINE new == [pass[v] EXCEPT !.at = "stale"]
  <2>1. /\ update[v] # None /\ UpdateTypeOK' /\ update'[v] = None
        /\ OthersStay(v) /\ RowsStay
        /\ route' \in [Srcs -> Row \cup {None}]
        /\ rules' \in [Srcs -> SUBSET Rule] /\ entities' = entities
    BY <1>1, <1>9, UpdateEndEffect DEF PassUpdated
  <2>2. pass[v] # None /\ pass[v] \in Pass
    BY <2>1 DEF UpdatesAreOwned, PassAt, TypeOK
  <2>3. /\ new \in Pass /\ new.at = "stale"
        /\ new.src = pass[v].src /\ new.todo = pass[v].todo
    BY <2>2 DEF Pass
  <2>4. pass' = [pass EXCEPT ![v] = new]
    BY <1>9 DEF PassUpdated
  <2> HIDE DEF new
  <2> QED
    BY <1>3, <2>1, <2>2, <2>3, <2>4 DEF WorkHasRow
<1>10. CASE PassKeeps(v)
  <2>1. pass[v] # None /\ update[v] = None
    BY <1>1, <1>10 DEF PassKeeps, PassAt, UpdatesAreOwned
  <2> QED
    BY <1>3, <1>4, <1>5, <1>10, <2>1 DEF PassKeeps
<1>11. CASE UnverifyReads(v)
  <2> DEFINE new == [pass[v] EXCEPT !.at = "unverify", !.seen = route[pass[v].src]]
  <2>1. pass[v] # None /\ pass[v] \in Pass /\ update[v] = None
        /\ pass' = [pass EXCEPT ![v] = new] /\ UNCHANGED <<dbVars, update>>
    BY <1>1, <1>11 DEF UnverifyReads, PassAt, TypeOK, UpdatesAreOwned
  <2>2. route[pass[v].src] \in Row /\ route[pass[v].src] # None
    BY <2>1 DEF WorkHasRow, TypeOK, StoreTypeOK, Pass
  <2>3. /\ new \in Pass /\ new.at = "unverify" /\ new.seen # None
        /\ new.src = pass[v].src /\ new.todo = pass[v].todo
    BY <2>1, <2>2 DEF Pass
  <2> HIDE DEF new
  <2> QED
    BY <1>3, <1>4, <2>1, <2>2, <2>3 DEF WorkHasRow
<1>12. CASE UnverifyCommits(v)
  <2> DEFINE s == pass[v].src
             old == route[s]
             verification == Flushed(old.verification, pass[v].seen.verification,
                                     "UNVERIFIED")
             status == Flushed(old.status, pass[v].seen.status, "DOWN")
             row == [old EXCEPT !.verification = verification, !.status = status]
  <2>1. pass[v] # None /\ pass[v] \in Pass /\ update[v] = None
    BY <1>1, <1>12 DEF UnverifyCommits, PassAt, TypeOK, UpdatesAreOwned
  <2>2. s \in Srcs /\ old \in Row
    BY <2>1 DEF WorkHasRow, TypeOK, StoreTypeOK, Pass
  <2>3. verification \in Verification /\ status \in Status
    BY <2>2, FlushedIn DEF Row, Verification, Status
  <2>4. row \in Row /\ row # None
    BY <2>2, <2>3, StoreAssumption DEF Row
  <2>5. route' = [route EXCEPT ![s] = row]
    BY <1>12, <2>2 DEF UnverifyCommits, TypeOK, StoreTypeOK
  <2>6. route' \in [Srcs -> Row \cup {None}] /\ RowsStay
    BY <2>4, <2>5 DEF TypeOK, StoreTypeOK, RowsStay
  <2>7. /\ UpdateTypeOK' /\ OthersStay(v) /\ update'[v] = None
        /\ rules' \in [Srcs -> SUBSET Rule] /\ entities' = entities
    BY <1>12, <2>1 DEF UnverifyCommits, TypeOK, StoreTypeOK, UpdateTypeOK,
                       OthersStay
  <2> QED
    BY <1>3, <1>5, <1>12, <2>1, <2>6, <2>7 DEF UnverifyCommits
<1> QED
  BY <1>6, <1>7, <1>8, <1>9, <1>10, <1>11, <1>12 DEF Track

LEMMA SurroundingsIInv ==
    ASSUME IInv, Surroundings
    PROVE  IInv'
<1> USE DEF IInv
<1>1. /\ StoreTypeOK'
      /\ \A s \in Srcs : route'[s] # None <=> route[s] # None
  <2>1. ASSUME NEW s \in Srcs, NEW reply \in Replies, AppChanges(s, reply)
        PROVE  StoreTypeOK' /\ route' = route
    BY <2>1 DEF AppChanges, TypeOK, StoreTypeOK, dbVars
  <2>2. CASE Tick
    BY <2>2, StoreAssumption DEF Tick, TypeOK, StoreTypeOK, dbVars, Days
  <2>3. ASSUME NEW e \in Entities, AddEntity(e)
        PROVE  StoreTypeOK' /\ route' = route
    BY <2>3 DEF AddEntity, TypeOK, StoreTypeOK
  <2>4. ASSUME NEW e \in Entities, RemoveEntity(e)
        PROVE  /\ StoreTypeOK'
               /\ \A s \in Srcs : route'[s] # None <=> route[s] # None
    <3>1. \A s \in Srcs : route[s] # None =>
             /\ [route[s] EXCEPT !.owners = @ \ {e}] \in Row
             /\ [route[s] EXCEPT !.owners = @ \ {e}] # None
      BY StoreAssumption DEF TypeOK, StoreTypeOK, Row
    <3> QED
      BY <2>4, <3>1 DEF RemoveEntity, TypeOK, StoreTypeOK
  <2> QED
    BY <2>1, <2>2, <2>3, <2>4 DEF Surroundings
<1>2. UNCHANGED <<update, task, request, pass>>
  BY DEF Surroundings
<1>3. TypeOK' /\ UpdatesAreOwned' /\ RepliesHeld'
  BY <1>1, <1>2 DEF TypeOK, UpdateTypeOK, UpdatesAreOwned, PassAt, RepliesHeld,
                    ReplyHeld
<1>4. WorkHasRow'
  BY <1>1, <1>2 DEF WorkHasRow, TypeOK, UpdateTypeOK, Update, Task, Request, Pass
<1> QED
  BY <1>3, <1>4

LEMMA FailureIInv ==
    ASSUME IInv, Failure
    PROVE  IInv'
<1> USE DEF IInv
<1>1. ASSUME NEW v \in Servers, RegisterDelayFails(v)
      PROVE  IInv'
  BY <1>1 DEF RegisterDelayFails, TypeOK, StoreTypeOK, UpdateTypeOK, dbVars,
              UpdatesAreOwned, WorkHasRow, RepliesHeld, ReplyHeld, PassAt
<1>2. ASSUME NEW v \in Servers, ServerCrashes(v)
      PROVE  IInv'
  <2>1. v \in Procs /\ v \notin Tasks
    BY LifecycleAssumption
  <2>2. UpdateTypeOK' /\ update'[v] = None /\ OthersStay(v)
    BY <1>2, <2>1, DropEffect DEF ServerCrashes, Abandon
  <2>3. TypeOK'
    BY <1>2, <2>2 DEF ServerCrashes, TypeOK, StoreTypeOK, dbVars
  <2>4. UpdatesAreOwned'
    BY <1>2, <2>1, <2>2, LifecycleAssumption
       DEF ServerCrashes, UpdatesAreOwned, PassAt, OthersStay, TypeOK
  <2>5. RowsStay
    BY <1>2 DEF ServerCrashes, RowsStay, dbVars
  <2>6. /\ RepliesHeld'
        /\ \A q \in Procs : update'[q] # None => route'[update'[q].src] # None
    BY <2>1, <2>2, <2>5, UpdateMoves
  <2>7. WorkHasRow'
    BY <1>2, <2>6 DEF ServerCrashes, WorkHasRow, dbVars, TypeOK
  <2> QED
    BY <2>3, <2>4, <2>6, <2>7
<1>3. ASSUME NEW t \in Tasks, WorkerCrashes(t)
      PROVE  IInv'
  <2>1. t \in Procs /\ t \notin Servers
    BY LifecycleAssumption
  <2>2. UpdateTypeOK' /\ update'[t] = None /\ OthersStay(t)
    BY <1>3, <2>1, DropEffect DEF WorkerCrashes, Abandon
  <2>3. TypeOK'
    BY <1>3, <2>2 DEF WorkerCrashes, TypeOK, StoreTypeOK, dbVars
  <2>4. UpdatesAreOwned'
    BY <1>3, <2>1, <2>2, LifecycleAssumption
       DEF WorkerCrashes, UpdatesAreOwned, PassAt, OthersStay, TypeOK
  <2>5. RowsStay
    BY <1>3 DEF WorkerCrashes, RowsStay, dbVars
  <2>6. /\ RepliesHeld'
        /\ \A q \in Procs : update'[q] # None => route'[update'[q].src] # None
    BY <2>1, <2>2, <2>5, UpdateMoves
  <2>7. WorkHasRow'
    BY <1>3, <2>6 DEF WorkerCrashes, WorkHasRow, dbVars, TypeOK
  <2> QED
    BY <2>3, <2>4, <2>6, <2>7
<1> QED
  BY <1>1, <1>2, <1>3 DEF Failure

LEMMA NextIInv == IInv /\ [Next]_lifeVars => IInv'
<1> SUFFICES ASSUME IInv, [Next]_lifeVars PROVE IInv'
  OBVIOUS
<1>1. CASE UNCHANGED lifeVars
  BY <1>1 DEF lifeVars, IInv, TypeOK, StoreTypeOK, UpdateTypeOK,
              UpdatesAreOwned, WorkHasRow, RepliesHeld, ReplyHeld, PassAt
<1>2. CASE Next
  BY <1>2, RegisterIInv, TrackIInv, WorkIInv, ClientIInv, SurroundingsIInv,
     FailureIInv DEF Next, Operation
<1> QED
  BY <1>1, <1>2

\* The inductive invariant holds throughout.
LEMMA IInvHolds == Spec => []IInv
  BY InitIInv, NextIInv, PTL DEF Spec

\* Every variable keeps its type: in particular no handler ever assigns to a
\* field of a row, a task or a transaction that is not there.
THEOREM TypeCorrect == Spec => []TypeOK
<1>1. IInv => TypeOK
  BY DEF IInv
<1> QED
  BY <1>1, IInvHolds, PTL

\* Transactions, tasks and tracker iterations stay paired, through retries,
\* crashes of workers and servers, and every way an update can end.
THEOREM UpdatesOwned == Spec => []UpdatesAreOwned
<1>1. IInv => UpdatesAreOwned
  BY DEF IInv
<1> QED
  BY <1>1, IInvHolds, PTL

=============================================================================
