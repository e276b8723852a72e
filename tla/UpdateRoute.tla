---------------------------- MODULE UpdateRoute ----------------------------
(***************************************************************************)
(* services.update_route: the transaction that asks the app of a route for *)
(* its authorization document and stores the rules the document lists.     *)
(* Celery workers and trackers run it, several at a time on one route.     *)
(*                                                                         *)
(* The database is Postgres at READ COMMITTED.  A DELETE removes the rows  *)
(* its statement sees; it waits for a transaction that is deleting one of  *)
(* them, and when that one commits it skips the row, without looking at    *)
(* the rows the other has inserted.  The flush at commit takes the row     *)
(* lock of the route before it inserts rules, so it is a single step, save  *)
(* for the deadlock it can close (CommitDeadlock).                          *)
(***************************************************************************)
EXTENDS RouteStore, UnitOfWork

CONSTANTS Procs     \* the processes that run update_route

VARIABLE update     \* the transaction each process has open, or None

\* The HTTP outcomes update_route turns into a status of the route ...
FaultStatus ==
    [unreachable |-> "DOWN", http_error |-> "SERVER_ERROR",
     bad_schema |-> "MISCONFIGURED"]

\* ... and those it has no handler for: the exception leaves the unit of work.
Uncaught == {"not_json", "no_lists"}

\* at       fetch: the request is sent;  store: the document has arrived;
\*          waiting: the DELETE waits for a lock;  commit: all but committed
\* loaded   route.status as loaded, which decides if the flush writes it
\* verdict  the status assigned to the route
\* delete   the entities of the rules the DELETE removes
Update == [at: {"fetch", "store", "waiting", "commit"}, src: Srcs,
           loaded: Status, reply: Replies \cup {None}, verdict: Status,
           delete: SUBSET Entities]

ASSUME UpdateAssumption == None \notin Update

UpdateTypeOK == update \in [Procs -> Update \cup {None}]

At(p, place) == update[p] # None /\ update[p].at = place

Named(s) == {x.entity : x \in rules[s]}

\* No other open transaction has deleted one of the rows p deletes.
LocksFree(p, s, delete) ==
    \A q \in Procs \ {p} :
        At(q, "commit") /\ update[q].src = s => update[q].delete \cap delete = {}

\* uow.route_repo.get(route_id)
Load(p, s) ==
    /\ update[p] = None
    /\ route[s] # None
    /\ update' = [update EXCEPT ![p] =
                    [at |-> "fetch", src |-> s, loaded |-> route[s].status,
                     reply |-> None, verdict |-> "UP", delete |-> {}]]
    /\ UNCHANGED dbVars

\* get_authorization: there is no timeout on the request.
Fetch(p) ==
    /\ At(p, "fetch")
    /\ LET reply == app[update[p].src] IN
       \/ /\ reply.kind \in {"document", "repeated_name"}
          /\ update' = [update EXCEPT ![p].at = "store", ![p].reply = reply]
       \/ /\ reply.kind \in DOMAIN FaultStatus
          /\ update' = [update EXCEPT ![p].at = "commit",
                                      ![p].verdict = FaultStatus[reply.kind]]
    /\ UNCHANGED dbVars

\* Mutant: an exception leaves the unit of work without closing its session.
FetchRaisesOpen(p) ==
    /\ At(p, "fetch")
    /\ app[update[p].src].kind \in Uncaught
    /\ UNCHANGED <<update, dbVars>>

FetchRaises(p) ==
    /\ At(p, "fetch")
    /\ app[update[p].src].kind \in Uncaught
    /\ update' = [update EXCEPT ![p] = None]
    /\ UNCHANGED dbVars

\* get_users and get_groups with require_all: as many rows as names.
Missing(reply) ==
    \/ reply.kind = "repeated_name"
    \/ ~(reply.allowed \cup reply.disallowed \subseteq entities)

\* store_rules, up to the DELETE: the names are looked up first.
StoreRules(p) ==
    /\ At(p, "store")
    /\ LET s == update[p].src IN
       \/ /\ Missing(update[p].reply)
          /\ update' = [update EXCEPT ![p].at = "commit", ![p].reply = None,
                                      ![p].verdict = "MISSING_ENTITY"]
       \/ /\ ~Missing(update[p].reply)
          /\ update' = [update EXCEPT
                          ![p].at = IF LocksFree(p, s, Named(s))
                                    THEN "commit" ELSE "waiting",
                          ![p].delete = Named(s)]
    /\ UNCHANGED dbVars

\* The locks the DELETE waits for are released.
DeleteResumes(p) ==
    /\ At(p, "waiting")
    /\ LocksFree(p, update[p].src, update[p].delete)
    /\ update' = [update EXCEPT ![p].at = "commit"]
    /\ UNCHANGED dbVars

\* Mutant: store_rules deletes the rules before it looks the names up.
CommitFailureWipes(p) ==
    /\ At(p, "commit")
    /\ update[p].verdict # "UP"
    /\ route' = [route EXCEPT ![update[p].src].status =
                   Flushed(@, update[p].loaded, update[p].verdict)]
    /\ rules' = IF update[p].verdict = "MISSING_ENTITY"
                THEN [rules EXCEPT ![update[p].src] = {}] ELSE rules
    /\ update' = [update EXCEPT ![p] = None]
    /\ UNCHANGED entities

\* An exception was caught, its status assigned: committed, then re-raised.
CommitFailure(p) ==
    /\ At(p, "commit")
    /\ update[p].verdict # "UP"
    /\ route' = [route EXCEPT ![update[p].src].status =
                   Flushed(@, update[p].loaded, update[p].verdict)]
    /\ update' = [update EXCEPT ![p] = None]
    /\ UNCHANGED <<rules, entities>>

\* The rules of the route once p has deleted what it saw, and what p inserts.
Kept(p) == {x \in rules[update[p].src] : x.entity \notin update[p].delete}
Inserted(p) == Policies(update[p].reply)

\* Mutant: the policy is part of the primary key of table rule.
RuleCommitEndsByPolicy(p) ==
    CommitEnds(\E x \in Inserted(p) : x \in Kept(p),
               \E x \in Inserted(p) : x.entity \notin entities)

\* How the flush of the rules ends: the primary key (route, entity) of table
\* rule, and its foreign key to table entity.
RuleCommitEnds(p) ==
    CommitEnds(\E x \in Inserted(p) : \E y \in Kept(p) \cup (Inserted(p) \ {x}) :
                   x.entity = y.entity,
               \E x \in Inserted(p) : x.entity \notin entities)

AtRuleCommit(p) == At(p, "commit") /\ update[p].verdict = "UP"

\* The other transactions, once p has deleted the rows delete of route s.
SkipDeleted(s, delete) ==
    [q \in Procs |->
       IF At(q, "waiting") /\ update[q].src = s
       THEN [update[q] EXCEPT !.delete = @ \ delete]
       ELSE update[q]]

\* Mutant: last_contact is left as it was.
CommitRulesSilent(p) ==
    /\ AtRuleCommit(p)
    /\ Committed \in RuleCommitEnds(p)
    /\ rules' = [rules EXCEPT ![update[p].src] = Kept(p) \cup Inserted(p)]
    /\ route' = [route EXCEPT ![update[p].src].status = Flushed(@, update[p].loaded, "UP")]
    /\ update' = [SkipDeleted(update[p].src, update[p].delete) EXCEPT ![p] = None]
    /\ UNCHANGED entities

CommitRules(p) ==
    /\ AtRuleCommit(p)
    /\ Committed \in RuleCommitEnds(p)
    /\ LET s == update[p].src IN
       /\ rules' = [rules EXCEPT ![s] = Kept(p) \cup Inserted(p)]
       /\ route' = [route EXCEPT
                      ![s].status = Flushed(@, update[p].loaded, "UP"),
                      ![s].contact = day]
       /\ update' = [SkipDeleted(s, update[p].delete) EXCEPT ![p] = None]
    /\ UNCHANGED entities

\* uow.AlreadyExists: rolled back and raised.
CommitDuplicate(p) ==
    /\ AtRuleCommit(p)
    /\ Duplicate \in RuleCommitEnds(p)
    /\ update' = [update EXCEPT ![p] = None]
    /\ UNCHANGED dbVars

\* An entity went away after the lookup: rolled back, and nothing is raised.
CommitSwallowed(p) ==
    /\ AtRuleCommit(p)
    /\ Swallowed \in RuleCommitEnds(p)
    /\ update' = [update EXCEPT ![p] = None]
    /\ UNCHANGED dbVars

\* p has deleted a row whose key q, having seen the table without it, inserts:
\* q holds the row lock of the route and waits for p, p waits for that lock.
Deadlocked(p, q) ==
    /\ AtRuleCommit(q)
    /\ update[q].src = update[p].src
    /\ \E x \in Inserted(q) : \E y \in Kept(q) :
          x.entity = y.entity /\ y.entity \in update[p].delete

\* The database may abort p to break the deadlock: UOWException.  (When it
\* aborts q instead, or p comes to nothing, q ends in CommitDuplicate.)
CommitDeadlock(p) ==
    /\ AtRuleCommit(p)
    /\ \E q \in Procs \ {p} : Deadlocked(p, q)
    /\ update' = [update EXCEPT ![p] = None]
    /\ UNCHANGED dbVars

\* The process dies, its connection closes and the database rolls back.
Abandon(p) == update' = [update EXCEPT ![p] = None]

UpdateStep(p) == Fetch(p) \/ StoreRules(p) \/ DeleteResumes(p)
UpdateReturns(p) == CommitRules(p) \/ CommitSwallowed(p)
UpdateRaises(p) == FetchRaises(p) \/ CommitFailure(p)
                     \/ CommitDuplicate(p) \/ CommitDeadlock(p)
=============================================================================
