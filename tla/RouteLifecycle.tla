--------------------------- MODULE RouteLifecycle ---------------------------
(***************************************************************************)
(* The life of routes in the registry: API servers register them, Celery   *)
(* workers update them, and the tracker of each server checks the active   *)
(* ones and unverifies the stale ones, all over one database and at once.  *)
(***************************************************************************)
EXTENDS UpdateRoute

CONSTANTS
    Tasks,      \* bound: update_route tasks outstanding at one time
    Servers,    \* server processes; each runs the API and a tracker thread
    MaxRetries  \* max_retries of the update task

VARIABLES
    task,       \* the Celery task in each slot, or None
    request,    \* the POST /route each server is handling, or None
    pass        \* the run of check_routes of each tracker, or None

lifeVars == <<route, rules, entities, app, day, update, task, request, pass>>

\* tries: how many times Celery has retried the task
Task == [src: Srcs, at: {"queued", "running"}, tries: 0..MaxRetries]

\* seen: the row that get_by_src returned
Request == [src: Srcs, at: {"commit", "delay"}, user: Users,
            seen: Row \cup {None}]

\* now      pendulum.now() at the start of check_routes
\* todo     the routes of list_active that are still to be checked
\* contact  last_contact of the listed objects, as of that query
\* src      the route of the current iteration, seen its row for the unverify
Pass == [at: {"next", "update", "stale", "unverify"}, now: Days,
         todo: SUBSET Srcs, contact: [Srcs -> Days], src: Srcs,
         seen: Row \cup {None}]

ASSUME LifecycleAssumption ==
    /\ Procs = Tasks \cup Servers
    /\ Tasks \cap Servers = {}
    /\ MaxRetries \in Nat
    /\ None \notin Task
    /\ None \notin Request
    /\ None \notin Pass

TypeOK ==
    /\ StoreTypeOK
    /\ UpdateTypeOK
    /\ task \in [Tasks -> Task \cup {None}]
    /\ request \in [Servers -> Request \cup {None}]
    /\ pass \in [Servers -> Pass \cup {None}]

Init ==
    /\ StoreInit
    /\ update = [p \in Procs |-> None]
    /\ task = [t \in Tasks |-> None]
    /\ request = [v \in Servers |-> None]
    /\ pass = [v \in Servers |-> None]

-----------------------------------------------------------------------------
(***************************************************************************)
(* POST /route: register_route reads, decides and commits; then the update *)
(* task is sent to the broker.  A server handles one request at a time,    *)
(* since the handlers never yield to the event loop.  The community that a *)
(* request may name, and the task that notifies the gateway, touch neither *)
(* the status nor the rules of a route and are left out here.              *)
(***************************************************************************)

\* Requests that are refused here (no such user, "Route already taken", a
\* restricted domain) change nothing.
RegisterRead(v, u, s) ==
    /\ request[v] = None
    /\ u \in entities
    /\ IF route[s] # None THEN u \in route[s].owners ELSE s \notin Restricted
    /\ request' = [request EXCEPT ![v] =
                     [src |-> s, at |-> "commit", user |-> u, seen |-> route[s]]]
    /\ UNCHANGED <<dbVars, app, day, update, task, pass>>

RequestAt(v, place) == request[v] # None /\ request[v].at = place

\* Mutant: a new route waits for its validation.
NewRowPending(u) == [verification |-> "PENDING", status |-> "DOWN",
                     contact |-> day, owners |-> {u}]

NewRow(u) == [verification |-> "VERIFIED", status |-> "DOWN",
              contact |-> day, owners |-> {u}]

\* The route existed when it was read.
RegisterRenew(v) ==
    /\ RequestAt(v, "commit")
    /\ request[v].seen # None
    /\ route' = [route EXCEPT
                   ![request[v].src].verification =
                       Flushed(@, request[v].seen.verification, "VERIFIED"),
                   ![request[v].src].contact = day]
    /\ request' = [request EXCEPT ![v].at = "delay"]
    /\ UNCHANGED <<rules, entities, app, day, update, task, pass>>

\* Mutant: route.src is not unique.
CreateEndsAnyway(v) == CommitEnds(FALSE, request[v].user \notin entities)

\* It did not: INSERT, under the unique constraint on src and the foreign key
\* of entity_route_association.
CreateEnds(v) ==
    CommitEnds(route[request[v].src] # None, request[v].user \notin entities)

RegisterCreate(v) ==
    /\ RequestAt(v, "commit")
    /\ request[v].seen = None
    /\ Committed \in CreateEnds(v)
    /\ route' = [route EXCEPT ![request[v].src] = NewRow(request[v].user)]
    /\ request' = [request EXCEPT ![v].at = "delay"]
    /\ UNCHANGED <<rules, entities, app, day, update, task, pass>>

\* Duplicate: uow.AlreadyExists, which the handler does not catch.  Swallowed:
\* the handler goes on with a route that is in no row; the task it sends names
\* an id that no query finds, and fails without a change each time it is run.
RegisterFails(v) ==
    /\ RequestAt(v, "commit")
    /\ request[v].seen = None
    /\ CreateEnds(v) \cap {Duplicate, Swallowed} # {}
    /\ request' = [request EXCEPT ![v] = None]
    /\ UNCHANGED <<dbVars, app, day, update, task, pass>>

Queued(s) == [src |-> s, at |-> "queued", tries |-> 0]

\* task_proxy.update_route.delay(route.id, authz_path)
RegisterDelay(v, t) ==
    /\ RequestAt(v, "delay")
    /\ task[t] = None
    /\ task' = [task EXCEPT ![t] = Queued(request[v].src)]
    /\ request' = [request EXCEPT ![v] = None]
    /\ UNCHANGED <<dbVars, app, day, update, pass>>

\* The broker cannot be reached: the committed route gets no task.
RegisterDelayFails(v) ==
    /\ RequestAt(v, "delay")
    /\ request' = [request EXCEPT ![v] = None]
    /\ UNCHANGED <<dbVars, app, day, update, task, pass>>

\* POST /jwt with a JWT of a route that is verified and DOWN.
RotateJwt(s, t) ==
    /\ route[s] # None
    /\ route[s].verification = "VERIFIED"
    /\ route[s].status = "DOWN"
    /\ task[t] = None
    /\ task' = [task EXCEPT ![t] = Queued(s)]
    /\ UNCHANGED <<dbVars, app, day, update, request, pass>>

-----------------------------------------------------------------------------
(***************************************************************************)
(* Celery.  A task is acknowledged when it starts, so it dies with its     *)
(* worker; an exception of any kind is retried max_retries times.          *)
(***************************************************************************)

TaskStarts(t) ==
    /\ task[t] # None
    /\ task[t].at = "queued"
    /\ Load(t, task[t].src)
    /\ task' = [task EXCEPT ![t].at = "running"]
    /\ UNCHANGED <<app, day, request, pass>>

TaskRuns(t) ==
    /\ UpdateStep(t)
    /\ UNCHANGED <<app, day, task, request, pass>>

TaskSucceeds(t) ==
    /\ UpdateReturns(t)
    /\ task' = [task EXCEPT ![t] = None]
    /\ UNCHANGED <<app, day, request, pass>>

TaskRetries(t) ==
    /\ UpdateRaises(t)
    /\ task[t].tries < MaxRetries
    /\ task' = [task EXCEPT ![t].at = "queued", ![t].tries = @ + 1]
    /\ UNCHANGED <<app, day, request, pass>>

TaskFails(t) ==
    /\ UpdateRaises(t)
    /\ task[t].tries = MaxRetries
    /\ task' = [task EXCEPT ![t] = None]
    /\ UNCHANGED <<app, day, request, pass>>

WorkerCrashes(t) ==
    /\ update[t] # None
    /\ Abandon(t)
    /\ task' = [task EXCEPT ![t] = None]
    /\ UNCHANGED <<dbVars, app, day, request, pass>>

-----------------------------------------------------------------------------
(***************************************************************************)
(* check_routes, the interval job of the tracker.  At most one runs per    *)
(* process (max_instances of APScheduler).                                 *)
(***************************************************************************)

PassAt(v, place) == pass[v] # None /\ pass[v].at = place

\* A run that lists no route does nothing.
PassStarts(v) ==
    /\ pass[v] = None
    /\ LET listed == {s \in Srcs : IsActive(s)} IN
       /\ listed # {}
       /\ pass' = [pass EXCEPT ![v] =
             [at |-> "next", now |-> day, todo |-> listed,
              contact |-> [s \in Srcs |->
                             IF s \in listed THEN route[s].contact ELSE 0],
              src |-> CHOOSE s \in listed : TRUE, seen |-> None]]
    /\ UNCHANGED <<dbVars, app, day, update, task, request>>

PassPicks(v, s) ==
    /\ PassAt(v, "next")
    /\ s \in pass[v].todo
    /\ Load(v, s)
    /\ pass' = [pass EXCEPT ![v].at = "update", ![v].src = s, ![v].todo = @ \ {s}]
    /\ UNCHANGED <<app, day, task, request>>

PassUpdates(v) ==
    /\ UpdateStep(v)
    /\ UNCHANGED <<app, day, task, request, pass>>

\* Whatever update_route raised is logged and dropped.
PassUpdated(v) ==
    /\ UpdateReturns(v) \/ UpdateRaises(v)
    /\ pass' = [pass EXCEPT ![v].at = "stale"]
    /\ UNCHANGED <<app, day, task, request>>

\* Mutant: off by one day.
ListedStaleLate(v) == pass[v].now > pass[v].contact[pass[v].src] + StaleDuration + 1

\* Mutant: off by one day, the other way.
ListedStaleEarly(v) == pass[v].now >= pass[v].contact[pass[v].src] + StaleDuration

\* now.diff(route.last_contact).in_days() > stale_duration, where route is the
\* object that list_active returned, detached since.
ListedStale(v) == pass[v].now > pass[v].contact[pass[v].src] + StaleDuration

\* Mutant: the run does not notice that it is through.
NextRouteAlways(v) == [pass[v] EXCEPT !.at = "next", !.seen = None]

NextRoute(v) ==
    IF pass[v].todo = {} THEN None ELSE [pass[v] EXCEPT !.at = "next", !.seen = None]

PassKeeps(v) ==
    /\ PassAt(v, "stale")
    /\ ~ListedStale(v)
    /\ pass' = [pass EXCEPT ![v] = NextRoute(v)]
    /\ UNCHANGED <<dbVars, app, day, update, task, request>>

\* unverify_route: its read, then its commit.
UnverifyReads(v) ==
    /\ PassAt(v, "stale")
    /\ ListedStale(v)
    /\ pass' = [pass EXCEPT ![v].at = "unverify", ![v].seen = route[pass[v].src]]
    /\ UNCHANGED <<dbVars, app, day, update, task, request>>

UnverifyCommits(v) ==
    /\ PassAt(v, "unverify")
    /\ route' = [route EXCEPT
                   ![pass[v].src].verification =
                       Flushed(@, pass[v].seen.verification, "UNVERIFIED"),
                   ![pass[v].src].status =
                       Flushed(@, pass[v].seen.status, "DOWN")]
    /\ pass' = [pass EXCEPT ![v] = NextRoute(v)]
    /\ UNCHANGED <<rules, entities, app, day, update, task, request>>

\* A server process dies: its request and its tracker's run are gone.
ServerCrashes(v) ==
    /\ request[v] # None \/ pass[v] # None
    /\ Abandon(v)
    /\ request' = [request EXCEPT ![v] = None]
    /\ pass' = [pass EXCEPT ![v] = None]
    /\ UNCHANGED <<dbVars, app, day, task>>

-----------------------------------------------------------------------------
\* What the registry owes: its own steps.
Register(v) ==
    \/ RegisterRenew(v)
    \/ RegisterCreate(v)
    \/ RegisterFails(v)
    \/ \E t \in Tasks : RegisterDelay(v, t)

Work(t) ==
    \/ TaskStarts(t)
    \/ TaskRuns(t)
    \/ TaskSucceeds(t)
    \/ TaskRetries(t)
    \/ TaskFails(t)

Track(v) ==
    \/ PassStarts(v)
    \/ \E s \in Srcs : PassPicks(v, s)
    \/ PassUpdates(v)
    \/ PassUpdated(v)
    \/ PassKeeps(v)
    \/ UnverifyReads(v)
    \/ UnverifyCommits(v)

\* What others do to it: clients, apps, operators, the calendar, failures.
Client ==
    \/ \E v \in Servers, u \in Users, s \in Srcs : RegisterRead(v, u, s)
    \/ \E s \in Srcs, t \in Tasks : RotateJwt(s, t)

Surroundings ==
    /\ \/ \E s \in Srcs, reply \in Replies : AppChanges(s, reply)
       \/ Tick
       \/ \E e \in Entities : AddEntity(e) \/ RemoveEntity(e)
    /\ UNCHANGED <<update, task, request, pass>>

Failure ==
    \/ \E v \in Servers : RegisterDelayFails(v) \/ ServerCrashes(v)
    \/ \E t \in Tasks : WorkerCrashes(t)

\* What happens where nothing fails.
Operation ==
    \/ \E v \in Servers : Register(v) \/ Track(v)
    \/ \E t \in Tasks : Work(t)
    \/ Client
    \/ Surroundings

Next == Operation \/ Failure

Spec == Init /\ [][Next]_lifeVars

\* The servers, the workers and the trackers keep running: uvicorn handles the
\* request it has read, Celery takes the tasks that are queued, APScheduler
\* starts check_routes at every interval.  Nothing is asked of the others.
FairSpec ==
    /\ Spec
    /\ \A v \in Servers : WF_lifeVars(Register(v)) /\ WF_lifeVars(Track(v))
    /\ \A t \in Tasks : WF_lifeVars(Work(t))

-----------------------------------------------------------------------------
(***************************************************************************)
(* Safety.                                                                 *)
(***************************************************************************)

\* "there's only one policy for the pair" of a route and an entity
\* (store/orm.py:125): however the updates of a route overlap, its stored
\* rules never allow and deny the same entity.
OnePolicyPerPair ==
    \A s \in Srcs : \A x, y \in rules[s] : x.entity = y.entity => x = y

\* A stored rule always names an entity that exists, although the update that
\* stores it looked the entity up earlier and an operator may remove it any
\* time in between.
RulesNameEntities ==
    \A s \in Srcs : \A x \in rules[s] : x.entity \in entities

\* Every open update transaction belongs to a running task or to the current
\* iteration of a tracker, on the same route, and to no more than one: crashes,
\* retries and failures leave neither an orphan transaction nor a task that
\* runs without one.
UpdatesAreOwned ==
    /\ \A t \in Tasks :
         IF update[t] = None THEN task[t] = None \/ task[t].at = "queued"
         ELSE task[t] # None /\ task[t].at = "running" /\ task[t].src = update[t].src
    /\ \A v \in Servers :
         IF update[v] = None THEN ~PassAt(v, "update")
         ELSE PassAt(v, "update") /\ pass[v].src = update[v].src

\* A public URL is never taken over: once a route exists it stays, and nobody
\* joins its owners, even when two users register the same new URL through two
\* servers at once or the owner is removed in between.
NoTakeover ==
    [][\A s \in Srcs : route[s] # None =>
          route'[s] # None /\ route'[s].owners \subseteq route[s].owners]_lifeVars

\* services.list_available_routes: what the gateway is given.
IsAvailable(s) ==
    /\ route[s] # None
    /\ route[s].verification = "VERIFIED"
    /\ route[s].status = "UP"

Exposure == INSTANCE RouteExposure WITH
    exposed <- [s \in Srcs |-> IF IsAvailable(s) THEN rules[s] ELSE None],
    contact <- [s \in Srcs |-> IF route[s] = None THEN None ELSE route[s].contact]

\* The life of routes implements the promise to the gateway: every step of
\* every process is a contact, a withdrawal, a new day or invisible.
ImplementsExposure == Exposure!Spec

\* The rules of s are those of the document its app serves, and no update that
\* is under way carries another one.
SettledOn(s, reply) ==
    /\ app[s] = reply
    /\ rules[s] = Policies(reply)
    /\ \A p \in Procs : update[p] # None /\ update[p].src = s =>
          update[p].reply \in {None, reply}

\* Once a route has settled on a document, and for as long as its app serves
\* it, no update, overlapping, late, retried, refused or cut short by a crash,
\* takes the rules away or mixes them with others: a failed update changes the
\* status (services.py:280) and leaves the rules of the last good one.
PolicyStays ==
    [][\A s \in Srcs, reply \in Replies :
          SettledOn(s, reply) /\ app'[s] = reply => SettledOn(s, reply)']_lifeVars

\* A verified route loses its verification only to a tracker that found it out
\* of contact for longer than stale_duration when its run began: by a clock
\* that is not ahead, and a contact that the route has had (services.py:314).
VerdictsAreJust ==
    [][\A s \in Srcs :
          /\ route[s] # None
          /\ route[s].verification = "VERIFIED"
          /\ route'[s].verification = "UNVERIFIED"
          => \E v \in Servers :
                /\ pass[v] # None
                /\ pass[v].src = s
                /\ pass[v].contact[s] <= route[s].contact
                /\ pass[v].contact[s] + StaleDuration < pass[v].now
                /\ pass[v].now <= day]_lifeVars

-----------------------------------------------------------------------------
(***************************************************************************)
(* Liveness.  Each property grants that processes do not fail for ever and *)
(* that no app leaves a request hanging for ever.                          *)
(***************************************************************************)

Answering == <>[](\A s \in Srcs : app[s].kind # "hang")

\* ~Failure would be too much to ask: the end of a run of the tracker is the
\* same step as a crash just before it.
Stable == <>[][Failure => Operation]_lifeVars /\ Answering

\* A document that can be stored as it is.
Storable(reply) ==
    /\ reply.kind = "document"
    /\ reply.allowed \cup reply.disallowed \subseteq entities
    /\ reply.allowed \cap reply.disallowed = {}

\* The routes whose state the tracker is there to keep up to date.
Tracked(s) ==
    /\ route[s] # None
    /\ route[s].verification = "VERIFIED"
    /\ route[s].status \in {"UP", "DOWN"}

Overdue(s) == Tracked(s) /\ day > route[s].contact + StaleDuration

\* As long as the route is verified, UP or DOWN, and its app keeps serving one
\* storable document, the route ends up UP with exactly the rules of that
\* document, whatever was stored before and whatever updates overlapped.
SettlesOnPolicy ==
    Stable => \A s \in Srcs : \A reply \in Replies :
        <>[](Tracked(s) /\ app[s] = reply /\ Storable(reply))
            => <>[](IsAvailable(s) /\ rules[s] = Policies(reply))

\* A verified route that is UP or DOWN and out of contact for longer than
\* stale_duration does not stay so: the tracker unverifies it, unless an
\* update or a registration changes its state first.
StaleIsNoticed == Stable => \A s \in Srcs : Overdue(s) ~> ~Overdue(s)

\* Every run of the tracker ends, so that the next one can start.
PassEnds == Stable => \A v \in Servers : pass[v] # None ~> pass[v] = None

-----------------------------------------------------------------------------
(***************************************************************************)
(* What the repository says of the program and the program does not do.    *)
(***************************************************************************)

\* "fetches the app-served authz.json ... and stores resulting allow/deny
\* rules" (README.md:259): the stored rules are those of one document.
RulesOfOneDocument ==
    \A s \in Srcs : rules[s] # {} =>
        \E reply \in Replies : rules[s] = Policies(reply)

\* p is about to commit the rules of a document, or waits to.
Rewriting(p) == AtRuleCommit(p) \/ At(p, "waiting")

\* No two updates of a route are between their DELETE and their commit.
RewritesTakeTurns ==
    \A p, q \in Procs :
        Rewriting(p) /\ Rewriting(q) /\ update[p].src = update[q].src => p = q

\* register_route assigns VERIFIED to the route it returns (services.py:143):
\* a registration that succeeds leaves the route verified.
RegistrationVerifies ==
    [][\A v \in Servers :
          RegisterRenew(v) =>
             route'[request[v].src].verification = "VERIFIED"]_lifeVars

\* No tracker is about to unverify a route that a registration has read and not
\* committed yet.
VerdictsTakeTurns ==
    \A v, w \in Servers :
        RequestAt(v, "commit") /\ PassAt(w, "unverify")
            => request[v].src # pass[w].src
=============================================================================
