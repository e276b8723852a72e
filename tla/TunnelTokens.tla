---------------------------- MODULE TunnelTokens ----------------------------
(***************************************************************************)
(* The JWTs with which a client opens the tunnel of its route at Piko: a   *)
(* registration issues the first one, and POST /jwt exchanges one for the  *)
(* next, also for some time after it expired, as long as the route is      *)
(* verified.  An exchange for a route that is DOWN has the route looked at *)
(* again.  Each server signs with the key its configuration calls active.  *)
(*                                                                         *)
(* Of a route, named by its public URL, only what an exchange depends on   *)
(* is told here; what becomes of its rules and owners, RouteLifecycle      *)
(* tells.                                                                  *)
(***************************************************************************)
EXTENDS UnitOfWork, Integers

CONSTANTS
    Srcs,       \* public URLs (route.src)
    Servers,    \* server processes, each handling one request at a time
    Tasks,      \* bound: the update tasks that may be queued or running
    Outcomes,   \* what an update of a route may come to
    Configs,    \* what auth.jwt of the settings may say
    Lifespan,   \* auth.jwt.lifespan, in ticks of the clock
    Leeway,     \* auth.jwt.leeway, in ticks of the clock
    None

VARIABLES
    route,      \* table route: the row of each URL, or None
    app,        \* what an update of a route comes to, per URL
    token,      \* the tokens of a route under a key: the ticks for which the
                \* newest has yet to live, or None
    config,     \* the configuration each server has read at its start
    job,        \* the request each server is handling, or None
    task        \* the update tasks

vars == <<route, app, token, config, job, task>>

\* JWKS.key_map, and the key of active_kid, which signs.  A kid is as good as
\* its key: a kid the server has not, and a kid it has with another key, both
\* end in an exception that nobody catches.
Keys == UNION {c.keys : c \in Configs}

\* SERVER_ERROR stands for MISCONFIGURED and MISSING_ENTITY as well.
Status == {"UP", "DOWN", "SERVER_ERROR"}
Verification == {"VERIFIED", "UNVERIFIED"}
Row == [verification : Verification, status : Status]

\* The status that an update leaves, or that it raises an exception nobody
\* expects, or cannot store the rules, and writes nothing.
Outcome == Status \cup {"nothing"}

ASSUME TokenAssumption ==
    /\ Outcomes \subseteq Outcome
    /\ \A c \in Configs : c.active \in c.keys
    /\ Lifespan \in Nat /\ Leeway \in Nat
    /\ None \notin Int \cup Row \cup Verification

\* A token that has been expired for longer than the leeway is as good as any
\* other such token.
Left == (-Leeway - 1)..Lifespan

Job == [op : {"register"}, src : Srcs, seen : Verification \cup {None}]
         \cup [op : {"wake", "sign"}, src : Srcs]

Task == [src : Srcs, at : {"queued", "loaded", "fetched"}, seen : Status,
         outcome : Outcome]

TokensTypeOK ==
    /\ route \in [Srcs -> Row \cup {None}]
    /\ app \in [Srcs -> Outcomes]
    /\ token \in [Srcs -> [Keys -> Left \cup {None}]]
    /\ config \in [Servers -> Configs]
    /\ job \in [Servers -> Job \cup {None}]
    /\ task \in [Tasks -> Task \cup {None}]

Init ==
    /\ route = [s \in Srcs |-> None]
    /\ app \in [Srcs -> Outcomes]
    /\ token = [s \in Srcs |-> [k \in Keys |-> None]]
    /\ config \in [Servers -> Configs]
    /\ job = [v \in Servers |-> None]
    /\ task = [t \in Tasks |-> None]

Verified(s) == route[s] # None /\ route[s].verification = "VERIFIED"

Doing(v, op) == job[v] # None /\ job[v].op = op

-----------------------------------------------------------------------------
(***************************************************************************)
(* POST /route.  Refusals change nothing and are left out.                 *)
(***************************************************************************)

\* register_route looks the URL up.
RegisterRead(v, s) ==
    /\ job[v] = None
    /\ job' = [job EXCEPT ![v] =
                 [op |-> "register", src |-> s,
                  seen |-> IF route[s] = None THEN None ELSE route[s].verification]]
    /\ UNCHANGED <<route, app, token, config, task>>

\* The handler goes on to send the tasks.
Registered(v) ==
    job' = [job EXCEPT ![v] = [op |-> "wake", src |-> job[v].src]]

RegisterRenew(v) ==
    /\ Doing(v, "register")
    /\ job[v].seen # None
    /\ route' = [route EXCEPT ![job[v].src].verification =
                    Flushed(@, job[v].seen, "VERIFIED")]
    /\ Registered(v)
    /\ UNCHANGED <<app, token, config, task>>

\* The INSERT breaks the unique constraint on src if the URL was taken since,
\* and a foreign key if the owner was removed.
CreateEnds(v) ==
    UNION {CommitEnds(route[job[v].src] # None, removed) : removed \in BOOLEAN}

\* Mutant: a new route waits for its validation.
NewRowPending == [verification |-> "PENDING", status |-> "DOWN"]

NewRow == [verification |-> "VERIFIED", status |-> "DOWN"]

RegisterCreate(v) ==
    /\ Doing(v, "register")
    /\ job[v].seen = None
    /\ Committed \in CreateEnds(v)
    /\ route' = [route EXCEPT ![job[v].src] = NewRow]
    /\ Registered(v)
    /\ UNCHANGED <<app, token, config, task>>

\* Duplicate: no handler catches it.  Swallowed: the client is given a token
\* all the same, for a route id that is in no row; no server ever exchanges
\* it, and it opens no tunnel to which a URL leads.
RegisterFails(v) ==
    /\ Doing(v, "register")
    /\ job[v].seen = None
    /\ CreateEnds(v) \cap {Duplicate, Swallowed} # {}
    /\ job' = [job EXCEPT ![v] = None]
    /\ UNCHANGED <<route, app, token, config, task>>

-----------------------------------------------------------------------------
(***************************************************************************)
(* POST /jwt.                                                              *)
(***************************************************************************)

\* Mutant: a tick more.
AcceptedLate(left) == left >= -Leeway - 1

\* JWTClaimsRegistry.validate: exp plus the leeway is not past.
Accepted(left) == left >= -Leeway

\* Mutant: any route will do.
ExchangeableAny(s) == route[s] # None

Exchangeable(s) == Verified(s)

\* Mutant: a route that is UP has its update, the others wait.
NeedsUpdateUp(row) == row.status = "UP"

\* route.status is Status.DOWN, of the object the authenticator has read.
NeedsUpdate(row) == row.status = "DOWN"

\* JWTAuthenticator: the token is signed by a key of this server and accepted,
\* and the route is there and verified.
Exchange(v, s, k) ==
    /\ job[v] = None
    /\ k \in config[v].keys
    /\ token[s][k] # None
    /\ Accepted(token[s][k])
    /\ Exchangeable(s)
    /\ job' = [job EXCEPT ![v] =
                 [op |-> IF NeedsUpdate(route[s]) THEN "wake" ELSE "sign",
                  src |-> s]]
    /\ UNCHANGED <<route, app, token, config, task>>

-----------------------------------------------------------------------------
(***************************************************************************)
(* How both go on.                                                         *)
(***************************************************************************)

Queued(s) == [src |-> s, at |-> "queued", seen |-> "DOWN", outcome |-> "nothing"]

\* task_proxy.update_route.delay.  One task of a route that is queued does for
\* two of them.
Wake(v, t) ==
    /\ Doing(v, "wake")
    /\ task[t] \in {None, Queued(job[v].src)}
    /\ task' = [task EXCEPT ![t] = Queued(job[v].src)]
    /\ job' = [job EXCEPT ![v].op = "sign"]
    /\ UNCHANGED <<route, app, token, config>>

\* The broker cannot be reached: no token, though the route may be committed.
WakeFails(v) ==
    /\ Doing(v, "wake")
    /\ job' = [job EXCEPT ![v] = None]
    /\ UNCHANGED <<route, app, token, config, task>>

\* Mutant: the first key that is configured signs.
SigningKeyFirst(v) == CHOOSE k \in config[v].keys : TRUE

\* JWTConfig.signing_secret
SigningKey(v) == config[v].active

\* create_piko_jwt
Sign(v) ==
    /\ Doing(v, "sign")
    /\ token' = [token EXCEPT ![job[v].src][SigningKey(v)] = Lifespan]
    /\ job' = [job EXCEPT ![v] = None]
    /\ UNCHANGED <<route, app, config, task>>

\* The process is replaced, with the settings of the day, or with the same as
\* before.  A request that fails after its update task was sent, at the notify
\* task of a registration, comes to the latter.
Restart(v, c) ==
    /\ config' = [config EXCEPT ![v] = c]
    /\ job' = [job EXCEPT ![v] = None]
    /\ UNCHANGED <<route, app, token, task>>

-----------------------------------------------------------------------------
(***************************************************************************)
(* update_route, in a task or in the tracker: load, fetch, commit.         *)
(***************************************************************************)

\* check_routes looks at the routes of list_active.
TrackerLooks(s, t) ==
    /\ Verified(s)
    /\ route[s].status \in {"UP", "DOWN"}
    /\ task[t] = None
    /\ task' = [task EXCEPT ![t] = Queued(s)]
    /\ UNCHANGED <<route, app, token, config, job>>

\* check_routes, of a stale route.  The status keeps its value if it was
\* loaded as DOWN and has changed since.
Unverify(s) ==
    /\ Verified(s)
    /\ \E status \in {"DOWN", route[s].status} :
         route' = [route EXCEPT
                     ![s] = [verification |-> "UNVERIFIED", status |-> status]]
    /\ UNCHANGED <<app, token, config, job, task>>

TaskAt(t, place) == task[t] # None /\ task[t].at = place

Load(t) ==
    /\ TaskAt(t, "queued")
    /\ task' = [task EXCEPT ![t].at = "loaded", ![t].seen = route[task[t].src].status]
    /\ UNCHANGED <<route, app, token, config, job>>

Fetch(t) ==
    /\ TaskAt(t, "loaded")
    /\ task' = [task EXCEPT ![t].at = "fetched",
                            ![t].outcome = app[task[t].src]]
    /\ UNCHANGED <<route, app, token, config, job>>

\* What raised is retried, as long as there are retries left.
Store(t) ==
    /\ TaskAt(t, "fetched")
    /\ route' = [route EXCEPT ![task[t].src].status =
                    IF task[t].outcome = "nothing" THEN @
                    ELSE Flushed(@, task[t].seen, task[t].outcome)]
    /\ \/ task' = [task EXCEPT ![t] = None]
       \/ /\ task[t].outcome # "UP"
          /\ task' = [task EXCEPT ![t] = Queued(task[t].src)]
    /\ UNCHANGED <<app, token, config, job>>

\* A worker dies, and with it the task it has acknowledged.
TaskLost(t) ==
    /\ task[t] # None
    /\ task' = [task EXCEPT ![t] = None]
    /\ UNCHANGED <<route, app, token, config, job>>

-----------------------------------------------------------------------------
AppChanges(s, outcome) ==
    /\ app' = [app EXCEPT ![s] = outcome]
    /\ UNCHANGED <<route, token, config, job, task>>

Older(left) == IF left = None \/ left = -Leeway - 1 THEN None ELSE left - 1

Tick ==
    /\ token' = [s \in Srcs |-> [k \in Keys |-> Older(token[s][k])]]
    /\ UNCHANGED <<route, app, config, job, task>>

Register(v) ==
    \/ RegisterRenew(v)
    \/ RegisterCreate(v)
    \/ RegisterFails(v)

Answer(v) == (\E t \in Tasks : Wake(v, t)) \/ Sign(v)

Update(t) == Load(t) \/ Fetch(t) \/ Store(t)

Track ==
    \E s \in Srcs : (\E t \in Tasks : TrackerLooks(s, t)) \/ Unverify(s)

Failure ==
    \/ \E v \in Servers : WakeFails(v) \/ (\E c \in Configs : Restart(v, c))
    \/ \E t \in Tasks : TaskLost(t)

Exchanges(s) == \E v \in Servers, k \in Keys : Exchange(v, s, k)

Operation ==
    \/ \E v \in Servers : Register(v) \/ Answer(v)
    \/ \E v \in Servers, s \in Srcs : RegisterRead(v, s)
    \/ \E s \in Srcs : Exchanges(s)
    \/ \E t \in Tasks : Update(t)
    \/ Track
    \/ \E s \in Srcs, outcome \in Outcomes : AppChanges(s, outcome)
    \/ Tick

Next == Operation \/ Failure

Spec == Init /\ [][Next]_vars

\* A request that has been read is handled, the workers take what is queued,
\* and time goes by.  Nothing is asked of the tracker, or of the clients.  The
\* broker has room for every task, which the bound on Tasks has not: hence SF.
FairSpec ==
    /\ Spec
    /\ WF_vars(Tick)
    /\ \A v \in Servers : WF_vars(Register(v)) /\ SF_vars(Answer(v))
    /\ \A t \in Tasks : WF_vars(Update(t))

-----------------------------------------------------------------------------
(***************************************************************************)
(* What makes the exchange correct.                                        *)
(***************************************************************************)

\* A token of the route that a server could exchange, or one that is on its way.
Alive(s) ==
    \/ \E k \in Keys : token[s][k] # None /\ token[s][k] >= -Leeway
    \/ \E v \in Servers : job[v] # None /\ job[v].src = s

\* A route whose last token is past its leeway, whoever signed it, gets a new
\* one only by registering: however exchanges, restarts and updates overlap,
\* the chain of exchanges does not come to life again (dependencies.py:79-91).
SilenceIsFinal ==
    [][\A s \in Srcs :
          Alive(s)' => (Alive(s) \/ \E v \in Servers : RegisterRead(v, s))]_vars

\* A route that is never verified again, and is not registered again, is
\* left without a token that lives: exchanges that had passed the check end,
\* and what they signed runs out (dependencies.py:101-108).
EndsWithVerification ==
    \A s \in Srcs :
        (<>[]~Verified(s) /\ <>[][~\E v \in Servers : RegisterRead(v, s)]_vars)
            => <>[]~Alive(s)

\* A key that no server signs with any more can be withdrawn: after a while
\* no client depends on it, since every exchange goes over to the active key
\* of the server that answers (services.py:324, 337).
RetiredKeysFade ==
    \A k \in Keys :
        <>[](\A v \in Servers : config[v].active # k)
            => <>[](\A s \in Srcs : token[s][k] = None)

\* A client that keeps exchanging its token brings its route back: if the route
\* is verified, and its app answers as it should, a status of DOWN does not
\* last, even where no tracker runs (routers/jwt.py:15), as long as processes
\* do not fail for ever.
ComesBack ==
    <>[][Failure => Operation]_vars =>
        \A s \in Srcs :
            (/\ <>[](Verified(s) /\ route[s].status \in {"UP", "DOWN"})
             /\ <>[](app[s] = "UP")
             /\ []<><<Exchanges(s)>>_vars)
                => <>[](Verified(s) /\ route[s].status = "UP")
=============================================================================
