---------------------------- MODULE GatewaySync ----------------------------
(***************************************************************************)
(* How the gateway learns of the routes: a registration sends a Celery     *)
(* task that notifies Holepunch, every run of a tracker ends with a        *)
(* notification of its own, and Holepunch then fetches the list of         *)
(* available routes.  RouteLifecycle goes on underneath, step for step.    *)
(***************************************************************************)
EXTENDS RouteLifecycle

CONSTANTS
    Mails,          \* bound: notify tasks outstanding at one time
    NotifyRetries   \* max_retries of the notify task

VARIABLES
    mail,       \* the Celery task notify_route_table_update in each slot, or None
    notice,     \* what each server is about to do: send that task for a
                \* "request", notify the gateway itself after a "pass"
    told,       \* the gateway has been notified and has not fetched since
    gateway     \* the gateway's copy of the list: the rules of a URL, or None

syncVars == <<mail, notice, told, gateway>>
allVars == <<lifeVars, syncVars>>

Mail == [at: {"queued", "running"}, tries: 0..NotifyRetries]

ASSUME SyncAssumption == NotifyRetries \in Nat /\ None \notin Mail

SyncTypeOK ==
    /\ mail \in [Mails -> Mail \cup {None}]
    /\ notice \in [Servers -> SUBSET {"request", "pass"}]
    /\ told \in BOOLEAN
    /\ gateway \in [Srcs -> {None} \cup SUBSET Rule]

\* The answer to GET /route.
Listed == [s \in Srcs |-> IF IsAvailable(s) THEN rules[s] ELSE None]

SyncInit ==
    /\ Init
    /\ mail = [m \in Mails |-> None]
    /\ notice = [v \in Servers |-> {}]
    /\ told = FALSE
    /\ gateway = Listed

-----------------------------------------------------------------------------
(***************************************************************************)
(* The handler of a registration sends the update task, then the notify    *)
(* task.  Neither waits for the other.                                     *)
(***************************************************************************)

\* A server handles one request at a time.
HandlerRead(v, u, s) ==
    /\ "request" \notin notice[v]
    /\ RegisterRead(v, u, s)
    /\ UNCHANGED syncVars

HandlerCommits(v) ==
    /\ RegisterRenew(v) \/ RegisterCreate(v)
    /\ UNCHANGED syncVars

\* A commit that is swallowed does not stop the handler.
HandlerFails(v) ==
    /\ RegisterFails(v)
    /\ \/ UNCHANGED notice
       \/ /\ Swallowed \in CreateEnds(v)
          /\ notice' = [notice EXCEPT ![v] = @ \cup {"request"}]
    /\ UNCHANGED <<mail, told, gateway>>

HandlerSendsUpdate(v, t) ==
    /\ RegisterDelay(v, t)
    /\ notice' = [notice EXCEPT ![v] = @ \cup {"request"}]
    /\ UNCHANGED <<mail, told, gateway>>

\* task_proxy.notify_route_table_update.delay()
HandlerSendsNotify(v, m) ==
    /\ "request" \in notice[v]
    /\ mail[m] = None
    /\ mail' = [mail EXCEPT ![m] = [at |-> "queued", tries |-> 0]]
    /\ notice' = [notice EXCEPT ![v] = @ \ {"request"}]
    /\ UNCHANGED <<lifeVars, told, gateway>>

\* The broker cannot be reached.
HandlerNotifyFails(v) ==
    /\ "request" \in notice[v]
    /\ notice' = [notice EXCEPT ![v] = @ \ {"request"}]
    /\ UNCHANGED <<lifeVars, mail, told, gateway>>

-----------------------------------------------------------------------------
(***************************************************************************)
(* The notify task, acknowledged and retried as the update task is.        *)
(***************************************************************************)

MailStarts(m) ==
    /\ mail[m] # None
    /\ mail[m].at = "queued"
    /\ mail' = [mail EXCEPT ![m].at = "running"]
    /\ UNCHANGED <<lifeVars, notice, told, gateway>>

Running(m) == mail[m] # None /\ mail[m].at = "running"

\* POST /webhook/routes
MailDelivers(m) ==
    /\ Running(m)
    /\ told' = TRUE
    /\ mail' = [mail EXCEPT ![m] = None]
    /\ UNCHANGED <<lifeVars, notice, gateway>>

\* Mutant: max_retries is not looked at.
MailRaisesForever(m) ==
    /\ Running(m)
    /\ mail' = [mail EXCEPT ![m] = [at |-> "queued", tries |-> mail[m].tries + 1]]
    /\ UNCHANGED <<lifeVars, notice, told, gateway>>

\* The gateway does not accept it.
MailRaises(m) ==
    /\ Running(m)
    /\ mail' = [mail EXCEPT ![m] =
                  IF mail[m].tries < NotifyRetries
                  THEN [at |-> "queued", tries |-> mail[m].tries + 1]
                  ELSE None]
    /\ UNCHANGED <<lifeVars, notice, told, gateway>>

MailCrashes(m) ==
    /\ Running(m)
    /\ mail' = [mail EXCEPT ![m] = None]
    /\ UNCHANGED <<lifeVars, notice, told, gateway>>

-----------------------------------------------------------------------------
(***************************************************************************)
(* The tracker's job: check_routes, then notify_route_table_update, whether *)
(* or not there was anything to check or to change.                        *)
(***************************************************************************)

JobStarts(v) ==
    /\ "pass" \notin notice[v]
    /\ PassStarts(v)
    /\ UNCHANGED syncVars

\* Mutant: where there is nothing to check there is nothing to notify.
JobFindsNothingEnds(v) == FALSE

\* list_active returns nothing: check_routes returns at once.
JobFindsNothing(v) ==
    /\ pass[v] = None
    /\ "pass" \notin notice[v]
    /\ \A s \in Srcs : ~IsActive(s)
    /\ notice' = [notice EXCEPT ![v] = @ \cup {"pass"}]
    /\ UNCHANGED <<lifeVars, mail, told, gateway>>

JobChecks(v) ==
    /\ \/ \E s \in Srcs : PassPicks(v, s)
       \/ PassUpdates(v)
       \/ PassUpdated(v)
       \/ UnverifyReads(v)
    /\ UNCHANGED syncVars

\* The end of an iteration, which may be the last.
JobChecked(v) ==
    /\ PassKeeps(v) \/ UnverifyCommits(v)
    /\ notice' = IF NextRoute(v) = None
                 THEN [notice EXCEPT ![v] = @ \cup {"pass"}] ELSE notice
    /\ UNCHANGED <<mail, told, gateway>>

JobNotifies(v) ==
    /\ "pass" \in notice[v]
    /\ told' = TRUE
    /\ notice' = [notice EXCEPT ![v] = @ \ {"pass"}]
    /\ UNCHANGED <<lifeVars, mail, gateway>>

\* The exception ends this run of the job; the next one starts all the same.
JobNotifyFails(v) ==
    /\ "pass" \in notice[v]
    /\ notice' = [notice EXCEPT ![v] = @ \ {"pass"}]
    /\ UNCHANGED <<lifeVars, mail, told, gateway>>

\* The gateway fetches the list when it has been notified.
GatewayFetches ==
    /\ told
    /\ gateway' = Listed
    /\ told' = FALSE
    /\ UNCHANGED <<lifeVars, mail, notice>>

-----------------------------------------------------------------------------
\* A server process dies, with what it was about to send.
Dies(v) ==
    /\ \/ ServerCrashes(v)
       \/ notice[v] # {} /\ request[v] = None /\ pass[v] = None /\ UNCHANGED lifeVars
    /\ notice' = [notice EXCEPT ![v] = {}]
    /\ UNCHANGED <<mail, told, gateway>>

Handler(v) ==
    \/ HandlerCommits(v)
    \/ HandlerFails(v)
    \/ \E t \in Tasks : HandlerSendsUpdate(v, t)
    \/ \E m \in Mails : HandlerSendsNotify(v, m)

Job(v) ==
    \/ JobStarts(v)
    \/ JobFindsNothing(v)
    \/ JobChecks(v)
    \/ JobChecked(v)
    \/ JobNotifies(v)

Deliver(m) == MailStarts(m) \/ MailDelivers(m)

SyncFailure ==
    \/ \E v \in Servers : HandlerNotifyFails(v) \/ JobNotifyFails(v) \/ Dies(v)
    \/ \E m \in Mails : MailRaises(m) \/ MailCrashes(m)
    \/ /\ \/ \E v \in Servers : RegisterDelayFails(v)
          \/ \E t \in Tasks : WorkerCrashes(t)
       /\ UNCHANGED syncVars

\* What RouteLifecycle does and the gateway's list is not concerned with.
Elsewhere ==
    /\ \/ \E t \in Tasks : Work(t)
       \/ \E s \in Srcs, t \in Tasks : RotateJwt(s, t)
       \/ Surroundings
    /\ UNCHANGED syncVars

SyncWork ==
    \/ \E v \in Servers : Handler(v) \/ Job(v)
    \/ \E v \in Servers, u \in Users, s \in Srcs : HandlerRead(v, u, s)
    \/ \E m \in Mails : Deliver(m)
    \/ GatewayFetches
    \/ Elsewhere

SyncNext == SyncWork \/ SyncFailure

SyncSpec == SyncInit /\ [][SyncNext]_allVars

\* As FairSpec; and the gateway answers the webhook and then fetches.
FairSyncSpec ==
    /\ SyncSpec
    /\ \A v \in Servers : WF_allVars(Handler(v)) /\ WF_allVars(Job(v))
    /\ \A t \in Tasks : WF_allVars(Work(t) /\ UNCHANGED syncVars)
    /\ \A m \in Mails : WF_allVars(Deliver(m))
    /\ WF_allVars(GatewayFetches)

-----------------------------------------------------------------------------
\* Whatever list the gateway has, it never admits and refuses one entity.
GatewayOnePolicy ==
    \A s \in Srcs : gateway[s] # None =>
        \A x, y \in gateway[s] : x.entity = y.entity => x = y

\* Once the list stays as it is, the gateway ends up with it, although tasks
\* are lost and updates commit after the notification of their registration:
\* the tracker notifies again and again.
GatewayCatchesUp ==
    /\ Answering
    /\ <>[][SyncFailure => SyncWork]_allVars
    /\ <>[][Listed' = Listed]_allVars
    => <>[](gateway = Listed)
=============================================================================
