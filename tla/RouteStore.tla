----------------------------- MODULE RouteStore -----------------------------
(***************************************************************************)
(* The part of the registry's database that a route lives in, and what     *)
(* lies around it: the tables route, rule and entity (store/orm.py), the   *)
(* app behind each route and the calendar.                                 *)
(*                                                                         *)
(* No operation deletes a route and route.src is unique, so a route is     *)
(* named here by its public URL, and route[s] = None says there is no row  *)
(* with that URL.  Users and groups are both rows of the table entity:     *)
(* every place of the code that tells them apart (one query for the names  *)
(* of users, one for those of groups) treats them alike.                   *)
(***************************************************************************)
EXTENDS Naturals

CONSTANTS
    Srcs,           \* public URLs (route.src)
    Restricted,     \* the URLs of Srcs that lie in a restricted domain
    Entities,       \* users and groups that may ever exist
    Users,          \* those of them that register routes
    Replies,        \* what an app may answer on the authorization path
    MaxDay,         \* bound: the last day of the calendar
    StaleDuration,  \* track.routes.stale_duration, in days
    None            \* no row, no transaction, no task, no request

VARIABLES
    route,      \* table route: [Srcs -> Row or None]
    rules,      \* table rule: the rows of each route
    entities,   \* table entity: the entities that exist
    app,        \* what the app behind each URL answers now
    day         \* today, as pendulum.now() tells it

dbVars == <<route, rules, entities>>

Days == 0..MaxDay

\* PENDING and UPGRADE_REQUIRED are declared in models.py and assigned nowhere.
Verification == {"VERIFIED", "UNVERIFIED"}
Status == {"UP", "DOWN", "MISCONFIGURED", "MISSING_ENTITY", "SERVER_ERROR"}

Row == [verification: Verification, status: Status,
        contact: Days, owners: SUBSET Users]

Policy == {"ALLOW", "DENY"}
Rule == [entity: Entities, policy: Policy]

\* What a GET on the authorization path of an app can come to.
\*   document       a JSON document of the schema, with both lists
\*   repeated_name  such a document naming an entity twice in one list
\*   no_lists       {"version": ...} alone, which the schema accepts
\*   bad_schema     JSON that the schema refuses
\*   not_json       a reply that is not JSON
\*   http_error     an HTTP status of 400 or more
\*   unreachable    no connection
\*   hang           a connection on which nothing ever arrives
ReplyKinds == {"document", "repeated_name", "no_lists", "bad_schema",
               "not_json", "http_error", "unreachable", "hang"}
Reply == [kind: ReplyKinds, allowed: SUBSET Entities,
          disallowed: SUBSET Entities]

\* The rows that store_rules makes of a document.
Policies(reply) ==
    [entity: reply.allowed, policy: {"ALLOW"}]
      \cup [entity: reply.disallowed, policy: {"DENY"}]

ASSUME StoreAssumption ==
    /\ Restricted \subseteq Srcs
    /\ Users \subseteq Entities
    /\ Replies \subseteq Reply
    /\ MaxDay \in Nat
    /\ StaleDuration \in Nat
    /\ None \notin Row
    /\ None \notin Replies

\* Mutant: only the routes that are UP are listed.
IsActiveUp(s) ==
    /\ route[s] # None
    /\ route[s].verification = "VERIFIED"
    /\ route[s].status = "UP"

\* The routes that SqlRouteRepo.list_active returns.
IsActive(s) ==
    /\ route[s] # None
    /\ route[s].verification = "VERIFIED"
    /\ route[s].status \in {"UP", "DOWN"}

StoreInit ==
    /\ route = [s \in Srcs |-> None]
    /\ rules = [s \in Srcs |-> {}]
    /\ entities = {}
    /\ app \in [Srcs -> Replies]
    /\ day = 0

StoreTypeOK ==
    /\ route \in [Srcs -> Row \cup {None}]
    /\ rules \in [Srcs -> SUBSET Rule]
    /\ entities \in SUBSET Entities
    /\ app \in [Srcs -> Replies]
    /\ day \in Days

-----------------------------------------------------------------------------
\* The rest of the world.

AppChanges(s, reply) ==
    /\ app' = [app EXCEPT ![s] = reply]
    /\ UNCHANGED <<dbVars, day>>

Tick ==
    /\ day < MaxDay
    /\ day' = day + 1
    /\ UNCHANGED <<dbVars, app>>

\* create_user and create_group: a name that exists breaks a unique constraint.
AddEntity(e) ==
    /\ e \notin entities
    /\ entities' = entities \cup {e}
    /\ UNCHANGED <<route, rules, app, day>>

\* remove_user and remove_group.  The session loads the rules of the entity
\* it deletes and cannot blank their primary key: the removal of an entity
\* that a rule names is rolled back.  The rows that tie it to its routes go.
RemoveEntity(e) ==
    /\ e \in entities
    /\ \A s \in Srcs : \A x \in rules[s] : x.entity # e
    /\ entities' = entities \ {e}
    /\ route' = [s \in Srcs |->
                   IF route[s] = None THEN None
                   ELSE [route[s] EXCEPT !.owners = @ \ {e}]]
    /\ UNCHANGED <<rules, app, day>>
=============================================================================
