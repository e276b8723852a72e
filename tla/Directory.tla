----------------------------- MODULE Directory -----------------------------
(***************************************************************************)
(* The directory: users with their admin flags, groups, and admin tokens.  *)
(* Operators change it with an admin token, administrators make and revoke *)
(* those tokens, and the command seed-dev-user makes administrators.  Each *)
(* reads the credential, and often the row, before it commits; any number  *)
(* of others may commit in between.                                        *)
(***************************************************************************)
EXTENDS UnitOfWork

CONSTANTS
    Ids,        \* bound: the ids of table entity that are in a row or in use
    Keys,       \* bound: the ids of table admin_token in a row or in use
    Names,      \* uids of users and names of groups
    Labels,     \* names of admin tokens
    Roles,      \* the roles of admin tokens
    Workers,    \* the requests and commands that may be under way at one time
    None

AdminRole == {"ANY", "OBSERVER", "DOMAIN", "IDENTITY", "NONE"}

Kinds == {"user", "group"}

Entity == [kind : Kinds, name : Names, admin : BOOLEAN]
Token == [name : Labels, role : Roles]

\* What a request with an admin token is to do: change the directory, or read
\* routes or change domains, which is in no table of this module.
Errand == [do : {"create", "remove"}, area : {"identity"}, kind : Kinds, name : Names]
            \cup [do : {"elsewhere"}, area : {"observer", "domain"}]

\* What an administrator's request is to do.  grant stands for PUT and DELETE
\* /admin/users/{uid}/admin.
AdminErrand == [do : {"mint"}, name : Labels, role : Roles]
                 \cup [do : {"revoke"}, key : Keys]
                 \cup [do : {"grant"}]

\* missed is history: the user was removed since the command started.
Job == [at : {"validated", "allowed"}, key : Keys, errand : Errand]
         \cup [at : {"remove"}, key : Keys, id : Ids]
         \cup [at : {"admin"}, errand : AdminErrand]
         \cup [at : {"revoke"}, key : Keys]
         \cup [at : {"seed", "reconcile"}, name : Names, admin : BOOLEAN,
               missed : BOOLEAN]
         \cup [at : {"write"}, name : Names, admin : BOOLEAN, missed : BOOLEAN,
               id : Ids]

ASSUME DirectoryAssumption ==
    /\ Roles \subseteq AdminRole
    /\ None \notin Entity /\ None \notin Token /\ None \notin Job

VARIABLES
    entity,     \* tables entity, user and group: the row with an id, or None
    token,      \* table admin_token: the row with an id, or None
    job,        \* what each worker is about to do, or None
    ever        \* history: the authorities that have been held so far

tables == <<entity, token>>
vars == <<entity, token, job, ever>>

Users == {i \in Ids : entity[i] # None /\ entity[i].kind = "user"}
Groups == {i \in Ids : entity[i] # None /\ entity[i].kind = "group"}
Live == {k \in Keys : token[k] # None}

\* The directory as operators see it: rows without their ids.
UserList == {[name |-> entity[i].name, admin |-> entity[i].admin] : i \in Users}
GroupList == {entity[i].name : i \in Groups}
TokenList == {token[k] : k \in Live}

Named == INSTANCE NamedDirectory WITH
    users <- UserList, groups <- GroupList, tokens <- TokenList

DirectoryTypeOK ==
    /\ entity \in [Ids -> Entity \cup {None}]
    /\ token \in [Keys -> Token \cup {None}]
    /\ job \in [Workers -> Job \cup {None}]
    /\ ever \subseteq {"administrator"} \cup Roles

Init ==
    /\ entity = [i \in Ids |-> None]
    /\ token = [k \in Keys |-> None]
    /\ job = [w \in Workers |-> None]
    /\ ever = {}

At(w, place) == job[w] # None /\ job[w].at = place

Begins(w, j) ==
    /\ job[w] = None
    /\ job' = [job EXCEPT ![w] = j]
    /\ UNCHANGED tables

Continues(w, j) ==
    /\ job' = [job EXCEPT ![w] = j]
    /\ UNCHANGED tables

Done(w) == job' = [job EXCEPT ![w] = None]

\* The request or command ends and has changed nothing.
GivesUp(w) == Done(w) /\ UNCHANGED tables

\* An id that nobody remembers is as good as a new one.
FreshId(i) ==
    /\ entity[i] = None
    /\ \A w \in Workers : At(w, "remove") \/ At(w, "write") => job[w].id # i

\* A token that a request under way names.
Under(w, k) ==
    /\ At(w, "validated") \/ At(w, "allowed") \/ At(w, "remove")
    /\ job[w].key = k

FreshKey(k) ==
    /\ token[k] = None
    /\ \A w \in Workers : ~Under(w, k) /\ (At(w, "revoke") => job[w].key # k)

-----------------------------------------------------------------------------
(***************************************************************************)
(* AdminTokenAuthenticator: validate_admin_token and get_admin_token, each *)
(* with a query of its own, and then the role.                             *)
(***************************************************************************)

\* Mutant: what was valid once is remembered.
ValidRemembered(k) == TRUE

\* The row is there and its value matches; clients hold values of past tokens.
Valid(k) == token[k] # None

\* A request that fails here ends with 401.
Validates(w, k, e) ==
    /\ Valid(k)
    /\ Begins(w, [at |-> "validated", key |-> k, errand |-> e])

\* require_admin_identity_role, require_admin_observer_role and
\* require_admin_domain_role.
RolesFor(area) ==
    {"ANY"} \cup (IF area = "identity" THEN {"IDENTITY"}
                  ELSE IF area = "observer" THEN {"OBSERVER"} ELSE {"DOMAIN"})

Admitted(w) ==
    /\ token[job[w].key] # None
    /\ token[job[w].key].role \in RolesFor(job[w].errand.area)

TokenAdmits(w) ==
    /\ At(w, "validated")
    /\ Admitted(w)
    /\ Continues(w, [job[w] EXCEPT !.at = "allowed"])

\* 403, or 500 when the token was removed after it was validated: nothing
\* handles the NotFound of get_admin_token.
TokenRefuses(w) ==
    /\ At(w, "validated")
    /\ ~Admitted(w)
    /\ GivesUp(w)

Sent(w, do) == At(w, "allowed") /\ job[w].errand.do = do

\* Routes are listed or domains changed, and the request ends.
ActsElsewhere(w) == Sent(w, "elsewhere") /\ GivesUp(w)

-----------------------------------------------------------------------------
(***************************************************************************)
(* POST and DELETE /admin/users and /admin/groups.                         *)
(***************************************************************************)

\* Mutant: uids and names of groups are not unique.
HoldersNone(kind, name) == {}

\* The rows that have the unique name already.
Holders(kind, name) ==
    {i \in Ids : entity[i] # None /\ entity[i].kind = kind /\ entity[i].name = name}

InsertEnds(kind, name) == CommitEnds(Holders(kind, name) # {}, FALSE)

\* adapter.to_user and to_group: what a client says of an admin flag is ignored.
Created(e) == [kind |-> e.kind, name |-> e.name, admin |-> FALSE]

CreateCommits(w, i) ==
    /\ Sent(w, "create")
    /\ Committed \in InsertEnds(job[w].errand.kind, job[w].errand.name)
    /\ FreshId(i)
    /\ entity' = [entity EXCEPT ![i] = Created(job[w].errand)]
    /\ Done(w)
    /\ UNCHANGED token

\* AlreadyExists, 400.
CreateFails(w) ==
    /\ Sent(w, "create")
    /\ Duplicate \in InsertEnds(job[w].errand.kind, job[w].errand.name)
    /\ GivesUp(w)

RemoveReads(w, i) ==
    /\ Sent(w, "remove")
    /\ i \in Holders(job[w].errand.kind, job[w].errand.name)
    /\ Continues(w, [at |-> "remove", key |-> job[w].key, id |-> i])

\* The answer is a 500 and not the 404 that the routers have for it: they pass
\* on a string, of which remove_user reads the uid and remove_group the name.
RemoveMisses(w) ==
    /\ Sent(w, "remove")
    /\ Holders(job[w].errand.kind, job[w].errand.name) = {}
    /\ GivesUp(w)

\* The commands under way notice nothing; the history does.
Missing(i) ==
    [w \in Workers |->
       IF /\ At(w, "seed") \/ At(w, "reconcile") \/ At(w, "write")
          /\ entity[i] # None
          /\ entity[i].kind = "user"
          /\ entity[i].name = job[w].name
       THEN [job[w] EXCEPT !.missed = TRUE] ELSE job[w]]

\* DELETE of the row that was read; no row is no error.
RemoveCommits(w) ==
    /\ At(w, "remove")
    /\ entity' = [entity EXCEPT ![job[w].id] = None]
    /\ job' = [Missing(job[w].id) EXCEPT ![w] = None]
    /\ UNCHANGED token

\* Rules, requests or communities refer to the entity (RouteStore, Communities).
RemoveFails(w) == At(w, "remove") /\ GivesUp(w)

-----------------------------------------------------------------------------
(***************************************************************************)
(* /admin/token and /admin/users/{uid}/admin: get_user and require_admin.  *)
(***************************************************************************)

\* Mutant: any user will do.
AdministratorsAll == Users

Administrators == {i \in Users : entity[i].admin}

AdminEnters(w, e) ==
    /\ Administrators # {}
    /\ Begins(w, [at |-> "admin", errand |-> e])

Ordered(w, do) == At(w, "admin") /\ job[w].errand.do = do

\* Mutant: the role is left to its default.
MintedDefault(e) == [name |-> e.name, role |-> None]

Minted(e) == [name |-> e.name, role |-> e.role]

MintEnds(w) == CommitEnds(\E k \in Live : token[k].name = job[w].errand.name, FALSE)

MintCommits(w, k) ==
    /\ Ordered(w, "mint")
    /\ Committed \in MintEnds(w)
    /\ FreshKey(k)
    /\ token' = [token EXCEPT ![k] = Minted(job[w].errand)]
    /\ Done(w)
    /\ UNCHANGED entity

\* AlreadyExists, 409.
MintFails(w) ==
    /\ Ordered(w, "mint")
    /\ Duplicate \in MintEnds(w)
    /\ GivesUp(w)

\* Only the id in the value is looked at.
RevokeReads(w) ==
    /\ Ordered(w, "revoke")
    /\ job[w].errand.key \in Live
    /\ Continues(w, [at |-> "revoke", key |-> job[w].errand.key])

RevokeMisses(w) ==
    /\ Ordered(w, "revoke")
    /\ job[w].errand.key \notin Live
    /\ GivesUp(w)

RevokeCommits(w) ==
    /\ At(w, "revoke")
    /\ token' = [token EXCEPT ![job[w].key] = None]
    /\ Done(w)
    /\ UNCHANGED entity

\* add_admin and remove_admin: SqlUOW has no user_repo, AttributeError.
GrantRaises(w) == Ordered(w, "grant") /\ GivesUp(w)

-----------------------------------------------------------------------------
(***************************************************************************)
(* wormhole_route_registry seed-dev-user [--admin | --no-admin]: create    *)
(* the user, or else find it and reconcile its flag, in a second unit of   *)
(* work.                                                                   *)
(***************************************************************************)

SeedStarts(w, n, flag) ==
    Begins(w, [at |-> "seed", name |-> n, admin |-> flag, missed |-> FALSE])

SeedCreates(w, i) ==
    /\ At(w, "seed")
    /\ Committed \in InsertEnds("user", job[w].name)
    /\ FreshId(i)
    /\ entity' = [entity EXCEPT
                    ![i] = [kind |-> "user", name |-> job[w].name, admin |-> job[w].admin]]
    /\ Done(w)
    /\ UNCHANGED token

\* "Already present -- reconcile the admin flag".
SeedFinds(w) ==
    /\ At(w, "seed")
    /\ Duplicate \in InsertEnds("user", job[w].name)
    /\ Continues(w, [job[w] EXCEPT !.at = "reconcile"])

\* get_user raises NotFound, and the command fails.
SeedMisses(w) ==
    /\ At(w, "reconcile")
    /\ Holders("user", job[w].name) = {}
    /\ GivesUp(w)

SeedKeeps(w) ==
    /\ At(w, "reconcile")
    /\ \E i \in Holders("user", job[w].name) : entity[i].admin = job[w].admin
    /\ GivesUp(w)

SeedReads(w, i) ==
    /\ At(w, "reconcile")
    /\ i \in Holders("user", job[w].name)
    /\ entity[i].admin # job[w].admin
    /\ Continues(w, [at |-> "write", name |-> job[w].name, admin |-> job[w].admin,
                     missed |-> job[w].missed, id |-> i])

\* Mutant: the number of rows that the UPDATE matched is not looked at.
MatchedAny(w) == TRUE

\* Mutant: a version of the row is checked as well.
MatchedVersion(w) ==
    /\ entity[job[w].id] # None
    /\ entity[job[w].id].admin # job[w].admin

\* UPDATE "user" SET is_admin WHERE id: the row is still there.
Matched(w) == entity[job[w].id] # None

SeedWrites(w) ==
    /\ At(w, "write")
    /\ Matched(w)
    /\ entity' = [entity EXCEPT ![job[w].id] =
                    IF @ = None THEN @ ELSE [@ EXCEPT !.admin = job[w].admin]]
    /\ Done(w)
    /\ UNCHANGED token

\* StaleDataError: UOWException, and the command fails.
SeedLoses(w) ==
    /\ At(w, "write")
    /\ ~Matched(w)
    /\ GivesUp(w)

\* A server or a command dies; the database rolls its transaction back.
Crashes(w) == job[w] # None /\ GivesUp(w)

-----------------------------------------------------------------------------
Starts(w) ==
    \/ \E k \in Keys, e \in Errand : Validates(w, k, e)
    \/ \E e \in AdminErrand : AdminEnters(w, e)
    \/ \E n \in Names, flag \in BOOLEAN : SeedStarts(w, n, flag)

WithToken(w) ==
    \/ TokenAdmits(w)
    \/ TokenRefuses(w)
    \/ ActsElsewhere(w)
    \/ \E i \in Ids : CreateCommits(w, i) \/ RemoveReads(w, i)
    \/ CreateFails(w)
    \/ RemoveMisses(w)
    \/ RemoveCommits(w)
    \/ RemoveFails(w)

AsAdministrator(w) ==
    \/ \E k \in Keys : MintCommits(w, k)
    \/ MintFails(w)
    \/ RevokeReads(w)
    \/ RevokeMisses(w)
    \/ RevokeCommits(w)
    \/ GrantRaises(w)

Seeding(w) ==
    \/ \E i \in Ids : SeedCreates(w, i) \/ SeedReads(w, i)
    \/ SeedFinds(w)
    \/ SeedMisses(w)
    \/ SeedKeeps(w)
    \/ SeedWrites(w)
    \/ SeedLoses(w)

Remembers == ever' = ever \cup Named!Held(UserList', TokenList')

Proceeds(w) == (WithToken(w) \/ AsAdministrator(w) \/ Seeding(w)) /\ Remembers

Next ==
    \/ \E w \in Workers : (Starts(w) \/ Crashes(w)) /\ Remembers
    \/ \E w \in Workers : Proceeds(w)

Spec == Init /\ [][Next]_vars

\* uvicorn goes on with the request it has read.
FairSpec == Spec /\ \A w \in Workers : WF_vars(Proceeds(w))

-----------------------------------------------------------------------------
\* Every authority can be traced to a seed: no admin token exists before there
\* was an administrator, and no group before there was a token of role IDENTITY
\* or ANY, although the user or the token that a request was admitted for may
\* be gone when it commits.
AuthorityStartsAtSeed ==
    /\ Live # {} => "administrator" \in ever
    /\ Groups # {} => {"IDENTITY", "ANY"} \cap ever # {}

\* "Idempotent: safe to run on every dev-server start" (command.py:91): two
\* seeds of one user, a creation through the API or another flag do not make a
\* seed fail; only the removal of the user while it runs does.
SeedsAreSafe ==
    [][\A w \in Workers : SeedMisses(w) \/ SeedLoses(w) => job[w].missed]_vars

\* "re-running with a different --admin/--no-admin actually takes effect"
\* (command.py:118): when a seed ends well, the user is there with its flag,
\* although the user may have been removed and created anew since it was found.
SeedTakesEffect ==
    [][\A w \in Workers :
         \/ SeedKeeps(w)
         \/ SeedWrites(w)
         \/ \E i \in Ids : SeedCreates(w, i)
         => [name |-> job[w].name, admin |-> job[w].admin] \in UserList']_vars

\* A token that is removed for good opens nothing in the end: the requests that
\* it let in before are over, and it lets in no other.
RevocationTakesHold ==
    \A k \in Keys :
        <>[](token[k] = None) => <>[](\A w \in Workers : ~Under(w, k))

\* The directory behaves as if every operation happened at one instant, on the
\* names and not on the ids it read, and under an authority held by somebody.
ActsByName == Named!Spec
=============================================================================
