---------------------------- MODULE Communities ----------------------------
(***************************************************************************)
(* Communities of routes: users create and remove them, put their routes   *)
(* into them, take them out, and request the membership of routes that are *)
(* another's.  Every operation is a unit of work that reads first and      *)
(* commits later; nothing locks what it has read.                          *)
(***************************************************************************)
EXTENDS UnitOfWork

CONSTANTS
    Users,      \* bound: ids of users that exist or are in use
    Comms,      \* bound: ids of communities that exist or are in use
    Routes,     \* the routes, each by its public URL
    Names,      \* names of communities
    Workers,    \* the requests that may be under way at one time
    UserInKey,  \* is the user in the primary key of membership_request?
    None

VARIABLES
    users,      \* table user
    community,  \* table community: owner and name by id, or None
    route,      \* table route: owners and community_id by route, or None
    requests,   \* table membership_request; every status in it is PENDING
    job         \* what each worker is about to commit, or None

tables == <<users, community, route, requests>>
vars == <<tables, job>>

Community == [owner : Users, name : Names]
Route == [owners : SUBSET Users, community : Comms \cup {None}]
Request == [user : Users, community : Comms, route : Routes]

Job == [op : {"create"}, user : Users, id : Comms, name : Names]
         \cup [op : {"attach", "request", "detach", "find", "join", "new"},
               user : Users, id : Comms, route : Routes]
         \cup [op : {"remove"}, id : Comms, routes : SUBSET Routes]

ASSUME CommunityAssumption ==
    /\ UserInKey \in BOOLEAN
    /\ None \notin Comms
    /\ None \notin Community
    /\ None \notin Route

CommunitiesTypeOK ==
    /\ users \subseteq Users
    /\ community \in [Comms -> {None} \cup Community]
    /\ route \in [Routes -> {None} \cup Route]
    /\ requests \subseteq Request
    /\ job \in [Workers -> {None} \cup Job]

Init ==
    /\ users = {}
    /\ community = [c \in Comms |-> None]
    /\ route = [r \in Routes |-> None]
    /\ requests = {}
    /\ job = [w \in Workers |-> None]

Doing(w, op) == job[w] # None /\ job[w].op = op
Done(w) == job' = [job EXCEPT ![w] = None]

Begins(w, j) ==
    /\ job[w] = None
    /\ job' = [job EXCEPT ![w] = j]
    /\ UNCHANGED tables

Owns(u, r) == route[r] # None /\ u \in route[r].owners
In(r, c) == route[r] # None /\ route[r].community = c

\* The row of a route after its column community_id has been written.
Into(r, c) == [owners |-> route[r].owners, community |-> c]
Placed(r, c) == route' = [route EXCEPT ![r] = Into(r, c)]

-----------------------------------------------------------------------------
(***************************************************************************)
(* Users come and go.  An id that nobody remembers is as good as new.      *)
(***************************************************************************)

AddUser(u) ==
    /\ u \notin users
    /\ \A w \in Workers : job[w] # None /\ job[w].op # "remove" => job[w].user # u
    /\ users' = users \cup {u}
    /\ UNCHANGED <<community, route, requests, job>>

\* The flush would set community.entity_id, or the key of a request, to NULL.
Bound(u) ==
    \/ \E c \in Comms : community[c] # None /\ community[c].owner = u
    \/ \E q \in requests : q.user = u

\* The removal of a user of whom this is true fails.
RemoveUser(u) ==
    /\ u \in users
    /\ ~Bound(u)
    /\ users' = users \ {u}
    /\ route' = [r \in Routes |->
                   IF route[r] = None THEN None
                   ELSE [owners |-> route[r].owners \ {u},
                         community |-> route[r].community]]
    /\ UNCHANGED <<community, requests, job>>

-----------------------------------------------------------------------------
\* POST /community
Fresh(c) ==
    /\ community[c] = None
    /\ \A w \in Workers : job[w] # None => job[w].id # c

CreateRead(w, u, c, n) ==
    /\ u \in users
    /\ Fresh(c)
    /\ Begins(w, [op |-> "create", user |-> u, id |-> c, name |-> n])

\* UNIQUE (entity_id, name)
Taken(u, n) == \E c \in Comms : community[c] = [owner |-> u, name |-> n]

CreateEnds(w) == CommitEnds(Taken(job[w].user, job[w].name), job[w].user \notin users)

CreateCommits(w) ==
    /\ Doing(w, "create")
    /\ Committed \in CreateEnds(w)
    /\ community' = [community EXCEPT
                       ![job[w].id] = [owner |-> job[w].user, name |-> job[w].name]]
    /\ Done(w)
    /\ UNCHANGED <<users, route, requests>>

CreateFails(w) ==
    /\ Doing(w, "create")
    /\ CreateEnds(w) \cap {Duplicate, Swallowed} # {}
    /\ Done(w)
    /\ UNCHANGED tables

-----------------------------------------------------------------------------
(***************************************************************************)
(* PUT /community/{community_id}/route/{route_id}: the owner of the route  *)
(* puts it there, whoever owns the community; anyone else makes a request. *)
(***************************************************************************)

AddReads(w, u, r, c) ==
    /\ u \in users
    /\ route[r] # None
    /\ community[c] # None

\* Mutant: it is not asked who owns the route.
AttachReadAnyone(w, u, r, c) ==
    /\ AddReads(w, u, r, c)
    /\ ~In(r, c)
    /\ Begins(w, [op |-> "attach", user |-> u, id |-> c, route |-> r])

AttachRead(w, u, r, c) ==
    /\ AddReads(w, u, r, c)
    /\ Owns(u, r)
    /\ ~In(r, c)
    /\ Begins(w, [op |-> "attach", user |-> u, id |-> c, route |-> r])

\* Mutant: the ids of user and community are swapped.
AskedSwapped(u, r, c) == [user |-> c, community |-> u, route |-> r]

Asked(u, r, c) == [user |-> u, community |-> c, route |-> r]

\* Mutant: it is not asked who owns the route.
RequestReadAnyone(w, u, r, c) ==
    /\ AddReads(w, u, r, c)
    /\ Asked(u, r, c) \notin requests
    /\ Begins(w, [op |-> "request", user |-> u, id |-> c, route |-> r])

\* A request of the user's that is there already is answered without a commit.
RequestRead(w, u, r, c) ==
    /\ AddReads(w, u, r, c)
    /\ ~Owns(u, r)
    /\ Asked(u, r, c) \notin requests
    /\ Begins(w, [op |-> "request", user |-> u, id |-> c, route |-> r])

\* UPDATE route SET community_id, wherever the route is by now.
AttachEnds(w) == CommitEnds(FALSE, community[job[w].id] = None)

AttachCommits(w) ==
    /\ Doing(w, "attach")
    /\ Committed \in AttachEnds(w)
    /\ Placed(job[w].route, job[w].id)
    /\ Done(w)
    /\ UNCHANGED <<users, community, requests>>

\* The caller is answered as if the route were in the community.
AttachFails(w) ==
    /\ Doing(w, "attach")
    /\ Swallowed \in AttachEnds(w)
    /\ Done(w)
    /\ UNCHANGED tables

Asking(w) == Asked(job[w].user, job[w].route, job[w].id)

\* The primary key: entity, community and route where the tables were made
\* from store/orm.py, community and route where the migrations have made them.
SameKey(p, q) ==
    /\ p.community = q.community
    /\ p.route = q.route
    /\ UserInKey => p.user = q.user

RequestEnds(w) ==
    CommitEnds(\E q \in requests : SameKey(q, Asking(w)),
               job[w].user \notin users \/ community[job[w].id] = None)

RequestCommits(w) ==
    /\ Doing(w, "request")
    /\ Committed \in RequestEnds(w)
    /\ requests' = requests \cup {Asking(w)}
    /\ Done(w)
    /\ UNCHANGED <<users, community, route>>

RequestFails(w) ==
    /\ Doing(w, "request")
    /\ RequestEnds(w) \cap {Duplicate, Swallowed} # {}
    /\ Done(w)
    /\ UNCHANGED tables

-----------------------------------------------------------------------------
\* DELETE /community/{community_id}/route/{route_id}
DetachRead(w, u, r, c) ==
    /\ u \in users
    /\ Owns(u, r)
    /\ In(r, c)
    /\ Begins(w, [op |-> "detach", user |-> u, id |-> c, route |-> r])

\* UPDATE route SET community_id = NULL, wherever the route is by now.
DetachCommits(w) ==
    /\ Doing(w, "detach")
    /\ Placed(job[w].route, None)
    /\ Done(w)
    /\ UNCHANGED <<users, community, requests>>

-----------------------------------------------------------------------------
\* DELETE /community/{id_or_name}: one of the user's, with the routes in it.
RemoveRead(w, u, c) ==
    /\ u \in users
    /\ community[c] # None
    /\ community[c].owner = u
    /\ Begins(w, [op |-> "remove", id |-> c, routes |-> {r \in Routes : In(r, c)}])

\* Mutant: requests are no obstacle.
BlockedByRoutes(w) ==
    \E r \in Routes : In(r, job[w].id) /\ r \notin job[w].routes

\* A request of the community has it in its key, which the flush cannot blank;
\* a route that was put there since it was read refuses the DELETE.
Blocked(w) ==
    \/ \E q \in requests : q.community = job[w].id
    \/ \E r \in Routes : In(r, job[w].id) /\ r \notin job[w].routes

\* The routes that were read lose their community, whichever it is by now.
RemoveCommits(w) ==
    /\ Doing(w, "remove")
    /\ ~Blocked(w)
    /\ community' = [community EXCEPT ![job[w].id] = None]
    /\ route' = [r \in Routes |->
                   IF r \in job[w].routes THEN Into(r, None)
                   ELSE route[r]]
    /\ Done(w)
    /\ UNCHANGED <<users, requests>>

RemoveFails(w) ==
    /\ Doing(w, "remove")
    /\ Blocked(w)
    /\ Done(w)
    /\ UNCHANGED tables

-----------------------------------------------------------------------------
(***************************************************************************)
(* POST /route with a community_name: get_user_community is one unit of    *)
(* work and register_route the next.                                       *)
(***************************************************************************)

FindRead(w, u, r, c) ==
    /\ u \in users
    /\ community[c] # None
    /\ community[c].owner = u
    /\ Begins(w, [op |-> "find", user |-> u, id |-> c, route |-> r])

\* A route of the user's that is in no community yet joins this one.
RegisterReads(w) ==
    /\ Doing(w, "find")
    /\ job[w].user \in users
    /\ \/ /\ route[job[w].route] = None
          /\ job' = [job EXCEPT ![w].op = "new"]
       \/ /\ Owns(job[w].user, job[w].route)
          /\ In(job[w].route, None)
          /\ job' = [job EXCEPT ![w].op = "join"]
    /\ UNCHANGED tables

\* The user is gone, the route is another's, or it is in a community.
RegisterStops(w) ==
    /\ Doing(w, "find")
    /\ \/ job[w].user \notin users
       \/ /\ route[job[w].route] # None
          /\ ~ (Owns(job[w].user, job[w].route) /\ In(job[w].route, None))
    /\ Done(w)
    /\ UNCHANGED tables

\* Mutant: the object of the first unit of work is taken for the row.
RegisterEndsTrusting(w) ==
    CommitEnds(Doing(w, "new") /\ route[job[w].route] # None,
               Doing(w, "new") /\ job[w].user \notin users)

RegisterEnds(w) ==
    CommitEnds(Doing(w, "new") /\ route[job[w].route] # None,
               \/ community[job[w].id] = None
               \/ Doing(w, "new") /\ job[w].user \notin users)

RegisterCommits(w) ==
    /\ \/ /\ Doing(w, "join")
          /\ Placed(job[w].route, job[w].id)
       \/ /\ Doing(w, "new")
          /\ route' = [route EXCEPT ![job[w].route] =
                         [owners |-> {job[w].user}, community |-> job[w].id]]
    /\ Committed \in RegisterEnds(w)
    /\ Done(w)
    /\ UNCHANGED <<users, community, requests>>

RegisterFails(w) ==
    /\ Doing(w, "join") \/ Doing(w, "new")
    /\ RegisterEnds(w) \cap {Duplicate, Swallowed} # {}
    /\ Done(w)
    /\ UNCHANGED tables

\* A server dies with the request; the database rolls it back.
Crashes(w) ==
    /\ job[w] # None
    /\ Done(w)
    /\ UNCHANGED tables

-----------------------------------------------------------------------------
Reads(w, u) ==
    \E c \in Comms :
        \/ \E n \in Names : CreateRead(w, u, c, n)
        \/ RemoveRead(w, u, c)
        \/ \E r \in Routes : \/ AttachRead(w, u, r, c)
                             \/ RequestRead(w, u, r, c)
                             \/ DetachRead(w, u, r, c)
                             \/ FindRead(w, u, r, c)

Ends(w) ==
    \/ CreateCommits(w)
    \/ CreateFails(w)
    \/ AttachCommits(w)
    \/ AttachFails(w)
    \/ RequestCommits(w)
    \/ RequestFails(w)
    \/ DetachCommits(w)
    \/ RemoveCommits(w)
    \/ RemoveFails(w)
    \/ RegisterReads(w)
    \/ RegisterStops(w)
    \/ RegisterCommits(w)
    \/ RegisterFails(w)
    \/ Crashes(w)

Next ==
    \/ \E u \in Users : AddUser(u) \/ RemoveUser(u)
    \/ \E w \in Workers, u \in Users : Reads(w, u)
    \/ \E w \in Workers : Ends(w)

Spec == Init /\ [][Next]_vars

-----------------------------------------------------------------------------
\* Every row names rows that exist, and a user's communities have names of
\* their own, although each operation commits what it read some time before,
\* and integrity errors are swallowed.
ReferencesHold ==
    /\ \A c, d \in Comms : community[c] # None =>
         /\ community[c].owner \in users
         /\ community[d] = community[c] => d = c
    /\ \A r \in Routes : route[r] # None =>
         /\ route[r].owners \subseteq users
         /\ route[r].community # None => community[route[r].community] # None
    /\ \A q \in requests :
         q.user \in users /\ community[q.community] # None /\ route[q.route] # None

\* Nobody requests the membership of a route of their own
\* (add_route_to_community, services.py:463).
RequestersAreNotOwners == \A q \in requests : ~Owns(q.user, q.route)

\* Nothing answers a request: once made, it stays PENDING, and its user and its
\* community, with owner and name, cannot be removed any more.
PendingPins ==
    [][\A q \in requests :
         /\ q \in requests'
         /\ q.user \in users'
         /\ community'[q.community] = community[q.community]
         /\ community[q.community].owner \in users']_vars

\* A route enters, changes or leaves a community by the hand of a user who owns
\* it at that very moment, or who is no user any more, although ownership was
\* looked up in advance ("to ensure it is owned by the invoking user",
\* services.py:473).  Anyone else only ever takes a route out, by removing a
\* community that the route was in when its removal began.
OwnersDecide ==
    [][\A r \in Routes :
         route[r] # None /\ route'[r].community # route[r].community =>
           \E w \in Workers :
             /\ job[w] # None /\ job'[w] = None
             /\ IF job[w].op = "remove"
                THEN r \in job[w].routes /\ route'[r].community = None
                ELSE /\ job[w].route = r
                     /\ Owns(job[w].user, r) \/ job[w].user \notin users]_vars
=============================================================================
