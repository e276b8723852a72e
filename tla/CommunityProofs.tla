-------------------------- MODULE CommunityProofs --------------------------
(***************************************************************************)
(* Proofs about Communities: references hold, requesters are not owners,   *)
(* and a pending request pins its user and its community.                  *)
(***************************************************************************)
EXTENDS Communities, TLAPS

\* What a unit of work knows of the rows it read stays true until it commits:
\* routes are never removed, nobody becomes the owner of one later, and nobody
\* ceases to be one but for good.
JobsHold ==
    \A w \in Workers : job[w] # None =>
        /\ job[w].op \in {"attach", "request", "detach", "join"}
             => route[job[w].route] # None
        /\ job[w].op = "request" => ~Owns(job[w].user, job[w].route)
        /\ job[w].op \in {"attach", "detach", "join"}
             => Owns(job[w].user, job[w].route) \/ job[w].user \notin users
        /\ job[w].op = "remove" => \A r \in job[w].routes : route[r] # None

\* An id that is being given to a new community is nobody else's.
NewIds ==
    \A w \in Workers : Doing(w, "create") =>
        /\ community[job[w].id] = None
        /\ \A x \in Workers : x # w /\ job[x] # None => job[x].id # job[w].id

\* The inductive invariant.
CInv ==
    /\ CommunitiesTypeOK
    /\ ReferencesHold
    /\ RequestersAreNotOwners
    /\ JobsHold
    /\ NewIds

\* A commit only ends as Committed when no constraint is broken.
LEMMA CommittedUnbroken ==
    ASSUME NEW u \in BOOLEAN, NEW o \in BOOLEAN, Committed \in CommitEnds(u, o)
    PROVE  ~u /\ ~o
BY DEF CommitEnds, Committed, Duplicate, Swallowed

\* The job of a worker has the fields of its kind.
LEMMA JobFields ==
    ASSUME CommunitiesTypeOK, NEW w \in Workers, job[w] # None
    PROVE  /\ job[w] \in Job
           /\ job[w].id \in Comms
           /\ job[w].op = "create" => job[w].user \in Users /\ job[w].name \in Names
           /\ job[w].op \in {"attach", "request", "detach", "find", "join", "new"} =>
                job[w].user \in Users /\ job[w].route \in Routes
           /\ job[w].op = "remove" => job[w].routes \subseteq Routes
<1>1. job[w] \in Job
  BY DEF CommunitiesTypeOK
<1>2. CASE job[w] \in [op : {"create"}, user : Users, id : Comms, name : Names]
  BY <1>1, <1>2
<1>3. CASE job[w] \in [op : {"attach", "request", "detach", "find", "join", "new"},
                       user : Users, id : Comms, route : Routes]
  BY <1>1, <1>3
<1>4. CASE job[w] \in [op : {"remove"}, id : Comms, routes : SUBSET Routes]
  BY <1>1, <1>4
<1> QED
  BY <1>1, <1>2, <1>3, <1>4 DEF Job

-----------------------------------------------------------------------------
\* A job that ends without a change of the tables.
LEMMA DoneKeeps ==
    ASSUME CInv, NEW w \in Workers, Done(w), UNCHANGED tables
    PROVE  CInv'
<1> USE DEF CInv, Done, tables
<1>1. CommunitiesTypeOK'
  BY DEF CommunitiesTypeOK
<1>2. ReferencesHold' /\ RequestersAreNotOwners'
  BY DEF ReferencesHold, RequestersAreNotOwners, Owns
<1>3. \A x \in Workers : job'[x] # None => x # w /\ job'[x] = job[x]
  BY DEF CommunitiesTypeOK
<1>4. JobsHold'
  BY <1>3 DEF JobsHold, Owns
<1>5. NewIds'
  BY <1>3 DEF NewIds, Doing
<1> QED
  BY <1>1, <1>2, <1>4, <1>5

\* A read remembers rows as they are.
LEMMA ReadKeeps ==
    ASSUME CInv, NEW w \in Workers, NEW u \in Users, Reads(w, u)
    PROVE  CInv'
<1> USE DEF CInv
<1> DEFINE Fits(j) ==
      /\ j \in Job
      /\ j.op \in {"attach", "request", "detach", "join"} => route[j.route] # None
      /\ j.op = "request" => ~Owns(j.user, j.route)
      /\ j.op \in {"attach", "detach", "join"} => Owns(j.user, j.route)
      /\ j.op = "remove" => \A r \in j.routes : route[r] # None
      /\ j.op = "create" => Fresh(j.id)
      /\ j.op # "create" => community[j.id] # None
<1> DEFINE Begun == \E j : Begins(w, j) /\ Fits(j)
<1>1. Begun
  <2>1. ASSUME NEW c \in Comms, NEW n \in Names, CreateRead(w, u, c, n)
        PROVE  Begun
    BY <2>1 DEF CreateRead, Job
  <2>2. ASSUME NEW c \in Comms, RemoveRead(w, u, c)
        PROVE  Begun
    BY <2>2 DEF RemoveRead, Job, In
  <2>3. ASSUME NEW c \in Comms, NEW r \in Routes, AttachRead(w, u, r, c)
        PROVE  Begun
    BY <2>3 DEF AttachRead, AddReads, Job
  <2>4. ASSUME NEW c \in Comms, NEW r \in Routes, RequestRead(w, u, r, c)
        PROVE  Begun
    BY <2>4 DEF RequestRead, AddReads, Job
  <2>5. ASSUME NEW c \in Comms, NEW r \in Routes, DetachRead(w, u, r, c)
        PROVE  Begun
    <3>1. community[c] # None
      BY <2>5, CommunityAssumption DEF DetachRead, In, ReferencesHold
    <3> QED
      BY <2>5, <3>1 DEF DetachRead, Job, Owns
  <2>6. ASSUME NEW c \in Comms, NEW r \in Routes, FindRead(w, u, r, c)
        PROVE  Begun
    BY <2>6 DEF FindRead, Job
  <2> QED
    BY <2>1, <2>2, <2>3, <2>4, <2>5, <2>6 DEF Reads
<1>2. PICK j : Begins(w, j) /\ Fits(j)
  BY <1>1
<1>3. /\ job[w] = None
      /\ UNCHANGED <<users, community, route, requests>>
      /\ job' = [job EXCEPT ![w] = j]
  BY <1>2 DEF Begins, tables
<1>4. CommunitiesTypeOK'
  BY <1>2, <1>3 DEF CommunitiesTypeOK
<1>5. ReferencesHold' /\ RequestersAreNotOwners'
  BY <1>3 DEF ReferencesHold, RequestersAreNotOwners, Owns
<1>6. /\ job'[w] = j
      /\ \A x \in Workers : x # w => job'[x] = job[x]
  BY <1>3 DEF CommunitiesTypeOK
<1>7. JobsHold'
  BY <1>2, <1>3, <1>6 DEF JobsHold, Owns
<1>8. NewIds'
  BY <1>2, <1>3, <1>6 DEF NewIds, Doing, Fresh
<1> QED
  BY <1>4, <1>5, <1>7, <1>8

-----------------------------------------------------------------------------
\* The tables after a commit that only moves routes, or creates one.
LEMMA RoutesKeep ==
    ASSUME CInv, NEW w \in Workers, job[w] # None, job[w].op # "create",
           Done(w), UNCHANGED <<users, community, requests>>,
           route' \in [Routes -> {None} \cup Route],
           \A r \in Routes : route[r] # None =>
               route'[r] # None /\ route'[r].owners = route[r].owners,
           \A r \in Routes : route'[r] # None =>
               /\ route'[r].owners \subseteq users
               /\ route'[r].community # None => community[route'[r].community] # None
    PROVE  CInv'
<1> USE DEF CInv, Done
<1>1. CommunitiesTypeOK'
  BY DEF CommunitiesTypeOK
<1>2. ReferencesHold'
  BY DEF ReferencesHold, CommunitiesTypeOK, Request
<1>3. \A r \in Routes, u \in Users : route[r] # None => (Owns(u, r)' <=> Owns(u, r))
  BY DEF Owns
<1>4. RequestersAreNotOwners'
  BY <1>3 DEF RequestersAreNotOwners, ReferencesHold, CommunitiesTypeOK, Request
<1>5. \A x \in Workers : job'[x] # None => x # w /\ job'[x] = job[x]
  BY DEF CommunitiesTypeOK
<1>6. JobsHold'
  <2> SUFFICES ASSUME NEW x \in Workers, job'[x] # None
               PROVE  /\ job[x].op \in {"attach", "request", "detach", "join"}
                           => route'[job[x].route] # None
                      /\ job[x].op = "request" => ~Owns(job[x].user, job[x].route)'
                      /\ job[x].op \in {"attach", "detach", "join"} =>
                           Owns(job[x].user, job[x].route)' \/ job[x].user \notin users
                      /\ job[x].op = "remove" => \A r \in job[x].routes : route'[r] # None
    BY <1>5 DEF JobsHold
  <2>1. job[x] # None /\ job'[x] = job[x]
    BY <1>5
  <2> QED
    BY <1>3, <2>1, JobFields DEF JobsHold
<1>7. NewIds'
  BY <1>5 DEF NewIds, Doing
<1> QED
  BY <1>1, <1>2, <1>4, <1>6, <1>7

\* A route is put into a community that exists, or into none.
LEMMA PlacedKeeps ==
    ASSUME CInv, NEW w \in Workers, job[w] # None,
           job[w].op \in {"attach", "detach", "join"},
           NEW c \in Comms \cup {None}, c # None => community[c] # None,
           Placed(job[w].route, c), Done(w), UNCHANGED <<users, community, requests>>
    PROVE  CInv'
<1> USE DEF CInv
<1> DEFINE r == job[w].route
<1>1. r \in Routes /\ route[r] # None
  BY JobFields DEF JobsHold
<1>2. route[r] \in Route
  BY <1>1 DEF CommunitiesTypeOK
<1>3. route' = [route EXCEPT ![r] = Into(r, c)] /\ Into(r, c) \in Route
  BY <1>2 DEF Placed, Into, Route
<1>4. route' \in [Routes -> {None} \cup Route]
  BY <1>1, <1>3 DEF CommunitiesTypeOK
<1>5. /\ Into(r, c) # None
      /\ Into(r, c).owners = route[r].owners
      /\ Into(r, c).community = c
  BY <1>3, CommunityAssumption DEF Into
<1> HIDE DEF CInv
<1>6. \A q \in Routes : route[q] # None =>
        route'[q] # None /\ route'[q].owners = route[q].owners
  BY <1>1, <1>3, <1>5 DEF CInv, CommunitiesTypeOK
<1>7. \A q \in Routes : route'[q] # None =>
        /\ route'[q].owners \subseteq users
        /\ route'[q].community # None => community[route'[q].community] # None
  BY <1>1, <1>3, <1>5 DEF CInv, CommunitiesTypeOK, ReferencesHold
<1> QED
  BY <1>4, <1>6, <1>7, RoutesKeep

\* The commits that move one route.
LEMMA MoveKeeps ==
    ASSUME CInv, NEW w \in Workers,
           \/ AttachCommits(w)
           \/ DetachCommits(w)
           \/ RegisterCommits(w) /\ Doing(w, "join")
    PROVE  CInv'
<1>1. CASE AttachCommits(w)
  <2>1. community[job[w].id] # None
    BY <1>1, CommittedUnbroken DEF AttachCommits, AttachEnds
  <2> QED
    BY <1>1, <2>1, PlacedKeeps, JobFields DEF CInv, AttachCommits, Doing
<1>2. CASE DetachCommits(w)
  BY <1>2, PlacedKeeps DEF DetachCommits, Doing
<1>3. CASE RegisterCommits(w) /\ Doing(w, "join")
  <2>1. community[job[w].id] # None
    BY <1>3, CommittedUnbroken DEF RegisterCommits, RegisterEnds
  <2> QED
    BY <1>3, <2>1, PlacedKeeps, JobFields DEF CInv, RegisterCommits, Doing
<1> QED
  BY <1>1, <1>2, <1>3

\* A new route belongs to a user who exists and joins a community that does.
LEMMA NewRouteKeeps ==
    ASSUME CInv, NEW w \in Workers, RegisterCommits(w), Doing(w, "new")
    PROVE  CInv'
<1> DEFINE r == job[w].route
<1> DEFINE row == [owners |-> {job[w].user}, community |-> job[w].id]
<1>1. /\ job[w] # None /\ job[w].op = "new"
      /\ Done(w)
      /\ UNCHANGED <<users, community, requests>>
      /\ route' = [route EXCEPT ![r] = row]
  BY DEF RegisterCommits, Doing
<1>2. r \in Routes /\ job[w].user \in Users /\ job[w].id \in Comms
  BY <1>1, JobFields DEF CInv
<1>3. route[r] = None /\ community[job[w].id] # None /\ job[w].user \in users
  BY CommittedUnbroken DEF RegisterCommits, RegisterEnds
<1>4. row \in Route
  BY <1>2 DEF Route
<1>5. route' \in [Routes -> {None} \cup Route]
  BY <1>1, <1>2, <1>4 DEF CInv, CommunitiesTypeOK
<1>6. \A q \in Routes : route[q] # None => route'[q] = route[q]
  BY <1>1, <1>3 DEF CInv, CommunitiesTypeOK
<1>7. \A q \in Routes : route'[q] # None =>
        /\ route'[q].owners \subseteq users
        /\ route'[q].community # None => community[route'[q].community] # None
  BY <1>1, <1>2, <1>3 DEF CInv, CommunitiesTypeOK, ReferencesHold
<1> QED
  BY <1>1, <1>5, <1>6, <1>7, RoutesKeep

-----------------------------------------------------------------------------
\* A community is created by a user who exists, under a name that is free.
LEMMA CreateKeeps ==
    ASSUME CInv, NEW w \in Workers, CreateCommits(w)
    PROVE  CInv'
<1> DEFINE c == job[w].id
<1> DEFINE row == [owner |-> job[w].user, name |-> job[w].name]
<1>1. /\ job[w] # None /\ job[w].op = "create"
      /\ Done(w)
      /\ UNCHANGED <<users, route, requests>>
      /\ community' = [community EXCEPT ![c] = row]
  BY DEF CreateCommits, Doing
<1>2. c \in Comms /\ row \in Community /\ row # None
  BY <1>1, JobFields, CommunityAssumption DEF CInv, Community
<1>3. /\ \A d \in Comms : community[d] # row
      /\ job[w].user \in users
  BY <1>1, CommittedUnbroken DEF CreateCommits, CreateEnds, Taken
<1>4. /\ community'[c] = row
      /\ \A d \in Comms : d # c => community'[d] = community[d]
  BY <1>1, <1>2 DEF CInv, CommunitiesTypeOK
<1>5. \A x \in Workers : job'[x] # None => x # w /\ job'[x] = job[x]
  BY <1>1 DEF CInv, CommunitiesTypeOK, Done
<1>6. CommunitiesTypeOK'
  BY <1>1, <1>2 DEF CInv, CommunitiesTypeOK, Done
<1>7. ReferencesHold'
  <2>1. \A d, e \in Comms : community'[d] # None =>
          /\ community'[d].owner \in users
          /\ community'[e] = community'[d] => e = d
    BY <1>2, <1>3, <1>4 DEF CInv, ReferencesHold
  <2>2. \A d \in Comms : community[d] # None => community'[d] # None
    BY <1>2, <1>4
  <2>3. \A r \in Routes : route[r] # None =>
          /\ route[r].owners \subseteq users
          /\ route[r].community # None => community'[route[r].community] # None
    BY <2>2 DEF CInv, ReferencesHold, CommunitiesTypeOK, Route
  <2>4. \A q \in requests :
          q.user \in users /\ community'[q.community] # None /\ route[q.route] # None
    BY <2>2 DEF CInv, ReferencesHold, CommunitiesTypeOK, Request
  <2> QED
    BY <1>1, <2>1, <2>3, <2>4 DEF ReferencesHold
<1>8. RequestersAreNotOwners' /\ JobsHold'
  BY <1>1, <1>5 DEF CInv, RequestersAreNotOwners, JobsHold, Owns
<1>9. NewIds'
  <2> SUFFICES ASSUME NEW x \in Workers, Doing(x, "create")'
               PROVE  /\ community'[job[x].id] = None
                      /\ \A y \in Workers : y # x /\ job'[y] # None => job[y].id # job[x].id
    BY <1>5 DEF NewIds, Doing
  <2>1. x # w /\ job'[x] = job[x] /\ Doing(x, "create")
    BY <1>5 DEF Doing
  <2>2. job[x].id # c /\ job[x].id \in Comms
    BY <1>1, <2>1, JobFields DEF CInv, NewIds, Doing
  <2> QED
    BY <1>4, <1>5, <2>1, <2>2 DEF CInv, NewIds
<1> QED
  BY <1>6, <1>7, <1>8, <1>9 DEF CInv

\* A request names rows that exist, and not an owner of the route.
LEMMA RequestKeeps ==
    ASSUME CInv, NEW w \in Workers, RequestCommits(w)
    PROVE  CInv'
<1> USE DEF CInv
<1>1. /\ job[w] # None /\ job[w].op = "request"
      /\ Done(w)
      /\ UNCHANGED <<users, community, route>>
      /\ requests' = requests \cup {Asking(w)}
  BY DEF RequestCommits, Doing
<1>2. /\ job[w].user \in users /\ community[job[w].id] # None
      /\ \A q \in requests : ~SameKey(q, Asking(w))
  <2> DEFINE unique == \E q \in requests : SameKey(q, Asking(w))
             other == job[w].user \notin users \/ community[job[w].id] = None
  <2>1. Committed \in CommitEnds(unique, other)
    BY DEF RequestCommits, RequestEnds
  <2>2. ~unique /\ ~other
    <3> HIDE DEF unique, other
    <3> QED
      BY <2>1 DEF CommitEnds, Committed, Duplicate, Swallowed
  <2> QED
    BY <2>2
<1>3. Asking(w) \in Request
  BY <1>1, JobFields DEF Asking, Asked, Request
<1>4. route[job[w].route] # None /\ ~Owns(job[w].user, job[w].route)
  BY <1>1 DEF JobsHold
<1>5. \A x \in Workers : job'[x] # None => x # w /\ job'[x] = job[x]
  BY <1>1 DEF CommunitiesTypeOK, Done
<1>6. CommunitiesTypeOK'
  BY <1>1, <1>3 DEF CommunitiesTypeOK, Done
<1>7. ReferencesHold'
  BY <1>1, <1>2, <1>4 DEF ReferencesHold, Asking, Asked
<1>8. RequestersAreNotOwners'
  BY <1>1, <1>4 DEF RequestersAreNotOwners, Asking, Asked, Owns
<1>9. JobsHold' /\ NewIds'
  BY <1>1, <1>5 DEF JobsHold, NewIds, Doing, Owns
<1> QED
  BY <1>6, <1>7, <1>8, <1>9

\* A community goes when nothing names it any more but the routes it loses.
LEMMA RemoveKeeps ==
    ASSUME CInv, NEW w \in Workers, RemoveCommits(w)
    PROVE  CInv'
<1> DEFINE c == job[w].id
<1>1. /\ job[w] # None /\ job[w].op = "remove"
      /\ Done(w)
      /\ UNCHANGED <<users, requests>>
      /\ community' = [community EXCEPT ![c] = None]
      /\ route' = [r \in Routes |->
                     IF r \in job[w].routes THEN Into(r, None) ELSE route[r]]
  BY DEF RemoveCommits, Doing
<1>2. c \in Comms /\ job[w].routes \subseteq Routes
  BY <1>1, JobFields DEF CInv
<1>3. \A q \in requests : q.community # c
  BY DEF RemoveCommits, Blocked
<1>4. /\ community'[c] = None
      /\ \A d \in Comms : d # c => community'[d] = community[d]
  BY <1>1, <1>2 DEF CInv, CommunitiesTypeOK
<1>5. \A x \in Workers : job'[x] # None => x # w /\ job'[x] = job[x]
  BY <1>1 DEF CInv, CommunitiesTypeOK, Done
<1>6. \A r \in job[w].routes :
        /\ route[r] # None
        /\ route'[r] = Into(r, None)
        /\ Into(r, None) \in Route
        /\ Into(r, None).owners = route[r].owners
        /\ Into(r, None).community = None
  BY <1>1, <1>2 DEF CInv, JobsHold, CommunitiesTypeOK, Route, Into
<1>7. \A r \in Routes : r \notin job[w].routes => route'[r] = route[r]
  BY <1>1
<1>8. /\ \A r \in Routes : route'[r] # None <=> route[r] # None
      /\ \A r \in Routes : route[r] # None => route'[r].owners = route[r].owners
  BY <1>6, <1>7, CommunityAssumption
<1>9. CommunitiesTypeOK'
  <2>1. community' \in [Comms -> {None} \cup Community]
    BY <1>1 DEF CInv, CommunitiesTypeOK
  <2>2. route' \in [Routes -> {None} \cup Route]
    BY <1>1, <1>6, <1>7 DEF CInv, CommunitiesTypeOK
  <2>3. job' \in [Workers -> {None} \cup Job]
    BY <1>1 DEF CInv, CommunitiesTypeOK, Done
  <2> QED
    BY <1>1, <2>1, <2>2, <2>3 DEF CInv, CommunitiesTypeOK
<1>10. ReferencesHold'
  <2>1. \A d, e \in Comms : community'[d] # None =>
          /\ community'[d].owner \in users
          /\ community'[e] = community'[d] => e = d
    BY <1>4 DEF CInv, ReferencesHold
  <2>2. ASSUME NEW r \in Routes, route'[r] # None
        PROVE  /\ route'[r].owners \subseteq users
               /\ route'[r].community # None => community'[route'[r].community] # None
    <3>1. CASE r \in job[w].routes
      BY <1>6, <1>8, <2>2, <3>1 DEF CInv, ReferencesHold
    <3>2. CASE r \notin job[w].routes
      <4>1. route'[r] = route[r] /\ ~In(r, c)
        BY <1>7, <3>2 DEF RemoveCommits, Blocked
      <4> QED
        BY <1>4, <2>2, <4>1 DEF CInv, ReferencesHold, CommunitiesTypeOK, Route, In
    <3> QED
      BY <3>1, <3>2
  <2>3. \A q \in requests :
          q.user \in users /\ community'[q.community] # None /\ route'[q.route] # None
    BY <1>3, <1>4, <1>8 DEF CInv, ReferencesHold, CommunitiesTypeOK, Request
  <2> QED
    BY <1>1, <2>1, <2>2, <2>3 DEF ReferencesHold
<1>11. \A r \in Routes, u \in Users : Owns(u, r)' <=> Owns(u, r)
  BY <1>8 DEF Owns
<1>12. RequestersAreNotOwners'
  BY <1>1, <1>11 DEF CInv, RequestersAreNotOwners, CommunitiesTypeOK, Request
<1>13. JobsHold'
  BY <1>1, <1>5, <1>8, <1>11, JobFields DEF CInv, JobsHold
<1>14. NewIds'
  BY <1>1, <1>4, <1>5, JobFields DEF CInv, NewIds, Doing
<1> QED
  BY <1>9, <1>10, <1>12, <1>13, <1>14 DEF CInv

-----------------------------------------------------------------------------
\* A new user is the subject of no unit of work.
LEMMA AddUserKeeps ==
    ASSUME CInv, NEW u \in Users, AddUser(u)
    PROVE  CInv'
BY DEF CInv, AddUser, CommunitiesTypeOK, ReferencesHold, RequestersAreNotOwners,
       JobsHold, NewIds, Owns, Doing

\* A user goes when no community and no request names them.
LEMMA RemoveUserKeeps ==
    ASSUME CInv, NEW u \in Users, RemoveUser(u)
    PROVE  CInv'
<1> DEFINE Left(r) == [owners |-> route[r].owners \ {u},
                       community |-> route[r].community]
<1>1. /\ users' = users \ {u}
      /\ ~Bound(u)
      /\ route' = [r \in Routes |-> IF route[r] = None THEN None ELSE Left(r)]
      /\ UNCHANGED <<community, requests, job>>
  BY DEF RemoveUser
<1>2. \A r \in Routes : route[r] # None => Left(r) \in Route /\ Left(r) # None
  BY CommunityAssumption DEF CInv, CommunitiesTypeOK, Route
<1>3. \A r \in Routes :
        /\ route'[r] # None <=> route[r] # None
        /\ route[r] # None =>
             /\ route'[r].owners = route[r].owners \ {u}
             /\ route'[r].community = route[r].community
  BY <1>1, <1>2
<1>4. CommunitiesTypeOK'
  <2>1. route' \in [Routes -> {None} \cup Route]
    BY <1>1, <1>2
  <2> QED
    BY <1>1, <2>1 DEF CInv, CommunitiesTypeOK
<1>5. ReferencesHold'
  BY <1>1, <1>3 DEF CInv, ReferencesHold, CommunitiesTypeOK, Request, Bound
<1>6. \A r \in Routes, v \in Users :
        /\ Owns(v, r)' => Owns(v, r)
        /\ Owns(v, r) \/ v \notin users => Owns(v, r)' \/ v \notin users'
  BY <1>1, <1>3 DEF Owns
<1>7. RequestersAreNotOwners'
  BY <1>1, <1>6 DEF CInv, RequestersAreNotOwners, CommunitiesTypeOK, Request
<1>8. JobsHold'
  BY <1>1, <1>3, <1>6, JobFields DEF CInv, JobsHold
<1>9. NewIds'
  BY <1>1 DEF CInv, NewIds, Doing
<1> QED
  BY <1>4, <1>5, <1>7, <1>8, <1>9 DEF CInv

\* The handler of a registration goes on to its second unit of work.
LEMMA RegisterReadsKeeps ==
    ASSUME CInv, NEW w \in Workers, RegisterReads(w)
    PROVE  CInv'
<1>1. /\ job[w] # None /\ job[w].op = "find"
      /\ UNCHANGED <<users, community, route, requests>>
  BY DEF RegisterReads, Doing, tables
<1>2. job[w] \in [op : {"attach", "request", "detach", "find", "join", "new"},
                  user : Users, id : Comms, route : Routes]
  BY <1>1 DEF CInv, CommunitiesTypeOK, Job
<1>3. PICK op \in {"new", "join"} :
        /\ job' = [job EXCEPT ![w] = [job[w] EXCEPT !.op = op]]
        /\ op = "join" => Owns(job[w].user, job[w].route)
  BY DEF RegisterReads, Owns
<1> DEFINE j == [op |-> op, user |-> job[w].user, id |-> job[w].id,
                 route |-> job[w].route]
<1>4. [job[w] EXCEPT !.op = op] = j
  BY <1>2
<1>5. /\ job' = [job EXCEPT ![w] = j]
      /\ j \in Job
  BY <1>2, <1>3, <1>4 DEF Job
<1>6. /\ job'[w] = j
      /\ \A x \in Workers : x # w => job'[x] = job[x]
  BY <1>5 DEF CInv, CommunitiesTypeOK
<1>7. CommunitiesTypeOK'
  BY <1>1, <1>5 DEF CInv, CommunitiesTypeOK
<1>8. ReferencesHold' /\ RequestersAreNotOwners'
  BY <1>1 DEF CInv, ReferencesHold, RequestersAreNotOwners, Owns
<1>9. JobsHold'
  BY <1>1, <1>3, <1>6 DEF CInv, JobsHold, Owns
<1>10. NewIds'
  <2> SUFFICES ASSUME NEW x \in Workers, Doing(x, "create")'
               PROVE  /\ community[job'[x].id] = None
                      /\ \A y \in Workers : y # x /\ job'[y] # None => job'[y].id # job'[x].id
    BY <1>1 DEF NewIds
  <2>1. x # w /\ job'[x] = job[x] /\ Doing(x, "create")
    BY <1>6 DEF Doing
  <2> QED
    BY <1>1, <1>6, <2>1 DEF CInv, NewIds
<1> QED
  BY <1>7, <1>8, <1>9, <1>10 DEF CInv

\* Every step preserves the invariant.
LEMMA CInvNext ==
    ASSUME CInv, [Next]_vars
    PROVE  CInv'
<1>1. CASE UNCHANGED vars
  BY <1>1 DEF vars, tables, CInv, CommunitiesTypeOK, ReferencesHold,
              RequestersAreNotOwners, JobsHold, NewIds, Owns,
              Doing
<1>2. ASSUME NEW w \in Workers, Ends(w)
      PROVE  CInv'
  <2>1. CASE \/ CreateFails(w)
             \/ AttachFails(w)
             \/ RequestFails(w)
             \/ RemoveFails(w)
             \/ RegisterStops(w)
             \/ RegisterFails(w)
             \/ Crashes(w)
    BY <2>1, DoneKeeps DEF CreateFails, AttachFails, RequestFails, RemoveFails,
                           RegisterStops, RegisterFails, Crashes
  <2>2. CASE RegisterCommits(w)
    BY <2>2, MoveKeeps, NewRouteKeeps DEF RegisterCommits
  <2> QED
    BY <1>2, <2>1, <2>2, CreateKeeps, MoveKeeps, RequestKeeps, RemoveKeeps,
       RegisterReadsKeeps DEF Ends
<1> QED
  BY <1>1, <1>2, AddUserKeeps, RemoveUserKeeps, ReadKeeps DEF Next

\* The invariant holds from the empty database on.
LEMMA CInvHolds == Spec => []CInv
<1>1. Init => CInv
  BY DEF Init, CInv, CommunitiesTypeOK, ReferencesHold, RequestersAreNotOwners,
         JobsHold, NewIds, Doing
<1> QED
  BY <1>1, CInvNext, PTL DEF Spec

\* Every row and every unit of work is well-formed.
THEOREM CommunityTypes == Spec => []CommunitiesTypeOK
BY CInvHolds, PTL DEF CInv

\* Every row names rows that exist, and names are unique for their owner.
THEOREM ReferencesStay == Spec => []ReferencesHold
BY CInvHolds, PTL DEF CInv

\* Nobody requests the membership of a route of their own.
THEOREM RequestersOwnNothing == Spec => []RequestersAreNotOwners
BY CInvHolds, PTL DEF CInv

\* The steps that touch communities or requests.
LEMMA StepKinds ==
    ASSUME [Next]_vars
    PROVE  \/ UNCHANGED <<community, requests>>
           \/ \E w \in Workers :
                CreateCommits(w) \/ RequestCommits(w) \/ RemoveCommits(w)
<1>1. CASE UNCHANGED vars
  BY <1>1 DEF vars, tables
<1>2. ASSUME NEW u \in Users, AddUser(u) \/ RemoveUser(u)
      PROVE  UNCHANGED <<community, requests>>
  BY <1>2 DEF AddUser, RemoveUser
<1>3. ASSUME NEW w \in Workers, NEW u \in Users, Reads(w, u)
      PROVE  UNCHANGED <<community, requests>>
  BY <1>3 DEF Reads, Begins, tables, CreateRead, RemoveRead, AttachRead,
              RequestRead, DetachRead, FindRead
<1>4. ASSUME NEW w \in Workers, Ends(w)
      PROVE  \/ UNCHANGED <<community, requests>>
             \/ CreateCommits(w) \/ RequestCommits(w) \/ RemoveCommits(w)
  BY <1>4 DEF Ends, tables, CreateFails, AttachCommits, AttachFails, RequestFails,
              DetachCommits, RemoveFails, RegisterReads, RegisterStops,
              RegisterCommits, RegisterFails, Crashes
<1> QED
  BY <1>1, <1>2, <1>3, <1>4 DEF Next

\* A request stays, with its user and its community.
LEMMA StepPins ==
    ASSUME CInv, CInv', [Next]_vars, NEW q \in requests
    PROVE  /\ q \in requests'
           /\ q.user \in users'
           /\ community'[q.community] = community[q.community]
           /\ community[q.community].owner \in users'
<1>1. q.community \in Comms /\ community[q.community] # None
  BY DEF CInv, ReferencesHold, CommunitiesTypeOK, Request
<1>2. ASSUME NEW w \in Workers, CreateCommits(w)
      PROVE  q \in requests' /\ community'[q.community] = community[q.community]
  <2>1. community[job[w].id] = None
    BY <1>2 DEF CInv, NewIds, CreateCommits
  <2> QED
    BY <1>1, <1>2, <2>1 DEF CInv, CommunitiesTypeOK, CreateCommits
<1>3. ASSUME NEW w \in Workers, RemoveCommits(w)
      PROVE  q \in requests' /\ community'[q.community] = community[q.community]
  BY <1>1, <1>3 DEF CInv, CommunitiesTypeOK, RemoveCommits, Blocked
<1>4. ASSUME NEW w \in Workers, RequestCommits(w)
      PROVE  q \in requests' /\ community'[q.community] = community[q.community]
  BY <1>4 DEF RequestCommits
<1>5. q \in requests' /\ community'[q.community] = community[q.community]
  BY <1>2, <1>3, <1>4, StepKinds
<1> QED
  BY <1>1, <1>5 DEF CInv, ReferencesHold

\* Once made, a request pins its user and its community.
THEOREM RequestsPin == Spec => PendingPins
<1>1. ASSUME CInv, CInv', [Next]_vars
      PROVE  \A q \in requests :
               /\ q \in requests'
               /\ q.user \in users'
               /\ community'[q.community] = community[q.community]
               /\ community[q.community].owner \in users'
  BY <1>1, StepPins
<1> QED
  BY <1>1, CInvHolds, PTL DEF Spec, PendingPins

-----------------------------------------------------------------------------
\* Who moves a route from one community to another, or out of one.
MovedBy(w, r) ==
    /\ job[w] # None /\ job'[w] = None
    /\ IF job[w].op = "remove"
       THEN r \in job[w].routes /\ route'[r].community = None
       ELSE /\ job[w].route = r
            /\ Owns(job[w].user, r) \/ job[w].user \notin users

\* A commit that writes the community of one route.
LEMMA PlacedMoves ==
    ASSUME CInv, NEW w \in Workers, job[w] # None,
           job[w].op \in {"attach", "detach", "join"},
           NEW c, Placed(job[w].route, c), Done(w),
           NEW r \in Routes, route[r] # None,
           route'[r].community # route[r].community
    PROVE  MovedBy(w, r)
<1>1. job'[w] = None
  BY DEF Done, CInv, CommunitiesTypeOK
<1>2. job[w].route = r
  BY DEF Placed, CInv, CommunitiesTypeOK
<1>3. Owns(job[w].user, r) \/ job[w].user \notin users
  BY <1>2 DEF CInv, JobsHold
<1> QED
  BY <1>1, <1>2, <1>3 DEF MovedBy

LEMMA StepMoves ==
    ASSUME CInv, [Next]_vars, NEW r \in Routes, route[r] # None,
           route'[r].community # route[r].community
    PROVE  \E w \in Workers : MovedBy(w, r)
<1>1. route' # route
  OBVIOUS
<1>2. ASSUME NEW u \in Users, RemoveUser(u)
      PROVE  FALSE
  BY <1>2 DEF RemoveUser
<1>3. ASSUME NEW w \in Workers, RemoveCommits(w)
      PROVE  MovedBy(w, r)
  <2>1. job'[w] = None
    BY <1>3 DEF RemoveCommits, Done, CInv, CommunitiesTypeOK
  <2>2. r \in job[w].routes /\ route'[r] = Into(r, None)
    BY <1>3 DEF RemoveCommits
  <2> QED
    BY <1>3, <2>1, <2>2 DEF RemoveCommits, Doing, MovedBy, Into
<1>4. ASSUME NEW w \in Workers, RegisterCommits(w)
      PROVE  MovedBy(w, r)
  <2>1. CASE Doing(w, "join") /\ Placed(job[w].route, job[w].id)
    BY <1>4, <2>1, PlacedMoves DEF RegisterCommits, Doing
  <2>2. CASE /\ Doing(w, "new")
             /\ route' = [route EXCEPT ![job[w].route] =
                            [owners |-> {job[w].user}, community |-> job[w].id]]
    <3>1. route[job[w].route] = None
      BY <1>4, <2>2, CommittedUnbroken DEF RegisterCommits, RegisterEnds
    <3> QED
      BY <2>2, <3>1 DEF CInv, CommunitiesTypeOK
  <2> QED
    BY <1>4, <2>1, <2>2 DEF RegisterCommits
<1>5. ASSUME NEW w \in Workers, AttachCommits(w) \/ DetachCommits(w)
      PROVE  MovedBy(w, r)
  BY <1>5, PlacedMoves DEF AttachCommits, DetachCommits, Doing
<1>6. ASSUME NEW w \in Workers, Ends(w)
      PROVE  MovedBy(w, r)
  BY <1>1, <1>3, <1>4, <1>5, <1>6
     DEF Ends, tables, CreateCommits, CreateFails, AttachFails, RequestCommits,
         RequestFails, RemoveFails, RegisterReads, RegisterStops, RegisterFails,
         Crashes
<1>7. ASSUME NEW w \in Workers, NEW u \in Users, Reads(w, u)
      PROVE  FALSE
  BY <1>1, <1>7 DEF Reads, Begins, tables, CreateRead, RemoveRead, AttachRead,
                    RequestRead, DetachRead, FindRead
<1> QED
  BY <1>1, <1>2, <1>6, <1>7 DEF Next, AddUser, vars, tables

\* A membership changes by the hand of an owner, or is lost with the removal of
\* a community, for any number of overlapping operations and users that go.
THEOREM OwnersRule == Spec => OwnersDecide
<1>1. ASSUME CInv, [Next]_vars, NEW r \in Routes,
             route[r] # None, route'[r].community # route[r].community
      PROVE  \E w \in Workers : MovedBy(w, r)
  BY <1>1, StepMoves
<1>2. CInv /\ [Next]_vars =>
        [\A r \in Routes :
         route[r] # None /\ route'[r].community # route[r].community =>
           \E w \in Workers :
             /\ job[w] # None /\ job'[w] = None
             /\ IF job[w].op = "remove"
                THEN r \in job[w].routes /\ route'[r].community = None
                ELSE /\ job[w].route = r
                     /\ Owns(job[w].user, r) \/ job[w].user \notin users]_vars
  BY <1>1 DEF MovedBy
<1> QED
  BY <1>2, CInvHolds, PTL DEF Spec, OwnersDecide
=============================================================================
