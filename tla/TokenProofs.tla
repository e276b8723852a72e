---------------------------- MODULE TokenProofs ----------------------------
(***************************************************************************)
(* What holds of TunnelTokens for every set of routes, servers, tasks and  *)
(* configurations, and for every lifespan and leeway.                      *)
(***************************************************************************)
EXTENDS TunnelTokens, TLAPS

(***************************************************************************)
(* The types are not inductive alone: to set a field of route[s] keeps the *)
(* type only if there is a row.  Whatever work is at hand, its route has a *)
(* row, since no operation deletes one.                                    *)
(***************************************************************************)
HasRow(v) ==
    \/ Doing(v, "wake")
    \/ Doing(v, "sign")
    \/ Doing(v, "register") /\ job[v].seen # None

WorkHasRow ==
    /\ \A v \in Servers : HasRow(v) => route[job[v].src] # None
    /\ \A t \in Tasks : task[t] # None => route[task[t].src] # None

TInv == TokensTypeOK /\ WorkHasRow

RowsStay == \A s \in Srcs : route[s] # None => route'[s] # None

\* What a step does to the work of one server, and of one task.
LEMMA JobChange ==
    ASSUME TInv, NEW v \in Servers, NEW j \in Job \cup {None}, RowsStay,
           job' = [job EXCEPT ![v] = j],
           route' \in [Srcs -> Row \cup {None}],
           \/ j = None
           \/ j.op = "register" /\ j.seen = None
           \/ route'[j.src] # None
    PROVE  /\ job' \in [Servers -> Job \cup {None}]
           /\ \A w \in Servers : HasRow(w)' => route'[job'[w].src] # None
<1>1. job' \in [Servers -> Job \cup {None}]
  BY DEF TInv, TokensTypeOK
<1>2. ASSUME NEW w \in Servers, HasRow(w)'
      PROVE  route'[job'[w].src] # None
  <2>1. CASE w = v
    <3>1. job'[w] = j
      BY <2>1 DEF TInv, TokensTypeOK
    <3> QED
      BY <1>2, <3>1 DEF HasRow, Doing
  <2>2. CASE w # v
    <3>1. job'[w] = job[w]
      BY <2>2 DEF TInv, TokensTypeOK
    <3>2. HasRow(w)
      BY <1>2, <3>1 DEF HasRow, Doing
    <3>3. job[w] \in Job
      BY <3>2 DEF TInv, TokensTypeOK, HasRow, Doing
    <3>4. job[w].src \in Srcs
      BY <3>3 DEF Job
    <3> QED
      BY <3>1, <3>2, <3>4 DEF TInv, WorkHasRow, RowsStay
  <2> QED
    BY <2>1, <2>2
<1> QED
  BY <1>1, <1>2

\* The same of a task.
LEMMA TaskChange ==
    ASSUME TInv, NEW t \in Tasks, NEW k \in Task \cup {None}, RowsStay,
           task' = [task EXCEPT ![t] = k],
           k # None => route'[k.src] # None
    PROVE  /\ task' \in [Tasks -> Task \cup {None}]
           /\ \A u \in Tasks : task'[u] # None => route'[task'[u].src] # None
<1>1. task' \in [Tasks -> Task \cup {None}]
  BY DEF TInv, TokensTypeOK
<1>2. ASSUME NEW u \in Tasks, task'[u] # None
      PROVE  route'[task'[u].src] # None
  <2>1. CASE u = t
    BY <1>2, <2>1 DEF TInv, TokensTypeOK
  <2>2. CASE u # t
    <3>1. task'[u] = task[u]
      BY <2>2 DEF TInv, TokensTypeOK
    <3>2. task[u] \in Task
      BY <1>2, <3>1 DEF TInv, TokensTypeOK
    <3>3. task[u].src \in Srcs
      BY <3>2 DEF Task
    <3> QED
      BY <1>2, <3>1, <3>3 DEF TInv, WorkHasRow, RowsStay
  <2> QED
    BY <2>1, <2>2
<1> QED
  BY <1>1, <1>2

\* Work that a step leaves alone keeps its row.
LEMMA IdleJobs ==
    ASSUME TInv, RowsStay, job' = job
    PROVE  /\ job' \in [Servers -> Job \cup {None}]
           /\ \A w \in Servers : HasRow(w)' => route'[job'[w].src] # None
<1>1. ASSUME NEW w \in Servers, HasRow(w)'
      PROVE  route'[job'[w].src] # None
  <2>1. HasRow(w)
    BY <1>1 DEF HasRow, Doing
  <2>2. job[w] \in Job
    BY <2>1 DEF TInv, TokensTypeOK, HasRow, Doing
  <2>3. job[w].src \in Srcs
    BY <2>2 DEF Job
  <2> QED
    BY <2>1, <2>3 DEF TInv, WorkHasRow, RowsStay
<1> QED
  BY <1>1 DEF TInv, TokensTypeOK

\* And so do the tasks.
LEMMA IdleTasks ==
    ASSUME TInv, RowsStay, task' = task
    PROVE  /\ task' \in [Tasks -> Task \cup {None}]
           /\ \A u \in Tasks : task'[u] # None => route'[task'[u].src] # None
<1>1. ASSUME NEW u \in Tasks, task'[u] # None
      PROVE  route'[task'[u].src] # None
  <2>1. task[u] \in Task
    BY <1>1 DEF TInv, TokensTypeOK
  <2>2. task[u].src \in Srcs
    BY <2>1 DEF Task
  <2> QED
    BY <1>1, <2>2 DEF TInv, WorkHasRow, RowsStay
<1> QED
  BY <1>1 DEF TInv, TokensTypeOK

\* A new row for one URL leaves every row in place.
LEMMA RowChange ==
    ASSUME TInv, NEW s \in Srcs, NEW row \in Row,
           route' = [route EXCEPT ![s] = row]
    PROVE  /\ route' \in [Srcs -> Row \cup {None}]
           /\ RowsStay
           /\ route'[s] # None
<1>1. row # None
  BY TokenAssumption
<1> QED
  BY <1>1 DEF TInv, TokensTypeOK, RowsStay

\* How the parts make the invariant.
LEMMA Together ==
    ASSUME route' \in [Srcs -> Row \cup {None}],
           app' \in [Srcs -> Outcomes],
           token' \in [Srcs -> [Keys -> Left \cup {None}]],
           config' \in [Servers -> Configs],
           job' \in [Servers -> Job \cup {None}],
           \A w \in Servers : HasRow(w)' => route'[job'[w].src] # None,
           task' \in [Tasks -> Task \cup {None}],
           \A u \in Tasks : task'[u] # None => route'[task'[u].src] # None
    PROVE  TInv'
  BY DEF TInv, TokensTypeOK, WorkHasRow

-----------------------------------------------------------------------------
\* The invariant, operation by operation.

\* Nothing has happened.
LEMMA InitTInv == Init => TInv
  BY DEF Init, TInv, TokensTypeOK, WorkHasRow, HasRow, Doing

\* What the requests of a server are.
LEMMA JobShape ==
    ASSUME TInv, NEW v \in Servers, job[v] # None
    PROVE  /\ job[v] \in Job /\ job[v].src \in Srcs
           /\ Doing(v, "register") => job[v].seen \in Verification \cup {None}
           /\ ~Doing(v, "register") => job[v].op \in {"wake", "sign"}
<1>1. job[v] \in Job
  BY DEF TInv, TokensTypeOK
<1> QED
  BY <1>1 DEF Job, Doing

\* Registrations.
LEMMA RegisterTInv ==
    ASSUME TInv, NEW v \in Servers,
           Register(v) \/ \E s \in Srcs : RegisterRead(v, s)
    PROVE  TInv'
<1>1. ASSUME NEW s \in Srcs, RegisterRead(v, s)
      PROVE  TInv'
  <2> DEFINE seen == IF route[s] = None THEN None ELSE route[s].verification
             j == [op |-> "register", src |-> s, seen |-> seen]
  <2>1. route[s] # None => route[s] \in Row
    BY DEF TInv, TokensTypeOK
  <2>2. j \in Job
    BY <2>1 DEF Job, Row
  <2>3. seen = None \/ route[s] # None
    OBVIOUS
  <2>4. /\ job' = [job EXCEPT ![v] = j]
        /\ UNCHANGED <<route, app, token, config, task>>
    BY <1>1 DEF RegisterRead
  <2>5. j.op = "register" /\ j.seen = seen /\ j.src = s
    OBVIOUS
  <2>6. RowsStay /\ route' \in [Srcs -> Row \cup {None}]
    BY <2>4 DEF RowsStay, TInv, TokensTypeOK
  <2>7. \/ j.op = "register" /\ j.seen = None
        \/ route'[j.src] # None
    BY <2>3, <2>4, <2>5
  <2> HIDE DEF j, seen
  <2>8. /\ job' \in [Servers -> Job \cup {None}]
        /\ \A w \in Servers : HasRow(w)' => route'[job'[w].src] # None
    BY <2>2, <2>4, <2>6, <2>7, JobChange
  <2>9. /\ task' \in [Tasks -> Task \cup {None}]
        /\ \A u \in Tasks : task'[u] # None => route'[task'[u].src] # None
    BY <2>4, <2>6, IdleTasks
  <2> QED
    BY <2>4, <2>6, <2>8, <2>9, Together DEF TInv, TokensTypeOK
<1>2. ASSUME RegisterFails(v)
      PROVE  TInv'
  <2>1. /\ job' = [job EXCEPT ![v] = None]
        /\ UNCHANGED <<route, app, token, config, task>>
    BY <1>2 DEF RegisterFails
  <2>2. RowsStay /\ route' \in [Srcs -> Row \cup {None}]
    BY <2>1 DEF RowsStay, TInv, TokensTypeOK
  <2>3. /\ job' \in [Servers -> Job \cup {None}]
        /\ \A w \in Servers : HasRow(w)' => route'[job'[w].src] # None
    BY <2>1, <2>2, JobChange
  <2>4. /\ task' \in [Tasks -> Task \cup {None}]
        /\ \A u \in Tasks : task'[u] # None => route'[task'[u].src] # None
    BY <2>1, <2>2, IdleTasks
  <2> QED
    BY <2>1, <2>2, <2>3, <2>4, Together DEF TInv, TokensTypeOK
<1>3. ASSUME RegisterRenew(v) \/ RegisterCreate(v)
      PROVE  TInv'
  <2> DEFINE j == [op |-> "wake", src |-> job[v].src]
  <2>1. /\ Doing(v, "register")
        /\ job' = [job EXCEPT ![v] = j]
        /\ UNCHANGED <<app, token, config, task>>
    BY <1>3 DEF RegisterRenew, RegisterCreate, Registered
  <2>2. job[v].src \in Srcs
    BY <2>1, JobShape DEF Doing
  <2>3. j \in Job /\ j.src = job[v].src
    BY <2>2 DEF Job
  <2>4. \E row \in Row : route' = [route EXCEPT ![job[v].src] = row]
    <3>1. CASE RegisterCreate(v)
      BY <3>1 DEF RegisterCreate, NewRow, Row, Verification, Status
    <3>2. CASE RegisterRenew(v)
      <4> DEFINE row == route[job[v].src]
                 renewed == Flushed(row.verification, job[v].seen, "VERIFIED")
      <4>1. row \in Row
        BY <2>1, <2>2, <3>2 DEF RegisterRenew, TInv, TokensTypeOK, WorkHasRow, HasRow
      <4>2. renewed \in Verification
        BY <4>1 DEF Row, Verification, Flushed
      <4>3. [row EXCEPT !.verification = renewed] \in Row
        BY <4>1, <4>2 DEF Row
      <4>4. route' = [route EXCEPT ![job[v].src] = [row EXCEPT !.verification = renewed]]
        BY <3>2 DEF RegisterRenew
      <4> QED
        BY <4>3, <4>4
    <3> QED
      BY <1>3, <3>1, <3>2
  <2> HIDE DEF j
  <2>5. /\ RowsStay /\ route' \in [Srcs -> Row \cup {None}]
        /\ route'[job[v].src] # None
    BY <2>2, <2>4, RowChange
  <2>6. /\ job' \in [Servers -> Job \cup {None}]
        /\ \A w \in Servers : HasRow(w)' => route'[job'[w].src] # None
    BY <2>1, <2>3, <2>5, JobChange
  <2>7. /\ task' \in [Tasks -> Task \cup {None}]
        /\ \A u \in Tasks : task'[u] # None => route'[task'[u].src] # None
    BY <2>1, <2>5, IdleTasks
  <2> QED
    BY <2>1, <2>5, <2>6, <2>7, Together DEF TInv, TokensTypeOK
<1> QED
  BY <1>1, <1>2, <1>3 DEF Register

\* Exchanges.
LEMMA ExchangeTInv ==
    ASSUME TInv, NEW v \in Servers, NEW s \in Srcs, NEW k \in Keys,
           Exchange(v, s, k)
    PROVE  TInv'
<1> DEFINE j == [op |-> IF NeedsUpdate(route[s]) THEN "wake" ELSE "sign", src |-> s]
<1>1. j \in Job /\ j.src = s
  BY DEF Job
<1>2. /\ job' = [job EXCEPT ![v] = j]
      /\ UNCHANGED <<route, app, token, config, task>>
      /\ route[s] # None
  BY DEF Exchange, Exchangeable, Verified
<1> HIDE DEF j
<1>3. RowsStay /\ route' \in [Srcs -> Row \cup {None}]
  BY <1>2 DEF RowsStay, TInv, TokensTypeOK
<1>4. /\ job' \in [Servers -> Job \cup {None}]
      /\ \A w \in Servers : HasRow(w)' => route'[job'[w].src] # None
  BY <1>1, <1>2, <1>3, JobChange
<1>5. /\ task' \in [Tasks -> Task \cup {None}]
      /\ \A u \in Tasks : task'[u] # None => route'[task'[u].src] # None
  BY <1>2, <1>3, IdleTasks
<1> QED
  BY <1>2, <1>3, <1>4, <1>5, Together DEF TInv, TokensTypeOK

\* Answers, and requests that are lost.
LEMMA AnswerTInv ==
    ASSUME TInv, NEW v \in Servers,
           Answer(v) \/ WakeFails(v) \/ \E c \in Configs : Restart(v, c)
    PROVE  TInv'
<1>1. ASSUME NEW t \in Tasks, Wake(v, t)
      PROVE  TInv'
  <2> DEFINE k == Queued(job[v].src)
             j == [job[v] EXCEPT !.op = "sign"]
  <2>1. /\ Doing(v, "wake")
        /\ job' = [job EXCEPT ![v] = j]
        /\ task' = [task EXCEPT ![t] = k]
        /\ UNCHANGED <<route, app, token, config>>
    BY <1>1 DEF Wake
  <2>2. job[v] \in Job /\ job[v].src \in Srcs /\ route[job[v].src] # None
    BY <2>1, JobShape DEF Doing, HasRow, TInv, WorkHasRow
  <2>3. j \in Job /\ j.src = job[v].src
    BY <2>1, <2>2 DEF Job, Doing
  <2>4. k \in Task /\ k.src = job[v].src
    BY <2>2 DEF Queued, Task, Status, Outcome
  <2> HIDE DEF j, k
  <2>5. RowsStay /\ route' \in [Srcs -> Row \cup {None}]
    BY <2>1 DEF RowsStay, TInv, TokensTypeOK
  <2>6. /\ job' \in [Servers -> Job \cup {None}]
        /\ \A w \in Servers : HasRow(w)' => route'[job'[w].src] # None
    BY <2>1, <2>2, <2>3, <2>5, JobChange
  <2>7. /\ task' \in [Tasks -> Task \cup {None}]
        /\ \A u \in Tasks : task'[u] # None => route'[task'[u].src] # None
    BY <2>1, <2>2, <2>4, <2>5, TaskChange
  <2> QED
    BY <2>1, <2>5, <2>6, <2>7, Together DEF TInv, TokensTypeOK
<1>2. ASSUME Sign(v) \/ WakeFails(v) \/ \E c \in Configs : Restart(v, c)
      PROVE  TInv'
  <2>1. /\ job' = [job EXCEPT ![v] = None]
        /\ UNCHANGED <<route, app, task>>
    BY <1>2 DEF Sign, WakeFails, Restart
  <2>2. config' \in [Servers -> Configs]
    BY <1>2 DEF Sign, WakeFails, Restart, TInv, TokensTypeOK
  <2>3. token' \in [Srcs -> [Keys -> Left \cup {None}]]
    <3>1. CASE Sign(v)
      <4>1. job[v].src \in Srcs
        BY <3>1, JobShape DEF Sign, Doing
      <4>2. config[v] \in Configs
        BY DEF TInv, TokensTypeOK
      <4>3. SigningKey(v) \in Keys
        BY <4>2, TokenAssumption DEF SigningKey, Keys
      <4>4. Lifespan \in Left
        BY TokenAssumption DEF Left
      <4>5. token' = [token EXCEPT ![job[v].src] =
                        [token[job[v].src] EXCEPT ![SigningKey(v)] = Lifespan]]
        BY <3>1 DEF Sign
      <4> QED
        BY <4>1, <4>3, <4>4, <4>5 DEF TInv, TokensTypeOK
    <3>2. CASE token' = token
      BY <3>2 DEF TInv, TokensTypeOK
    <3> QED
      BY <1>2, <3>1, <3>2 DEF WakeFails, Restart
  <2>4. RowsStay /\ route' \in [Srcs -> Row \cup {None}]
    BY <2>1 DEF RowsStay, TInv, TokensTypeOK
  <2>5. /\ job' \in [Servers -> Job \cup {None}]
        /\ \A w \in Servers : HasRow(w)' => route'[job'[w].src] # None
    BY <2>1, <2>4, JobChange
  <2>6. /\ task' \in [Tasks -> Task \cup {None}]
        /\ \A u \in Tasks : task'[u] # None => route'[task'[u].src] # None
    BY <2>1, <2>4, IdleTasks
  <2> QED
    BY <2>1, <2>2, <2>3, <2>4, <2>5, <2>6, Together DEF TInv, TokensTypeOK
<1> QED
  BY <1>1, <1>2 DEF Answer

\* Updates, and tasks that are lost.
LEMMA UpdateTInv ==
    ASSUME TInv, NEW t \in Tasks, Update(t) \/ TaskLost(t)
    PROVE  TInv'
<1>1. /\ task[t] \in Task /\ task[t].src \in Srcs
      /\ route[task[t].src] # None /\ route[task[t].src] \in Row
      /\ task[t].seen \in Status /\ task[t].outcome \in Outcome
  <2>1. task[t] # None
    BY DEF Update, Load, Fetch, Store, TaskAt, TaskLost
  <2>2. task[t] \in Task /\ route[task[t].src] # None
    BY <2>1 DEF TInv, TokensTypeOK, WorkHasRow
  <2>3. task[t].src \in Srcs /\ task[t].seen \in Status /\ task[t].outcome \in Outcome
    BY <2>2 DEF Task
  <2> QED
    BY <2>2, <2>3 DEF TInv, TokensTypeOK
<1>2. /\ RowsStay /\ route' \in [Srcs -> Row \cup {None}]
  <2>1. CASE route' = route
    BY <2>1 DEF RowsStay, TInv, TokensTypeOK
  <2>2. CASE Store(t)
    <3> DEFINE row == route[task[t].src]
               status == IF task[t].outcome = "nothing" THEN row.status
                         ELSE Flushed(row.status, task[t].seen, task[t].outcome)
    <3>1. status \in Status
      BY <1>1 DEF Row, Flushed, Outcome
    <3>2. [row EXCEPT !.status = status] \in Row
      BY <1>1, <3>1 DEF Row
    <3>3. route' = [route EXCEPT ![task[t].src] = [row EXCEPT !.status = status]]
      BY <2>2 DEF Store
    <3> QED
      BY <1>1, <3>2, <3>3, RowChange
  <2> QED
    BY <2>1, <2>2 DEF Update, Load, Fetch, TaskLost
<1>3. \E k \in Task \cup {None} : /\ task' = [task EXCEPT ![t] = k]
                                  /\ k # None => k.src = task[t].src
  <2>1. CASE Load(t)
    <3> DEFINE k == [task[t] EXCEPT !.at = "loaded", !.seen = route[task[t].src].status]
    <3>1. k \in Task /\ k.src = task[t].src
      BY <1>1 DEF Task, Row
    <3>2. task' = [task EXCEPT ![t] = k]
      BY <2>1 DEF Load
    <3> HIDE DEF k
    <3> QED
      BY <3>1, <3>2
  <2>2. CASE Fetch(t)
    <3>1. app[task[t].src] \in Outcome
      BY <1>1, TokenAssumption DEF TInv, TokensTypeOK
    <3> DEFINE k == [task[t] EXCEPT !.at = "fetched", !.outcome = app[task[t].src]]
    <3>2. k \in Task /\ k.src = task[t].src
      BY <1>1, <3>1 DEF Task
    <3>3. task' = [task EXCEPT ![t] = k]
      BY <2>2 DEF Fetch
    <3> HIDE DEF k
    <3> QED
      BY <3>2, <3>3
  <2>3. CASE Store(t)
    <3>1. Queued(task[t].src) \in Task /\ Queued(task[t].src).src = task[t].src
      BY <1>1 DEF Queued, Task, Status, Outcome
    <3> QED
      BY <2>3, <3>1 DEF Store
  <2>4. CASE TaskLost(t)
    BY <2>4 DEF TaskLost
  <2> QED
    BY <2>1, <2>2, <2>3, <2>4 DEF Update
<1>4. PICK k \in Task \cup {None} : /\ task' = [task EXCEPT ![t] = k]
                                    /\ k # None => k.src = task[t].src
  BY <1>3
<1>5. k # None => route'[k.src] # None
  BY <1>1, <1>2, <1>4 DEF RowsStay
<1>6. /\ task' \in [Tasks -> Task \cup {None}]
      /\ \A u \in Tasks : task'[u] # None => route'[task'[u].src] # None
  BY <1>2, <1>4, <1>5, TaskChange
<1>7. UNCHANGED <<app, token, config, job>>
  BY DEF Update, Load, Fetch, Store, TaskLost
<1>8. /\ job' \in [Servers -> Job \cup {None}]
      /\ \A w \in Servers : HasRow(w)' => route'[job'[w].src] # None
  BY <1>2, <1>7, IdleJobs
<1> QED
  BY <1>2, <1>6, <1>7, <1>8, Together DEF TInv, TokensTypeOK

\* The tracker.
LEMMA TrackTInv ==
    ASSUME TInv, Track
    PROVE  TInv'
<1>1. ASSUME NEW s \in Srcs, NEW t \in Tasks, TrackerLooks(s, t)
      PROVE  TInv'
  <2>1. Queued(s) \in Task /\ Queued(s).src = s
    BY DEF Queued, Task, Status, Outcome
  <2>2. /\ task' = [task EXCEPT ![t] = Queued(s)] /\ route[s] # None
        /\ UNCHANGED <<route, app, token, config, job>>
    BY <1>1 DEF TrackerLooks, Verified
  <2>3. RowsStay /\ route' \in [Srcs -> Row \cup {None}]
    BY <2>2 DEF RowsStay, TInv, TokensTypeOK
  <2>4. /\ task' \in [Tasks -> Task \cup {None}]
        /\ \A u \in Tasks : task'[u] # None => route'[task'[u].src] # None
    BY <2>1, <2>2, <2>3, TaskChange
  <2>5. /\ job' \in [Servers -> Job \cup {None}]
        /\ \A w \in Servers : HasRow(w)' => route'[job'[w].src] # None
    BY <2>2, <2>3, IdleJobs
  <2> QED
    BY <2>2, <2>3, <2>4, <2>5, Together DEF TInv, TokensTypeOK
<1>2. ASSUME NEW s \in Srcs, Unverify(s)
      PROVE  TInv'
  <2>1. route[s] \in Row
    BY <1>2 DEF Unverify, Verified, TInv, TokensTypeOK
  <2>2. PICK status \in {"DOWN", route[s].status} :
           route' = [route EXCEPT ![s] = [verification |-> "UNVERIFIED", status |-> status]]
    BY <1>2 DEF Unverify
  <2>3. [verification |-> "UNVERIFIED", status |-> status] \in Row
    BY <2>1 DEF Row, Verification, Status
  <2>4. RowsStay /\ route' \in [Srcs -> Row \cup {None}]
    BY <2>2, <2>3, RowChange
  <2>5. UNCHANGED <<app, token, config, job, task>>
    BY <1>2 DEF Unverify
  <2>6. /\ task' \in [Tasks -> Task \cup {None}]
        /\ \A u \in Tasks : task'[u] # None => route'[task'[u].src] # None
    BY <2>4, <2>5, IdleTasks
  <2>7. /\ job' \in [Servers -> Job \cup {None}]
        /\ \A w \in Servers : HasRow(w)' => route'[job'[w].src] # None
    BY <2>4, <2>5, IdleJobs
  <2> QED
    BY <2>4, <2>5, <2>6, <2>7, Together DEF TInv, TokensTypeOK
<1> QED
  BY <1>1, <1>2 DEF Track

\* A tick takes from what the tokens have left.
LEMMA OlderLeft ==
    ASSUME NEW left \in Left \cup {None}
    PROVE  /\ Older(left) \in Left \cup {None}
           /\ Older(left) # None => /\ left # None
                                    /\ Older(left) = left - 1
  BY TokenAssumption DEF Left, Older

\* The world around.
LEMMA WorldTInv ==
    ASSUME TInv, \/ Tick
                 \/ \E s \in Srcs, outcome \in Outcomes : AppChanges(s, outcome)
                 \/ UNCHANGED vars
    PROVE  TInv'
<1>1. UNCHANGED <<route, config, job, task>>
  BY DEF Tick, AppChanges, vars
<1>2. app' \in [Srcs -> Outcomes]
  BY DEF Tick, AppChanges, vars, TInv, TokensTypeOK
<1>3. token' \in [Srcs -> [Keys -> Left \cup {None}]]
  <2>1. CASE Tick
    <3>1. \A s \in Srcs, k \in Keys : token[s][k] \in Left \cup {None}
      BY DEF TInv, TokensTypeOK
    <3> QED
      BY <2>1, <3>1, OlderLeft DEF Tick
  <2>2. CASE token' = token
    BY <2>2 DEF TInv, TokensTypeOK
  <2> QED
    BY <2>1, <2>2 DEF AppChanges, vars
<1>4. RowsStay /\ route' \in [Srcs -> Row \cup {None}]
  BY <1>1 DEF RowsStay, TInv, TokensTypeOK
<1>5. /\ task' \in [Tasks -> Task \cup {None}]
      /\ \A u \in Tasks : task'[u] # None => route'[task'[u].src] # None
  BY <1>1, <1>4, IdleTasks
<1>6. /\ job' \in [Servers -> Job \cup {None}]
      /\ \A w \in Servers : HasRow(w)' => route'[job'[w].src] # None
  BY <1>1, <1>4, IdleJobs
<1> QED
  BY <1>1, <1>2, <1>3, <1>4, <1>5, <1>6, Together DEF TInv, TokensTypeOK

\* Every step keeps the invariant.
LEMMA NextTInv == TInv /\ [Next]_vars => TInv'
<1> SUFFICES ASSUME TInv, [Next]_vars
             PROVE  TInv'
  OBVIOUS
<1>1. CASE Operation
  BY <1>1, RegisterTInv, ExchangeTInv, AnswerTInv, UpdateTInv, TrackTInv, WorldTInv
     DEF Operation, Exchanges
<1>2. CASE Failure
  BY <1>2, AnswerTInv, UpdateTInv DEF Failure
<1>3. CASE UNCHANGED vars
  BY <1>3, WorldTInv
<1> QED
  BY <1>1, <1>2, <1>3 DEF Next

\* So it always holds.
LEMMA TInvHolds == Spec => []TInv
<1> QED
  BY InitTInv, NextTInv, PTL DEF Spec

\* Whatever the requests, tasks, restarts and updates do, the state is one
\* that the tables, the settings and the tokens can be in.
THEOREM TokenTypes == Spec => []TokensTypeOK
<1>1. TInv => TokensTypeOK
  BY DEF TInv
<1> QED
  BY <1>1, TInvHolds, PTL

-----------------------------------------------------------------------------
(***************************************************************************)
(* The chain of exchanges.                                                 *)
(***************************************************************************)

\* A route is alive by a token, or by a request.
LiveToken(s) == \E k \in Keys : token[s][k] # None /\ token[s][k] >= -Leeway
InHand(s) == \E v \in Servers : job[v] # None /\ job[v].src = s

\* A step but for the reading of a registration keeps to the living: a request
\* comes from a token that lives, a token from a request.
LEMMA NewRequest ==
    ASSUME TInv, Next, NEW s \in Srcs, InHand(s)', ~InHand(s),
           ~\E v \in Servers : RegisterRead(v, s)
    PROVE  LiveToken(s)
<1>1. PICK v \in Servers : job'[v] # None /\ job'[v].src = s
  BY DEF InHand
<1>2. job'[v] # job[v]
  BY <1>1 DEF InHand
<1>3. ASSUME NEW w \in Servers, NEW j, job' = [job EXCEPT ![w] = j]
      PROVE  w = v /\ j = job'[v]
  BY <1>2, <1>3 DEF TInv, TokensTypeOK
<1>4. ASSUME NEW w \in Servers, Register(w) \/ Answer(w) \/ WakeFails(w)
      PROVE  FALSE
  <2>1. CASE RegisterRenew(w) \/ RegisterCreate(w)
    <3>1. job' = [job EXCEPT ![w] = [op |-> "wake", src |-> job[w].src]]
      BY <2>1 DEF RegisterRenew, RegisterCreate, Registered
    <3>2. w = v /\ job'[v].src = job[v].src
      BY <1>3, <3>1
    <3> QED
      BY <1>1, <2>1, <3>2 DEF InHand, RegisterRenew, RegisterCreate, Doing
  <2>2. CASE RegisterFails(w) \/ Sign(w) \/ WakeFails(w)
    <3>1. job' = [job EXCEPT ![w] = None]
      BY <2>2 DEF RegisterFails, Sign, WakeFails
    <3> QED
      BY <1>1, <1>3, <3>1
  <2>3. CASE \E t \in Tasks : Wake(w, t)
    <3>1. /\ Doing(w, "wake")
          /\ job' = [job EXCEPT ![w] = [job[w] EXCEPT !.op = "sign"]]
      BY <2>3 DEF Wake
    <3>2. w = v /\ job'[v] = [job[v] EXCEPT !.op = "sign"]
      BY <1>3, <3>1
    <3>3. job[v] \in Job
      BY <3>1, <3>2, JobShape DEF Doing
    <3>4. job'[v].src = job[v].src
      BY <3>2, <3>3 DEF Job
    <3> QED
      BY <1>1, <3>1, <3>2, <3>4 DEF InHand, Doing
  <2> QED
    BY <1>4, <2>1, <2>2, <2>3 DEF Register, Answer
<1>5. ASSUME NEW w \in Servers, NEW r \in Srcs, RegisterRead(w, r)
      PROVE  FALSE
  <2>1. w = v /\ job'[v].src = r
    BY <1>3, <1>5 DEF RegisterRead
  <2> QED
    BY <1>1, <1>5, <2>1
<1>6. ASSUME NEW w \in Servers, NEW c \in Configs, Restart(w, c)
      PROVE  FALSE
  <2>1. job' = [job EXCEPT ![w] = None]
    BY <1>6 DEF Restart
  <2> QED
    BY <1>1, <1>3, <2>1
<1>7. ASSUME NEW w \in Servers, NEW r \in Srcs, NEW k \in Keys, Exchange(w, r, k)
      PROVE  LiveToken(s)
  <2> DEFINE j == [op |-> IF NeedsUpdate(route[r]) THEN "wake" ELSE "sign", src |-> r]
  <2>0. job' = [job EXCEPT ![w] = j] /\ j.src = r
    BY <1>7 DEF Exchange
  <2> HIDE DEF j
  <2>1. w = v /\ job'[v].src = r
    BY <1>3, <2>0
  <2> QED
    BY <1>1, <1>7, <2>1 DEF Exchange, Accepted, LiveToken
<1>8. ASSUME job' = job
      PROVE  FALSE
  BY <1>2, <1>8
<1> QED
  BY <1>4, <1>5, <1>6, <1>7, <1>8
     DEF Next, Operation, Failure, Exchanges, Track, TrackerLooks, Unverify, Update,
         Load, Fetch, Store, TaskLost, AppChanges, Tick

\* A token that lives lived before, or is what a request signs.
LEMMA NewToken ==
    ASSUME TInv, Next, NEW s \in Srcs, LiveToken(s)'
    PROVE  LiveToken(s) \/ InHand(s)
<1>1. PICK k \in Keys : token'[s][k] # None /\ token'[s][k] >= -Leeway
  BY DEF LiveToken
<1>2. token[s][k] \in Left \cup {None}
  BY DEF TInv, TokensTypeOK
<1>3. CASE Tick
  <2>1. token'[s][k] = Older(token[s][k])
    BY <1>3 DEF Tick
  <2>2. token[s][k] # None /\ token'[s][k] = token[s][k] - 1
    BY <1>1, <1>2, <2>1, OlderLeft
  <2>3. token[s][k] >= -Leeway
    BY <1>1, <1>2, <2>2, TokenAssumption DEF Left
  <2> QED
    BY <2>2, <2>3 DEF LiveToken
<1>4. ASSUME NEW v \in Servers, Sign(v)
      PROVE  LiveToken(s) \/ InHand(s)
  <2>1. job[v] # None /\ job[v].src \in Srcs
    BY <1>4, JobShape DEF Sign, Doing
  <2>2. CASE job[v].src = s
    BY <2>1, <2>2 DEF InHand
  <2>3. CASE job[v].src # s
    <3>1. token'[s] = token[s]
      BY <1>4, <2>1, <2>3 DEF Sign, TInv, TokensTypeOK
    <3> QED
      BY <1>1, <3>1 DEF LiveToken
  <2> QED
    BY <2>2, <2>3
<1>5. CASE token' = token
  BY <1>1, <1>5 DEF LiveToken
<1> QED
  BY <1>3, <1>4, <1>5
     DEF Next, Operation, Failure, Exchanges, Exchange, Track, TrackerLooks, Unverify,
         Update, Load, Fetch, Store, TaskLost, AppChanges, Register, RegisterRead,
         RegisterRenew, RegisterCreate, RegisterFails, Answer, Wake, WakeFails, Restart

\* A client that is silent for longer than the leeway has to register.
THEOREM Silence == Spec => SilenceIsFinal
<1>1. ASSUME TInv, [Next]_vars
      PROVE  [\A s \in Srcs :
                Alive(s)' => (Alive(s) \/ \E v \in Servers : RegisterRead(v, s))]_vars
  <2>1. SUFFICES ASSUME Next, NEW s \in Srcs, Alive(s)',
                        ~\E v \in Servers : RegisterRead(v, s)
                 PROVE  Alive(s)
    BY <1>1
  <2>2. Alive(s) <=> LiveToken(s) \/ InHand(s)
    BY DEF Alive, LiveToken, InHand
  <2>3. LiveToken(s)' \/ InHand(s)'
    BY <2>1 DEF Alive, LiveToken, InHand
  <2> QED
    BY <1>1, <2>1, <2>2, <2>3, NewRequest, NewToken
<1> QED
  BY <1>1, TInvHolds, PTL DEF Spec, SilenceIsFinal
=============================================================================
