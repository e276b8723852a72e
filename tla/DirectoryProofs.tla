-------------------------- MODULE DirectoryProofs --------------------------
(***************************************************************************)
(* Proofs about Directory: types, the chain of authority, the seeding      *)
(* command, and that it implements NamedDirectory.                         *)
(***************************************************************************)
EXTENDS Directory, TLAPS

\* uids and names of groups are unique, and so are names of tokens.
UniqueNames ==
    \A i, j \in Ids :
        /\ entity[i] # None
        /\ entity[j] # None
        /\ entity[i].kind = entity[j].kind
        /\ entity[i].name = entity[j].name
        => i = j

UniqueLabels == \A k, l \in Live : token[k].name = token[l].name => k = l

\* What a seed has found is there, or was removed since; an id that it read
\* still is that of the user it read, or of none.
SeedKnows(w) ==
    /\ At(w, "reconcile") => job[w].missed \/ Holders("user", job[w].name) # {}
    /\ At(w, "write") =>
         /\ job[w].missed \/ entity[job[w].id] # None
         /\ entity[job[w].id] # None =>
              /\ entity[job[w].id].kind = "user"
              /\ entity[job[w].id].name = job[w].name

\* Who may do something, or is about to, has an authority of the history.
IdentityHeld == {"IDENTITY", "ANY"} \cap ever # {}

AdministratorHeld == "administrator" \in ever

Entitled(w) ==
    /\ At(w, "allowed") /\ job[w].errand.area = "identity" => IdentityHeld
    /\ At(w, "remove") => IdentityHeld
    /\ At(w, "admin") \/ At(w, "revoke") => AdministratorHeld

HeldIsRemembered ==
    /\ \A i \in Users : entity[i].admin => AdministratorHeld
    /\ \A k \in Live : token[k].role \in ever

TablesTyped ==
    /\ entity \in [Ids -> Entity \cup {None}]
    /\ token \in [Keys -> Token \cup {None}]

NInv ==
    /\ DirectoryTypeOK
    /\ UniqueNames
    /\ UniqueLabels
    /\ \A w \in Workers : SeedKnows(w)
    /\ \A w \in Workers : Entitled(w)
    /\ HeldIsRemembered
    /\ AuthorityStartsAtSeed

-----------------------------------------------------------------------------
(***************************************************************************)
(* Operators.                                                              *)
(***************************************************************************)

\* An INSERT succeeds only when its unique name is free, and is refused only
\* when it is not.
LEMMA InsertFree ==
    ASSUME NEW kind, NEW name
    PROVE  /\ Committed \in InsertEnds(kind, name) <=> Holders(kind, name) = {}
           /\ Duplicate \in InsertEnds(kind, name) <=> Holders(kind, name) # {}
BY DEF InsertEnds, CommitEnds, Committed, Duplicate, Swallowed

\* The same for the name of a token.
LEMMA MintFree ==
    ASSUME NEW w \in Workers, Committed \in MintEnds(w)
    PROVE  \A k \in Live : token[k].name # job[w].errand.name
BY DEF MintEnds, CommitEnds, Committed, Duplicate, Swallowed

\* What the history gains is what the tables hold now.
LEMMA Gains ==
    ASSUME Remembers
    PROVE  /\ ever \subseteq ever'
           /\ \A i \in Users' : entity'[i].admin => "administrator" \in ever'
           /\ \A k \in Live' : token'[k].role \in ever'
           /\ \A a \in ever' : \/ a \in ever
                               \/ a = "administrator" /\ \E i \in Users' : entity'[i].admin
                               \/ \E k \in Live' : a = token'[k].role
<1>1. ever' = ever \cup {"administrator" : u \in {u \in UserList' : u.admin}}
                   \cup {t.role : t \in TokenList'}
  BY DEF Remembers, Named!Held
<1>2. UserList' = {[name |-> entity'[i].name, admin |-> entity'[i].admin] : i \in Users'}
  BY DEF UserList
<1>3. TokenList' = {token'[k] : k \in Live'}
  BY DEF TokenList
<1>4. \A i \in Users' : entity'[i].admin => "administrator" \in ever'
  <2>1. SUFFICES ASSUME NEW i \in Users', entity'[i].admin
                 PROVE  "administrator" \in ever'
    OBVIOUS
  <2>2. [name |-> entity'[i].name, admin |-> entity'[i].admin] \in UserList'
    BY <1>2
  <2> QED
    BY <1>1, <2>1, <2>2
<1>5. \A k \in Live' : token'[k].role \in ever'
  BY <1>1, <1>3
<1>6. \A u \in UserList' : u.admin => \E i \in Users' : entity'[i].admin
  BY <1>2
<1> QED
  BY <1>1, <1>3, <1>4, <1>5, <1>6
-----------------------------------------------------------------------------
(***************************************************************************)
(* What every step keeps.                                                  *)
(***************************************************************************)

\* The history is remembered, and it holds what the tables hold.
LEMMA HistoryKeeps ==
    ASSUME NInv, Remembers, TablesTyped'
    PROVE  /\ ever' \subseteq {"administrator"} \cup Roles
           /\ HeldIsRemembered'
           /\ IdentityHeld => IdentityHeld'
           /\ AdministratorHeld => AdministratorHeld'
<1>1. \A k \in Live' : token'[k].role \in Roles
  BY DEF TablesTyped, Live, Token
<1> QED
  BY <1>1, Gains DEF HeldIsRemembered, IdentityHeld, AdministratorHeld, NInv,
     DirectoryTypeOK

\* A worker that does not move keeps what it is entitled to.
LEMMA EntitledStays ==
    ASSUME NEW w \in Workers, Entitled(w), job'[w] = job[w],
           IdentityHeld => IdentityHeld', AdministratorHeld => AdministratorHeld'
    PROVE  Entitled(w)'
BY DEF Entitled, At

\* A step that leaves the tables alone keeps the invariant when the worker that
\* moves knows and may do what its new place says.
LEMMA QuietKeeps ==
    ASSUME NInv, Remembers, UNCHANGED tables,
           NEW w \in Workers, NEW j \in Job \cup {None},
           job' = [job EXCEPT ![w] = j],
           SeedKnows(w)', Entitled(w)'
    PROVE  NInv'
<1> USE DEF NInv, tables
<1>1. job' \in [Workers -> Job \cup {None}]
  BY DEF DirectoryTypeOK
<1>2. /\ ever' \subseteq {"administrator"} \cup Roles
      /\ HeldIsRemembered'
      /\ IdentityHeld => IdentityHeld'
      /\ AdministratorHeld => AdministratorHeld'
  BY HistoryKeeps DEF DirectoryTypeOK, TablesTyped
<1>3. DirectoryTypeOK'
  BY <1>1, <1>2 DEF DirectoryTypeOK
<1>4. UniqueNames' /\ UniqueLabels'
  BY DEF UniqueNames, UniqueLabels, Live
<1>5. ASSUME NEW v \in Workers
      PROVE  SeedKnows(v)' /\ Entitled(v)'
  <2>1. CASE v # w
    <3>1. job'[v] = job[v]
      BY <2>1 DEF DirectoryTypeOK
    <3>2. SeedKnows(v)'
      BY <3>1 DEF SeedKnows, At, Holders
    <3> QED
      BY <1>2, <3>1, <3>2, EntitledStays
  <2> QED
    BY <2>1
<1>6. AuthorityStartsAtSeed'
  BY <1>2 DEF AuthorityStartsAtSeed, Live, Groups, IdentityHeld, AdministratorHeld
<1> QED
  BY <1>2, <1>3, <1>4, <1>5, <1>6

\* A request that ends without a change keeps the invariant.
LEMMA GivesUpKeeps ==
    ASSUME NInv, Remembers, NEW w \in Workers, GivesUp(w)
    PROVE  NInv'
<1>1. /\ job' = [job EXCEPT ![w] = None]
      /\ UNCHANGED tables
      /\ job'[w] = None
  BY DEF GivesUp, Done, NInv, DirectoryTypeOK
<1>2. SeedKnows(w)' /\ Entitled(w)'
  BY <1>1 DEF SeedKnows, Entitled, At
<1> QED
  BY <1>1, <1>2, QuietKeeps
-----------------------------------------------------------------------------
(***************************************************************************)
(* The steps that change no table.                                         *)
(***************************************************************************)

\* A request or a command begins with a credential that the tables hold.
LEMMA StartsKeeps ==
    ASSUME NInv, Remembers, NEW w \in Workers, Starts(w)
    PROVE  NInv'
<1> USE DEF Begins
<1>1. ASSUME NEW k \in Keys, NEW e \in Errand, Validates(w, k, e)
      PROVE  NInv'
  <2> DEFINE j == [at |-> "validated", key |-> k, errand |-> e]
  <2>1. j \in Job
    BY DEF Job
  <2>2. job' = [job EXCEPT ![w] = j] /\ UNCHANGED tables /\ job'[w] = j
    BY <1>1 DEF Validates, NInv, DirectoryTypeOK
  <2>3. SeedKnows(w)' /\ Entitled(w)'
    BY <2>2 DEF SeedKnows, Entitled, At
  <2> QED
    BY <2>1, <2>2, <2>3, QuietKeeps
<1>2. ASSUME NEW e \in AdminErrand, AdminEnters(w, e)
      PROVE  NInv'
  <2> DEFINE j == [at |-> "admin", errand |-> e]
  <2>1. j \in Job
    BY DEF Job
  <2>2. job' = [job EXCEPT ![w] = j] /\ UNCHANGED tables /\ job'[w] = j
    BY <1>2 DEF AdminEnters, NInv, DirectoryTypeOK
  <2>3. AdministratorHeld
    BY <1>2 DEF AdminEnters, Administrators, NInv, HeldIsRemembered
  <2>4. SeedKnows(w)' /\ Entitled(w)'
    BY <2>2, <2>3, Gains DEF SeedKnows, Entitled, At, AdministratorHeld
  <2> QED
    BY <2>1, <2>2, <2>4, QuietKeeps
<1>3. ASSUME NEW n \in Names, NEW flag \in BOOLEAN, SeedStarts(w, n, flag)
      PROVE  NInv'
  <2> DEFINE j == [at |-> "seed", name |-> n, admin |-> flag, missed |-> FALSE]
  <2>1. j \in Job
    BY DEF Job
  <2>2. job' = [job EXCEPT ![w] = j] /\ UNCHANGED tables /\ job'[w] = j
    BY <1>3 DEF SeedStarts, NInv, DirectoryTypeOK
  <2>3. SeedKnows(w)' /\ Entitled(w)'
    BY <2>2 DEF SeedKnows, Entitled, At
  <2> QED
    BY <2>1, <2>2, <2>3, QuietKeeps
<1> QED
  BY <1>1, <1>2, <1>3 DEF Starts

\* A token that is admitted to the directory has a role of the history.
LEMMA TokenAdmitsKeeps ==
    ASSUME NInv, Remembers, NEW w \in Workers, TokenAdmits(w)
    PROVE  NInv'
<1> DEFINE j == [job[w] EXCEPT !.at = "allowed"]
<1>1. /\ job[w] \in [at : {"validated", "allowed"}, key : Keys, errand : Errand]
      /\ Admitted(w)
      /\ Continues(w, j)
  BY DEF TokenAdmits, At, NInv, DirectoryTypeOK, Job
<1>2. j \in [at : {"validated", "allowed"}, key : Keys, errand : Errand]
  BY <1>1
<1>3. j \in Job
  BY <1>2 DEF Job
<1>4. job' = [job EXCEPT ![w] = j] /\ UNCHANGED tables /\ job'[w] = j
  BY <1>1 DEF Continues, NInv, DirectoryTypeOK
<1>5. ASSUME job[w].errand.area = "identity"
      PROVE  IdentityHeld
  <2>1. job[w].key \in Live /\ token[job[w].key].role \in {"ANY", "IDENTITY"}
    BY <1>1, <1>5 DEF Admitted, Live, RolesFor
  <2> QED
    BY <2>1 DEF NInv, HeldIsRemembered, IdentityHeld
<1>6. SeedKnows(w)' /\ Entitled(w)'
  <2>1. j.at = "allowed" /\ j.errand = job[w].errand
    BY <1>1
  <2>2. ever \subseteq ever'
    BY Gains
  <2> QED
    BY <1>4, <1>5, <2>1, <2>2 DEF SeedKnows, Entitled, At, IdentityHeld
<1> QED
  BY <1>3, <1>4, <1>6, QuietKeeps

\* What is read to be removed is a row, under the same authority.
LEMMA RemoveReadsKeeps ==
    ASSUME NInv, Remembers, NEW w \in Workers, NEW i \in Ids, RemoveReads(w, i)
    PROVE  NInv'
<1> DEFINE j == [at |-> "remove", key |-> job[w].key, id |-> i]
<1>1. /\ job[w] \in [at : {"validated", "allowed"}, key : Keys, errand : Errand]
      /\ job[w].errand.do = "remove"
      /\ job[w].errand \in Errand
      /\ Continues(w, j)
      /\ At(w, "allowed")
  BY DEF RemoveReads, Sent, At, NInv, DirectoryTypeOK, Job
<1>2. j \in Job
  BY <1>1 DEF Job
<1>3. job' = [job EXCEPT ![w] = j] /\ UNCHANGED tables /\ job'[w] = j
  BY <1>1 DEF Continues, NInv, DirectoryTypeOK
<1>4. IdentityHeld
  BY <1>1 DEF NInv, Entitled, Errand
<1>5. SeedKnows(w)' /\ Entitled(w)'
  BY <1>3, <1>4, Gains DEF SeedKnows, Entitled, At, IdentityHeld
<1> QED
  BY <1>2, <1>3, <1>5, QuietKeeps

\* The token to be revoked is named under the authority of an administrator.
LEMMA RevokeReadsKeeps ==
    ASSUME NInv, Remembers, NEW w \in Workers, RevokeReads(w)
    PROVE  NInv'
<1> DEFINE j == [at |-> "revoke", key |-> job[w].errand.key]
<1>1. /\ job[w].errand.key \in Live
      /\ Continues(w, j)
      /\ At(w, "admin")
  BY DEF RevokeReads, Ordered
<1>2. j \in Job
  BY <1>1 DEF Job, Live
<1>3. job' = [job EXCEPT ![w] = j] /\ UNCHANGED tables /\ job'[w] = j
  BY <1>1 DEF Continues, NInv, DirectoryTypeOK
<1>4. SeedKnows(w)' /\ Entitled(w)'
  BY <1>1, <1>3, Gains DEF SeedKnows, Entitled, At, AdministratorHeld, NInv
<1> QED
  BY <1>2, <1>3, <1>4, QuietKeeps

\* A seed that was refused has found the user, or it was removed since.
LEMMA SeedFindsKeeps ==
    ASSUME NInv, Remembers, NEW w \in Workers, SeedFinds(w)
    PROVE  NInv'
<1> DEFINE j == [job[w] EXCEPT !.at = "reconcile"]
<1>1. /\ job[w] \in [at : {"seed", "reconcile"}, name : Names, admin : BOOLEAN,
                     missed : BOOLEAN]
      /\ Holders("user", job[w].name) # {}
      /\ Continues(w, j)
  BY InsertFree DEF SeedFinds, At, NInv, DirectoryTypeOK, Job
<1>2. j \in [at : {"seed", "reconcile"}, name : Names, admin : BOOLEAN,
             missed : BOOLEAN]
  BY <1>1
<1>3. j \in Job
  BY <1>2 DEF Job
<1>4. job' = [job EXCEPT ![w] = j] /\ UNCHANGED tables /\ job'[w] = j
  BY <1>1 DEF Continues, NInv, DirectoryTypeOK
<1>5. j.at = "reconcile" /\ j.name = job[w].name
  BY <1>1
<1>6. Holders("user", j.name)' # {}
  BY <1>1, <1>4, <1>5 DEF Holders, tables
<1>7. SeedKnows(w)' /\ Entitled(w)'
  BY <1>4, <1>5, <1>6 DEF SeedKnows, Entitled, At, Holders
<1> QED
  BY <1>3, <1>4, <1>7, QuietKeeps

\* The id that a seed reads is that of its user.
LEMMA SeedReadsKeeps ==
    ASSUME NInv, Remembers, NEW w \in Workers, NEW i \in Ids, SeedReads(w, i)
    PROVE  NInv'
<1> DEFINE j == [at |-> "write", name |-> job[w].name, admin |-> job[w].admin,
                 missed |-> job[w].missed, id |-> i]
<1>1. /\ job[w] \in [at : {"seed", "reconcile"}, name : Names, admin : BOOLEAN,
                     missed : BOOLEAN]
      /\ entity[i] # None /\ entity[i].kind = "user" /\ entity[i].name = job[w].name
      /\ Continues(w, j)
  BY DEF SeedReads, At, NInv, DirectoryTypeOK, Job, Holders
<1>2. j \in Job
  BY <1>1 DEF Job
<1>3. job' = [job EXCEPT ![w] = j] /\ UNCHANGED tables /\ job'[w] = j
  BY <1>1 DEF Continues, NInv, DirectoryTypeOK
<1>4. SeedKnows(w)' /\ Entitled(w)'
  BY <1>1, <1>3 DEF SeedKnows, Entitled, At, tables
<1> QED
  BY <1>2, <1>3, <1>4, QuietKeeps

-----------------------------------------------------------------------------
(***************************************************************************)
(* The steps that change a table.                                          *)
(***************************************************************************)

\* Such a step keeps the invariant when it keeps what is unique and what seeds
\* know, and adds groups and tokens only under an authority.
LEMMA WriteKeeps ==
    ASSUME NInv, Remembers, TablesTyped', UniqueNames', UniqueLabels',
           job' \in [Workers -> Job \cup {None}],
           \A v \in Workers : SeedKnows(v)',
           \A v \in Workers :
             \/ job'[v] = job[v]
             \/ job'[v] = None
             \/ job'[v] # None /\ job'[v].at \in {"seed", "reconcile", "write"},
           (Live' \subseteq Live) \/ AdministratorHeld,
           (Groups' \subseteq Groups) \/ IdentityHeld
    PROVE  NInv'
<1>1. /\ ever' \subseteq {"administrator"} \cup Roles
      /\ HeldIsRemembered'
      /\ IdentityHeld => IdentityHeld'
      /\ AdministratorHeld => AdministratorHeld'
  BY HistoryKeeps
<1>2. DirectoryTypeOK'
  BY <1>1 DEF DirectoryTypeOK, TablesTyped
<1>3. ASSUME NEW v \in Workers
      PROVE  Entitled(v)'
  <2>1. CASE job'[v] = job[v]
    BY <1>1, <2>1, EntitledStays DEF NInv
  <2>2. CASE job'[v] = None
    BY <2>2 DEF Entitled, At
  <2>3. CASE job'[v] # None /\ job'[v].at \in {"seed", "reconcile", "write"}
    BY <2>3 DEF Entitled, At
  <2> QED
    BY <2>1, <2>2, <2>3
<1>4. AuthorityStartsAtSeed'
  <2>1. AuthorityStartsAtSeed
    BY DEF NInv
  <2>2. Live' # {} => AdministratorHeld
    BY <2>1 DEF AuthorityStartsAtSeed, AdministratorHeld
  <2>3. Groups' # {} => IdentityHeld
    BY <2>1 DEF AuthorityStartsAtSeed, IdentityHeld
  <2> QED
    BY <1>1, <2>2, <2>3 DEF AuthorityStartsAtSeed, AdministratorHeld, IdentityHeld
<1> QED
  BY <1>1, <1>2, <1>3, <1>4 DEF NInv

\* The tables hold rows whose fields have their types.
LEMMA RowTyped ==
    ASSUME NInv
    PROVE  /\ \A i \in Ids : entity[i] # None => entity[i] \in Entity
           /\ \A k \in Keys : token[k] # None => token[k] \in Token
           /\ None \notin Entity /\ None \notin Token /\ None \notin Job
BY DirectoryAssumption DEF NInv, DirectoryTypeOK

\* A new entity under a fresh id and an unused name.
LEMMA InsertKeeps ==
    ASSUME NInv, Remembers, NEW w \in Workers, NEW i \in Ids, NEW r \in Entity,
           Holders(r.kind, r.name) = {}, FreshId(i),
           entity' = [entity EXCEPT ![i] = r], Done(w), UNCHANGED token,
           r.kind = "group" => IdentityHeld
    PROVE  NInv'
<1>1. /\ entity \in [Ids -> Entity \cup {None}]
      /\ token \in [Keys -> Token \cup {None}]
      /\ job \in [Workers -> Job \cup {None}]
      /\ r # None
  BY RowTyped DEF NInv, DirectoryTypeOK
<1>2. /\ entity'[i] = r
      /\ \A h \in Ids : h # i => entity'[h] = entity[h]
      /\ entity[i] = None
  BY <1>1 DEF FreshId
<1>3. /\ job'[w] = None
      /\ \A v \in Workers : v # w => job'[v] = job[v]
      /\ job' \in [Workers -> Job \cup {None}]
  BY <1>1 DEF Done
<1>4. TablesTyped'
  BY <1>1 DEF TablesTyped
<1>5. UniqueNames'
  <2>1. UniqueNames
    BY DEF NInv
  <2>2. \A h \in Ids : entity[h] # None => entity[h].kind # r.kind \/ entity[h].name # r.name
    BY DEF Holders
  <2> QED
    BY <1>2, <2>1, <2>2 DEF UniqueNames
<1>6. UniqueLabels'
  BY DEF NInv, UniqueLabels, Live
<1>7. ASSUME NEW v \in Workers
      PROVE  SeedKnows(v)'
  <2>1. CASE v = w
    BY <1>3, <2>1 DEF SeedKnows, At
  <2>2. CASE v # w
    <3>1. job'[v] = job[v] /\ SeedKnows(v)
      BY <1>3, <2>2 DEF NInv
    <3>2. At(v, "reconcile") => job[v].missed \/ Holders("user", job[v].name)' # {}
      BY <1>2, <3>1 DEF SeedKnows, Holders
    <3>3. At(v, "write") => entity'[job[v].id] = entity[job[v].id]
      <4>1. SUFFICES ASSUME At(v, "write")
                     PROVE  entity'[job[v].id] = entity[job[v].id]
        OBVIOUS
      <4>2. job[v].id \in Ids
        BY <1>1, <4>1 DEF At, Job
      <4>3. job[v].id # i
        BY <4>1 DEF FreshId
      <4> QED
        BY <1>2, <4>2, <4>3
    <3> QED
      BY <3>1, <3>2, <3>3 DEF SeedKnows, At, Holders
  <2> QED
    BY <2>1, <2>2
<1>8. Live' \subseteq Live
  BY DEF Live
<1>9. (Groups' \subseteq Groups) \/ IdentityHeld
  BY <1>2 DEF Groups
<1> QED
  BY <1>3, <1>4, <1>5, <1>6, <1>7, <1>8, <1>9, WriteKeeps

\* A user or a group is created under the authority of an operator.
LEMMA CreateCommitsKeeps ==
    ASSUME NInv, Remembers, NEW w \in Workers, NEW i \in Ids, CreateCommits(w, i)
    PROVE  NInv'
<1> DEFINE e == job[w].errand
           r == Created(e)
<1>1. /\ e \in Errand /\ e.do = "create" /\ At(w, "allowed")
      /\ Holders(e.kind, e.name) = {}
      /\ FreshId(i) /\ entity' = [entity EXCEPT ![i] = r] /\ Done(w) /\ UNCHANGED token
  BY InsertFree DEF CreateCommits, Sent, At, NInv, DirectoryTypeOK, Job
<1>2. e \in [do : {"create", "remove"}, area : {"identity"}, kind : Kinds, name : Names]
  BY <1>1 DEF Errand
<1>3. r \in Entity /\ r.kind = e.kind /\ r.name = e.name
  BY <1>2 DEF Created, Entity
<1>4. IdentityHeld
  BY <1>1, <1>2 DEF NInv, Entitled
<1> HIDE DEF e, r
<1> QED
  BY <1>1, <1>3, <1>4, InsertKeeps

\* A seed makes a user, whom nobody needs to allow.
LEMMA SeedCreatesKeeps ==
    ASSUME NInv, Remembers, NEW w \in Workers, NEW i \in Ids, SeedCreates(w, i)
    PROVE  NInv'
<1> DEFINE r == [kind |-> "user", name |-> job[w].name, admin |-> job[w].admin]
<1>1. /\ job[w] \in [at : {"seed", "reconcile"}, name : Names, admin : BOOLEAN,
                     missed : BOOLEAN]
      /\ Holders("user", job[w].name) = {}
      /\ FreshId(i) /\ entity' = [entity EXCEPT ![i] = r] /\ Done(w) /\ UNCHANGED token
  BY InsertFree DEF SeedCreates, At, NInv, DirectoryTypeOK, Job
<1>2. r \in Entity /\ r.kind = "user" /\ r.name = job[w].name
  BY <1>1 DEF Entity, Kinds
<1> HIDE DEF r
<1> QED
  BY <1>1, <1>2, InsertKeeps

\* A removal of an entity: the seeds of its user have missed it.
LEMMA RemoveCommitsKeeps ==
    ASSUME NInv, Remembers, NEW w \in Workers, RemoveCommits(w)
    PROVE  NInv'
<1> DEFINE gone == job[w].id
<1>1. /\ entity \in [Ids -> Entity \cup {None}]
      /\ token \in [Keys -> Token \cup {None}]
      /\ job \in [Workers -> Job \cup {None}]
      /\ gone \in Ids
      /\ entity' = [entity EXCEPT ![gone] = None]
      /\ job' = [Missing(gone) EXCEPT ![w] = None]
      /\ token' = token
  BY DEF RemoveCommits, At, NInv, DirectoryTypeOK, Job
<1> HIDE DEF gone
<1>2. /\ entity'[gone] = None
      /\ \A h \in Ids : h # gone => entity'[h] = entity[h]
  BY <1>1
<1>3. /\ job'[w] = None
      /\ \A v \in Workers : v # w => job'[v] = Missing(gone)[v]
      /\ DOMAIN job' = Workers
  BY <1>1 DEF Missing
<1>4. ASSUME NEW v \in Workers, v # w
      PROVE  \/ job'[v] = job[v]
             \/ /\ job[v] # None
                /\ job[v].at \in {"seed", "reconcile", "write"}
                /\ job'[v] = [job[v] EXCEPT !.missed = TRUE]
  BY <1>3, <1>4 DEF Missing, At
<1>5. ASSUME NEW v \in Workers, job[v] # None,
             job[v].at \in {"seed", "reconcile", "write"},
             job'[v] = [job[v] EXCEPT !.missed = TRUE]
      PROVE  /\ job'[v] \in Job
             /\ job'[v] # None
             /\ job'[v].at = job[v].at
             /\ job'[v].missed
  <2>1. CASE job[v].at = "write"
    <3>1. job[v] \in [at : {"write"}, name : Names, admin : BOOLEAN, missed : BOOLEAN,
                      id : Ids]
      BY <1>1, <1>5, <2>1 DEF Job
    <3>2. job'[v] \in [at : {"write"}, name : Names, admin : BOOLEAN, missed : BOOLEAN,
                       id : Ids]
      BY <1>5, <3>1
    <3>3. job'[v].at = job[v].at /\ job'[v].missed
      BY <1>5, <3>1
    <3> QED
      BY <3>2, <3>3, RowTyped DEF Job
  <2>2. CASE job[v].at \in {"seed", "reconcile"}
    <3>1. job[v] \in [at : {"seed", "reconcile"}, name : Names, admin : BOOLEAN,
                      missed : BOOLEAN]
      BY <1>1, <1>5, <2>2 DEF Job
    <3>2. job'[v] \in [at : {"seed", "reconcile"}, name : Names, admin : BOOLEAN,
                       missed : BOOLEAN]
      BY <1>5, <3>1
    <3>3. job'[v].at = job[v].at /\ job'[v].missed
      BY <1>5, <3>1
    <3> QED
      BY <3>2, <3>3, RowTyped DEF Job
  <2> QED
    BY <1>5, <2>1, <2>2
<1>6. job' \in [Workers -> Job \cup {None}]
  <2>1. \A v \in Workers : job'[v] \in Job \cup {None}
    BY <1>1, <1>3, <1>4, <1>5
  <2> QED
    BY <1>1, <1>3, <2>1
<1>7. \A v \in Workers :
        \/ job'[v] = job[v]
        \/ job'[v] = None
        \/ job'[v] # None /\ job'[v].at \in {"seed", "reconcile", "write"}
  BY <1>3, <1>4, <1>5
<1>8. ASSUME NEW v \in Workers
      PROVE  SeedKnows(v)'
  <2>1. CASE job'[v] = None
    BY <2>1 DEF SeedKnows, At
  <2>2. CASE v # w /\ job'[v] = job[v]
    <3>1. SeedKnows(v)
      BY DEF NInv
    <3>2. ASSUME At(v, "reconcile"), ~job[v].missed
          PROVE  Holders("user", job[v].name)' # {}
      <4>1. PICK h \in Ids : /\ entity[h] # None
                             /\ entity[h].kind = "user"
                             /\ entity[h].name = job[v].name
        BY <3>1, <3>2 DEF SeedKnows, Holders
      <4>2. h # gone
        <5>1. SUFFICES ASSUME h = gone PROVE FALSE
          OBVIOUS
        <5>2. Missing(gone)[v] = [job[v] EXCEPT !.missed = TRUE]
          BY <3>2, <4>1, <5>1 DEF Missing
        <5>3. job[v] # None /\ job[v].at = "reconcile"
          BY <3>2 DEF At
        <5> QED
          BY <1>3, <1>5, <2>2, <3>2, <5>2, <5>3
      <4>3. h \in Holders("user", job[v].name)'
        BY <1>2, <2>2, <4>1, <4>2 DEF Holders
      <4> QED
        BY <4>3
    <3>3. ASSUME At(v, "write"), ~job[v].missed
          PROVE  job[v].id # gone
      <4>1. SUFFICES ASSUME job[v].id = gone PROVE FALSE
        OBVIOUS
      <4>2. /\ entity[gone] # None
            /\ entity[gone].kind = "user"
            /\ entity[gone].name = job[v].name
        BY <3>1, <3>3, <4>1 DEF SeedKnows
      <4>3. Missing(gone)[v] = [job[v] EXCEPT !.missed = TRUE]
        BY <3>3, <4>2 DEF Missing
      <4>4. job[v] # None /\ job[v].at = "write"
        BY <3>3 DEF At
      <4> QED
        BY <1>3, <1>5, <2>2, <3>3, <4>3, <4>4
    <3>4. At(v, "write") => job[v].id \in Ids
      BY <1>1 DEF At, Job
    <3>5. /\ At(v, "reconcile")' <=> At(v, "reconcile")
          /\ At(v, "write")' <=> At(v, "write")
      BY <2>2 DEF At
    <3>6. At(v, "write") => \/ entity'[job[v].id] = None
                            \/ entity'[job[v].id] = entity[job[v].id]
      BY <1>2, <3>4
    <3>7. At(v, "write") => job[v].missed \/ entity'[job[v].id] # None
      BY <1>2, <3>1, <3>3, <3>4 DEF SeedKnows
    <3>8. At(v, "reconcile") => job[v].missed \/ Holders("user", job[v].name)' # {}
      BY <3>2
    <3> QED
      BY <2>2, <3>1, <3>5, <3>6, <3>7, <3>8 DEF SeedKnows, Holders
  <2>3. CASE /\ v # w
             /\ job[v] # None
             /\ job[v].at \in {"seed", "reconcile", "write"}
             /\ job'[v] = [job[v] EXCEPT !.missed = TRUE]
    <3>1. job'[v].missed /\ job'[v].at = job[v].at /\ job'[v] # None
      BY <1>5, <2>3
    <3>2. ASSUME job[v].at = "write"
          PROVE  /\ job[v].id \in Ids
                 /\ job'[v].id = job[v].id
                 /\ job'[v].name = job[v].name
      <4>1. job[v] \in [at : {"write"}, name : Names, admin : BOOLEAN,
                        missed : BOOLEAN, id : Ids]
        BY <1>1, <2>3, <3>2 DEF Job
      <4> QED
        BY <2>3, <4>1
    <3>3. ASSUME job[v].at = "write", entity'[job[v].id] # None
          PROVE  /\ entity'[job[v].id].kind = "user"
                 /\ entity'[job[v].id].name = job[v].name
      <4>1. entity'[job[v].id] = entity[job[v].id]
        BY <1>2, <3>2, <3>3
      <4>2. SeedKnows(v)
        BY DEF NInv
      <4> QED
        BY <2>3, <3>3, <4>1, <4>2 DEF SeedKnows, At
    <3> QED
      BY <3>1, <3>2, <3>3 DEF SeedKnows, At
  <2> QED
    BY <1>3, <1>4, <2>1, <2>2, <2>3
<1>9. TablesTyped'
  BY <1>1 DEF TablesTyped
<1>10. UniqueNames'
  <2>1. UniqueNames
    BY DEF NInv
  <2> QED
    BY <1>2, <2>1 DEF UniqueNames
<1>11. UniqueLabels' /\ (Live' \subseteq Live) /\ (Groups' \subseteq Groups)
  BY <1>1, <1>2 DEF NInv, UniqueLabels, Live, Groups
<1> QED
  BY <1>6, <1>7, <1>8, <1>9, <1>10, <1>11, WriteKeeps

\* A worker that is done leaves the others as they were.
LEMMA DoneLeaves ==
    ASSUME NInv, NEW w \in Workers, Done(w)
    PROVE  /\ job' \in [Workers -> Job \cup {None}]
           /\ job'[w] = None
           /\ \A v \in Workers : v # w => job'[v] = job[v]
BY DEF Done, NInv, DirectoryTypeOK

\* A token is made under the authority of an administrator.
LEMMA MintCommitsKeeps ==
    ASSUME NInv, Remembers, NEW w \in Workers, NEW k \in Keys, MintCommits(w, k)
    PROVE  NInv'
<1> DEFINE e == job[w].errand
           r == Minted(e)
<1>1. /\ e \in AdminErrand /\ e.do = "mint" /\ At(w, "admin")
      /\ FreshKey(k) /\ token' = [token EXCEPT ![k] = r] /\ Done(w) /\ UNCHANGED entity
  BY DEF MintCommits, Ordered, At, NInv, DirectoryTypeOK, Job
<1>2. e \in [do : {"mint"}, name : Labels, role : Roles]
  BY <1>1 DEF AdminErrand
<1>3. r \in Token /\ r.name = e.name /\ r # None
  BY <1>2, RowTyped DEF Minted, Token
<1>4. \A l \in Live : token[l].name # r.name
  BY <1>3, MintFree DEF MintCommits
<1>5. AdministratorHeld
  BY <1>1 DEF NInv, Entitled
<1> HIDE DEF e, r
<1>6. /\ entity' = entity /\ entity \in [Ids -> Entity \cup {None}]
      /\ token \in [Keys -> Token \cup {None}]
      /\ token'[k] = r
      /\ \A l \in Keys : l # k => token'[l] = token[l]
  BY <1>1 DEF NInv, DirectoryTypeOK
<1>7. TablesTyped'
  BY <1>1, <1>3, <1>6 DEF TablesTyped
<1>8. UniqueNames' /\ (Groups' \subseteq Groups)
  BY <1>6 DEF NInv, UniqueNames, Groups
<1>9. UniqueLabels'
  <2>1. UniqueLabels
    BY DEF NInv
  <2> QED
    BY <1>4, <1>6, <2>1 DEF UniqueLabels, Live
<1>10. ASSUME NEW v \in Workers
       PROVE  SeedKnows(v)'
  <2>1. CASE v = w
    BY <1>1, <2>1, DoneLeaves DEF SeedKnows, At
  <2>2. CASE v # w
    <3>1. job'[v] = job[v] /\ SeedKnows(v)
      BY <1>1, <2>2, DoneLeaves DEF NInv
    <3> QED
      BY <1>6, <3>1 DEF SeedKnows, At, Holders
  <2> QED
    BY <2>1, <2>2
<1> QED
  BY <1>1, <1>5, <1>7, <1>8, <1>9, <1>10, DoneLeaves, WriteKeeps

\* A token is removed.
LEMMA RevokeCommitsKeeps ==
    ASSUME NInv, Remembers, NEW w \in Workers, RevokeCommits(w)
    PROVE  NInv'
<1> DEFINE k == job[w].key
<1>1. /\ k \in Keys
      /\ token' = [token EXCEPT ![k] = None] /\ Done(w) /\ UNCHANGED entity
  BY DEF RevokeCommits, At, NInv, DirectoryTypeOK, Job
<1> HIDE DEF k
<1>2. /\ entity' = entity /\ entity \in [Ids -> Entity \cup {None}]
      /\ token \in [Keys -> Token \cup {None}]
      /\ token'[k] = None
      /\ \A l \in Keys : l # k => token'[l] = token[l]
  BY <1>1 DEF NInv, DirectoryTypeOK
<1>3. TablesTyped'
  BY <1>1, <1>2 DEF TablesTyped
<1>4. UniqueNames' /\ (Groups' \subseteq Groups) /\ (Live' \subseteq Live)
  BY <1>2 DEF NInv, UniqueNames, Groups, Live
<1>5. UniqueLabels'
  <2>1. UniqueLabels
    BY DEF NInv
  <2> QED
    BY <1>2, <2>1 DEF UniqueLabels, Live
<1>6. ASSUME NEW v \in Workers
      PROVE  SeedKnows(v)'
  <2>1. CASE v = w
    BY <1>1, <2>1, DoneLeaves DEF SeedKnows, At
  <2>2. CASE v # w
    <3>1. job'[v] = job[v] /\ SeedKnows(v)
      BY <1>1, <2>2, DoneLeaves DEF NInv
    <3> QED
      BY <1>2, <3>1 DEF SeedKnows, At, Holders
  <2> QED
    BY <2>1, <2>2
<1> QED
  BY <1>1, <1>3, <1>4, <1>5, <1>6, DoneLeaves, WriteKeeps

\* A seed writes the flag of the user it found, and its name and kind stay.
LEMMA SeedWritesKeeps ==
    ASSUME NInv, Remembers, NEW w \in Workers, SeedWrites(w)
    PROVE  NInv'
<1> DEFINE i == job[w].id
           r == [entity[i] EXCEPT !.admin = job[w].admin]
<1>1. /\ job[w] \in [at : {"write"}, name : Names, admin : BOOLEAN, missed : BOOLEAN,
                     id : Ids]
      /\ entity[i] # None /\ Done(w) /\ UNCHANGED token
      /\ entity' = [entity EXCEPT ![i] = r]
  BY DEF SeedWrites, Matched, At, NInv, DirectoryTypeOK, Job
<1>2. i \in Ids /\ entity[i] \in Entity
  BY <1>1, RowTyped
<1>3. /\ r \in Entity /\ r.kind = entity[i].kind /\ r.name = entity[i].name
  BY <1>1, <1>2 DEF Entity
<1> HIDE DEF i, r
<1>4. /\ entity \in [Ids -> Entity \cup {None}]
      /\ token' = token /\ token \in [Keys -> Token \cup {None}]
      /\ entity'[i] = r /\ r # None
      /\ \A h \in Ids : h # i => entity'[h] = entity[h]
  BY <1>1, <1>2, <1>3, RowTyped DEF NInv, DirectoryTypeOK
<1>5. \A h \in Ids : /\ entity'[h] # None <=> entity[h] # None
                     /\ entity[h] # None => /\ entity'[h].kind = entity[h].kind
                                            /\ entity'[h].name = entity[h].name
  BY <1>1, <1>3, <1>4
<1>6. TablesTyped'
  BY <1>1, <1>3, <1>4 DEF TablesTyped
<1>7. UniqueNames'
  <2>1. UniqueNames
    BY DEF NInv
  <2> QED
    BY <1>5, <2>1 DEF UniqueNames
<1>8. UniqueLabels' /\ (Groups' \subseteq Groups) /\ (Live' \subseteq Live)
  BY <1>4, <1>5 DEF NInv, UniqueLabels, Groups, Live
<1>9. ASSUME NEW v \in Workers
      PROVE  SeedKnows(v)'
  <2>1. CASE v = w
    BY <1>1, <2>1, DoneLeaves DEF SeedKnows, At
  <2>2. CASE v # w
    <3>1. job'[v] = job[v] /\ SeedKnows(v)
      BY <1>1, <2>2, DoneLeaves DEF NInv
    <3>2. Holders("user", job[v].name)' = Holders("user", job[v].name)
      BY <1>5, <3>1 DEF Holders
    <3>3. At(v, "write") => job[v].id \in Ids
      BY DEF At, Job, NInv, DirectoryTypeOK
    <3>4. /\ At(v, "reconcile")' <=> At(v, "reconcile")
          /\ At(v, "write")' <=> At(v, "write")
      BY <3>1 DEF At
    <3> QED
      BY <1>5, <3>1, <3>2, <3>3, <3>4 DEF SeedKnows
  <2> QED
    BY <2>1, <2>2
<1> QED
  BY <1>1, <1>6, <1>7, <1>8, <1>9, DoneLeaves, WriteKeeps

-----------------------------------------------------------------------------
(***************************************************************************)
(* The invariant.                                                          *)
(***************************************************************************)

\* The empty directory has it.
LEMMA InitHolds == Init => NInv
BY DEF Init, NInv, DirectoryTypeOK, UniqueNames, UniqueLabels, SeedKnows, Entitled,
   HeldIsRemembered, AuthorityStartsAtSeed, At, Users, Groups, Live

\* Every step keeps it.
LEMMA NextKeeps == NInv /\ [Next]_vars => NInv'
<1>1. ASSUME NInv, Next
      PROVE  NInv'
  <2>1. PICK w \in Workers : Remembers /\ (Starts(w) \/ Crashes(w) \/ WithToken(w)
                                             \/ AsAdministrator(w) \/ Seeding(w))
    BY <1>1 DEF Next, Proceeds
  <2>2. CASE Starts(w)
    BY <1>1, <2>1, <2>2, StartsKeeps
  <2>3. CASE Crashes(w)
    BY <1>1, <2>1, <2>3, GivesUpKeeps DEF Crashes
  <2>4. CASE WithToken(w)
    <3>1. CASE TokenAdmits(w)
      BY <1>1, <2>1, <3>1, TokenAdmitsKeeps
    <3>2. CASE \/ TokenRefuses(w) \/ ActsElsewhere(w) \/ CreateFails(w)
               \/ RemoveMisses(w) \/ RemoveFails(w)
      BY <1>1, <2>1, <3>2, GivesUpKeeps
         DEF TokenRefuses, ActsElsewhere, CreateFails, RemoveMisses, RemoveFails
    <3>3. ASSUME NEW i \in Ids, CreateCommits(w, i) \/ RemoveReads(w, i)
          PROVE  NInv'
      BY <1>1, <2>1, <3>3, CreateCommitsKeeps, RemoveReadsKeeps
    <3>4. CASE RemoveCommits(w)
      BY <1>1, <2>1, <3>4, RemoveCommitsKeeps
    <3> QED
      BY <2>4, <3>1, <3>2, <3>3, <3>4 DEF WithToken
  <2>5. CASE AsAdministrator(w)
    <3>1. ASSUME NEW k \in Keys, MintCommits(w, k)
          PROVE  NInv'
      BY <1>1, <2>1, <3>1, MintCommitsKeeps
    <3>2. CASE MintFails(w) \/ RevokeMisses(w) \/ GrantRaises(w)
      BY <1>1, <2>1, <3>2, GivesUpKeeps DEF MintFails, RevokeMisses, GrantRaises
    <3>3. CASE RevokeReads(w)
      BY <1>1, <2>1, <3>3, RevokeReadsKeeps
    <3>4. CASE RevokeCommits(w)
      BY <1>1, <2>1, <3>4, RevokeCommitsKeeps
    <3> QED
      BY <2>5, <3>1, <3>2, <3>3, <3>4 DEF AsAdministrator
  <2>6. CASE Seeding(w)
    <3>1. ASSUME NEW i \in Ids, SeedCreates(w, i) \/ SeedReads(w, i)
          PROVE  NInv'
      BY <1>1, <2>1, <3>1, SeedCreatesKeeps, SeedReadsKeeps
    <3>2. CASE SeedFinds(w)
      BY <1>1, <2>1, <3>2, SeedFindsKeeps
    <3>3. CASE SeedMisses(w) \/ SeedKeeps(w) \/ SeedLoses(w)
      BY <1>1, <2>1, <3>3, GivesUpKeeps DEF SeedMisses, SeedKeeps, SeedLoses
    <3>4. CASE SeedWrites(w)
      BY <1>1, <2>1, <3>4, SeedWritesKeeps
    <3> QED
      BY <2>6, <3>1, <3>2, <3>3, <3>4 DEF Seeding
  <2> QED
    BY <2>1, <2>2, <2>3, <2>4, <2>5, <2>6
<1>2. ASSUME NInv, UNCHANGED vars
      PROVE  NInv'
  BY <1>2 DEF NInv, vars, DirectoryTypeOK, UniqueNames, UniqueLabels, SeedKnows,
     Entitled, HeldIsRemembered, AuthorityStartsAtSeed, At, Users, Groups, Live,
     Holders, IdentityHeld, AdministratorHeld
<1> QED
  BY <1>1, <1>2

\* It always holds.
THEOREM Invariance == Spec => []NInv
<1> QED
  BY InitHolds, NextKeeps, PTL DEF Spec

\* Every variable keeps its type.
THEOREM DirectoryTypes == Spec => []DirectoryTypeOK
<1>1. NInv => DirectoryTypeOK
  BY DEF NInv
<1> QED
  BY <1>1, Invariance, PTL

\* Every authority can be traced to a seed.
THEOREM AuthorityChain == Spec => []AuthorityStartsAtSeed
<1>1. NInv => AuthorityStartsAtSeed
  BY DEF NInv
<1> QED
  BY <1>1, Invariance, PTL

\* A seed fails only when its user was removed while it ran.
THEOREM SeedsSafe == Spec => SeedsAreSafe
<1>1. NInv => \A w \in Workers : SeedMisses(w) \/ SeedLoses(w) => job[w].missed
  BY DEF NInv, SeedKnows, SeedMisses, SeedLoses, Matched
<1>2. NInv /\ [Next]_vars =>
        [\A w \in Workers : SeedMisses(w) \/ SeedLoses(w) => job[w].missed]_vars
  BY <1>1
<1> QED
  BY <1>2, Invariance, PTL DEF Spec, SeedsAreSafe

\* A seed that ends well leaves its user with its flag.
THEOREM SeedEffect == Spec => SeedTakesEffect
<1>1. ASSUME NInv, NEW w \in Workers,
             \/ SeedKeeps(w)
             \/ SeedWrites(w)
             \/ \E i \in Ids : SeedCreates(w, i)
      PROVE  [name |-> job[w].name, admin |-> job[w].admin] \in UserList'
  <2>1. entity \in [Ids -> Entity \cup {None}]
    BY <1>1 DEF NInv, DirectoryTypeOK
  <2>2. CASE SeedKeeps(w)
    <3>1. PICK i \in Ids : /\ entity[i] # None /\ entity[i].kind = "user"
                           /\ entity[i].name = job[w].name
                           /\ entity[i].admin = job[w].admin
      BY <2>2 DEF SeedKeeps, Holders
    <3>2. entity' = entity
      BY <2>2 DEF SeedKeeps, GivesUp, tables
    <3> QED
      BY <3>1, <3>2 DEF UserList, Users
  <2>3. CASE SeedWrites(w)
    <3> DEFINE i == job[w].id
               r == [entity[i] EXCEPT !.admin = job[w].admin]
    <3>1. /\ job[w] \in [at : {"write"}, name : Names, admin : BOOLEAN,
                         missed : BOOLEAN, id : Ids]
          /\ entity[i] # None
          /\ entity' = [entity EXCEPT ![i] = r]
      BY <1>1, <2>3 DEF SeedWrites, Matched, At, NInv, DirectoryTypeOK, Job
    <3>2. i \in Ids /\ entity[i] \in Entity
      BY <1>1, <3>1, RowTyped
    <3>3. entity[i].kind = "user" /\ entity[i].name = job[w].name
      BY <1>1, <2>3, <3>1 DEF NInv, SeedKnows, SeedWrites
    <3>4. /\ r.kind = "user" /\ r.name = job[w].name /\ r.admin = job[w].admin
          /\ r \in Entity
      BY <3>1, <3>2, <3>3 DEF Entity
    <3> HIDE DEF i, r
    <3>5. entity'[i] = r /\ r # None
      BY <1>1, <2>1, <3>1, <3>2, <3>4, RowTyped
    <3> QED
      BY <3>2, <3>4, <3>5 DEF UserList, Users
  <2>4. ASSUME NEW i \in Ids, SeedCreates(w, i)
        PROVE  [name |-> job[w].name, admin |-> job[w].admin] \in UserList'
    <3> DEFINE r == [kind |-> "user", name |-> job[w].name, admin |-> job[w].admin]
    <3>1. /\ job[w] \in [at : {"seed", "reconcile"}, name : Names, admin : BOOLEAN,
                         missed : BOOLEAN]
          /\ entity' = [entity EXCEPT ![i] = r]
      BY <1>1, <2>4 DEF SeedCreates, At, NInv, DirectoryTypeOK, Job
    <3>2. /\ r \in Entity
          /\ r.kind = "user" /\ r.name = job[w].name /\ r.admin = job[w].admin
      BY <3>1 DEF Entity, Kinds
    <3> HIDE DEF r
    <3>3. entity'[i] = r /\ r # None
      BY <1>1, <2>1, <3>1, <3>2, RowTyped
    <3> QED
      BY <3>2, <3>3 DEF UserList, Users
  <2> QED
    BY <1>1, <2>2, <2>3, <2>4
<1>2. NInv /\ [Next]_vars =>
        [\A w \in Workers :
           \/ SeedKeeps(w)
           \/ SeedWrites(w)
           \/ \E i \in Ids : SeedCreates(w, i)
           => [name |-> job[w].name, admin |-> job[w].admin] \in UserList']_vars
  BY <1>1
<1> QED
  BY <1>2, Invariance, PTL DEF Spec, SeedTakesEffect

-----------------------------------------------------------------------------
(***************************************************************************)
(* The directory implements NamedDirectory.                                *)
(***************************************************************************)

\* Users alone are in the list of users, groups in that of groups.
LEMMA ViewsFollow ==
    /\ UNCHANGED entity => UNCHANGED UserList /\ UNCHANGED GroupList
    /\ UNCHANGED token => UNCHANGED TokenList
BY DEF UserList, GroupList, TokenList, Users, Groups, Live

\* A step that changes no table is none of the abstract directory: the history
\* holds what the tables hold.
LEMMA QuietStutters ==
    ASSUME NInv, Remembers, UNCHANGED tables
    PROVE  UNCHANGED Named!namedVars
<1>1. UNCHANGED UserList /\ UNCHANGED GroupList /\ UNCHANGED TokenList
  BY ViewsFollow DEF tables
<1>2. ever' = ever
  BY Gains DEF tables, Users, Live, NInv, HeldIsRemembered, AdministratorHeld
<1> QED
  BY <1>1, <1>2 DEF Named!namedVars

\* A row that appears is in the list of its kind.
LEMMA InsertViews ==
    ASSUME NInv, NEW i \in Ids, NEW r \in Entity, entity[i] = None,
           entity' = [entity EXCEPT ![i] = r]
    PROVE  /\ r.kind = "user" =>
                /\ UserList' = UserList \cup {[name |-> r.name, admin |-> r.admin]}
                /\ GroupList' = GroupList
           /\ r.kind = "group" =>
                /\ UserList' = UserList
                /\ GroupList' = GroupList \cup {r.name}
<1>1. entity \in [Ids -> Entity \cup {None}] /\ r # None
  BY RowTyped DEF NInv, DirectoryTypeOK
<1>2. entity'[i] = r /\ \A h \in Ids : h # i => entity'[h] = entity[h]
  BY <1>1
<1>3. CASE r.kind = "user"
  <2>1. Users' = Users \cup {i} /\ Groups' = Groups /\ i \notin Users
    BY <1>1, <1>2, <1>3 DEF Users, Groups
  <2>2. GroupList' = GroupList
    BY <1>2, <2>1 DEF GroupList, Groups
  <2>3. \A u \in Users : entity'[u] = entity[u]
    BY <1>2, <2>1 DEF Users
  <2>4. UserList' = UserList \cup {[name |-> r.name, admin |-> r.admin]}
    BY <1>2, <2>1, <2>3 DEF UserList
  <2> QED
    BY <1>3, <2>2, <2>4
<1>4. CASE r.kind = "group"
  <2>1. Users' = Users /\ Groups' = Groups \cup {i} /\ i \notin Groups
    BY <1>1, <1>2, <1>4 DEF Users, Groups
  <2>2. UserList' = UserList
    BY <1>2, <2>1 DEF UserList, Users
  <2>3. \A g \in Groups : entity'[g] = entity[g]
    BY <1>2, <2>1 DEF Groups
  <2>4. GroupList' = GroupList \cup {r.name}
    BY <1>2, <2>1, <2>3 DEF GroupList
  <2> QED
    BY <1>4, <2>2, <2>4
<1> QED
  BY <1>3, <1>4

\* A row that goes leaves the list of its kind, because its name was unique.
LEMMA RemoveViews ==
    ASSUME NInv, NEW i \in Ids, entity[i] # None,
           entity' = [entity EXCEPT ![i] = None]
    PROVE  /\ entity[i].kind = "user" =>
                /\ [name |-> entity[i].name, admin |-> entity[i].admin] \in UserList
                /\ UserList' =
                     UserList \ {[name |-> entity[i].name, admin |-> entity[i].admin]}
                /\ GroupList' = GroupList
           /\ entity[i].kind = "group" =>
                /\ UserList' = UserList
                /\ GroupList' = GroupList \ {entity[i].name}
<1>1. entity \in [Ids -> Entity \cup {None}] /\ UniqueNames
  BY DEF NInv, DirectoryTypeOK
<1>2. entity'[i] = None /\ \A h \in Ids : h # i => entity'[h] = entity[h]
  BY <1>1
<1>3. CASE entity[i].kind = "user"
  <2>1. Users' = Users \ {i} /\ Groups' = Groups /\ i \in Users
    BY <1>1, <1>2, <1>3 DEF Users, Groups
  <2>2. GroupList' = GroupList
    BY <1>2, <1>3, <2>1 DEF GroupList, Groups
  <2>3. \A u \in Users \ {i} : entity'[u] = entity[u] /\ entity[u].name # entity[i].name
    BY <1>1, <1>2, <1>3 DEF Users, UniqueNames
  <2> DEFINE gone == [name |-> entity[i].name, admin |-> entity[i].admin]
  <2>4. UserList' = {[name |-> entity[u].name, admin |-> entity[u].admin] : u \in Users \ {i}}
    BY <2>1, <2>3 DEF UserList
  <2>5. gone \in UserList
    BY <2>1 DEF UserList
  <2>6. gone \notin UserList'
    BY <2>3, <2>4
  <2>7. UserList = UserList' \cup {gone}
    BY <2>1, <2>4 DEF UserList
  <2>8. UserList' = UserList \ {gone}
    BY <2>6, <2>7
  <2> QED
    BY <1>3, <2>2, <2>5, <2>8
<1>4. CASE entity[i].kind = "group"
  <2>1. Users' = Users /\ Groups' = Groups \ {i} /\ i \in Groups
    BY <1>1, <1>2, <1>4 DEF Users, Groups
  <2>2. UserList' = UserList
    BY <1>2, <1>4, <2>1 DEF UserList, Users
  <2>3. \A g \in Groups \ {i} : entity'[g] = entity[g] /\ entity[g].name # entity[i].name
    BY <1>1, <1>2, <1>4 DEF Groups, UniqueNames
  <2>4. GroupList' = GroupList \ {entity[i].name}
    BY <2>1, <2>3 DEF GroupList
  <2> QED
    BY <1>4, <2>2, <2>4
<1> QED
  BY <1>3, <1>4

\* POST creates what has no holder, under the authority of an operator.
LEMMA CreateIsNamed ==
    ASSUME NInv, NEW w \in Workers, NEW i \in Ids, CreateCommits(w, i)
    PROVE  Named!Change
<1> DEFINE e == job[w].errand
           r == Created(e)
<1>1. /\ e \in Errand /\ e.do = "create" /\ At(w, "allowed")
      /\ Holders(e.kind, e.name) = {}
      /\ entity[i] = None
      /\ entity' = [entity EXCEPT ![i] = r] /\ token' = token
  BY InsertFree DEF CreateCommits, Sent, At, NInv, DirectoryTypeOK, Job, FreshId
<1>2. e \in [do : {"create", "remove"}, area : {"identity"}, kind : Kinds, name : Names]
  BY <1>1 DEF Errand
<1>3. /\ r \in Entity /\ r.kind = e.kind /\ r.name = e.name /\ r.admin = FALSE
      /\ e.name \in Names /\ e.kind \in {"user", "group"}
  BY <1>2 DEF Created, Entity, Kinds
<1>4. IdentityHeld
  BY <1>1, <1>2 DEF NInv, Entitled
<1>5. TokenList' = TokenList
  BY <1>1, ViewsFollow
<1> HIDE DEF r
<1>6. CASE e.kind = "user"
  <2>1. \A u \in UserList : u.name # e.name
    BY <1>1, <1>6 DEF UserList, Users, Holders
  <2>2. /\ UserList' = UserList \cup {[name |-> e.name, admin |-> FALSE]}
        /\ GroupList' = GroupList
    BY <1>1, <1>3, <1>6, InsertViews
  <2>3. Named!Enroll(e.name)
    BY <1>4, <1>5, <2>1, <2>2 DEF Named!Enroll, Named!Identity, IdentityHeld
  <2> QED
    BY <1>3, <2>3 DEF Named!Change
<1>7. CASE e.kind = "group"
  <2>1. UserList' = UserList /\ GroupList' = GroupList \cup {e.name}
    BY <1>1, <1>3, <1>7, InsertViews
  <2>2. Named!ChangeGroups
    BY <1>3, <1>4, <1>5, <2>1 DEF Named!ChangeGroups, Named!Identity, IdentityHeld
  <2> QED
    BY <2>2 DEF Named!Change
<1> QED
  BY <1>3, <1>6, <1>7

\* DELETE takes away the row that was read, or nothing.
LEMMA RemoveIsNamed ==
    ASSUME NInv, NEW w \in Workers, RemoveCommits(w)
    PROVE  \/ Named!Change
           \/ UNCHANGED tables
<1> DEFINE i == job[w].id
<1>1. /\ i \in Ids /\ At(w, "remove")
      /\ entity \in [Ids -> Entity \cup {None}]
      /\ entity' = [entity EXCEPT ![i] = None] /\ token' = token
  BY DEF RemoveCommits, At, NInv, DirectoryTypeOK, Job
<1>2. IdentityHeld
  BY <1>1 DEF NInv, Entitled
<1>3. TokenList' = TokenList
  BY <1>1, ViewsFollow
<1> HIDE DEF i
<1>4. CASE entity[i] = None
  <2>1. entity' = entity
    BY <1>1, <1>4
  <2> QED
    BY <1>1, <2>1 DEF tables
<1>5. CASE entity[i] # None /\ entity[i].kind = "user"
  <2> DEFINE u == [name |-> entity[i].name, admin |-> entity[i].admin]
  <2>1. u \in UserList /\ UserList' = UserList \ {u} /\ GroupList' = GroupList
    BY <1>1, <1>5, RemoveViews
  <2> HIDE DEF u
  <2>2. Named!Dismiss(u)
    BY <1>2, <1>3, <2>1 DEF Named!Dismiss, Named!Identity, IdentityHeld
  <2> QED
    BY <2>1, <2>2 DEF Named!Change
<1>6. CASE entity[i] # None /\ entity[i].kind = "group"
  <2>1. UserList' = UserList /\ GroupList' = GroupList \ {entity[i].name}
    BY <1>1, <1>6, RemoveViews
  <2>2. entity[i].name \in Names
    BY <1>1, <1>6 DEF Entity
  <2>3. Named!ChangeGroups
    BY <1>2, <1>3, <2>1, <2>2 DEF Named!ChangeGroups, Named!Identity, IdentityHeld
  <2> QED
    BY <2>3 DEF Named!Change
<1>7. entity[i] # None => entity[i].kind \in {"user", "group"}
  BY <1>1 DEF Entity, Kinds
<1> QED
  BY <1>4, <1>5, <1>6, <1>7

\* A token is made under a name that no other has.
LEMMA MintIsNamed ==
    ASSUME NInv, NEW w \in Workers, NEW k \in Keys, MintCommits(w, k)
    PROVE  Named!Change
<1> DEFINE e == job[w].errand
           r == Minted(e)
<1>1. /\ e \in AdminErrand /\ e.do = "mint" /\ At(w, "admin")
      /\ token[k] = None
      /\ token' = [token EXCEPT ![k] = r] /\ entity' = entity
  BY DEF MintCommits, Ordered, At, NInv, DirectoryTypeOK, Job, FreshKey
<1>2. e \in [do : {"mint"}, name : Labels, role : Roles]
  BY <1>1 DEF AdminErrand
<1>3. r \in Token /\ r # None /\ r = [name |-> e.name, role |-> e.role]
  BY <1>2, RowTyped DEF Minted, Token
<1>4. \A t \in TokenList : t.name # e.name
  BY MintFree DEF MintCommits, TokenList
<1>5. AdministratorHeld
  BY <1>1 DEF NInv, Entitled
<1>6. UserList' = UserList /\ GroupList' = GroupList
  BY <1>1, ViewsFollow
<1> HIDE DEF r
<1>7. TokenList' = TokenList \cup {r}
  <2>1. token'[k] = r /\ \A l \in Keys : l # k => token'[l] = token[l]
    BY <1>1 DEF NInv, DirectoryTypeOK
  <2>2. Live' = Live \cup {k} /\ k \notin Live
    BY <1>1, <1>3, <2>1 DEF Live
  <2>3. \A l \in Live : token'[l] = token[l]
    BY <2>1, <2>2 DEF Live
  <2> QED
    BY <2>1, <2>2, <2>3 DEF TokenList
<1>8. Named!Mint(e.name, e.role)
  BY <1>3, <1>4, <1>5, <1>6, <1>7 DEF Named!Mint, AdministratorHeld
<1> QED
  BY <1>2, <1>8 DEF Named!Change

\* A token is removed, or was removed already.
LEMMA RevokeIsNamed ==
    ASSUME NInv, NEW w \in Workers, RevokeCommits(w)
    PROVE  \/ Named!Change
           \/ UNCHANGED tables
<1> DEFINE k == job[w].key
<1>1. /\ k \in Keys /\ At(w, "revoke")
      /\ token \in [Keys -> Token \cup {None}] /\ UniqueLabels
      /\ token' = [token EXCEPT ![k] = None] /\ entity' = entity
  BY DEF RevokeCommits, At, NInv, DirectoryTypeOK, Job
<1>2. AdministratorHeld
  BY <1>1 DEF NInv, Entitled
<1>3. UserList' = UserList /\ GroupList' = GroupList
  BY <1>1, ViewsFollow
<1> HIDE DEF k
<1>4. CASE token[k] = None
  <2>1. token' = token
    BY <1>1, <1>4
  <2> QED
    BY <1>1, <2>1 DEF tables
<1>5. CASE token[k] # None
  <2>1. token'[k] = None /\ \A l \in Keys : l # k => token'[l] = token[l]
    BY <1>1
  <2>2. Live' = Live \ {k} /\ k \in Live
    BY <1>1, <1>5, <2>1 DEF Live
  <2>3. \A l \in Live \ {k} : token'[l] = token[l] /\ token[l] # token[k]
    BY <1>1, <2>1, <2>2 DEF Live, UniqueLabels
  <2>4. TokenList' = TokenList \ {token[k]}
    BY <2>2, <2>3 DEF TokenList
  <2>5. token[k] \in TokenList
    BY <2>2 DEF TokenList
  <2>6. Named!Revoke(token[k])
    BY <1>2, <1>3, <2>4 DEF Named!Revoke, AdministratorHeld
  <2> QED
    BY <2>5, <2>6 DEF Named!Change
<1> QED
  BY <1>4, <1>5

\* A seed that creates its user seeds it.
LEMMA SeedCreateIsNamed ==
    ASSUME NInv, NEW w \in Workers, NEW i \in Ids, SeedCreates(w, i)
    PROVE  Named!Change
<1> DEFINE n == job[w].name
           r == [kind |-> "user", name |-> n, admin |-> job[w].admin]
<1>1. /\ n \in Names /\ job[w].admin \in BOOLEAN
      /\ Holders("user", n) = {}
      /\ entity[i] = None
      /\ entity' = [entity EXCEPT ![i] = r] /\ token' = token
  BY InsertFree DEF SeedCreates, At, NInv, DirectoryTypeOK, Job, FreshId
<1>2. r \in Entity /\ r.kind = "user" /\ r.name = n /\ r.admin = job[w].admin
  BY <1>1 DEF Entity, Kinds
<1> HIDE DEF n, r
<1>3. \A u \in UserList : u.name # n
  BY <1>1 DEF UserList, Users, Holders
<1>4. {u \in UserList : u.name # n} = UserList
  BY <1>3
<1>5. /\ UserList' = UserList \cup {[name |-> n, admin |-> job[w].admin]}
      /\ GroupList' = GroupList /\ TokenList' = TokenList
  BY <1>1, <1>2, InsertViews, ViewsFollow
<1>6. Named!Seed(n, job[w].admin)
  BY <1>4, <1>5 DEF Named!Seed
<1> QED
  BY <1>1, <1>6 DEF Named!Change

\* A seed that writes the flag of its user seeds it.
LEMMA SeedWriteIsNamed ==
    ASSUME NInv, NEW w \in Workers, SeedWrites(w)
    PROVE  Named!Change
<1> DEFINE i == job[w].id
           n == job[w].name
           flag == job[w].admin
           r == [entity[i] EXCEPT !.admin = flag]
<1>1. /\ job[w] \in [at : {"write"}, name : Names, admin : BOOLEAN, missed : BOOLEAN,
                     id : Ids]
      /\ entity[i] # None /\ token' = token
      /\ entity' = [entity EXCEPT ![i] = r]
  BY DEF SeedWrites, Matched, At, NInv, DirectoryTypeOK, Job
<1>2. i \in Ids /\ entity[i] \in Entity /\ n \in Names /\ flag \in BOOLEAN
  BY <1>1, RowTyped
<1>3. entity[i].kind = "user" /\ entity[i].name = n
  BY <1>1 DEF NInv, SeedKnows, SeedWrites
<1>4. r \in Entity /\ r.kind = "user" /\ r.name = n /\ r.admin = flag /\ r # None
  BY <1>2, <1>3, RowTyped DEF Entity
<1>5. entity \in [Ids -> Entity \cup {None}] /\ UniqueNames
  BY DEF NInv, DirectoryTypeOK
<1> HIDE DEF i, n, flag, r
<1>6. entity'[i] = r /\ \A h \in Ids : h # i => entity'[h] = entity[h]
  BY <1>1, <1>2, <1>5
<1>7. Users' = Users /\ Groups' = Groups /\ i \in Users /\ i \notin Groups
  BY <1>1, <1>2, <1>3, <1>4, <1>6 DEF Users, Groups
<1>8. GroupList' = GroupList /\ TokenList' = TokenList
  <2>1. \A g \in Groups : entity'[g] = entity[g]
    BY <1>6, <1>7 DEF Groups
  <2> QED
    BY <1>1, <1>7, <2>1, ViewsFollow DEF GroupList
<1>9. UserList' = {u \in UserList : u.name # n} \cup {[name |-> n, admin |-> flag]}
  <2>1. \A u \in Users \ {i} : entity'[u] = entity[u] /\ entity[u].name # n
    BY <1>1, <1>2, <1>3, <1>5, <1>6 DEF Users, UniqueNames
  <2>2. UserList' = {[name |-> entity[u].name, admin |-> entity[u].admin] : u \in Users \ {i}}
                      \cup {[name |-> n, admin |-> flag]}
    BY <1>4, <1>6, <1>7, <2>1 DEF UserList
  <2>3. {u \in UserList : u.name # n}
          = {[name |-> entity[u].name, admin |-> entity[u].admin] : u \in Users \ {i}}
    BY <1>3, <1>7, <2>1 DEF UserList
  <2> QED
    BY <2>2, <2>3
<1>10. Named!Seed(n, flag)
  BY <1>8, <1>9 DEF Named!Seed
<1> QED
  BY <1>2, <1>10 DEF Named!Change

\* The directory behaves as if every operation happened at one instant, on
\* names, and under an authority that somebody has held.
THEOREM ByName == Spec => ActsByName
<1>1. Init => Named!Init
  BY DEF Init, Named!Init, UserList, GroupList, TokenList, Users, Groups, Live
<1>2. ASSUME NInv, Next
      PROVE  [Named!Next]_(Named!namedVars)
  <2>1. PICK w \in Workers : Remembers /\ (Starts(w) \/ Crashes(w) \/ WithToken(w)
                                             \/ AsAdministrator(w) \/ Seeding(w))
    BY <1>2 DEF Next, Proceeds
  <2>2. Named!Change => Named!Next
    BY <2>1 DEF Named!Next, Remembers
  <2>3. UNCHANGED tables => UNCHANGED Named!namedVars
    BY <1>2, <2>1, QuietStutters
  <2>4. CASE Starts(w) \/ Crashes(w)
    BY <2>3, <2>4 DEF Starts, Crashes, Validates, AdminEnters, SeedStarts, Begins, GivesUp
  <2>5. CASE WithToken(w)
    <3>1. CASE \/ TokenAdmits(w) \/ TokenRefuses(w) \/ ActsElsewhere(w) \/ CreateFails(w)
               \/ RemoveMisses(w) \/ RemoveFails(w)
      BY <2>3, <3>1 DEF TokenAdmits, Continues, GivesUp, TokenRefuses, ActsElsewhere,
         CreateFails, RemoveMisses, RemoveFails
    <3>2. ASSUME NEW i \in Ids, CreateCommits(w, i)
          PROVE  Named!Next
      BY <1>2, <2>2, <3>2, CreateIsNamed
    <3>3. ASSUME NEW i \in Ids, RemoveReads(w, i)
          PROVE  UNCHANGED Named!namedVars
      BY <2>3, <3>3 DEF RemoveReads, Continues
    <3>4. CASE RemoveCommits(w)
      BY <1>2, <2>2, <2>3, <3>4, RemoveIsNamed
    <3> QED
      BY <2>5, <3>1, <3>2, <3>3, <3>4 DEF WithToken
  <2>6. CASE AsAdministrator(w)
    <3>1. CASE MintFails(w) \/ RevokeMisses(w) \/ GrantRaises(w) \/ RevokeReads(w)
      BY <2>3, <3>1 DEF MintFails, RevokeMisses, GrantRaises, GivesUp, RevokeReads, Continues
    <3>2. ASSUME NEW k \in Keys, MintCommits(w, k)
          PROVE  Named!Next
      BY <1>2, <2>2, <3>2, MintIsNamed
    <3>3. CASE RevokeCommits(w)
      BY <1>2, <2>2, <2>3, <3>3, RevokeIsNamed
    <3> QED
      BY <2>6, <3>1, <3>2, <3>3 DEF AsAdministrator
  <2>7. CASE Seeding(w)
    <3>1. CASE SeedFinds(w) \/ SeedMisses(w) \/ SeedKeeps(w) \/ SeedLoses(w)
      BY <2>3, <3>1 DEF SeedFinds, SeedMisses, SeedKeeps, SeedLoses, GivesUp, Continues
    <3>2. ASSUME NEW i \in Ids, SeedReads(w, i)
          PROVE  UNCHANGED Named!namedVars
      BY <2>3, <3>2 DEF SeedReads, Continues
    <3>3. ASSUME NEW i \in Ids, SeedCreates(w, i)
          PROVE  Named!Next
      BY <1>2, <2>2, <3>3, SeedCreateIsNamed
    <3>4. CASE SeedWrites(w)
      BY <1>2, <2>2, <3>4, SeedWriteIsNamed
    <3> QED
      BY <2>7, <3>1, <3>2, <3>3, <3>4 DEF Seeding
  <2> QED
    BY <2>1, <2>4, <2>5, <2>6, <2>7
<1>3. UNCHANGED vars => UNCHANGED Named!namedVars
  BY DEF vars, Named!namedVars, UserList, GroupList, TokenList, Users, Groups, Live
<1>4. NInv /\ [Next]_vars => [Named!Next]_(Named!namedVars)
  BY <1>2, <1>3
<1> QED
  BY <1>1, <1>4, Invariance, PTL DEF Spec, ActsByName, Named!Spec
=============================================================================
