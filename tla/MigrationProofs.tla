--------------------------- MODULE MigrationProofs ---------------------------
(***************************************************************************)
(* What the migrations do to the schema and to the statuses, proved for    *)
(* every set of targets and statuses.  The table of the revisions is       *)
(* expanded once, revision by revision, in FactsHold; the rest cites the   *)
(* facts that it gives: each object is created by one revision, and        *)
(* dropped by at most one, which comes later.                              *)
(***************************************************************************)
EXTENDS Migrations, TLAPS

\* The revision that creates an object.
Born(o) ==
    IF o = "route.last_contact" THEN 2
    ELSE IF o = "route.name" THEN 3
    ELSE IF o \in {"entity_route_association", "entity_id_key",
                   "route_id_key"} THEN 5
    ELSE IF o \in {"user.duid", "user_duid_key"} THEN 6
    ELSE IF o \in {"domain", "route.domain_id"} THEN 8
    ELSE IF o \in {"domain.domain_type", "domaintype", "domain_id_key"} THEN 9
    ELSE IF o \in {"route.status", "status"} THEN 10
    ELSE IF o \in {"community", "membership_request", "membershipstatus",
                   "membership_request.key_without_entity",
                   "route.community_id"} THEN 12
    ELSE IF o = "community_entity_id_name_key" THEN 13
    ELSE IF o \in {"admin_token", "admin_token.role_default", "adminrole",
                   "user.is_admin", "user.is_admin_not_null"} THEN 14
    ELSE 1

\* The revision that drops an object, or one past the head.
Dropped(o) ==
    IF o = "route_dst_key" THEN 4
    ELSE IF o = "user_duid_key" THEN 7
    ELSE IF o \in {"route.availability_status", "availabilitystatus"} THEN 10
    ELSE 15

\* The schema of the head, object by object.
Listed == {
    "entity", "group", "rule", "entity_route_association",
    "membership_request", "admin_token", "user", "route", "domain",
    "community", "user.duid", "user.is_admin", "route.last_contact",
    "route.name", "route.domain_id", "route.status", "route.community_id",
    "domain.domain_type", "community_entity_id_name_key",
    "verificationstatus", "policy", "status", "domaintype",
    "membershipstatus", "adminrole", "entity_id_key", "route_id_key",
    "domain_id_key", "membership_request.key_without_entity",
    "admin_token.role_default", "user.is_admin_not_null"}

Creates(m) ==
    /\ \A o \in Revision[m].creates : Born(o) = m
    /\ \A o \in Revision[m].creates : o \in Listed \/ Dropped(o) < 15
    /\ \A o \in Listed : Born(o) = m => o \in Revision[m].creates

Drops(m) == \A o \in Revision[m].drops : Dropped(o) = m /\ Born(o) < m

Keeps(m) ==
    /\ m = 1 => Revision[m].keeps = BaseTypes
    /\ m # 1 => Revision[m].keeps = {}

Adds(m) ==
    /\ m = 10 => Revision[m].adds =
                   {"MISCONFIGURED", "MISSING_ENTITY", "UPGRADE_REQUIRED"}
    /\ m = 11 => Revision[m].adds = {"SERVER_ERROR"}
    /\ m \notin {10, 11} => Revision[m].adds = {}

Flags(m) ==
    /\ m # 5 => Revision[m].undoes = TRUE
    /\ m # 8 => Revision[m].backfills = TRUE

Locks(m) ==
    /\ Revision[m].locks \subseteq Tables
    /\ m \in {1, 10, 11} => "route" \in Revision[m].locks

\* Each row of the table, revision by revision.
LEMMA FactsHold ==
  ASSUME NEW m \in 1..Head
  PROVE  Creates(m) /\ Drops(m) /\ Keeps(m) /\ Adds(m) /\ Flags(m) /\ Locks(m)
  <1>1. CASE m = 1
    <2>1. Revision[m] = InitialCommit
      BY <1>1 DEF Revision
    <2>2. QED
      BY <1>1, <2>1 DEF Creates, Drops, Keeps, Adds, Flags, Locks,
             Tables, Born, Dropped, Listed, InitialCommit, Plain, BaseTypes
  <1>2. CASE m = 2
    <2>1. Revision[m] = AddLastContact
      BY <1>2 DEF Revision
    <2>2. QED
      BY <1>2, <2>1 DEF Creates, Drops, Keeps, Adds, Flags, Locks,
             Tables, Born, Dropped, Listed, AddLastContact, Plain, BaseTypes
  <1>3. CASE m = 3
    <2>1. Revision[m] = AddName
      BY <1>3 DEF Revision
    <2>2. QED
      BY <1>3, <2>1 DEF Creates, Drops, Keeps, Adds, Flags, Locks,
             Tables, Born, Dropped, Listed, AddName, Plain, BaseTypes
  <1>4. CASE m = 4
    <2>1. Revision[m] = DropUniqueDst
      BY <1>4 DEF Revision
    <2>2. QED
      BY <1>4, <2>1 DEF Creates, Drops, Keeps, Adds, Flags, Locks,
             Tables, Born, Dropped, Listed, DropUniqueDst, Plain, BaseTypes
  <1>5. CASE m = 5
    <2>1. Revision[m] = LinkEntityAndRoute
      BY <1>5 DEF Revision
    <2>2. QED
      BY <1>5, <2>1 DEF Creates, Drops, Keeps, Adds, Flags, Locks,
             Tables, Born, Dropped, Listed, LinkEntityAndRoute, Plain, BaseTypes
  <1>6. CASE m = 6
    <2>1. Revision[m] = AddDuid
      BY <1>6 DEF Revision
    <2>2. QED
      BY <1>6, <2>1 DEF Creates, Drops, Keeps, Adds, Flags, Locks,
             Tables, Born, Dropped, Listed, AddDuid, Plain, BaseTypes
  <1>7. CASE m = 7
    <2>1. Revision[m] = DropUniqueDuid
      BY <1>7 DEF Revision
    <2>2. QED
      BY <1>7, <2>1 DEF Creates, Drops, Keeps, Adds, Flags, Locks,
             Tables, Born, Dropped, Listed, DropUniqueDuid, Plain, BaseTypes
  <1>8. CASE m = 8
    <2>1. Revision[m] = AddDomainTable
      BY <1>8 DEF Revision
    <2>2. QED
      BY <1>8, <2>1 DEF Creates, Drops, Keeps, Adds, Flags, Locks,
             Tables, Born, Dropped, Listed, AddDomainTable, Plain, BaseTypes
  <1>9. CASE m = 9
    <2>1. Revision[m] = AddDomainType
      BY <1>9 DEF Revision
    <2>2. QED
      BY <1>9, <2>1 DEF Creates, Drops, Keeps, Adds, Flags, Locks,
             Tables, Born, Dropped, Listed, AddDomainType, Plain, BaseTypes
  <1>10. CASE m = 10
    <2>1. Revision[m] = RefactorStatus
      BY <1>10 DEF Revision
    <2>2. QED
      BY <1>10, <2>1 DEF Creates, Drops, Keeps, Adds, Flags, Locks,
             Tables, Born, Dropped, Listed, RefactorStatus, Plain, BaseTypes
  <1>11. CASE m = 11
    <2>1. Revision[m] = AddServerError
      BY <1>11 DEF Revision
    <2>2. QED
      BY <1>11, <2>1 DEF Creates, Drops, Keeps, Adds, Flags, Locks,
             Tables, Born, Dropped, Listed, AddServerError, Plain, BaseTypes
  <1>12. CASE m = 12
    <2>1. Revision[m] = AddCommunities
      BY <1>12 DEF Revision
    <2>2. QED
      BY <1>12, <2>1 DEF Creates, Drops, Keeps, Adds, Flags, Locks,
             Tables, Born, Dropped, Listed, AddCommunities, Plain, BaseTypes
  <1>13. CASE m = 13
    <2>1. Revision[m] = UniqueCommunityName
      BY <1>13 DEF Revision
    <2>2. QED
      BY <1>13, <2>1 DEF Creates, Drops, Keeps, Adds, Flags, Locks,
             Tables, Born, Dropped, Listed, UniqueCommunityName, Plain, BaseTypes
  <1>14. CASE m = 14
    <2>1. Revision[m] = AddAdminToken
      BY <1>14 DEF Revision
    <2>2. QED
      BY <1>14, <2>1 DEF Creates, Drops, Keeps, Adds, Flags, Locks,
             Tables, Born, Dropped, Listed, AddAdminToken, Plain, BaseTypes
  <1>15. QED
    BY <1>1, <1>2, <1>3, <1>4, <1>5, <1>6, <1>7, <1>8, <1>9, <1>10, <1>11,
       <1>12, <1>13, <1>14 DEF Head

-----------------------------------------------------------------------------
\* Every object that a revision drops is one that an earlier revision creates.
LEMMA DropsAreOld ==
  ASSUME NEW m \in 1..Head, NEW o \in Revision[m].drops
  PROVE  /\ Born(o) \in 1..Head /\ Born(o) < m
         /\ o \in Revision[Born(o)].creates
  <1>1. Dropped(o) = m /\ Born(o) < m
    BY FactsHold DEF Creates, Drops
  <1>2. o \in {"route_dst_key", "user_duid_key", "route.availability_status",
               "availabilitystatus"}
    BY <1>1 DEF Dropped, Head
  <1>3. CASE o = "user_duid_key"
    <2>1. Born(o) = 6 /\ Revision[6] = AddDuid
      BY <1>3 DEF Born, Revision
    <2>2. Revision[6].creates = {"user.duid", "user_duid_key"}
      BY <2>1 DEF AddDuid, Plain
    <2>3. QED
      BY <1>1, <1>3, <2>1, <2>2 DEF Head
  <1>4. CASE o # "user_duid_key"
    <2>1. Born(o) = 1 /\ Revision[1] = InitialCommit
      BY <1>2, <1>4 DEF Born, Revision
    <2>2. QED
      BY <1>1, <1>2, <1>4, <2>1 DEF InitialCommit, Plain, BaseTypes, Head
  <1>5. QED
    BY <1>3, <1>4

\* SchemaAt, object by object.
LEMMA InSchemaAt ==
  ASSUME NEW v \in 0..Head, NEW o
  PROVE  o \in SchemaAt(v) <=>
           /\ \E m \in 1..v : o \in Revision[m].creates
           /\ \A m \in 1..v : o \notin Revision[m].drops
  <1> DEFINE C == UNION {Revision[m].creates : m \in 1..v}
             D == UNION {Revision[m].drops : m \in 1..v}
  <1>1. o \in C <=> \E m \in 1..v : o \in Revision[m].creates
    OBVIOUS
  <1>2. o \in D <=> \E m \in 1..v : o \in Revision[m].drops
    OBVIOUS
  <1>3. SchemaAt(v) = C \ D
    BY DEF SchemaAt
  <1> HIDE DEF C, D
  <1>4. QED
    BY <1>1, <1>2, <1>3

\* One revision up.
LEMMA SchemaUp ==
  ASSUME NEW m \in 1..Head
  PROVE  SchemaAt(m) = (SchemaAt(m - 1) \ Revision[m].drops) \cup Revision[m].creates
  <1>1. m - 1 \in 0..Head /\ m \in 0..Head /\ 1..m = (1..(m - 1)) \cup {m}
    BY DEF Head
  <1>2. ASSUME NEW o \in Revision[m].creates, NEW i \in 1..m
        PROVE  o \notin Revision[i].drops
    <2>1. Born(o) = m
      BY FactsHold DEF Creates, Drops
    <2>2. i \in 1..Head
      BY DEF Head
    <2>3. o \in Revision[i].drops => Born(o) < i
      BY <2>2, FactsHold DEF Creates, Drops
    <2>4. QED
      BY <2>1, <2>3 DEF Head
  <1>3. ASSUME NEW o
        PROVE  o \in SchemaAt(m) <=>
                 o \in (SchemaAt(m - 1) \ Revision[m].drops) \cup Revision[m].creates
    BY <1>1, <1>2, InSchemaAt
  <1>4. QED
    BY <1>3

\* A revision creates nothing that the ones before it leave, and drops only
\* what they leave.
LEMMA RevisionFits ==
  ASSUME NEW m \in 1..Head
  PROVE  /\ Revision[m].creates \cap SchemaAt(m - 1) = {}
         /\ Revision[m].drops \subseteq SchemaAt(m - 1)
         /\ Revision[m].drops \cap Revision[m].creates = {}
  <1>1. m - 1 \in 0..Head /\ 1..(m - 1) \subseteq 1..Head
    BY DEF Head
  <1>2. Revision[m].creates \cap SchemaAt(m - 1) = {}
    <2>1. ASSUME NEW o \in Revision[m].creates, NEW i \in 1..(m - 1),
                 o \in Revision[i].creates
          PROVE  FALSE
      <3>1. Born(o) = m /\ Born(o) = i
        BY <1>1, <2>1, FactsHold DEF Creates, Drops
      <3>2. QED
        BY <3>1 DEF Head
    <2>2. QED
      BY <1>1, <2>1, InSchemaAt
  <1>3. Revision[m].drops \subseteq SchemaAt(m - 1)
    <2>1. ASSUME NEW o \in Revision[m].drops PROVE o \in SchemaAt(m - 1)
      <3>1. Born(o) \in 1..(m - 1) /\ o \in Revision[Born(o)].creates
        BY DropsAreOld DEF Head
      <3>2. Dropped(o) = m
        BY FactsHold DEF Creates, Drops
      <3>3. ASSUME NEW i \in 1..(m - 1) PROVE o \notin Revision[i].drops
        <4>1. o \in Revision[i].drops => Dropped(o) = i
          BY <1>1, FactsHold DEF Creates, Drops
        <4>2. QED
          BY <3>2, <4>1 DEF Head
      <3>4. QED
        BY <1>1, <3>1, <3>3, InSchemaAt
    <2>2. QED
      BY <2>1
  <1>4. ASSUME NEW o \in Revision[m].drops, o \in Revision[m].creates
        PROVE  FALSE
    BY <1>4, DropsAreOld, FactsHold DEF Creates
  <1>5. QED
    BY <1>2, <1>3, <1>4

\* One revision down, where no type is kept.
LEMMA SchemaDown ==
  ASSUME NEW m \in 1..Head
  PROVE  SchemaAt(m - 1) = (SchemaAt(m) \ Revision[m].creates) \cup Revision[m].drops
  <1>1. QED
    BY RevisionFits, SchemaUp

\* The schemas at the bottom of the chain.
LEMMA SchemaAtBase == SchemaAt(0) = {} /\ SchemaAt(1) = Revision[1].creates
  <1>1. SchemaAt(0) = {}
    BY DEF SchemaAt
  <1>2. Revision[1].drops = {}
    <2>1. Revision[1] = InitialCommit
      BY DEF Revision
    <2>2. QED
      BY <2>1 DEF InitialCommit, Plain
  <1>3. SchemaAt(1) = (SchemaAt(0) \ Revision[1].drops) \cup Revision[1].creates
    BY SchemaUp DEF Head
  <1>4. QED
    BY <1>1, <1>3

-----------------------------------------------------------------------------
\* What orm.py declares, and the list.
LEMMA OrmIsListed ==
  OrmSchema = (Listed \ MigratedOnly) \cup {"membership_request.key_with_entity"}
  <1>1. DOMAIN Declared = {"entity", "group", "rule", "entity_route_association",
           "membership_request", "admin_token", "user", "route", "domain",
           "community"}
    BY DEF Declared
  <1>2. UNION {Declared[t] : t \in DOMAIN Declared} =
           {"user.duid", "user.is_admin", "route.last_contact", "route.name",
            "route.domain_id", "route.status", "route.community_id",
            "domain.domain_type", "community_entity_id_name_key",
            "membership_request.key_with_entity"}
    BY <1>1 DEF Declared
  <1>3. OrmSchema =
          {"entity", "group", "rule", "entity_route_association",
           "membership_request", "admin_token", "user", "route", "domain",
           "community"} \cup DeclaredTypes \cup
          {"user.duid", "user.is_admin", "route.last_contact", "route.name",
           "route.domain_id", "route.status", "route.community_id",
           "domain.domain_type", "community_entity_id_name_key",
           "membership_request.key_with_entity"}
    BY <1>1, <1>2 DEF OrmSchema
  <1>4. QED
    BY <1>3 DEF DeclaredTypes, Listed, MigratedOnly

\* Every object of the list is made by a revision, and dropped by none.
LEMMA ListedAreMade ==
  ASSUME NEW o \in Listed
  PROVE  Born(o) \in 1..Head /\ o \in Revision[Born(o)].creates /\ Dropped(o) = 15
  <1>1. Born(o) \in 1..Head /\ Dropped(o) = 15
    BY DEF Listed, Born, Dropped, Head
  <1>2. QED
    BY <1>1, FactsHold DEF Creates, Drops

\* The list is the schema of the head.
LEMMA HeadIsListed == SchemaAt(Head) = Listed
  <1>1. ASSUME NEW o \in SchemaAt(Head) PROVE o \in Listed
    <2>1. PICK m \in 1..Head : o \in Revision[m].creates
      BY InSchemaAt DEF Head
    <2>2. SUFFICES ASSUME Dropped(o) < 15 PROVE FALSE
      BY <2>1, FactsHold DEF Creates, Drops
    <2>3. o \in {"route_dst_key", "user_duid_key", "route.availability_status",
                 "availabilitystatus"}
      BY <2>2 DEF Dropped
    <2>4. o \in Revision[4].drops \cup Revision[7].drops \cup Revision[10].drops
      <3>1. /\ Revision[4] = DropUniqueDst
            /\ Revision[7] = DropUniqueDuid
            /\ Revision[10] = RefactorStatus
        BY DEF Revision
      <3>2. QED
        BY <2>3, <3>1 DEF DropUniqueDst, DropUniqueDuid, RefactorStatus, Plain
    <2>5. QED
      BY <2>4, InSchemaAt DEF Head
  <1>2. ASSUME NEW o \in Listed PROVE o \in SchemaAt(Head)
    <2>1. \A m \in 1..Head : o \notin Revision[m].drops
      BY ListedAreMade, FactsHold DEF Creates, Drops, Head
    <2>2. QED
      BY <2>1, ListedAreMade, InSchemaAt DEF Head
  <1>3. QED
    BY <1>1, <1>2

\* In what the head is not what orm.py declares.
LEMMA HeadAgainstOrm ==
  /\ Listed \ OrmSchema = MigratedOnly
  /\ OrmSchema \ Listed = {"membership_request.key_with_entity"}
  <1>1. /\ MigratedOnly \subseteq Listed
        /\ "membership_request.key_with_entity" \notin Listed
    BY DEF MigratedOnly, Listed
  <1>2. QED
    BY <1>1, OrmIsListed

-----------------------------------------------------------------------------
\* The values of a status, one revision up.
LEMMA LabelsUp ==
  ASSUME NEW m \in 1..Head
  PROVE  LabelsAt(m) = IF m = 1 THEN {"UP", "DOWN"}
                       ELSE LabelsAt(m - 1) \cup Revision[m].adds
  <1>1. CASE m = 1
    <2>1. Revision[m].adds = {}
      BY <1>1, FactsHold DEF Adds
    <2>2. 1..1 = {1}
      OBVIOUS
    <2>3. QED
      BY <1>1, <2>1, <2>2 DEF LabelsAt
  <1>2. CASE m # 1
    <2>1. m - 1 # 0 /\ m # 0 /\ 1..m = (1..(m - 1)) \cup {m}
      BY <1>2 DEF Head
    <2>2. QED
      BY <1>2, <2>1 DEF LabelsAt
  <1>3. QED
    BY <1>1, <1>2

\* The enum migrations spell the statuses as models.py does.
LEMMA LabelsAreLabels == \A v \in 0..Head : LabelsAt(v) \subseteq Label
  <1>1. ASSUME NEW m \in 1..Head PROVE Revision[m].adds \subseteq Label
    BY FactsHold DEF Adds, Label
  <1>2. ASSUME NEW v \in 0..Head PROVE LabelsAt(v) \subseteq Label
    <2>1. \A m \in 1..v : m \in 1..Head
      BY DEF Head
    <2>2. (UNION {Revision[m].adds : m \in 1..v}) \subseteq Label
      BY <1>1, <2>1
    <2>3. QED
      BY <2>2 DEF LabelsAt, Label
  <1>3. QED
    BY <1>2

-----------------------------------------------------------------------------
\* A step of a transaction leaves a database of the right type.
LEMMA UpgradedTyped ==
  ASSUME NEW w \in Database, NEW m \in 1..Head
  PROVE  Upgraded(w, m) \in Database
  <1>1. Revision[m].creates \subseteq Objects
    BY DEF Objects
  <1>2. UpgradedLabels(w, m) \subseteq Label
    <2>1. LabelsAt(m) \subseteq Label
      BY LabelsAreLabels DEF Head
    <2>2. w.labels \subseteq Label
      BY DEF Database
    <2>3. QED
      BY <2>1, <2>2 DEF UpgradedLabels
  <1>3. m \in 0..Head
    BY DEF Head
  <1>4. QED
    BY <1>1, <1>2, <1>3 DEF Upgraded, Database

\* The same, one revision down.
LEMMA DowngradedTyped ==
  ASSUME NEW w \in Database, NEW m \in 1..Head
  PROVE  Downgraded(w, m) \in Database
  <1>1. m - 1 \in 0..Head
    BY DEF Head
  <1>2. DowngradedSchema(w, m) \subseteq Objects \cup OrmSchema
    <2>1. Revision[m].drops \subseteq Objects
      BY DropsAreOld DEF Objects
    <2>2. w.schema \subseteq Objects \cup OrmSchema
      BY DEF Database
    <2>3. QED
      BY <2>1, <2>2 DEF DowngradedSchema
  <1>3. DowngradedLabels(w, m) \subseteq Label
    <2>1. LabelsAt(m - 1) \subseteq Label
      BY <1>1, LabelsAreLabels
    <2>2. w.labels \subseteq Label
      BY DEF Database
    <2>3. QED
      BY <2>1, <2>2 DEF DowngradedLabels
  <1>4. w.statuses \subseteq Label
    BY DEF Database
  <1>5. {k \in w.repeated : Keyed[k] \in DowngradedSchema(w, m)}
           \subseteq DOMAIN Keyed
    BY DEF Database
  <1>6. QED
    BY <1>1, <1>2, <1>3, <1>4, <1>5 DEF Downgraded, Database

\* create_all makes nothing that orm.py does not declare.
LEMMA CompletedTyped ==
  ASSUME NEW S
  PROVE  Completed(S) \subseteq S \cup OrmSchema
BY DEF Completed, OrmSchema

\* The UPDATE leaves statuses that models.py spells.
LEMMA RelabelledTyped ==
  ASSUME NEW m, NEW S, S \subseteq Label
  PROVE  {Relabelled(s, m) : s \in S} \subseteq Label
  <1>1. "DOWN" \in Label
    BY DEF Label
  <1>2. \A s \in S : Relabelled(s, m) \in Label
    BY <1>1 DEF Relabelled
  <1>3. QED
    BY <1>2

\* What the command sees of others' changes is of the right type.
LEMMA SeesTyped ==
  ASSUME run \in {None} \cup Transaction, NEW w, Sees(w),
         run # None => w \in Database
  PROVE  run' \in {None} \cup Transaction
BY DEF Sees, Transaction

\* The initial state is of the declared type.
LEMMA TypesHoldAtFirst == Init => MigrationsTypeOK
  <1> SUFFICES ASSUME Init PROVE MigrationsTypeOK
    OBVIOUS
  <1>1. 0 \in 0..Head
    BY DEF Head
  <1>2. db \in Database
    BY <1>1 DEF Init, Database
  <1>3. QED
    BY <1>2 DEF Init, MigrationsTypeOK

\* Every step keeps the type.
LEMMA TypesAreKept == MigrationsTypeOK /\ [Next]_vars => MigrationsTypeOK'
  <1> SUFFICES ASSUME MigrationsTypeOK, [Next]_vars
               PROVE  MigrationsTypeOK'
    OBVIOUS
  <1> USE DEF MigrationsTypeOK
  <1>1. ASSUME NEW t \in Targets, Starts(t) PROVE MigrationsTypeOK'
    <2>1. t \in 0..Head
      BY MigrationsAssumption
    <2>2. QED
      BY <1>1, <2>1 DEF Starts, Transaction
  <1>2. ASSUME NEW w \in Database, NEW m \in 1..Head, run # None, Step(w, m)
        PROVE  MigrationsTypeOK'
    <2>1. run \in Transaction /\ Revision[m].locks \subseteq Tables
      BY <1>2, FactsHold DEF Locks
    <2>2. run' \in Transaction
      BY <1>2, <2>1 DEF Step, Transaction
    <2>3. QED
      BY <1>2, <2>2 DEF Step
  <1>3. CASE StepUp
    <2> DEFINE m == run.work.version + 1
    <2>1. run # None /\ run.work \in Database /\ m \in 1..Head
      BY <1>3 DEF StepUp, GoesUp, Transaction, Database, Head
    <2>2. Step(Upgraded(run.work, m), m)
      BY <1>3 DEF StepUp
    <2> HIDE DEF m
    <2>3. QED
      BY <1>2, <2>1, <2>2, UpgradedTyped
  <1>4. CASE StepDown
    <2> DEFINE m == run.work.version
    <2>1. run # None /\ run.work \in Database /\ m \in 1..Head
      BY <1>4 DEF StepDown, GoesDown, Transaction, Database, Head
    <2>2. Step(Downgraded(run.work, m), m)
      BY <1>4 DEF StepDown
    <2> HIDE DEF m
    <2>3. QED
      BY <1>2, <2>1, <2>2, DowngradedTyped
  <1>5. CASE UpgradeFails \/ DowngradeFails \/ Stops
    BY <1>5 DEF UpgradeFails, DowngradeFails, Stops, RollsBack
  <1>6. CASE Commits
    BY <1>6 DEF Commits, Transaction
  <1>7. CASE ProcessStarts
    <2>1. Completed(db.schema) \subseteq Objects \cup OrmSchema
      BY CompletedTyped DEF Database
    <2>2. db' \in Database
      BY <1>7, <2>1 DEF ProcessStarts, Database
    <2>3. QED
      BY <1>7, <2>2 DEF ProcessStarts
  <1>8. CASE RowsChange
    <2>1. ASSUME NEW s \in Statuses \cap db.labels, StatusComes(s) \/ StatusGoes(s)
          PROVE  db' \in Database /\ run' \in {None} \cup Transaction
      <3>1. s \in Label /\ "DOWN" \in Label
        BY MigrationsAssumption DEF Label
      <3>2. CASE StatusComes(s)
        <4>1. db' \in Database
          BY <3>1, <3>2 DEF StatusComes, Database
        <4>2. run # None => [run.work EXCEPT !.statuses = @ \cup {s}] \in Database
          BY <3>1 DEF Transaction, Database
        <4>3. QED
          BY <3>2, <4>1, <4>2, SeesTyped DEF StatusComes
      <3>3. CASE StatusGoes(s)
        <4>1. db' \in Database
          BY <3>1, <3>3 DEF StatusGoes, Database
        <4>2. run # None =>
                [run.work EXCEPT !.statuses =
                   (@ \ {s}) \cup (IF Moved = {} THEN {} ELSE {"DOWN"})] \in Database
          BY <3>1 DEF Transaction, Database
        <4>3. QED
          BY <3>3, <4>1, <4>2, SeesTyped DEF StatusGoes
      <3>4. QED
        BY <2>1, <3>2, <3>3
    <2>2. ASSUME NEW k \in DOMAIN Keyed, KeyRepeats(k) \/ KeyIsUnique(k)
          PROVE  db' \in Database /\ run' \in {None} \cup Transaction
      <3>1. CASE KeyRepeats(k)
        <4>1. db' \in Database
          BY <3>1 DEF KeyRepeats, Database
        <4>2. run # None => [run.work EXCEPT !.repeated = @ \cup {k}] \in Database
          BY DEF Transaction, Database
        <4>3. QED
          BY <3>1, <4>1, <4>2, SeesTyped DEF KeyRepeats
      <3>2. CASE KeyIsUnique(k)
        <4>1. db' \in Database
          BY <3>2 DEF KeyIsUnique, Database
        <4>2. run # None => [run.work EXCEPT !.repeated = @ \ {k}] \in Database
          BY DEF Transaction, Database
        <4>3. QED
          BY <3>2, <4>1, <4>2, SeesTyped DEF KeyIsUnique
      <3>3. QED
        BY <2>2, <3>1, <3>2
    <2>3. db' \in Database /\ run' \in {None} \cup Transaction
      BY <1>8, <2>1, <2>2 DEF RowsChange, RoutesChange, KeysChange
    <2>4. QED
      BY <1>8, <2>3 DEF RowsChange
  <1>11. CASE Relabels
    <2> DEFINE m == run.work.version
               w == [run.work EXCEPT !.statuses = {Relabelled(s, m) : s \in @}]
    <2>1. run \in Transaction /\ run.work \in Database
      BY <1>11 DEF Relabels, GoesDown, Transaction
    <2>2. run.work.statuses \subseteq Label
      BY <2>1 DEF Database
    <2>3. {Relabelled(s, m) : s \in run.work.statuses} \subseteq Label
      BY <2>2, RelabelledTyped
    <2>4. run.work.statuses \cap Revision[m].adds \subseteq Label
      BY <2>2
    <2>5. w \in Database
      BY <2>1, <2>3 DEF Database
    <2>6. run' = [run EXCEPT
                !.work = w,
                !.updated = TRUE,
                !.moved = run.work.statuses \cap Revision[m].adds]
      BY <1>11, <2>1 DEF Relabels, Transaction, Database
    <2> HIDE DEF m, w
    <2>7. run' \in Transaction
      BY <2>1, <2>4, <2>5, <2>6 DEF Transaction
    <2>8. QED
      BY <1>11, <2>7 DEF Relabels
  <1>9. CASE UNCHANGED vars
    BY <1>9 DEF vars
  <1>10. QED
    BY <1>1, <1>3, <1>4, <1>5, <1>6, <1>7, <1>8, <1>9, <1>11 DEF Next

\* Every state is of the declared type: whatever the commands do and whenever
\* processes start, the schema has only objects that a revision makes or orm.py
\* declares, and the type of a status only values that models.py spells.
THEOREM MigrationTypes == Spec => []MigrationsTypeOK
  <1>1. QED
    BY TypesHoldAtFirst, TypesAreKept, PTL DEF Spec

-----------------------------------------------------------------------------
(***************************************************************************)
(* The schema follows the version.  A transaction under way works on data  *)
(* that are as tidy as those it started from, which is what its commit     *)
(* relies on; and no process starts on a database that is not migrated, or *)
(* early would be TRUE.                                                    *)
(***************************************************************************)
Tidy(w) ==
    /\ \/ w.schema = SchemaAt(w.version)
       \/ w.version = 0 /\ w.schema = BaseTypes
    /\ w.labels = LabelsAt(w.version)

TidyInv ==
    /\ MigrationsTypeOK
    /\ ~early => Tidy(db) /\ (run # None => Tidy(run.work))

\* The types that a downgrade to base leaves are some that the first revision
\* creates.
LEMMA BaseTypesAreMade ==
  /\ BaseTypes \subseteq Revision[1].creates
  /\ Revision[1].keeps = BaseTypes
  <1>1. Revision[1] = InitialCommit
    BY DEF Revision
  <1>2. QED
    BY <1>1 DEF InitialCommit, Plain

\* An upgrade to revision m starts from what revision m - 1 leaves: it is
\* refused where a downgrade to base has left types.
LEMMA UpgradeIsTidy ==
  ASSUME NEW m \in 1..Head, NEW w \in Database, w.version = m - 1,
         Tidy(w), Upgrades(w, m)
  PROVE  Tidy(Upgraded(w, m))
  <1>1. w.schema = SchemaAt(m - 1)
    <2>1. SUFFICES ASSUME m = 1, w.schema = BaseTypes PROVE FALSE
      BY DEF Tidy
    <2>2. BaseTypes \cap w.schema = {}
      BY <2>1, BaseTypesAreMade DEF Upgrades
    <2>3. QED
      BY <2>1, <2>2 DEF BaseTypes
  <1>2. Upgraded(w, m).schema = SchemaAt(m)
    BY <1>1, SchemaUp DEF Upgraded
  <1>3. UpgradedLabels(w, m) = LabelsAt(m)
    <2>1. CASE Retypes(m)
      BY <2>1 DEF UpgradedLabels
    <2>2. CASE ~Retypes(m)
      <3>1. m # 1 /\ Revision[m].adds = {} /\ w.labels = LabelsAt(m - 1)
        BY <2>2 DEF Retypes, Tidy
      <3>2. LabelsAt(m) = LabelsAt(m - 1)
        BY <3>1, LabelsUp
      <3>3. QED
        BY <2>2, <3>1, <3>2 DEF UpgradedLabels
    <2>3. QED
      BY <2>1, <2>2
  <1>4. QED
    BY <1>2, <1>3 DEF Upgraded, Tidy

\* A downgrade leaves what the revision before leaves, or the types.
LEMMA DowngradeIsTidy ==
  ASSUME NEW m \in 1..Head, NEW w \in Database, w.version = m, Tidy(w)
  PROVE  Tidy(Downgraded(w, m))
  <1>1. w.schema = SchemaAt(m) /\ w.labels = LabelsAt(m)
    BY DEF Tidy
  <1>2. \/ DowngradedSchema(w, m) = SchemaAt(m - 1)
        \/ m - 1 = 0 /\ DowngradedSchema(w, m) = BaseTypes
    <2>1. CASE m = 1
      <3>1. SchemaAt(0) = {} /\ SchemaAt(1) = Revision[1].creates
        BY SchemaAtBase
      <3>2. Revision[1].drops = {}
        BY <2>1, <3>1, SchemaDown
      <3>3. QED
        BY <1>1, <2>1, <3>1, <3>2, BaseTypesAreMade DEF DowngradedSchema
    <2>2. CASE m # 1
      <3>1. Revision[m].keeps = {}
        BY <2>2, FactsHold DEF Keeps
      <3>2. QED
        BY <1>1, <3>1, SchemaDown DEF DowngradedSchema
    <2>3. QED
      BY <2>1, <2>2
  <1>3. DowngradedLabels(w, m) = LabelsAt(m - 1)
    <2>1. CASE Retypes(m)
      BY <2>1 DEF DowngradedLabels
    <2>2. CASE ~Retypes(m)
      <3>1. m # 1 /\ Revision[m].adds = {}
        BY <2>2 DEF Retypes
      <3>2. QED
        BY <1>1, <2>2, <3>1, LabelsUp DEF DowngradedLabels
    <2>3. QED
      BY <2>1, <2>2
  <1>4. QED
    BY <1>2, <1>3 DEF Downgraded, Tidy

\* At the head all tables and types of orm.py are there, and create_all makes
\* nothing.
LEMMA HeadIsComplete == Completed(Listed) = Listed
  <1>1. "membership_request.key_with_entity" \notin DOMAIN Declared \cup DeclaredTypes
    BY DEF Declared, DeclaredTypes
  <1>2. DOMAIN Declared \cup DeclaredTypes \subseteq OrmSchema
    BY DEF OrmSchema
  <1>3. DOMAIN Declared \cup DeclaredTypes \subseteq Listed
    BY <1>1, <1>2, HeadAgainstOrm
  <1>4. DOMAIN Declared \ Listed = {}
    BY <1>3
  <1>5. QED
    BY <1>3, <1>4 DEF Completed

\* What changes when rows do.
LEMMA RowsKeepSchema ==
  ASSUME MigrationsTypeOK, RowsChange
  PROVE  /\ db'.version = db.version
         /\ db'.schema = db.schema
         /\ db'.labels = db.labels
         /\ run = None => run' = None
         /\ run # None =>
              /\ run'.work.version = run.work.version
              /\ run'.work.schema = run.work.schema
              /\ run'.work.labels = run.work.labels
              /\ run'.target = run.target
              /\ run'.locked = run.locked
              /\ run'.updated = run.updated
              /\ run'.moved = run.moved
  <1>1. ASSUME NEW s, StatusComes(s) \/ StatusGoes(s)
        PROVE  /\ \E S : db' = [db EXCEPT !.statuses = S]
               /\ \E S : Sees([run.work EXCEPT !.statuses = S])
    BY <1>1 DEF StatusComes, StatusGoes
  <1>2. ASSUME NEW k, KeyRepeats(k) \/ KeyIsUnique(k)
        PROVE  /\ \E K : db' = [db EXCEPT !.repeated = K]
               /\ \E K : Sees([run.work EXCEPT !.repeated = K])
    BY <1>2 DEF KeyRepeats, KeyIsUnique
  <1>3. \/ /\ \E S : db' = [db EXCEPT !.statuses = S]
           /\ \E S : Sees([run.work EXCEPT !.statuses = S])
        \/ /\ \E K : db' = [db EXCEPT !.repeated = K]
           /\ \E K : Sees([run.work EXCEPT !.repeated = K])
    BY <1>1, <1>2 DEF RowsChange, RoutesChange, KeysChange
  <1>4. db \in Database /\ (run # None => run \in Transaction /\ run.work \in Database)
    BY DEF MigrationsTypeOK, Transaction
  <1>5. /\ db'.version = db.version
        /\ db'.schema = db.schema
        /\ db'.labels = db.labels
    BY <1>3, <1>4 DEF Database
  <1>6. PICK w : /\ Sees(w)
                 /\ run # None => /\ w.version = run.work.version
                                  /\ w.schema = run.work.schema
                                  /\ w.labels = run.work.labels
    <2>1. \A S : run # None =>
            LET w == [run.work EXCEPT !.statuses = S]
            IN  /\ w.version = run.work.version
                /\ w.schema = run.work.schema
                /\ w.labels = run.work.labels
      BY <1>4 DEF Database
    <2>2. \A K : run # None =>
            LET w == [run.work EXCEPT !.repeated = K]
            IN  /\ w.version = run.work.version
                /\ w.schema = run.work.schema
                /\ w.labels = run.work.labels
      BY <1>4 DEF Database
    <2>3. CASE \E S : Sees([run.work EXCEPT !.statuses = S])
      BY <2>1, <2>3
    <2>4. CASE \E K : Sees([run.work EXCEPT !.repeated = K])
      BY <2>2, <2>4
    <2>5. QED
      BY <1>3, <2>3, <2>4
  <1>7. CASE run = None
    BY <1>5, <1>6, <1>7 DEF Sees
  <1>8. CASE run # None
    <2>1. run' = [run EXCEPT !.work = w] /\ run \in Transaction
      BY <1>4, <1>6, <1>8 DEF Sees
    <2>2. /\ run'.work = w /\ run'.target = run.target
          /\ run'.locked = run.locked
          /\ run'.updated = run.updated /\ run'.moved = run.moved
      BY <2>1 DEF Transaction
    <2>3. QED
      BY <1>5, <1>6, <1>8, <2>2
  <1>9. QED
    BY <1>7, <1>8

\* What changes when the statuses are rewritten.
LEMMA RelabelsKeeps ==
  ASSUME MigrationsTypeOK, Relabels
  PROVE  /\ run \in Transaction /\ run.work \in Database
         /\ run'.work.version = run.work.version
         /\ run'.work.schema = run.work.schema
         /\ run'.work.labels = run.work.labels
         /\ run'.work.statuses =
              {Relabelled(s, run.work.version) : s \in run.work.statuses}
         /\ run'.target = run.target
         /\ run'.locked = run.locked
         /\ run'.updated = TRUE
         /\ run'.moved = run.work.statuses \cap Revision[run.work.version].adds
  <1>1. run \in Transaction /\ run.work \in Database
    BY DEF Relabels, GoesDown, MigrationsTypeOK, Transaction
  <1>2. QED
    BY <1>1 DEF Relabels, Transaction, Database

\* Every step keeps the schema tidy.
LEMMA TidyIsKept == TidyInv /\ [Next]_vars => TidyInv'
  <1> SUFFICES ASSUME TidyInv, MigrationsTypeOK', [Next]_vars, ~early'
               PROVE  Tidy(db)' /\ (run' # None => Tidy(run.work)')
    BY TypesAreKept DEF TidyInv
  <1>1. ASSUME UNCHANGED early
        PROVE  ~early /\ Tidy(db) /\ (run # None => Tidy(run.work))
    BY <1>1 DEF TidyInv
  <1>2. ASSUME NEW t \in Targets, Starts(t)
        PROVE  Tidy(db)' /\ Tidy(run.work)'
    BY <1>1, <1>2 DEF Starts, Tidy
  <1>3. CASE StepUp
    <2> DEFINE m == run.work.version + 1
    <2>1. /\ run \in Transaction /\ run.work \in Database
          /\ m \in 1..Head /\ run.work.version = m - 1
      BY <1>3 DEF StepUp, GoesUp, TidyInv, MigrationsTypeOK, Transaction,
                  Database, Head
    <2>2. UNCHANGED <<db, early>> /\ Upgrades(run.work, m)
      BY <1>3 DEF StepUp, Step
    <2>3. run'.work = Upgraded(run.work, m)
      BY <1>3, <2>1 DEF StepUp, Step, Transaction
    <2>4. Tidy(run.work)
      BY <1>1, <1>3, <2>2 DEF StepUp, GoesUp
    <2> HIDE DEF m
    <2>5. Tidy(run'.work)
      BY <2>1, <2>2, <2>3, <2>4, UpgradeIsTidy
    <2>6. QED
      BY <1>1, <2>2, <2>5 DEF Tidy
  <1>4. CASE StepDown
    <2> DEFINE m == run.work.version
    <2>1. run \in Transaction /\ run.work \in Database /\ m \in 1..Head
      BY <1>4 DEF StepDown, GoesDown, TidyInv, MigrationsTypeOK, Transaction,
                  Database, Head
    <2>2. UNCHANGED <<db, early>>
      BY <1>4 DEF StepDown, Step
    <2>3. run'.work = Downgraded(run.work, m)
      BY <1>4, <2>1 DEF StepDown, Step, Transaction
    <2>4. Tidy(run.work)
      BY <1>1, <1>4, <2>2 DEF StepDown, GoesDown
    <2>5. Tidy(run'.work)
      BY <2>1, <2>3, <2>4, DowngradeIsTidy
    <2>6. QED
      BY <1>1, <2>2, <2>5 DEF Tidy
  <1>5. CASE UpgradeFails \/ DowngradeFails \/ Stops
    BY <1>1, <1>5 DEF UpgradeFails, DowngradeFails, Stops, RollsBack, Tidy
  <1>6. CASE Commits
    BY <1>1, <1>6 DEF Commits, Tidy
  <1>7. CASE ProcessStarts
    <2>1. ~early /\ db.version = Head
      BY <1>7 DEF ProcessStarts
    <2>2. Tidy(db) /\ db.schema = Listed
      BY <2>1, HeadIsListed DEF TidyInv, Tidy, Head
    <2>3. "route" \in db.schema
      BY <2>2 DEF Listed
    <2>4. db \in Database
      BY DEF TidyInv, MigrationsTypeOK
    <2>5. /\ db'.version = db.version
          /\ db'.schema = db.schema
          /\ db'.labels = db.labels
      BY <1>7, <2>2, <2>3, <2>4, HeadIsComplete DEF ProcessStarts, Database
    <2>6. run = None /\ run' = None
      BY <1>7 DEF ProcessStarts
    <2>7. QED
      BY <2>2, <2>5, <2>6 DEF Tidy
  <1>8. CASE RowsChange
    <2>1. /\ db'.version = db.version
          /\ db'.schema = db.schema
          /\ db'.labels = db.labels
      BY <1>8, RowsKeepSchema DEF TidyInv
    <2>2. run' # None => /\ run # None
                         /\ run'.work.version = run.work.version
                         /\ run'.work.schema = run.work.schema
                         /\ run'.work.labels = run.work.labels
      BY <1>8, RowsKeepSchema DEF TidyInv
    <2>3. UNCHANGED early
      BY <1>8 DEF RowsChange
    <2>4. QED
      BY <1>1, <2>1, <2>2, <2>3 DEF Tidy
  <1>9. CASE UNCHANGED vars
    BY <1>1, <1>9 DEF vars, Tidy
  <1>10. CASE Relabels
    <2>1. UNCHANGED <<db, early>> /\ run # None
      BY <1>10 DEF Relabels, GoesDown
    <2>2. /\ run'.work.version = run.work.version
          /\ run'.work.schema = run.work.schema
          /\ run'.work.labels = run.work.labels
      BY <1>10, <2>1, RelabelsKeeps DEF TidyInv
    <2>3. QED
      BY <1>1, <2>1, <2>2 DEF Tidy
  <1>11. QED
    BY <1>2, <1>3, <1>4, <1>5, <1>6, <1>7, <1>8, <1>9, <1>10 DEF Next

LEMMA TidyAtFirst == Init => TidyInv
  <1> SUFFICES ASSUME Init PROVE TidyInv
    OBVIOUS
  <1>1. MigrationsTypeOK
    BY TypesHoldAtFirst
  <1>2. LabelsAt(0) = {}
    BY DEF LabelsAt
  <1>3. QED
    BY <1>1, <1>2, SchemaAtBase DEF Init, TidyInv, Tidy

\* Where processes start only on a migrated database, the schema and the
\* values of a status are those of the version, along every chain of upgrades,
\* downgrades, failures and interruptions; and at the head the schema is not
\* what orm.py declares, in the seven objects of SchemaIsVersions, and create_all
\* does nothing about it.
THEOREM SchemaFollows == Spec => []SchemaIsVersions
  <1>1. TidyInv => SchemaIsVersions
    BY HeadIsListed, HeadIsComplete, HeadAgainstOrm
    DEF TidyInv, Tidy, SchemaIsVersions, Head
  <1>2. QED
    BY <1>1, TidyAtFirst, TidyIsKept, PTL DEF Spec

-----------------------------------------------------------------------------
(***************************************************************************)
(* What becomes of the statuses, whether or not processes start early.     *)
(* From the first revision on there is a table of routes, whose statuses   *)
(* are values of the version's type; at base there may be one that         *)
(* create_all has made, over which no upgrade gets.                        *)
(***************************************************************************)
Sound(w) ==
    /\ w.version # 0 => "route" \in w.schema /\ w.labels = LabelsAt(w.version)
    /\ w.version = 0 /\ "route" \notin w.schema => w.labels = {}
    /\ w.statuses \subseteq w.labels

\* What StatusesSurvive promises of the statuses S under a type with values L.
Cast(S, L) == {IF s \in L THEN s ELSE "DOWN" : s \in S}

\* Between the UPDATE and the ALTER TABLE: either nobody else can write, and the
\* promise is kept for the type to come, or they can, and what the command has
\* left is what they see but for the rows that it has locked.
Between ==
    LET m == run.work.version
    IN  /\ m > run.target
        /\ m \in 2..Head
        /\ "route" \in run.locked =>
             run.work.statuses = Cast(db.statuses, LabelsAt(m - 1))
        /\ "route" \notin run.locked =>
             /\ run.moved \subseteq db.statuses \cap Revision[m].adds
             /\ run.work.statuses \ run.moved =
                  (db.statuses \ run.moved)
                     \cup (IF run.moved = {} THEN {} ELSE {"DOWN"})

\* A command goes one way, and has kept its promise as far as it has come.
\* Until it has locked the routes it has not touched the type of their status.
OnItsWay ==
    /\ Sound(run.work)
    /\ run.target # db.version
    /\ run.target > db.version =>
         /\ run.work.version \in db.version..run.target
         /\ run.work.statuses = db.statuses
         /\ ~run.updated
    /\ run.target < db.version =>
         /\ run.work.version \in run.target..db.version
         /\ run.work.version = 0 =>
              run.work.statuses = {} /\ "route" \in run.locked
         /\ run.work.version # 0 /\ ~run.updated =>
              run.work.statuses = Cast(db.statuses, run.work.labels)
    /\ run.updated => Between
    /\ ~run.updated => run.moved = {}
    /\ run.work.version = db.version => run.work.schema = db.schema
    /\ "route" \notin run.locked => run.work.labels = db.labels

SoundInv ==
    /\ MigrationsTypeOK
    /\ Sound(db)
    /\ run # None => OnItsWay

\* The table of routes comes with the first revision, and goes with it.
LEMMA RouteStays ==
  ASSUME NEW m \in 1..Head
  PROVE  /\ "route" \in Revision[m].creates <=> m = 1
         /\ "route" \notin Revision[m].drops
         /\ "route" \notin Revision[m].keeps
  <1>1. Born("route") = 1 /\ Dropped("route") = 15 /\ "route" \in Listed
    BY DEF Born, Dropped, Listed
  <1>2. "route" \in Revision[m].creates <=> m = 1
    BY <1>1, FactsHold DEF Creates
  <1>3. "route" \notin Revision[m].drops
    BY <1>1, FactsHold DEF Drops, Head
  <1>4. "route" \notin Revision[m].keeps
    BY FactsHold DEF Keeps, BaseTypes
  <1>5. QED
    BY <1>2, <1>3, <1>4

\* The values that a revision adds are new, and no value is lost on the way up.
LEMMA LabelsGrow ==
  ASSUME NEW m \in 2..Head
  PROVE  /\ LabelsAt(m) = LabelsAt(m - 1) \cup Revision[m].adds
         /\ Revision[m].adds \cap LabelsAt(m - 1) = {}
         /\ "DOWN" \in LabelsAt(m - 1)
         /\ Retypes(m) <=> Revision[m].adds # {}
  <1>1. m \in 1..Head /\ m - 1 \in 1..Head /\ m # 1 /\ m - 1 # 0
    BY DEF Head
  <1>2. LabelsAt(m) = LabelsAt(m - 1) \cup Revision[m].adds
    BY <1>1, LabelsUp
  <1>3. LabelsAt(m - 1) =
          {"UP", "DOWN"} \cup (UNION {Revision[i].adds : i \in 1..(m - 1)})
    BY <1>1 DEF LabelsAt
  <1>4. ASSUME NEW s \in Revision[m].adds, s \in LabelsAt(m - 1)
        PROVE  FALSE
    <2>1. s \notin {"UP", "DOWN"} /\ m \in {10, 11}
      BY <1>1, FactsHold DEF Adds
    <2>2. PICK i \in 1..(m - 1) : s \in Revision[i].adds
      BY <1>3, <1>4, <2>1
    <2>3. i \in 1..Head /\ i < m
      BY <1>1, <2>2 DEF Head
    <2>4. i = 10 /\ m = 11
      BY <1>1, <2>1, <2>2, <2>3, FactsHold DEF Adds
    <2>5. QED
      BY <1>1, <2>2, <2>3, <2>4, FactsHold DEF Adds
  <1>5. QED
    BY <1>1, <1>2, <1>3, <1>4 DEF Retypes

\* One revision up: nothing happens to the statuses, for which there is room.
LEMMA UpgradeIsSound ==
  ASSUME NEW m \in 1..Head, NEW w \in Database, w.version = m - 1,
         Sound(w), Upgrades(w, m)
  PROVE  Sound(Upgraded(w, m))
  <1> DEFINE u == Upgraded(w, m)
  <1>1. /\ u.version = m /\ m # 0
        /\ u.schema = (w.schema \ Revision[m].drops) \cup Revision[m].creates
        /\ u.labels = UpgradedLabels(w, m)
        /\ u.statuses = w.statuses
    BY DEF Upgraded, Head
  <1>2. CASE m = 1
    <2>1. "route" \in u.schema /\ "route" \notin w.schema
      BY <1>1, <1>2, RouteStays DEF Upgrades
    <2>2. w.statuses = {}
      BY <1>2, <2>1 DEF Sound
    <2>3. u.labels = LabelsAt(m)
      BY <1>1, <1>2 DEF UpgradedLabels, Retypes
    <2>4. QED
      BY <1>1, <2>1, <2>2, <2>3 DEF Sound
  <1>3. CASE m # 1
    <2>1. m \in 2..Head /\ w.version # 0
      BY <1>3 DEF Head
    <2>2. "route" \in w.schema /\ w.labels = LabelsAt(m - 1)
      BY <2>1 DEF Sound
    <2>3. "route" \in u.schema
      BY <1>1, <2>2, RouteStays
    <2>4. u.labels = LabelsAt(m) /\ w.labels \subseteq u.labels
      BY <1>1, <2>1, <2>2, LabelsGrow DEF UpgradedLabels
    <2>5. QED
      BY <1>1, <2>3, <2>4 DEF Sound
  <1>4. QED
    BY <1>2, <1>3

\* The UPDATE leaves what the type to come has a value for, and keeps the
\* promise for it.
LEMMA CastDown ==
  ASSUME NEW m \in 2..Head, NEW S, NEW W, W = Cast(S, LabelsAt(m))
  PROVE  /\ {Relabelled(s, m) : s \in W} = Cast(S, LabelsAt(m - 1))
         /\ {Relabelled(s, m) : s \in W} \subseteq LabelsAt(m - 1)
  <1> DEFINE L == LabelsAt(m)
             K == LabelsAt(m - 1)
             A == Revision[m].adds
             c(s) == IF s \in L THEN s ELSE "DOWN"
  <1>1. L = K \cup A /\ A \cap K = {} /\ "DOWN" \in K
    BY LabelsGrow
  <1>2. \A s : Relabelled(s, m) = IF s \in A THEN "DOWN" ELSE s
    BY DEF Relabelled
  <1>3. W = {c(s) : s \in S}
    BY DEF Cast
  <1> HIDE DEF L, K, A
  <1>4. \A s : Relabelled(c(s), m) = IF s \in K THEN s ELSE "DOWN"
    BY <1>1, <1>2
  <1> HIDE DEF c
  <1>5. {Relabelled(s, m) : s \in W} = {Relabelled(c(s), m) : s \in S}
    BY <1>3
  <1>6. {Relabelled(s, m) : s \in W} = {IF s \in K THEN s ELSE "DOWN" : s \in S}
    BY <1>4, <1>5
  <1>7. QED
    BY <1>1, <1>6 DEF Cast, K

\* What one revision down does to the values and to the statuses.
LEMMA TypeGoesBack ==
  ASSUME NEW m \in 2..Head, NEW w \in Database, w.version = m, Sound(w)
  PROVE  /\ Downgraded(w, m).labels = LabelsAt(m - 1)
         /\ Downgraded(w, m).statuses = w.statuses
         /\ Revision[m].adds = {} => LabelsAt(m - 1) = w.labels
  <1>1. m # 0 /\ m # 1
    BY DEF Head
  <1>2. w.labels = LabelsAt(m)
    BY <1>1 DEF Sound
  <1>3. Revision[m].adds = {} => LabelsAt(m - 1) = LabelsAt(m)
    BY LabelsGrow
  <1>4. QED
    BY <1>1, <1>2, <1>3 DEF Downgraded, DowngradedLabels, Retypes

LEMMA DowngradeIsSound ==
  ASSUME NEW m \in 1..Head, NEW w \in Database, w.version = m, Sound(w),
         Downgrades(w, m)
  PROVE  Sound(Downgraded(w, m))
  <1> DEFINE d == Downgraded(w, m)
  <1>1. /\ d.version = m - 1
        /\ d.schema = (w.schema \ (Revision[m].creates \ Revision[m].keeps))
                        \cup Revision[m].drops
        /\ d.labels = DowngradedLabels(w, m)
    BY DEF Downgraded, DowngradedSchema
  <1>2. CASE m = 1
    <2>1. d.statuses = {} /\ d.version = 0
      BY <1>1, <1>2 DEF Downgraded
    <2>2. d.labels = {}
      BY <1>1, <1>2 DEF DowngradedLabels, Retypes, LabelsAt
    <2>3. QED
      BY <2>1, <2>2 DEF Sound
  <1>3. CASE m # 1
    <2>1. m \in 2..Head /\ m # 0 /\ m - 1 # 0
      BY <1>3 DEF Head
    <2>2. "route" \in d.schema
      BY <1>1, <1>3, <2>1, RouteStays DEF Sound
    <2>3. d.labels = LabelsAt(m - 1) /\ d.statuses \subseteq d.labels
      BY <2>1, TypeGoesBack DEF Downgrades
    <2>4. QED
      BY <1>1, <2>1, <2>2, <2>3 DEF Sound
  <1>4. QED
    BY <1>2, <1>3

\* Past the ALTER TABLE the promise is kept, for what has come since the UPDATE
\* would not have let it through.
LEMMA BetweenIsCast ==
  ASSUME Between, db.statuses \subseteq LabelsAt(run.work.version),
         run.work.statuses \subseteq LabelsAt(run.work.version - 1)
  PROVE  run.work.statuses = Cast(db.statuses, LabelsAt(run.work.version - 1))
  <1> DEFINE m == run.work.version
             K == LabelsAt(m - 1)
             A == Revision[m].adds
             S == db.statuses
             W == run.work.statuses
             M == run.moved
  <1>1. m \in 2..Head
    BY DEF Between
  <1>2. LabelsAt(m) = K \cup A /\ A \cap K = {}
    BY <1>1, LabelsGrow
  <1>3. CASE "route" \in run.locked
    BY <1>3 DEF Between
  <1>4. CASE "route" \notin run.locked
    <2>1. /\ M \subseteq S \cap A
          /\ W \ M = (S \ M) \cup (IF M = {} THEN {} ELSE {"DOWN"})
      BY <1>4 DEF Between
    <2>2. W \subseteq K /\ S \subseteq K \cup A
      BY <1>2
    <2> HIDE DEF m, K, A, S, W, M
    <2>3. W = (S \ M) \cup (IF M = {} THEN {} ELSE {"DOWN"})
      BY <1>2, <2>1, <2>2
    <2>4. \A s \in S : s \in K <=> s \notin M
      BY <1>2, <2>1, <2>2, <2>3
    <2>5. W = {IF s \in K THEN s ELSE "DOWN" : s \in S}
      BY <2>1, <2>3, <2>4
    <2>6. QED
      BY <2>5 DEF Cast, K, S, W, m
  <1>5. QED
    BY <1>3, <1>4

\* A status that the type has is cast to itself.
LEMMA CastKeeps ==
  ASSUME NEW S, NEW L, S \subseteq L
  PROVE  Cast(S, L) = S
BY DEF Cast

\* A step up keeps the promise.
LEMMA StepUpIsSound == SoundInv /\ StepUp => OnItsWay'
  <1> SUFFICES ASSUME SoundInv, StepUp PROVE OnItsWay'
    OBVIOUS
  <1> DEFINE w == run.work
             m == w.version + 1
             u == Upgraded(w, m)
  <1>1. /\ run \in Transaction /\ w \in Database /\ OnItsWay
        /\ db \in Database /\ db.version \in 0..Head
    BY DEF StepUp, GoesUp, SoundInv, MigrationsTypeOK, Transaction, Database
  <1>2. /\ w.version \in 0..Head /\ run.target \in 0..Head
        /\ w.version < run.target
    BY <1>1 DEF StepUp, GoesUp, Transaction, Database
  <1>3. m \in 1..Head /\ w.version = m - 1
    BY <1>2 DEF Head
  <1>4. Upgrades(w, m) /\ db' = db
    BY DEF StepUp, Step
  <1>5. /\ run'.work = u /\ run'.target = run.target
        /\ run'.locked = run.locked \cup Revision[m].locks
        /\ run'.updated = FALSE /\ run'.moved = {}
    BY <1>1 DEF StepUp, Step, Transaction
  <1>6. /\ u.version = m /\ u.statuses = w.statuses
        /\ u.labels = IF Retypes(m) THEN LabelsAt(m) ELSE w.labels
    BY DEF Upgraded, UpgradedLabels
  <1>7. Retypes(m) => "route" \in Revision[m].locks
    BY <1>3, FactsHold DEF Retypes, Adds, Locks
  <1>8. Sound(w)
    BY <1>1 DEF OnItsWay
  <1>9. "route" \notin run.locked => w.labels = db.labels
    BY <1>1 DEF OnItsWay
  <1> HIDE DEF m, u, w
  <1>10. Sound(u)
    BY <1>1, <1>3, <1>4, <1>8, UpgradeIsSound DEF u
  <1>11. /\ run.target > db.version
         /\ w.version \in db.version..run.target /\ w.statuses = db.statuses
    BY <1>1, <1>2 DEF OnItsWay, Head, w
  <1>12. m \in db.version..run.target /\ m # db.version
    BY <1>1, <1>2, <1>3, <1>11 DEF Head
  <1>13. "route" \notin run'.locked => u.labels = db.labels
    BY <1>5, <1>6, <1>7, <1>9
  <1>14. QED
    BY <1>1, <1>2, <1>4, <1>5, <1>6, <1>10, <1>11, <1>12, <1>13
    DEF OnItsWay, Sound, Head

\* So does the UPDATE.
LEMMA RelabelsIsSound == SoundInv /\ Relabels => OnItsWay'
  <1> SUFFICES ASSUME SoundInv, Relabels PROVE OnItsWay'
    OBVIOUS
  <1> DEFINE w == run.work
             m == w.version
             A == Revision[m].adds
             W == {Relabelled(s, m) : s \in w.statuses}
  <1>1. /\ run \in Transaction /\ w \in Database /\ OnItsWay /\ ~run.updated
        /\ db \in Database /\ db.version \in 0..Head /\ Sound(db)
    BY DEF Relabels, GoesDown, MustRelabel, SoundInv, MigrationsTypeOK,
           Transaction, Database
  <1>2. m \in 1..Head /\ run.target \in 0..Head /\ run.target < m /\ A # {}
    BY <1>1 DEF Relabels, GoesDown, MustRelabel, Transaction, Database, Head
  <1>3. m \in {10, 11} /\ "DOWN" \notin A
    BY <1>2, FactsHold DEF Adds
  <1>4. m \in 2..Head /\ m # 0
    BY <1>3 DEF Head
  <1>5. /\ db' = db /\ run'.target = run.target /\ run'.locked = run.locked
        /\ run'.updated = TRUE /\ run'.moved = w.statuses \cap A
        /\ run'.work.version = m /\ run'.work.schema = w.schema
        /\ run'.work.labels = w.labels /\ run'.work.statuses = W
    BY RelabelsKeeps DEF SoundInv, Relabels
  <1>6. /\ run.target < db.version /\ m \in run.target..db.version
        /\ w.statuses = Cast(db.statuses, w.labels)
        /\ w.labels = LabelsAt(m) /\ w.statuses \subseteq LabelsAt(m)
        /\ "route" \in w.schema
        /\ m = db.version => w.schema = db.schema
        /\ "route" \notin run.locked => w.labels = db.labels
    BY <1>1, <1>2, <1>4 DEF OnItsWay, Sound, Head
  <1>7. /\ W = Cast(db.statuses, LabelsAt(m - 1))
        /\ W \subseteq LabelsAt(m - 1)
    BY <1>4, <1>6, CastDown
  <1>8. LabelsAt(m - 1) \subseteq LabelsAt(m)
    BY <1>4, LabelsGrow
  <1>9. ASSUME "route" \notin run.locked
        PROVE  /\ w.statuses \cap A \subseteq db.statuses \cap A
               /\ W \ (w.statuses \cap A) =
                    (db.statuses \ (w.statuses \cap A))
                      \cup (IF w.statuses \cap A = {} THEN {} ELSE {"DOWN"})
    <2>1. w.statuses = db.statuses
      BY <1>1, <1>6, <1>9, CastKeeps DEF Sound
    <2>2. \A s : Relabelled(s, m) = IF s \in A THEN "DOWN" ELSE s
      BY DEF Relabelled
    <2> HIDE DEF A, m, w
    <2>3. W = (w.statuses \ A) \cup (IF w.statuses \cap A = {} THEN {} ELSE {"DOWN"})
      BY <2>2
    <2>4. QED
      BY <1>3, <2>1, <2>3
  <1> HIDE DEF W, A, m, w
  <1>10. Between'
    <2>1. /\ run'.work.version > run'.target
          /\ run'.work.version \in 2..Head
      BY <1>2, <1>4, <1>5 DEF Head
    <2>2. "route" \in run'.locked =>
            run'.work.statuses = Cast(db'.statuses, LabelsAt(run'.work.version - 1))
      BY <1>5, <1>7
    <2>3. Revision[run'.work.version].adds = A
      BY <1>5 DEF A
    <2>4. "route" \notin run'.locked =>
            /\ run'.moved \subseteq db'.statuses \cap A
            /\ run'.work.statuses \ run'.moved =
                 (db'.statuses \ run'.moved)
                    \cup (IF run'.moved = {} THEN {} ELSE {"DOWN"})
      BY <1>5, <1>9
    <2>5. QED
      BY <2>1, <2>2, <2>3, <2>4 DEF Between
  <1>11. Sound(run.work)'
    BY <1>4, <1>5, <1>6, <1>7, <1>8 DEF Sound
  <1>12. QED
    BY <1>1, <1>2, <1>4, <1>5, <1>6, <1>10, <1>11 DEF OnItsWay, Head

\* And a step down.
LEMMA StepDownIsSound == SoundInv /\ StepDown => OnItsWay'
  <1> SUFFICES ASSUME SoundInv, StepDown PROVE OnItsWay'
    OBVIOUS
  <1> DEFINE w == run.work
             m == w.version
             d == Downgraded(w, m)
             A == Revision[m].adds
  <1>1. /\ run \in Transaction /\ w \in Database /\ OnItsWay
        /\ db \in Database /\ db.version \in 0..Head /\ Sound(db)
    BY DEF StepDown, GoesDown, SoundInv, MigrationsTypeOK, Transaction, Database
  <1>2. m \in 1..Head /\ run.target \in 0..Head /\ run.target < m
    BY <1>1 DEF StepDown, GoesDown, Transaction, Database, Head
  <1>3. db' = db /\ Downgrades(w, m) /\ (A = {} \/ run.updated)
    BY DEF StepDown, Step, MustRelabel
  <1>4. /\ run'.work = d /\ run'.target = run.target
        /\ run'.locked = run.locked \cup Revision[m].locks
        /\ run'.updated = FALSE /\ run'.moved = {}
    BY <1>1 DEF StepDown, Step, Transaction
  <1>5. d.version = m - 1
    BY DEF Downgraded
  <1>6. /\ Sound(w) /\ w.version = m
        /\ "route" \notin run.locked => w.labels = db.labels
        /\ run.updated => Between
    BY <1>1 DEF OnItsWay
  <1>7. run.target < db.version /\ m \in run.target..db.version
    BY <1>1, <1>2 DEF OnItsWay, Head
  <1>8. ~run.updated => w.statuses = Cast(db.statuses, w.labels)
    BY <1>1, <1>2, <1>7 DEF OnItsWay, Head
  <1>9. m = 1 => d.statuses = {}
    BY DEF Downgraded
  <1>10. m \in {1, 10, 11} => "route" \in Revision[m].locks
    BY <1>2, FactsHold DEF Locks
  <1>11. m \notin {10, 11} => A = {}
    BY <1>2, FactsHold DEF Adds
  <1>12. ASSUME m # 1
         PROVE  /\ d.statuses = Cast(db.statuses, d.labels)
                /\ "route" \notin run'.locked => d.labels = db.labels
    <2>1. m \in 2..Head
      BY <1>2, <1>12 DEF Head
    <2>2. /\ d.labels = LabelsAt(m - 1) /\ d.statuses = w.statuses
          /\ A = {} => LabelsAt(m - 1) = w.labels
      BY <1>1, <1>6, <2>1, TypeGoesBack
    <2>3. CASE run.updated
      <3>1. w.labels = LabelsAt(m)
        BY <1>6, <2>1 DEF Sound, Head
      <3>2. w.statuses \subseteq LabelsAt(m - 1)
        BY <1>3, <2>2 DEF Downgrades
      <3>3. m \in {10, 11} \/ A = {}
        BY <1>11
      <3>4. db.statuses \subseteq LabelsAt(m) \/ "route" \in run.locked
        BY <1>1, <1>6, <3>1 DEF Sound
      <3>5. w.statuses = Cast(db.statuses, LabelsAt(m - 1))
        <4>1. CASE "route" \in run.locked
          BY <1>6, <2>3, <4>1 DEF Between
        <4>2. CASE "route" \notin run.locked
          BY <1>6, <2>3, <3>2, <3>4, <4>2, BetweenIsCast
        <4>3. QED
          BY <4>1, <4>2
      <3>6. "route" \notin run'.locked => d.labels = db.labels
        BY <1>4, <1>6, <1>10, <2>2, <3>3
      <3>7. QED
        BY <2>2, <3>5, <3>6
    <2>4. CASE ~run.updated
      <3>1. A = {}
        BY <1>3, <2>4
      <3>2. QED
        BY <1>4, <1>6, <1>8, <2>2, <2>4, <3>1
    <2>5. QED
      BY <2>3, <2>4
  <1> HIDE DEF m, d, w, A
  <1>13. Sound(d)
    BY <1>1, <1>2, <1>3, <1>6, DowngradeIsSound DEF d
  <1>14. /\ d.version \in run.target..db.version /\ d.version # db.version
         /\ d.version = 0 <=> m = 1
    BY <1>1, <1>2, <1>5, <1>7 DEF Head
  <1>15. d.version = 0 => d.statuses = {} /\ "route" \in run'.locked
    BY <1>4, <1>9, <1>10, <1>14
  <1>16. d.version # 0 => d.statuses = Cast(db.statuses, d.labels)
    BY <1>12, <1>14
  <1>17. "route" \notin run'.locked => d.labels = db.labels
    BY <1>12, <1>14, <1>15
  <1>18. QED
    BY <1>1, <1>2, <1>3, <1>4, <1>7, <1>13, <1>14, <1>15, <1>16, <1>17
    DEF OnItsWay, Sound, Cast, Head

\* What the others commit, and what the command sees of it.
LEMMA RoutesSeen ==
  ASSUME MigrationsTypeOK, NEW s, StatusComes(s) \/ StatusGoes(s)
  PROVE  /\ db'.version = db.version
         /\ db'.statuses \subseteq db.statuses \cup {s}
         /\ run # None /\ run.moved = {} =>
              \/ /\ db'.statuses = db.statuses \cup {s}
                 /\ run'.work.statuses = run.work.statuses \cup {s}
              \/ /\ db'.statuses = db.statuses \ {s}
                 /\ run'.work.statuses = run.work.statuses \ {s}
         /\ run # None =>
              \/ /\ db'.statuses = db.statuses \cup {s}
                 /\ run'.work.statuses = run.work.statuses \cup {s}
              \/ /\ db'.statuses = db.statuses \ ({s} \ run.moved)
                 /\ run'.work.statuses = (run.work.statuses \ {s})
                      \cup (IF run.moved = {} THEN {} ELSE {"DOWN"})
  <1>1. db \in Database /\ (run # None => run \in Transaction /\ run.work \in Database)
    BY DEF MigrationsTypeOK, Transaction
  <1>2. CASE StatusComes(s)
    <2>1. db'.version = db.version /\ db'.statuses = db.statuses \cup {s}
      BY <1>1, <1>2 DEF StatusComes, Database
    <2>2. run # None => run'.work.statuses = run.work.statuses \cup {s}
      BY <1>1, <1>2 DEF StatusComes, Sees, Transaction, Database
    <2>3. QED
      BY <2>1, <2>2
  <1>3. CASE StatusGoes(s)
    <2>1. db'.version = db.version /\ db'.statuses = db.statuses \ ({s} \ Moved)
      BY <1>1, <1>3 DEF StatusGoes, Database
    <2>2. run # None => run'.work.statuses = (run.work.statuses \ {s})
                          \cup (IF Moved = {} THEN {} ELSE {"DOWN"})
      BY <1>1, <1>3 DEF StatusGoes, Sees, Transaction, Database
    <2>3. run # None => Moved = run.moved
      BY DEF Moved
    <2>4. QED
      BY <2>1, <2>2, <2>3
  <1>4. QED
    BY <1>2, <1>3

LEMMA KeysSeen ==
  ASSUME MigrationsTypeOK, NEW k, KeyRepeats(k) \/ KeyIsUnique(k)
  PROVE  /\ db'.version = db.version /\ db'.statuses = db.statuses
         /\ run # None => run'.work.statuses = run.work.statuses
  <1>1. db \in Database /\ (run # None => run \in Transaction /\ run.work \in Database)
    BY DEF MigrationsTypeOK, Transaction
  <1>2. CASE KeyRepeats(k)
    BY <1>1, <1>2 DEF KeyRepeats, Sees, Transaction, Database
  <1>3. CASE KeyIsUnique(k)
    BY <1>1, <1>3 DEF KeyIsUnique, Sees, Transaction, Database
  <1>4. QED
    BY <1>2, <1>3

\* Others write to the routes only while the command has not locked them, and
\* then it sees what they see, but for the rows of its UPDATE.
LEMMA RowsAreSound ==
  SoundInv /\ RowsChange => Sound(db)' /\ (run' # None => OnItsWay')
  <1> SUFFICES ASSUME SoundInv, RowsChange
               PROVE  Sound(db)' /\ (run' # None => OnItsWay')
    OBVIOUS
  <1>1. /\ MigrationsTypeOK /\ Sound(db)
        /\ db \in Database /\ db.version \in 0..Head
    BY DEF SoundInv, MigrationsTypeOK, Database
  <1>2. /\ db'.version = db.version /\ db'.schema = db.schema
        /\ db'.labels = db.labels
        /\ run = None => run' = None
        /\ run # None =>
             /\ run'.work.version = run.work.version
             /\ run'.work.schema = run.work.schema
             /\ run'.work.labels = run.work.labels
             /\ run'.target = run.target /\ run'.locked = run.locked
             /\ run'.updated = run.updated /\ run'.moved = run.moved
    BY <1>1, RowsKeepSchema
  <1>3. CASE db'.statuses = db.statuses /\
             (run # None => run'.work.statuses = run.work.statuses)
    <2>1. Sound(db)'
      BY <1>1, <1>2, <1>3 DEF Sound
    <2>2. ASSUME run # None PROVE OnItsWay'
      <3>1. OnItsWay
        BY <2>2 DEF SoundInv
      <3>2. run.updated => Between'
        BY <1>2, <1>3, <2>2, <3>1 DEF OnItsWay, Between, Cast
      <3>3. Sound(run.work)'
        BY <1>2, <1>3, <2>2, <3>1 DEF OnItsWay, Sound
      <3>4. QED
        BY <1>2, <1>3, <2>2, <3>1, <3>2, <3>3 DEF OnItsWay, Cast
    <2>3. QED
      BY <1>2, <2>1, <2>2
  <1>4. ASSUME NEW s \in db.labels, "route" \notin Locked,
               StatusComes(s) \/ StatusGoes(s)
        PROVE  Sound(db)' /\ (run' # None => OnItsWay')
    <2>1. db'.statuses \subseteq db.labels
      BY <1>1, <1>4, RoutesSeen DEF Sound
    <2>2. Sound(db)'
      BY <1>1, <1>2, <2>1 DEF Sound
    <2>3. ASSUME run # None PROVE OnItsWay'
      <3> DEFINE w == run.work
      <3>1. OnItsWay /\ "route" \notin run.locked /\ w.labels = db.labels
        BY <1>4, <2>3 DEF SoundInv, Locked, OnItsWay
      <3>2. \/ /\ db'.statuses = db.statuses \cup {s}
               /\ run'.work.statuses = w.statuses \cup {s}
            \/ /\ db'.statuses = db.statuses \ ({s} \ run.moved)
               /\ run'.work.statuses = (w.statuses \ {s})
                    \cup (IF run.moved = {} THEN {} ELSE {"DOWN"})
        BY <1>1, <1>4, <2>3, RoutesSeen
      <3>3. Sound(w) /\ (run.moved # {} => Between)
        BY <3>1 DEF OnItsWay
      <3>4. run.moved # {} => "DOWN" \in db.labels
        <4>1. SUFFICES ASSUME Between PROVE "DOWN" \in db.labels
          BY <3>3
        <4>2. w.version \in 2..Head /\ w.version # 0
          BY <4>1 DEF Between, Head
        <4>3. w.labels = LabelsAt(w.version)
          BY <3>3, <4>2 DEF Sound
        <4>4. "DOWN" \in LabelsAt(w.version)
          BY <4>2, LabelsGrow
        <4>5. QED
          BY <3>1, <4>3, <4>4
      <3>5. run'.work.statuses \subseteq w.labels
        BY <1>4, <3>1, <3>2, <3>3, <3>4 DEF Sound
      <3>6. Sound(run.work)'
        BY <1>2, <2>3, <3>3, <3>5 DEF Sound
      <3>7. CASE run.updated
        <4>1. Between
          BY <3>1, <3>7 DEF OnItsWay
        <4>2. "DOWN" \notin run.moved
          BY <4>1, <3>1, FactsHold DEF Between, Adds, Head
        <4>3. /\ run.moved \subseteq db.statuses \cap Revision[w.version].adds
              /\ w.statuses \ run.moved = (db.statuses \ run.moved)
                   \cup (IF run.moved = {} THEN {} ELSE {"DOWN"})
          BY <3>1, <4>1 DEF Between
        <4>4. /\ run.moved \subseteq db'.statuses \cap Revision[w.version].adds
              /\ run'.work.statuses \ run.moved = (db'.statuses \ run.moved)
                   \cup (IF run.moved = {} THEN {} ELSE {"DOWN"})
          BY <3>2, <4>2, <4>3
        <4>5. Between'
          BY <1>2, <2>3, <3>1, <4>1, <4>4 DEF Between
        <4>6. QED
          BY <1>2, <2>3, <3>1, <3>6, <3>7, <4>5 DEF OnItsWay
      <3>8. CASE ~run.updated
        <4>1. run.moved = {}
          BY <3>1, <3>8 DEF OnItsWay
        <4>2. w.statuses = db.statuses
          <5>1. run.target > db.version \/ run.target < db.version
            BY <1>1, <2>3, <3>1 DEF OnItsWay, MigrationsTypeOK, Transaction, Head
          <5>2. run.target > db.version => w.statuses = db.statuses
            BY <3>1 DEF OnItsWay
          <5>3. run.target < db.version => w.statuses = Cast(db.statuses, db.labels)
            BY <3>1, <3>8 DEF OnItsWay
          <5>4. Cast(db.statuses, db.labels) = db.statuses
            BY <1>1, CastKeeps DEF Sound
          <5>5. QED
            BY <5>1, <5>2, <5>3, <5>4
        <4>3. run'.work.statuses = db'.statuses
          BY <3>2, <4>1, <4>2
        <4>4. Cast(db'.statuses, db'.labels) = db'.statuses
          BY <1>2, <2>1, CastKeeps
        <4>5. QED
          BY <1>2, <2>3, <3>1, <3>6, <3>8, <4>3, <4>4 DEF OnItsWay, Cast
      <3>9. QED
        BY <3>7, <3>8
    <2>4. QED
      BY <1>2, <2>2, <2>3
  <1>5. CASE RoutesChange
    BY <1>4, <1>5 DEF RoutesChange
  <1>6. CASE KeysChange
    <2>1. PICK k \in DOMAIN Keyed : KeyRepeats(k) \/ KeyIsUnique(k)
      BY <1>6 DEF KeysChange
    <2>2. QED
      BY <1>1, <1>3, <2>1, KeysSeen
  <1>7. QED
    BY <1>5, <1>6 DEF RowsChange

\* Every step keeps the statuses sound.
LEMMA SoundIsKept == SoundInv /\ [Next]_vars => SoundInv'
  <1> SUFFICES ASSUME SoundInv, MigrationsTypeOK', [Next]_vars
               PROVE  Sound(db)' /\ (run' # None => OnItsWay')
    BY TypesAreKept DEF SoundInv
  <1>1. db \in Database /\ db.version \in 0..Head
    BY DEF SoundInv, MigrationsTypeOK, Database
  <1>2. ASSUME NEW t \in Targets, Starts(t)
        PROVE  Sound(db)' /\ OnItsWay'
    <2>1. /\ run' = [target |-> t, work |-> db, locked |-> {},
                     updated |-> FALSE, moved |-> {}]
          /\ db' = db /\ t # db.version /\ t \in 0..Head
      BY <1>2, MigrationsAssumption DEF Starts
    <2>2. /\ run'.target = t /\ run'.work = db /\ run'.updated = FALSE
          /\ run'.moved = {}
      BY <2>1
    <2>3. Sound(db)
      BY DEF SoundInv
    <2>4. Cast(db.statuses, db.labels) = db.statuses
      BY <2>3, CastKeeps DEF Sound
    <2>5. t < db.version => db.version # 0
      BY <1>1, <2>1 DEF Head
    <2>6. QED
      BY <1>1, <2>1, <2>2, <2>3, <2>4, <2>5 DEF OnItsWay, Sound, Head
  <1>3. CASE StepUp
    BY <1>3, StepUpIsSound DEF StepUp, Step, SoundInv, Sound
  <1>4. CASE Relabels
    BY <1>4, RelabelsIsSound DEF Relabels, SoundInv, Sound
  <1>11. CASE StepDown
    BY <1>11, StepDownIsSound DEF StepDown, Step, SoundInv, Sound
  <1>5. CASE UpgradeFails \/ DowngradeFails \/ Stops
    BY <1>5 DEF UpgradeFails, DowngradeFails, Stops, RollsBack, SoundInv, Sound
  <1>6. CASE Commits
    BY <1>6 DEF Commits, SoundInv, OnItsWay, Sound
  <1>7. CASE ProcessStarts
    <2>1. run' = None
      BY <1>7 DEF ProcessStarts
    <2>2. /\ db'.version = db.version /\ db'.statuses = db.statuses
          /\ db'.schema = Completed(db.schema)
          /\ db'.labels = IF "route" \in db.schema THEN db.labels ELSE Label
      BY <1>1, <1>7 DEF ProcessStarts, Database
    <2>3. "route" \in Completed(db.schema)
      <3>1. "route" \in DOMAIN Declared
        BY DEF Declared
      <3>2. QED
        BY <3>1 DEF Completed
    <2>4. db.statuses \subseteq db'.labels
      BY <1>1, <2>2 DEF SoundInv, Sound, Database
    <2>5. QED
      BY <2>1, <2>2, <2>3, <2>4 DEF SoundInv, Sound
  <1>8. CASE RowsChange
    BY <1>8, RowsAreSound
  <1>9. CASE UNCHANGED vars
    BY <1>9 DEF vars, SoundInv, OnItsWay, Sound, Between, Cast
  <1>10. QED
    BY <1>2, <1>3, <1>4, <1>5, <1>6, <1>7, <1>8, <1>9, <1>11 DEF Next

LEMMA SoundAtFirst == Init => SoundInv
  <1> SUFFICES ASSUME Init PROVE SoundInv
    OBVIOUS
  <1>1. MigrationsTypeOK
    BY TypesHoldAtFirst
  <1>2. QED
    BY <1>1 DEF Init, SoundInv, Sound

\* A command that succeeds keeps every status that its target has a value for,
\* and makes the others DOWN, for any two revisions and any statuses, and
\* whether or not processes have started before the migrations.
THEOREM StatusesKept == Spec => StatusesSurvive
  <1>1. SoundInv /\ [Next]_vars =>
          [Commits =>
             db'.statuses =
               IF db'.version = 0 THEN {}
               ELSE {IF s \in db'.labels THEN s ELSE "DOWN" : s \in db.statuses}]_vars
    <2> SUFFICES ASSUME SoundInv, Commits
                 PROVE  db'.statuses =
                          IF db'.version = 0 THEN {}
                          ELSE Cast(db.statuses, db'.labels)
      BY DEF Cast
    <2>1. /\ OnItsWay /\ db' = run.work /\ run.work.version = run.target
          /\ db.version \in 0..Head /\ run.target \in 0..Head
      BY DEF Commits, SoundInv, MigrationsTypeOK, Transaction, Database
    <2>2. CASE run.target > db.version
      <3>1. db'.version # 0 /\ db'.statuses = db.statuses
        BY <2>1, <2>2 DEF OnItsWay, Head
      <3>2. db.statuses \subseteq db'.labels
        BY <2>1, <3>1 DEF OnItsWay, Sound
      <3>3. QED
        BY <3>1, <3>2, CastKeeps
    <2>3. CASE run.target < db.version
      <3>1. ~run.updated
        BY <2>1 DEF OnItsWay, Between, Head
      <3>2. QED
        BY <2>1, <2>3, <3>1 DEF OnItsWay
    <2>4. QED
      BY <2>1, <2>2, <2>3 DEF OnItsWay, Head
  <1>2. QED
    BY <1>1, SoundAtFirst, SoundIsKept, PTL DEF Spec, StatusesSurvive

-----------------------------------------------------------------------------
(***************************************************************************)
(* What a command may be refused for, where processes start only on a      *)
(* migrated database: its data are then both tidy and sound.               *)
(***************************************************************************)
LEMMA UpgradeIsRefused ==
  ASSUME NEW m \in 1..Head, NEW w \in Database, w.version = m - 1,
         Tidy(w), ~Upgrades(w, m)
  PROVE  \/ w.version = 7 /\ w.statuses # {}
         \/ w.repeated # {}
         \/ w.version = 0 /\ w.schema # {}
  <1>1. CASE w.schema = SchemaAt(m - 1)
    <2>1. Revision[m].creates \cap w.schema = {} /\ Revision[m].drops \subseteq w.schema
      BY <1>1, RevisionFits
    <2>2. \/ w.repeated # {}
          \/ ~Revision[m].backfills /\ w.statuses # {}
      BY <2>1 DEF Upgrades
    <2>3. ~Revision[m].backfills => m = 8
      BY FactsHold DEF Flags
    <2>4. QED
      BY <2>2, <2>3
  <1>2. CASE w.version = 0 /\ w.schema = BaseTypes
    BY <1>2 DEF BaseTypes
  <1>3. QED
    BY <1>1, <1>2 DEF Tidy

LEMMA DowngradeIsRefused ==
  ASSUME NEW m \in 1..Head, NEW w \in Database, w.version = m,
         Tidy(w), Sound(w), ~Downgrades(w, m)
  PROVE  \/ m = 5 \/ w.repeated # {}
         \/ m \in {10, 11} /\ ~(w.statuses \subseteq LabelsAt(m - 1))
  <1> SUFFICES ASSUME m # 5, w.repeated = {},
                      m \in {10, 11} => w.statuses \subseteq LabelsAt(m - 1)
               PROVE  Downgrades(w, m)
    OBVIOUS
  <1>1. w.schema = SchemaAt(m)
    BY DEF Tidy, Head
  <1>2. Revision[m].undoes
    BY FactsHold DEF Flags
  <1>3. Revision[m].creates \ Revision[m].keeps \subseteq w.schema
    BY <1>1, SchemaUp
  <1>4. Revision[m].drops \cap (w.schema \cup w.repeated) = {}
    BY <1>1, SchemaUp, RevisionFits
  <1>5. m = 1 => Referring \cap w.schema = {}
    <2> SUFFICES ASSUME m = 1, NEW o \in Referring, o \in w.schema
                 PROVE  FALSE
      OBVIOUS
    <2>1. o \in Revision[1].creates
      BY <1>1, SchemaAtBase
    <2>2. Born(o) = 1
      BY <2>1, FactsHold DEF Creates
    <2>3. Born(o) \in {5, 12}
      BY DEF Referring, Born
    <2>4. QED
      BY <2>2, <2>3
  <1>6. Downgraded(w, m).statuses \subseteq Downgraded(w, m).labels
    <2>1. CASE m = 1
      BY <2>1 DEF Downgraded
    <2>2. CASE m # 1
      <3>1. m \in 2..Head /\ m # 0
        BY <2>2 DEF Head
      <3>2. m \notin {10, 11} => Revision[m].adds = {}
        BY FactsHold DEF Adds
      <3>3. w.statuses \subseteq w.labels
        BY DEF Sound
      <3>4. QED
        BY <3>1, <3>2, <3>3, TypeGoesBack
    <2>3. QED
      BY <2>1, <2>2
  <1>7. QED
    BY <1>2, <1>3, <1>4, <1>5, <1>6 DEF Downgrades

\* Where processes start only on a migrated database, a command fails for rows,
\* for the revision that cannot be undone or after a downgrade to base, for any
\* two revisions and any statuses; and for a status only where others could
\* still write to the routes after its UPDATE, which had left none in the way.
THEOREM RefusedOnlyForRows == Spec => RefusedForRows
  <1>1. TidyInv /\ SoundInv /\ [Next]_vars =>
          [~early =>
             /\ UpgradeFails =>
                  \/ run.work.version = 7 /\ db.statuses # {}
                  \/ run.work.repeated # {}
                  \/ db.version = 0 /\ db.schema # {}
             /\ Relabels =>
                  run.work.statuses' \subseteq LabelsAt(run.work.version - 1)
             /\ DowngradeFails =>
                  \/ run.work.version = 5
                  \/ run.work.repeated # {}
                  \/ /\ "route" \notin run.locked
                     /\ run.work.version \in {10, 11}
                     /\ ~(run.work.statuses \subseteq
                             LabelsAt(run.work.version - 1))]_vars
    <2> DEFINE w == run.work
    <2> SUFFICES ASSUME TidyInv, SoundInv, ~early
                 PROVE  /\ UpgradeFails =>
                             \/ w.version = 7 /\ db.statuses # {}
                             \/ w.repeated # {}
                             \/ db.version = 0 /\ db.schema # {}
                        /\ Relabels =>
                             run'.work.statuses \subseteq LabelsAt(w.version - 1)
                        /\ DowngradeFails =>
                             \/ w.version = 5
                             \/ w.repeated # {}
                             \/ /\ "route" \notin run.locked
                                /\ w.version \in {10, 11}
                                /\ ~(w.statuses \subseteq LabelsAt(w.version - 1))
      OBVIOUS
    <2>1. ASSUME run # None
          PROVE  /\ w \in Database /\ w.version \in 0..Head
                 /\ run.target \in 0..Head /\ db.version \in 0..Head
                 /\ Tidy(w) /\ Sound(w) /\ OnItsWay
      BY <2>1 DEF TidyInv, SoundInv, MigrationsTypeOK, Transaction, Database,
                  OnItsWay
    <2>2. ASSUME UpgradeFails
          PROVE  \/ w.version = 7 /\ db.statuses # {}
                 \/ w.repeated # {}
                 \/ db.version = 0 /\ db.schema # {}
      <3> DEFINE m == w.version + 1
      <3>1. run # None /\ w.version < run.target /\ ~Upgrades(w, m)
        BY <2>2 DEF UpgradeFails, GoesUp
      <3>2. m \in 1..Head /\ w.version = m - 1
        BY <2>1, <3>1 DEF Head
      <3>3. \/ w.version = 7 /\ w.statuses # {}
            \/ w.repeated # {}
            \/ w.version = 0 /\ w.schema # {}
        <4> HIDE DEF m, w
        <4>1. QED
          BY <2>1, <3>1, <3>2, UpgradeIsRefused
      <3>4. /\ w.statuses = db.statuses
            /\ w.version = 0 => db.version = 0 /\ w.schema = db.schema
        BY <2>1, <3>1 DEF OnItsWay, Head
      <3>5. QED
        BY <3>3, <3>4
    <2>3. ASSUME Relabels
          PROVE  run'.work.statuses \subseteq LabelsAt(w.version - 1)
      <3>1. /\ OnItsWay' /\ run'.updated = TRUE /\ run'.work.version = w.version
            /\ run'.work.statuses = {Relabelled(s, w.version) : s \in w.statuses}
        BY <2>3, RelabelsIsSound, RelabelsKeeps DEF SoundInv
      <3>2. Sound(w) /\ w.version \in 2..Head
        BY <2>1, <2>3, <3>1 DEF OnItsWay, Between, Relabels, GoesDown
      <3>3. w.statuses \subseteq LabelsAt(w.version)
        BY <3>2 DEF Sound, Head
      <3> HIDE DEF w
      <3>4. w.statuses = Cast(w.statuses, LabelsAt(w.version))
        BY <3>3, CastKeeps
      <3>5. QED
        BY <3>1, <3>2, <3>4, CastDown
    <2>4. ASSUME DowngradeFails
          PROVE  \/ w.version = 5
                 \/ w.repeated # {}
                 \/ /\ "route" \notin run.locked
                    /\ w.version \in {10, 11}
                    /\ ~(w.statuses \subseteq LabelsAt(w.version - 1))
      <3>1. /\ run # None /\ w.version > run.target /\ ~Downgrades(w, w.version)
            /\ Revision[w.version].adds = {} \/ run.updated
        BY <2>4 DEF DowngradeFails, GoesDown, MustRelabel
      <3>2. w.version \in 1..Head
        BY <2>1, <3>1 DEF Head
      <3>3. \/ w.version = 5 \/ w.repeated # {}
            \/ /\ w.version \in {10, 11}
               /\ ~(w.statuses \subseteq LabelsAt(w.version - 1))
        BY <2>1, <3>1, <3>2, DowngradeIsRefused
      <3>4. w.version \in {10, 11} => run.updated
        BY <3>1, <3>2, FactsHold DEF Adds
      <3>5. run.updated /\ "route" \in run.locked =>
              w.statuses \subseteq LabelsAt(w.version - 1)
        <4>1. SUFFICES ASSUME run.updated, "route" \in run.locked
                       PROVE  w.statuses \subseteq LabelsAt(w.version - 1)
          OBVIOUS
        <4>2. /\ w.version \in 2..Head
              /\ w.statuses = Cast(db.statuses, LabelsAt(w.version - 1))
          BY <2>1, <3>1, <4>1 DEF OnItsWay, Between
        <4>3. "DOWN" \in LabelsAt(w.version - 1)
          BY <4>2, LabelsGrow
        <4>4. QED
          BY <4>2, <4>3 DEF Cast
      <3>6. QED
        BY <3>3, <3>4, <3>5
    <2>5. QED
      BY <2>2, <2>3, <2>4
  <1>2. QED
    BY <1>1, TidyAtFirst, TidyIsKept, SoundAtFirst, SoundIsKept, PTL
    DEF Spec, RefusedForRows
=============================================================================
