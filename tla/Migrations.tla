----------------------------- MODULE Migrations -----------------------------
(***************************************************************************)
(* The schema migrations of alembic/versions on a Postgres database, and   *)
(* create_db (store/orm.py), which every process runs when it starts.      *)
(*                                                                         *)
(* A revision is known by its place in the chain of down_revisions, and a  *)
(* schema is the set of the tables, columns, constraints and enum types    *)
(* that some revision creates or drops, or that orm.py declares in another *)
(* way.  Of the rows we keep the statuses of the routes, and which unique  *)
(* constraints the rows would break; they change also while a command is   *)
(* under way, until it locks their table.                                  *)
(***************************************************************************)
EXTENDS Naturals

CONSTANTS
    Targets,        \* bound: the revisions that "alembic upgrade" and
                    \* "alembic downgrade" are called with
    Statuses,       \* bound: the statuses that routes get
    None

Head == 14

Label == {"UP", "DOWN", "MISCONFIGURED", "MISSING_ENTITY", "UPGRADE_REQUIRED",
          "SERVER_ERROR"}

ASSUME MigrationsAssumption ==
    /\ Targets \subseteq 0..Head
    /\ Statuses \subseteq Label

-----------------------------------------------------------------------------
(***************************************************************************)
(* The revisions.  upgrade() creates and drops objects; downgrade() drops  *)
(* and creates the same ones, but for those it keeps.                      *)
(*   adds      values that an enum migration adds to the type of status    *)
(*   backfills the new columns have a value for the rows there are         *)
(*   undoes    downgrade() can be carried out                              *)
(*   locks     the tables that nobody else can write to from then on: those *)
(*             that are created, altered or dropped, or that a foreign key  *)
(*             is made to; users also where it is so for entities           *)
(***************************************************************************)
Plain == [creates |-> {}, drops |-> {}, keeps |-> {}, adds |-> {},
          backfills |-> TRUE, undoes |-> TRUE, locks |-> {"route"}]

BaseTypes == {"verificationstatus", "availabilitystatus", "policy"}

\* drop_table leaves the types of the columns behind.  Postgres makes no
\* constraint for a UNIQUE of create_table that repeats the primary key.
InitialCommit == [Plain EXCEPT
    !.creates = {"entity", "route", "group", "rule", "user", "route_dst_key",
                 "route.availability_status"} \cup BaseTypes,
    !.keeps = BaseTypes,
    !.locks = {"route", "user"}]

AddLastContact == [Plain EXCEPT !.creates = {"route.last_contact"}]

AddName == [Plain EXCEPT !.creates = {"route.name"}]

DropUniqueDst == [Plain EXCEPT !.drops = {"route_dst_key"}]

\* The constraints that downgrade() drops have no name there, and so no
\* statement can be made to drop them; Postgres names them when they are made.
LinkEntityAndRoute == [Plain EXCEPT
    !.creates = {"entity_route_association", "entity_id_key", "route_id_key"},
    !.undoes = FALSE,
    !.locks = {"route", "user"}]

AddDuid == [Plain EXCEPT
    !.creates = {"user.duid", "user_duid_key"}, !.locks = {"user"}]

DropUniqueDuid == [Plain EXCEPT
    !.drops = {"user_duid_key"}, !.locks = {"user"}]

\* The column domain_id is not nullable, and there is no default.
AddDomainTable == [Plain EXCEPT
    !.creates = {"domain", "route.domain_id"}, !.backfills = FALSE]

AddDomainType == [Plain EXCEPT
    !.creates = {"domain.domain_type", "domaintype", "domain_id_key"},
    !.locks = {}]

RefactorStatus == [Plain EXCEPT
    !.creates = {"route.status", "status"},
    !.drops = {"route.availability_status", "availabilitystatus"},
    !.adds = {"MISCONFIGURED", "MISSING_ENTITY", "UPGRADE_REQUIRED"}]

\* Mutant: a value that models.py spells in another way.
AddServerErrorMisspelt == [Plain EXCEPT !.adds = {"SERVERERROR"}]

AddServerError == [Plain EXCEPT !.adds = {"SERVER_ERROR"}]

\* The primary key of membership_request is (community, route).
AddCommunities == [Plain EXCEPT
    !.creates = {"community", "membership_request", "membershipstatus",
                 "membership_request.key_without_entity",
                 "route.community_id"},
    !.locks = {"route", "user", "community"}]

UniqueCommunityName == [Plain EXCEPT
    !.creates = {"community_entity_id_name_key"}, !.locks = {"community"}]

\* Mutant: the column that goes with the table is forgotten.
AddAdminTokenAlone == [Plain EXCEPT
    !.creates = {"admin_token", "admin_token.role_default", "adminrole"},
    !.locks = {"user"}]

AddAdminToken == [Plain EXCEPT
    !.creates = {"admin_token", "admin_token.role_default", "adminrole",
                 "user.is_admin", "user.is_admin_not_null"},
    !.locks = {"user"}]

Revision == <<InitialCommit, AddLastContact, AddName, DropUniqueDst,
              LinkEntityAndRoute, AddDuid, DropUniqueDuid, AddDomainTable,
              AddDomainType, RefactorStatus, AddServerError, AddCommunities,
              UniqueCommunityName, AddAdminToken>>

Objects == UNION {Revision[m].creates : m \in 1..Head}

-----------------------------------------------------------------------------
\* What orm.py declares: the tables with the columns and constraints that not
\* every revision has, and the enum types.
Declared == [
    entity |-> {}, group |-> {}, rule |-> {}, entity_route_association |-> {},
    membership_request |-> {"membership_request.key_with_entity"},
    admin_token |-> {},
    user |-> {"user.duid", "user.is_admin"},
    route |-> {"route.last_contact", "route.name", "route.domain_id",
               "route.status", "route.community_id"},
    domain |-> {"domain.domain_type"},
    community |-> {"community_entity_id_name_key"}]

DeclaredTypes == {"verificationstatus", "policy", "status", "domaintype",
                  "membershipstatus", "adminrole"}

\* The schema that create_all makes of an empty database.
OrmSchema == DOMAIN Declared \cup DeclaredTypes
               \cup (UNION {Declared[t] : t \in DOMAIN Declared})

\* create_all adds the tables and types that are missing, and leaves a table
\* that is there as it is.
Completed(schema) ==
    LET missing == DOMAIN Declared \ schema
    IN  schema \cup DeclaredTypes \cup missing
          \cup (UNION {Declared[t] : t \in missing})

-----------------------------------------------------------------------------
\* The unique constraints that revisions create, and what each is about.
Keyed == [route_dst_key |-> "route", user_duid_key |-> "user.duid",
          community_entity_id_name_key |-> "community"]

\* The tables whose rows we keep something of, and the one of each key.
Tables == {"route", "user", "community"}

KeyTable == [route_dst_key |-> "route", user_duid_key |-> "user",
             community_entity_id_name_key |-> "community"]

\* The values that the type of a route's status has after v revisions.
LabelsAt(v) == IF v = 0 THEN {}
               ELSE {"UP", "DOWN"} \cup (UNION {Revision[m].adds : m \in 1..v})

Database == [
    version : 0..Head,          \* table alembic_version
    schema : SUBSET (Objects \cup OrmSchema),
    labels : SUBSET Label,      \* the values of the type of a route's status
    statuses : SUBSET Label,    \* the statuses of the rows of table route
    repeated : SUBSET DOMAIN Keyed]   \* the keys that two rows have in common

Transaction == [
    target : 0..Head,
    work : Database,        \* the database as the transaction sees it
    locked : SUBSET Tables,
    updated : BOOLEAN,      \* is between an UPDATE and the ALTER TABLE
    moved : SUBSET Label]   \* the statuses that the UPDATE has rewritten, in
                            \* rows that are locked

ASSUME NoneAssumption == None \notin Transaction

VARIABLES
    db,     \* what is committed
    run,    \* the transaction of the alembic command under way, or None
    early   \* history: whether a process has started on a database that was
            \* not migrated

vars == <<db, run, early>>

MigrationsTypeOK ==
    /\ db \in Database
    /\ run \in {None} \cup Transaction
    /\ early \in BOOLEAN

Init ==
    /\ db = [version |-> 0, schema |-> {}, labels |-> {}, statuses |-> {},
             repeated |-> {}]
    /\ run = None
    /\ early = FALSE

-----------------------------------------------------------------------------
(***************************************************************************)
(* One revision, as a step of a transaction with the data in work.         *)
(***************************************************************************)

\* A table, a column, a constraint or a type is there already; or the rows do
\* not let a constraint be created, be it unique or NOT NULL.
Upgrades(work, m) ==
    /\ Revision[m].creates \cap work.schema = {}
    /\ Revision[m].drops \subseteq work.schema
    /\ Revision[m].creates \cap work.repeated = {}
    /\ ~Revision[m].backfills => work.statuses = {}

\* Whether the revision makes a type for the statuses anew, with all values.
Retypes(m) == m = 1 \/ Revision[m].adds # {}

UpgradedLabels(work, m) == IF Retypes(m) THEN LabelsAt(m) ELSE work.labels

Upgraded(work, m) == [
    version |-> m,
    schema |-> (work.schema \ Revision[m].drops) \cup Revision[m].creates,
    labels |-> UpgradedLabels(work, m),
    statuses |-> work.statuses,
    repeated |-> work.repeated]

\* Mutant: the UPDATE has no WHERE.
RelabelledAll(s, m) == "DOWN"

\* The UPDATE before the type of status loses the values that were added.
Relabelled(s, m) == IF s \in Revision[m].adds THEN "DOWN" ELSE s

DowngradedLabels(work, m) ==
    IF Retypes(m) THEN LabelsAt(m - 1) ELSE work.labels

\* Mutant: no type is dropped.
DowngradedSchemaTypes(work, m) ==
    (work.schema \ (Revision[m].creates \ DeclaredTypes)) \cup Revision[m].drops

DowngradedSchema(work, m) ==
    (work.schema \ (Revision[m].creates \ Revision[m].keeps))
        \cup Revision[m].drops

\* Rows go with their table.
Downgraded(work, m) == [
    version |-> m - 1,
    schema |-> DowngradedSchema(work, m),
    labels |-> DowngradedLabels(work, m),
    statuses |-> IF m = 1 THEN {} ELSE work.statuses,
    repeated |-> {k \in work.repeated : Keyed[k] \in DowngradedSchema(work, m)}]

\* Tables that refer to those of the first revision.
Referring == {"entity_route_association", "community", "membership_request"}

\* What is to be dropped is there, and no other table refers to it; what is to
\* be created is not there, and the rows allow it; and the statuses,
\* also those that others have committed since the UPDATE, are values of the
\* type that they are cast to.
Downgrades(work, m) ==
    /\ Revision[m].undoes
    /\ Revision[m].creates \ Revision[m].keeps \subseteq work.schema
    /\ Revision[m].drops \cap (work.schema \cup work.repeated) = {}
    /\ m = 1 => Referring \cap work.schema = {}
    /\ Downgraded(work, m).statuses \subseteq Downgraded(work, m).labels

-----------------------------------------------------------------------------
(***************************************************************************)
(* "alembic upgrade" and "alembic downgrade": all steps are in one         *)
(* transaction, and Postgres rolls back DDL like anything else.  A step    *)
(* has the locks that its checks need, and keeps them to the end.          *)
(***************************************************************************)
Starts(t) ==
    /\ run = None
    /\ t # db.version
    /\ run' = [target |-> t, work |-> db, locked |-> {},
               updated |-> FALSE, moved |-> {}]
    /\ UNCHANGED <<db, early>>

GoesUp == run # None /\ run.work.version < run.target
GoesDown == run # None /\ run.work.version > run.target

Step(work, m) ==
    /\ run' = [run EXCEPT !.work = work, !.updated = FALSE, !.moved = {},
                          !.locked = @ \cup Revision[m].locks]
    /\ UNCHANGED <<db, early>>

StepUp ==
    LET m == run.work.version + 1
    IN  GoesUp /\ Upgrades(run.work, m) /\ Step(Upgraded(run.work, m), m)

\* downgrade() of an enum migration begins with an UPDATE, which locks the rows
\* that it changes and not the table.
MustRelabel == Revision[run.work.version].adds # {} /\ ~run.updated

Relabels ==
    LET m == run.work.version
    IN  /\ GoesDown
        /\ MustRelabel
        /\ run' = [run EXCEPT
                !.work.statuses = {Relabelled(s, m) : s \in @},
                !.updated = TRUE,
                !.moved = run.work.statuses \cap Revision[m].adds]
        /\ UNCHANGED <<db, early>>

StepDown ==
    LET m == run.work.version
    IN  /\ GoesDown
        /\ ~MustRelabel
        /\ Downgrades(run.work, m)
        /\ Step(Downgraded(run.work, m), m)

RollsBack == run' = None /\ UNCHANGED <<db, early>>

UpgradeFails ==
    GoesUp /\ ~Upgrades(run.work, run.work.version + 1) /\ RollsBack

DowngradeFails ==
    /\ GoesDown
    /\ ~MustRelabel
    /\ ~Downgrades(run.work, run.work.version)
    /\ RollsBack

\* The command is interrupted, or is the victim of a deadlock.
Stops == run # None /\ RollsBack

Commits ==
    /\ run # None
    /\ run.work.version = run.target
    /\ db' = run.work
    /\ run' = None
    /\ UNCHANGED early

-----------------------------------------------------------------------------
\* A process starts: make_session_factory calls create_db.  One that starts
\* while a command is under way sees what is committed: either it might as well
\* have started before the command, or it waits for what the command has made.
ProcessStarts ==
    /\ run = None
    /\ db' = [db EXCEPT
                !.schema = Completed(@),
                !.labels = IF "route" \in db.schema THEN @ ELSE Label]
    /\ early' = (early \/ db.version # Head)
    /\ UNCHANGED run

-----------------------------------------------------------------------------
(***************************************************************************)
(* The rows change, also under a command as long as it has not locked      *)
(* their table; its transaction sees what the others commit.               *)
(***************************************************************************)
Locked == IF run = None THEN {} ELSE run.locked

Moved == IF run = None THEN {} ELSE run.moved

Sees(work) == run' = IF run = None THEN None ELSE [run EXCEPT !.work = work]

\* A route gets a status.
StatusComes(s) ==
    /\ db' = [db EXCEPT !.statuses = @ \cup {s}]
    /\ Sees([run.work EXCEPT !.statuses = @ \cup {s}])

\* No route has a status any more, but for those that the command has rewritten:
\* to the others they have the old status, and to the command they are DOWN.
StatusGoes(s) ==
    /\ db' = [db EXCEPT !.statuses = @ \ ({s} \ Moved)]
    /\ Sees([run.work EXCEPT !.statuses =
                 (@ \ {s}) \cup (IF Moved = {} THEN {} ELSE {"DOWN"})])

RoutesChange ==
    /\ "route" \notin Locked
    /\ \E s \in Statuses \cap db.labels : StatusComes(s) \/ StatusGoes(s)

\* Two rows come to have a key in common, or no longer have it.
KeyRepeats(k) ==
    /\ db' = [db EXCEPT !.repeated = @ \cup {k}]
    /\ Sees([run.work EXCEPT !.repeated = @ \cup {k}])

KeyIsUnique(k) ==
    /\ db' = [db EXCEPT !.repeated = @ \ {k}]
    /\ Sees([run.work EXCEPT !.repeated = @ \ {k}])

KeysChange ==
    \E k \in DOMAIN Keyed \ db.schema :
        /\ KeyTable[k] \notin Locked
        /\ Keyed[k] \in db.schema
        /\ KeyRepeats(k) \/ KeyIsUnique(k)

RowsChange == (RoutesChange \/ KeysChange) /\ UNCHANGED early

Next ==
    \/ \E t \in Targets : Starts(t)
    \/ StepUp
    \/ Relabels
    \/ StepDown
    \/ UpgradeFails
    \/ DowngradeFails
    \/ Stops
    \/ Commits
    \/ ProcessStarts
    \/ RowsChange

Spec == Init /\ [][Next]_vars

-----------------------------------------------------------------------------
\* What the first v revisions leave.  No revision creates again what another
\* one has dropped.
SchemaAt(v) == (UNION {Revision[m].creates : m \in 1..v})
                 \ (UNION {Revision[m].drops : m \in 1..v})

\* What the migrations leave at the head and orm.py does not declare.
MigratedOnly == {"entity_id_key", "route_id_key", "domain_id_key",
                 "membership_request.key_without_entity",
                 "user.is_admin_not_null", "admin_token.role_default"}

\* Where processes start only on a migrated database, the schema is the one
\* that the revision stands for, whatever upgrades and downgrades came before,
\* except that a downgrade to base leaves types behind.  At the head create_all
\* finds nothing to do, and still the schema is not what orm.py declares: it
\* has MigratedOnly, and lacks the entity in the key of membership_request.
SchemaIsVersions ==
    ~early =>
        /\ \/ db.schema = SchemaAt(db.version)
           \/ db.version = 0 /\ db.schema = BaseTypes
        /\ db.labels = LabelsAt(db.version)
        /\ db.version = Head =>
             /\ Completed(db.schema) = db.schema
             /\ db.schema \ OrmSchema = MigratedOnly
             /\ OrmSchema \ db.schema =
                  {"membership_request.key_with_entity"}

\* A command that succeeds leaves each status that its target has a value for,
\* and makes every other status DOWN, however many revisions it crosses and
\* whenever processes have started.
StatusesSurvive ==
    [][Commits =>
         db'.statuses =
            IF db'.version = 0 THEN {}
            ELSE {IF s \in db'.labels THEN s ELSE "DOWN" : s \in db.statuses}]_vars

\* Where processes start only on a migrated database, a command fails for rows
\* that are there, for the revision that cannot be undone, or after a downgrade
\* to base; never for what an earlier command has left.  Nor does it fail for a
\* status, with one exception: where a downgrade begins at an enum migration,
\* its UPDATE, after which no status is in the way, leaves the table to others,
\* and a route may get such a status before the ALTER TABLE.
RefusedForRows ==
    [][~early =>
         /\ UpgradeFails =>
              \/ run.work.version = 7 /\ db.statuses # {}
              \/ run.work.repeated # {}
              \/ db.version = 0 /\ db.schema # {}
         /\ Relabels => run.work.statuses' \subseteq LabelsAt(run.work.version - 1)
         /\ DowngradeFails =>
              \/ run.work.version = 5
              \/ run.work.repeated # {}
              \/ /\ "route" \notin run.locked
                 /\ run.work.version \in {10, 11}
                 /\ ~(run.work.statuses \subseteq LabelsAt(run.work.version - 1))]_vars

\* "Run the API", "Run migrations" (README.md:149 and 161), "Apply alembic
\* migrations" (README.md:245): an upgrade of a database that has no rows does
\* not fail, whether or not the API has run on it.
MigrationsApply ==
    [][UpgradeFails => db.statuses # {} \/ db.repeated # {}]_vars
=============================================================================
