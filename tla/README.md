# Verification of the Wormhole Route Registry

TLA+ models of the Route Registry (`route_registry/`), the TLC configurations that
check them on small instances, and TLAPS proofs of the safety properties for every
instance. File references are relative to the repository.

## The system

The registry is the control plane of Wormhole: it records which app answers at which
public URL, decides whether the URL may be published, and stores who is admitted. The
gateway (Holepunch, configuring Envoy) publishes what `GET /v1/route` lists: the routes
that are `VERIFIED` and `UP`, each with its allow and deny rules.

Three kinds of process work on one Postgres database:

- **API servers** (`server.py`, `routers/`, `internal/`) run FastAPI handlers. A handler
  is `async` but calls synchronous services, so one server handles one request at a time;
  several servers may run.
- **Celery workers** (`celery.py`) run the tasks `update_route` and
  `notify_route_table_update`, sent by the handlers through RabbitMQ.
- **Trackers** (`track.py`): each server process also runs an APScheduler thread, whose
  interval job checks the active routes and then notifies the gateway.

All of them go through a unit of work (`service/uow.py`), that is, one SQLAlchemy session
committed when the `with` block ends.

### Inventory

| Component | State | Operations | What makes it correct |
|---|---|---|---|
| Unit of work (`service/uow.py`, `store/orm.py`) | loaded and dirty attributes of one session | load, flush, commit, roll back | what is committed is what was assigned; a failure is reported |
| Routes and rules (`store/`, `models.py`) | tables `route`, `rule`, `entity`, `entity_route_association` | the repositories | unique `src`; one policy for a route and an entity; rules name existing entities |
| Registration (`services.register_route`, `routers/route.py`) | the request | create or renew a route, send two tasks | nobody takes over a URL; a success leaves the route verified |
| Route update (`services.update_route`, `store_rules`) | one transaction | load, fetch `authz.json`, look names up, replace rules, commit | the rules are those of one document; the status reflects the app |
| Celery tasks (`celery.py`) | queue, running tasks, retries | start, succeed, retry, fail, lose with the worker | no task loses its transaction or the reverse; the work is done in the end |
| Tracker (`track.py`, `services.check_routes`, `unverify_route`) | its list, clock and current route | list, update, judge staleness, unverify | runs end; stale routes, and no others, are unverified |
| JWT rotation (`routers/jwt.py`, `dependencies.JWTAuthenticator`, `create_piko_jwt`) | tokens held by clients, keys in the settings | issue, exchange; wake a route that is down | a chain of tokens ends with the verification; a key can be retired; a route that is down comes back |
| Gateway notification (`clients/holepunch.py`) | the gateway's copy of the list | notify, fetch | the gateway ends up with the current list |
| Domains (`services.*_domain`) | table `domain`, the default | create, remove, set default | one default; no route without its domain |
| Public URLs (`models.Domain.create_src_url`) | none | build `src` | apps, domains and users keep to URLs of their own |
| Communities (`services.*community*`) | communities, attachments, requests | create, remove, attach, detach | a route is in one community; requests name what exists |
| Users and groups (`services.create_user`, ..., `command.seed_dev_user`) | table `entity` and its subtypes | create, remove, seed | removal leaves no dangling rule; a seed takes effect |
| Admin tokens (`services.*admin_token*`) | table `admin_token` | create, validate, remove | a removed token opens nothing; every authority goes back to a seed |
| User authentication (`dependencies.py`) | session cookie | log in, authenticate | external |
| Migrations (`alembic/`, `create_db`) | the schema, its version | upgrade, downgrade, make what is missing | the schema is the version's; a downgrade undoes its upgrade; no status is lost |
| Assembly, adapters, configuration, command line | none | | |

Interactions: a registration commits its row and then sends the update task and the
notify task, both of which may be lost; an update and the tracker read the app over HTTP
inside a database transaction; the tracker keeps the list it read in one transaction
while it runs others; operators remove users, groups and domains that routes refer to.

### What is hard in this code

- **Overlapping updates of one route.** A registration, a retry, a JWT rotation and the
  tracker of every server may update the same route at once. Each transaction deletes
  the rules it sees and inserts those of its own document.
- **Dirty columns.** SQLAlchemy's `UPDATE` names only the attributes whose value differs
  from the one loaded. Assigning `UP` to a row loaded as `UP` writes nothing, so a
  concurrent `DOWN` survives, and the same for the verification.
- **Detached objects.** `list_active` returns objects that outlive their session
  (`expire_on_commit=False`) and are read after other transactions have changed the row.
- **Partial failures.** Replies no `except` clause handles; `IntegrityError`s that the
  unit of work swallows; a broker that fails after the commit; tasks acknowledged before
  they run; requests without a timeout.
- **Credentials read before the act.** The token or the administrator that lets a request
  in is read in one transaction; the request commits in another. A JWT is accepted long after
  it expired, on the strength of the route's row at that moment.
- **Settings per process.** Each server reads its keys once; during a restart of several
  servers two of them sign and verify with different ones.
- **Two makers of one schema.** `create_db` makes what is missing whenever a process
  starts; the migrations make it one revision after the other, and undo it.
- **Time.** Staleness is counted in days on a clock read at the start of a run.

`PROJECT.json` lists each of these under `hazards`, at its line, with the properties that
watch over it.

## Modules

```
UnitOfWork      what a flush writes, how a commit ends
RouteStore      tables, apps, calendar, entities; what the rest of the world does
   |
UpdateRoute     update_route as a transaction in steps       (EXTENDS RouteStore, UnitOfWork)
   |
RouteLifecycle  registration, tasks, tracker, JWT rotation   (EXTENDS UpdateRoute)
   |     \
   |      RouteExposure  the promise to the gateway          (INSTANCE, implemented)
   |
GatewaySync     the notify task, the tracker's job, the gateway's copy of the list
                                                             (EXTENDS RouteLifecycle, implements it)
SrcUrl          create_src_url over names made of signs
   |
Domains         domains, the default, and registrations      (EXTENDS UnitOfWork, SrcUrl)
         \
          Addresses      domains and URLs by name             (INSTANCE, implemented)
Communities     communities, membership requests, users      (EXTENDS UnitOfWork)
Directory       users, groups, admin tokens, seed-dev-user   (EXTENDS UnitOfWork)
         \
          NamedDirectory  the directory by name, at one instant (INSTANCE, implemented)
TunnelTokens    the JWTs of the tunnel and their keys        (EXTENDS UnitOfWork)
Migrations      the revisions, up and down, and create_db

MCRouteLifecycle, MCGatewaySync, MCDomains, MCCommunities, MCDirectory,
MCTunnelTokens, MCMigrations                                 small instances, for TLC
RouteLifecycleProofs <- RouteSafetyProofs <- GatewayProofs
DomainProofs, CommunityProofs, DirectoryProofs, TokenProofs, MigrationProofs
                                                             theorems, for TLAPS
```

**UnitOfWork.** `Flushed(current, loaded, assigned)` is a column after a flush.
`CommitEnds(uniqueBroken, otherBroken)` is the set of results of `session.commit()`:
`Committed`; `Duplicate` for a broken unique constraint, raised as `AlreadyExists`;
`Swallowed` for any other `IntegrityError`, which `make_sql_uow` rolls back without raising.

**RouteStore.** `route[s]` is the row whose `src` is `s`, or `None`. No operation deletes a
route, and `src` is unique, so the URL names the route. A row keeps `verification`,
`status`, `contact` (the day of `last_contact`) and `owners` (the association table).
`rules[s]` holds the rows of table `rule`. `app[s]` is what the app answers now, one of the
eight kinds of reply that the clients tell apart. `AddEntity` and `RemoveEntity` are the
creation and the removal of users and groups; a removal fails while a rule names the
entity, because SQLAlchemy loads those rules and cannot blank their primary key.

**UpdateRoute.** One action per step of the transaction: `Load`, `Fetch` or `FetchRaises`,
`StoreRules` (the lookup of the names and the `DELETE`), `DeleteResumes`, and one commit
action per way it can end. Postgres is modelled as it runs these statements at READ
COMMITTED: a `DELETE` waits for a transaction that has deleted one of its rows and skips
the row when that one commits; it never sees rows inserted meanwhile; the flush at commit
takes the row lock of the route before it inserts rules, hence is one step, except for the
deadlock it can close (`CommitDeadlock`).

**RouteLifecycle.** The actions by process:

| Actions | Code |
|---|---|
| `RegisterRead`, `RegisterRenew`, `RegisterCreate`, `RegisterFails` | `services.register_route` |
| `RegisterDelay`, `RegisterDelayFails` | `task_proxy.update_route.delay` in `routers/route.py`, and the broker failing |
| `RotateJwt` | `routers/jwt.py` |
| `TaskStarts`, `TaskRuns`, `TaskSucceeds`, `TaskRetries`, `TaskFails`, `WorkerCrashes` | the Celery task, `autoretry_for`, `max_retries`, early acknowledgement |
| `PassStarts`, `PassPicks`, `PassUpdates`, `PassUpdated`, `PassKeeps` | `services.check_routes` |
| `UnverifyReads`, `UnverifyCommits` | `services.unverify_route` |
| `ServerCrashes` | the death of a server with its tracker |

`seen` in a request or a pass is the row as the session loaded it, from which `Flushed`
tells what the commit writes. `contact` and `now` in a pass are the detached objects and
the clock of `check_routes`.

**RouteExposure.** The abstract specification: the gateway's list and the day of each
route's last contact. A URL enters the list, or changes its rules there, only in a step
that records a contact; its rules give one policy to an entity; it may leave the list any
time. `ImplementsExposure` instantiates it with the rows that `list_available_routes`
would return.

**GatewaySync.** The variables of `RouteLifecycle` and four more: `mail`, the queue of
`notify_route_table_update`; `notice`, what a server is about to do (send that task after
a registration, notify after a run of the tracker); `told`, whether the gateway has been
notified since it last fetched; `gateway`, its copy of `GET /route`. `HandlerRead` to
`HandlerNotifyFails` are the handler of a registration with both of its tasks, `Mail...`
the notify task, `Job...` the job of the tracker with the notification at its end,
`JobFindsNothing` a run that has no route to check and notifies all the same. What the
gateway does with a notification is not in this repository: it fetches the list.

**SrcUrl.** A name is a sequence of signs: letters, the hyphen, which joins a uid with the
name of an app, and the dot, which joins the label with the domain. `Label` is what the type
of the domain makes of the app's name, `SrcUrl` where `bind_subdomain` puts it.

**Domains.** `domains` and `routes` are the tables, `defaults` the rows whose flag is set,
`job[w]` what a request has read and is about to commit. A row of `routes` has the URL that
`SrcUrl` built, the client it was built for, and its domain. Each operation is a `...Read` and
one action per way its commit ends, so that any number of others may commit in between;
`create_domain` decides nothing on what it read and is one step. A name stands for the URL
value too, and an id is reused only when neither a row nor a transaction remembers it,
which is what a fresh id amounts to; `FirstTime` says the same of the uuid in the URL of an
EPHEMERAL domain. The API makes STANDARD domains only, so that the other types come from the
database. Operations refused at once are left out: they change nothing.

**Addresses.** The abstract specification of the same, without ids and units of work: the names
that are open, those that are a default, and the addresses that are taken. A name closes only
when no route has a URL in it, an address is taken once and in an open name, and a step makes
one name a default at most. It does not say that there is at most one default, since two
overlapping calls leave two. `ImplementsAddresses` instantiates it with the rows of `Domains`.

**Communities.** The same style. `route[r]` has `owners` and `community`, `community[c]`
owner and name. A registration with a `community_name` is two units of work, `FindRead` and
`RegisterReads`. Two things come from SQLAlchemy: removing a community first writes
`community_id = NULL` to the routes that were loaded with it, wherever they are by now, and
refuses when a membership request has the community in its key; removing a user refuses
likewise. The owner of a route puts it into any community; only others make requests.
`DetachCommits` and `RemoveCommits` show what that costs: a route that has moved on since
it was read loses its new community. The primary key of `membership_request` depends on who
made the tables (`UserInKey`). `orm.py:89` has the user in it, and so the repository looks a
request up by its user and the service makes one per user (`services.py:452`); the migrations
leave the user out (`18380dc634da:68`). On a migrated database the request of a second user is
therefore not found and then refused as a duplicate, `AlreadyExists` is caught by neither the
service nor the router, and the caller gets a 500: `RequestFails`. No property speaks of it,
since nothing is changed. `SameKey` is when two requests clash.

**Directory.** `entity[i]` is the user or the group with an id, `token[k]` the admin token with
an id, `job[w]` how far a request or a command has come. A request with an admin token passes
`Validates` (the first query and the comparison) and `TokenAdmits` (the second query and the
role) before it acts; one of an administrator passes `AdminEnters`. What it then does is one
step, or for a removal two, so that credentials and rows may go at any point in between.
`seed-dev-user` is `SeedCreates`, or `SeedFinds` and then one of `SeedMisses`, `SeedKeeps`,
`SeedReads`; the `UPDATE` after `SeedReads` ends in `SeedWrites`, or in `SeedLoses` when no row
matched. `GrantRaises` is `PUT` and `DELETE /admin/users/{uid}/admin`, which raise
`AttributeError` (`SqlUOW` has no `user_repo`) whoever sends them. `ever` is history: the
administrators and roles there have been.

**NamedDirectory.** The abstract specification of the same: sets of users, groups and tokens
without ids, each operation at one instant, under an authority that somebody has held. It
says neither who held it nor that it is still held, since the code checks neither at the
commit. `ActsByName` instantiates it with the rows of `Directory`. It has no operation that grants
or withdraws the flag of a user; one that did would look like a seed here, so that `ActsByName`
does not show that the two calls of `GrantRaises` never work.

**TunnelTokens.** `token[s][k]` is how long the newest token of a route under a key has yet to
live, in ticks, down to the leeway and one less, after which it is as good as none. A
registration ends in `Sign` like an exchange; `Exchange` is `JWTAuthenticator`, which accepts a
token until its expiry plus the leeway, if the route is verified when it looks; `Wake` is the
update task, which an exchange sends for a route that is `DOWN`. `Restart` replaces a server,
with the settings of the day. `Load`, `Fetch`, `Store` are `update_route` as far as the status
goes, with the dirty columns of `UnitOfWork`; `TrackerLooks` and `Unverify` are the tracker.

**Migrations.** A revision is a record of what its `upgrade` creates and drops and of what
its `downgrade` does otherwise, known by its place in the chain. `db` is what is committed:
the version, the set of objects of the schema, the values that the type of a route's status
has, the statuses that routes have, and the unique keys that two rows share. A command
(`alembic/env.py`, `scripts/migrate-db`) copies it into `run.work`, applies one revision per
step and commits at its target; whatever Postgres refuses rolls everything back, and so does
`Stops`, for a command that is interrupted or loses a deadlock.
Servers and workers go on while a command runs: `RowsChange` changes what is committed, and
what the command sees, until a revision has locked the table (`locks`, `run.locked`), which
creating, altering, dropping or referring to it does. The downgrade of an enum migration is
two steps for that reason. `Relabels` is its `UPDATE`, which locks the rows it rewrites
(`run.moved`) and not the table; `StepDown` is the rest, with the `ALTER TABLE`, whose cast
fails for a status that has been committed in between. `ProcessStarts` is `create_db`, `early` records that it ran before the migrations. That
`Enum.create` refuses a type that exists, and that a constraint without a name cannot be
dropped, is SQLAlchemy 2.0 as locked in `uv.lock`. A process that starts while a command is
under way either finds what was there before it or waits for it, and so is one that starts
before or after. The database is Postgres, for which the
revisions are written.

## Runs

`tlc -config <cfg> <module>` for each: `MCRoute_*` belong to `MCRouteLifecycle`, `MCGateway_*`
to `MCGatewaySync`, and so on. Bounds: `Srcs`, `Entities`, `Users`, `Servers`, `Tasks` and
`Mails` are sets of one or two model values, `MaxDay` and `StaleDuration` are in days,
`MaxRetries` and `NotifyRetries` are Celery's, `Replies` is a set named in the MC module;
`Ids`, `Keys`, `Comms`, `Users` and `Workers` of `Domains`, `Communities` and `Directory` bound
the rows and the units of work that exist at one time. `Configs` are the settings a server may
have, `Lifespan` and `Leeway` are in ticks. `Targets` are the revisions that a command may name.

| Run | Checks | Instance | What it shows |
|---|---|---|---|
| `replicas` | `TypeOK`, `UpdatesAreOwned`, `NoTakeover` | 2 servers with their trackers, 1 task with a retry, 2 users, a free and a restricted URL, replies that nothing handles and one that never comes | tasks, passes and transactions stay paired, and two registrations of one URL cannot both have it, with users removed meanwhile |
| `settles` | `OnePolicyPerPair`, `RulesNameEntities`, `ImplementsExposure`, `PolicyStays`, `VerdictsAreJust`, `SettlesOnPolicy`, `StaleIsNoticed` | 1 route, 1 task, 1 tracker, 2 days, two clashing documents and outages | the rules stay consistent while a task and a tracker overlap, every step is a contact, a withdrawal, a new day or invisible; the stored policy converges and then stays for as long as the app serves it; a stale route is unverified, and only one that a tracker found stale |
| `catchesUp` | `SyncTypeOK`, `GatewayCatchesUp`, `PassEnds` | 1 route, 1 update task, 1 notify task with a retry, 1 server with its tracker | runs of the tracker end, and the gateway ends up with the list, although a notification may overtake its update and be lost |
| `domains` | `DomainsTypeOK`, `RoutesHaveDomain`, `PlainNamesKeepApart`, `LoneSetSettles`, `ImplementsAddresses` | 4 ids under 2 names, of all three types, 3 clients, 2 units of work | domains are removed, made anew with another type and made the default under the feet of registrations; URLs of plain names keep apart; by name, every change is one of `Addresses` |
| `communities` | `CommunitiesTypeOK`, `ReferencesHold`, `RequestersAreNotOwners`, `PendingPins`, `OwnersDecide` | 2 users, 2 communities, 2 names, 1 route, 3 units of work, the key of the migrations | three operations overlap on one route: it moves by the hand of an owner or with the removal of its community, and a request pins what it names |
| `directory` | `DirectoryTypeOK`, `AuthorityStartsAtSeed`, `SeedsAreSafe`, `SeedTakesEffect`, `RevocationTakesHold`, `ActsByName` | 3 ids, 1 name for users and groups, 2 token ids under 1 label, the roles `IDENTITY` and `OBSERVER`, 2 requests or commands | every change is one by name, under an authority that goes back to a seed; seeds fail for nothing but a removal; a removed token opens nothing in the end |
| `tokens` | `TokensTypeOK`, `SilenceIsFinal`, `EndsWithVerification`, `RetiredKeysFade`, `ComesBack` | 1 route, 2 servers, the settings before and after a roll-over of the key, 1 update task, lifespan and leeway of a tick | chains of tokens end when they must, a key that signs no more fades, and an exchange brings a route back |
| `migrations` | `MigrationsTypeOK`, `SchemaIsVersions`, `StatusesSurvive`, `RefusedForRows` | all 14 revisions as targets, one status of each age | commands between any two revisions, interrupted or refused, with processes in between and rows that change at any time; at the head, the schema differs from `orm.py` where `SchemaIsVersions` says, and nowhere else |

The one-route instances lose little: no action of an update or a registration reads or
writes the row or the rules of another route, and a tracker's run visits its routes one
after the other. No run has a tracker with two routes on its list: the second URL of
`replicas` is a restricted one, at which only a registration is tried. Nor does any run have all the
endings of an update at once: in `settles` a task is not retried (`MaxRetries` is 0; with 1 the
run comes close to five minutes), and in `replicas` the apps only give replies that store no
rules, so that commits of rules, their deadlocks and their swallowed errors are in `settles`
and `tornRules`. For lists of several routes, for retries among overlapping commits of rules,
and for `TypeOK`, `UpdatesAreOwned` and `NoTakeover` under those commits, the theorems are what
there is. Two clashing documents are enough for the races of rules,
since these turn on whether one entity is deleted, kept or inserted with either policy. In
`domains`, two ids share a name, so that a domain is removed and created
anew, with another type, while a registration holds the old one; the names are chosen so that
they would collide if the hyphen or the domain were dropped from the URL, and do collide where
the names contain a dot. In `communities`, three units of work let one
move a route while another removes a community and a third refers to it. In `directory`, three
ids let a user be removed and created anew while a command holds the old row, next to a group;
names and labels never meet, so that one of each shows what two would. In `tokens`, a tick for
each of lifespan and leeway gives a token that is fresh, one at its expiry, one inside the
leeway and one past it. `migrations` has the whole
chain, and of the statuses one that every type has and one that each enum migration adds. What
an instance leaves out, more updates at once, longer names, more servers, the theorems
below cover for the safety properties. `replicas`, `domains` and
`communities` use symmetry, of servers, units of work, users and communities, which no
definition tells apart. Deadlock is checked in every run: apps can always change their
answer, and operators create or remove something.

Four further runs state what the repository says of the program and find that it does
otherwise:

| Run | Property | The code |
|---|---|---|
| `tornRules` | `RulesOfOneDocument` | two overlapping updates store the union of two documents |
| `lostVerification` | `RegistrationVerifies` | a registration overlapping with the verdict succeeds and leaves the route unverified |
| `twoDefaults` | `AtMostOneDefault` | two overlapping calls of `set_default_domain` each raise their own domain |
| `apiFirst` | `MigrationsApply` | once the API has made its tables, `alembic upgrade head` fails, in the order in which the README runs them |

For the fourth, `RefusedForRows` in the run `migrations` says what remains true. Each of the first
three has a counterpart that says what it takes for the statement to hold after all, and that
nothing else in the code breaks it:

| Condition | Holds under it |
|---|---|
| `RewritesTakeTurns`: no two updates of a route are between their `DELETE` and their commit | `RulesOfOneDocument` |
| `VerdictsTakeTurns`: no verdict on a route is about to be committed while a registration of it is | `RegistrationVerifies` |
| `CallsTakeTurns`: no two calls of `set_default_domain` are under way | `AtMostOneDefault` |

A lock on the row of the route, taken with the read, would give the first two, and one on the
table of domains the third. None of the three follows from the code. They are conditions of
theorems (see below) and are not checked by a run: `TurnsKeepDocuments`, `TurnsKeepVerification`
and `TurnsKeepOneDefault` were tried on the instances above first, by giving TLC the condition as
a constraint.

### Fairness

`FairSpec` adds weak fairness of what the registry itself does: the handler of a request
that has been read goes on (uvicorn), queued and running tasks go on (Celery), the
tracker's job is started at every interval and goes on (APScheduler). Clients, apps,
operators, the calendar and failures are under no obligation. Weak fairness is enough:
nothing but the process itself takes away what it can do next, apart from row locks, which
their holders release. The liveness properties are conditional on `Stable`: from some
point on a `Failure` only does what an `Operation` may do, and no app leaves a request
hanging. (The two have steps in common, such as the end of a run of the tracker and a crash
just before it, so that to ask for no `Failure` would exclude more than failures.) Both are
needed: requests are sent without a timeout (`clients/base_client.py:91`), so one app that
never answers holds a tracker for ever, and a crash at every run would undo any progress.

`FairSyncSpec` adds that the notify task goes on like the update task, and that the gateway
fetches some time after it has been notified. `GatewayCatchesUp` asks for more than `Stable`: from
some point on a `SyncFailure` only does what `SyncWork` may do, and the list no longer changes.
Nothing in the registry remembers that the gateway is behind, so that it is the next run of the
tracker that makes up for a lost notification, also when there is no active route left to check.

`FairSpec` of `Directory` has uvicorn go on with what it has read, which is what
`RevocationTakesHold` needs. That of `TunnelTokens` has time go by, requests handled and tasks
worked on; it asks nothing of trackers, clients or apps. The answer of a server has strong
fairness: the queue of the broker always has room for its task, which the bound on `Tasks` now
and then has not. `ComesBack` is conditional on failures that end, on an app that answers, and
on a client that exchanges its token again and again.

## Proofs

Checked by `tlapm` for every value of the constants, under the assumptions
`StoreAssumption` (restricted URLs are URLs, users are entities, replies are replies,
`None` is none of the records), `UpdateAssumption` and `LifecycleAssumption` (the processes
are the tasks' and the servers', and these are disjoint), `SyncAssumption`,
`DomainAssumption`, `CommunityAssumption` and `DirectoryAssumption` (`None` is none of the ids,
names and records; names are names; a uuid has no dot), `TokenAssumption` (lifespan and leeway
are numbers, the active key is one of the keys),
`MigrationsAssumption` and `NoneAssumption` (targets are revisions, statuses are those of
`models.py`, `None` is no transaction).
TLC evaluates them in the runs of their modules.

| Theorem | Statement | Argument |
|---|---|---|
| `TypeCorrect` | `Spec => []TypeOK` | `IInv` |
| `UpdatesOwned` | `Spec => []UpdatesAreOwned` | `IInv` |
| `OnePolicy` | `Spec => []OnePolicyPerPair` | `IInv`; the primary key at the one step that writes rules |
| `RulesHaveEntities` | `Spec => []RulesNameEntities` | `IInv`; the foreign key, and the guard of a removal |
| `UrlsStay` | `Spec => NoTakeover` | `IInv` and `RouteChange` |
| `Implementation` | `Spec => ImplementsExposure` | `IInv`, `OnePolicy` and `RouteChange` |
| `SettledStays` | `Spec => PolicyStays` | `IInv`; what a commit of rules deletes and inserts |
| `JustVerdicts` | `Spec => VerdictsAreJust` | `IInv` and `ClockInv` |
| `TurnsKeepDocuments` | `Spec /\ []RewritesTakeTurns => []RulesOfOneDocument` | `IInv` and `SeesAll` |
| `TurnsKeepVerification` | `Spec /\ []VerdictsTakeTurns => RegistrationVerifies` | `IInv` and `StillVerified` |
| `SyncImplements` | `SyncSpec => Spec` | each step of `GatewaySync` is one of `RouteLifecycle` or leaves it alone |
| `SyncTypes`, `GatewayConsistent` | `SyncSpec => []SyncTypeOK`, `[]GatewayOnePolicy` | `SyncInv`, with the theorems above through `SyncImplements` |
| `DomainTypes`, `DomainsOfRoutes` | `Spec => []DomainsTypeOK`, `[]RoutesHaveDomain` | `DInv` |
| `LoneSet` | `Spec => LoneSetSettles` | from the step alone |
| `DomainsByName` | `Spec => ImplementsAddresses` | `NInv` of `DomainProofs`; each action maps to one of `Addresses` or stutters |
| `TurnsKeepOneDefault` | `Spec /\ []CallsTakeTurns => []AtMostOneDefault` | `DInv` and `SeesDefaults` |
| `UrlsApart` | `Spec => []PlainNamesKeepApart` | `DInv`; the first dot and the first hyphen of a URL |
| `CommunityTypes`, `ReferencesStay`, `RequestersOwnNothing` | `Spec => []` of the three invariants of `communities` | `CInv` |
| `RequestsPin` | `Spec => PendingPins` | `CInv` before and after the step |
| `OwnersRule` | `Spec => OwnersDecide` | `CInv`: what a unit of work knows of the owner it has read |
| `DirectoryTypes`, `AuthorityChain` | `Spec => []DirectoryTypeOK`, `[]AuthorityStartsAtSeed` | `NInv` |
| `SeedsSafe`, `SeedEffect` | `Spec => SeedsAreSafe`, `SeedTakesEffect` | `NInv` before the step |
| `ByName` | `Spec => ActsByName` | `NInv`; each action maps to one of `NamedDirectory` or stutters |
| `TokenTypes` | `Spec => []TokensTypeOK` | `TInv` |
| `Silence` | `Spec => SilenceIsFinal` | `TInv`; a request that is new comes from a token that lives |
| `MigrationTypes` | `Spec => []MigrationsTypeOK` | inductive; objects and statuses of the chain |
| `SchemaFollows` | `Spec => []SchemaIsVersions` | `TidyInv` |
| `StatusesKept` | `Spec => StatusesSurvive` | `SoundInv` |
| `RefusedOnlyForRows` | `Spec => RefusedForRows` | `TidyInv` and `SoundInv` |

*The inductive invariant.* `TypeOK` is not inductive: assigning to a field of `route[s]`
keeps the type only if there is a row. `IInv` adds `UpdatesAreOwned`, that whatever work is
at hand names an existing row (`WorkHasRow`), and that a transaction about to commit rules
holds a document (`RepliesHeld`). It is preserved by the argument of the code: no operation
deletes a route, and a task or a pass moves together with its transaction. The effect of
`update_route` is stated once for any process (`LoadEffect`, `UpdateStepEffect`,
`UpdateEndEffect`) and used for tasks and trackers alike.

*The refinement.* `NextRouteChange` reduces every step to one of five changes of the rows:
none, a contact, a degradation, a first registration, the removal of an owner. A contact
is a `Contact` of `RouteExposure`, and so is a first registration; a degradation is a
`Withdraw` or invisible; a removal is invisible.

*Settled rules.* `PolicyStays` needs no more than `IInv`: what `SettledOn` says of the updates
that are under way is part of the statement, which is what makes it inductive. A commit deletes
rules and inserts those of the document it fetched; if that is the one the rules were made of, a
rule it does not delete is one it would insert, and the result is the same set (`SettledCommit`).
Without the clause on updates the statement would be false: an older document may still be on its
way.

*Verdicts.* A tracker judges objects detached since it listed them. `ClockInv` says why it does
no wrong: contacts lie in the past and only advance (`ContactsPast`, `ContactsAdvance`), so that
what a run holds is never later than the row; its clock is not ahead; and once found stale, the
same object is not looked at again (`ListedPast`). That a verdict may still hit a route that has
been reached since it was listed is described below; a verdict is wrong in no other way.

*Turns.* The three findings are races between a read and a commit, and each theorem names the
one thing that both transactions believe: that the rules an update has deleted are all there are
(`SeesAll`), that the route a registration has read as verified still is (`StillVerified`), that
the defaults a call has read are all there are (`SeesDefaults`). A condition on turns keeps it
true, and the statement follows at the commit. The conditions say nothing of crashes, retries,
failing commits or removals, which may therefore happen in any number.

*Domains.* `DInv` is the type invariant with `RoutesHaveDomain`: a commit of a registration is
only possible while its domain is in the table, and a removal only while no route is in it. `NInv`
adds that no two domains have one name (`OnePerName`), the unique constraint, without which
removing one id would not close its name. The mapping is then by action: `CreateOpens`,
`RemoveCloses`, `SetDefaultChooses`, `RegisterTakes`. What was refused, swallowed or cut short
stutters.

*Public URLs.* `UrlsApart` is about names of any length: the label of a plain name has no dot,
so that the first dot of a URL is the one that joins (`FirstSign`, `OneUrlOneLabel`), and a uid
has no hyphen, so that the first hyphen is (`FirstHyphen`). What a row or a registration holds
was built by `Url`, which `DInv` remembers.

*The directory.* `NInv` says of every request that what let it in has been held
(`Entitled`, `HeldIsRemembered`), of every seed that the row it found is its user's or the user
was removed since (`SeedKnows`), and that names and labels are unique, without which a step by
id would not be one by name.

*Tokens.* `TInv` is the type invariant with `WorkHasRow`: tasks and requests that go on name a
route that is there. `Silence` needs no more, since a token is only signed for a request, and a
request only starts from a token that a server accepts or from a registration.

*Communities.* The invariants of the run are not inductive: a commit relies on what its unit of
work read. `CInv` adds what stays true of that (`JobsHold`): a route once read is still there,
since none is removed; somebody who did not own it still does not, since nobody becomes an owner
later; somebody who did still does, or is no user any more, since ownership ends in no other way.
The last is what `OwnersDecide` rests on. `CInv` also says that no two units of work create a community under one id
(`NewIds`), without which the second would overwrite the first under a pending request.

*The migrations.* `TidyInv` says of the transaction under way what `SchemaIsVersions` says of
the database, else a commit could bring in anything. That a revision takes `SchemaAt(m - 1)`
to `SchemaAt(m)` and back rests on the table of the revisions: each object is created by one
revision (`Born`) and dropped by at most one, later (`Dropped`). `FactsHold` expands the table
once; nothing else does, apart from `HeadIsListed` and `HeadAgainstOrm`, which compare the head
with the schema of `orm.py` object by object. They differ in seven: the migrations leave
`UNIQUE (id)` on entity, route and domain, `NOT NULL` with a default on `user.is_admin`, a default for
`admin_token.role`, and a key of `membership_request` without the user, where `orm.py` has one
with the user. `create_all` changes no table that is there, so that it finds nothing to do.

The statuses need another invariant, `SoundInv`, since `StatusesSurvive` is promised even
where processes have started early and the schema is not tidy: from the first revision on there
is a table of routes with the type of the version (`Sound`), a command goes one way, and its
statuses are those that `StatusesSurvive` promises for the revision (`OnItsWay`; on the way
down, casting twice is casting once, `CastDown`). Rows change under the command until it holds
the lock on `route`; until then `db` and `run.work` have the same statuses, but for the rows that
an `UPDATE` has rewritten, which are locked (`Between`). Hence it does not matter for what
survives when a status comes or goes (`RowsAreSound`). With both invariants each condition of
`Upgrades` and `Downgrades` holds but those that `RefusedForRows` names: a revision creates
nothing that is there and drops only what is (`RevisionFits`), and a status that is left is a
value of the type it is cast to (`DowngradeIsRefused`), unless it came in the one window that
`RefusedForRows` excepts. With the exception left out TLC finds the counterexample: a command
at an enum migration runs `Relabels`, a route gets `SERVER_ERROR`, and the cast fails.

Only model-checked: the liveness properties (`PassEnds`, `SettlesOnPolicy`, `StaleIsNoticed`,
`GatewayCatchesUp`, `RevocationTakesHold`, `EndsWithVerification`, `RetiredKeysFade`,
`ComesBack`), which need fairness and `ENABLED`, out of reach of the prover. The four violated
properties are false as they stand, and proved under the conditions above. Every invariant and
every action property that a run checks is stated by a theorem.

## Not modelled

In the modelled components: the fields `dst` and `token` of a route, which no decision reads;
`duid` of a user, likewise; the lookup of a community by its name. `RouteLifecycle` leaves the
choice of the domain to `Domains`, the community to `Communities` and the tokens to
`TunnelTokens`, since neither changes status, rules, owners or contact; those two in turn know of
a route only what is theirs. A registration whose commit is swallowed goes on to send a task for
an id that no query finds; that task fails without a change and is left out (see `RegisterFails`).
Loading a row and deciding on it is one step where no other statement of the transaction
intervenes. A transaction that aborts in a deadlock is the one that deleted first; when Postgres
chooses the other, the effect is that of `CommitDuplicate`. The flush of a removal is one step:
what it selects and what it then deletes may differ, but each difference ends, as without it, in
an error that changes nothing.

A reply that is not JSON leaves the route as it was, `UP` included: that is
`UpdateRoute!FetchRaises`, and no property forbids it. The tracker judges staleness on the
object that it listed before its own update (`services.py:314`), so that a route reached
after a long silence is unverified by the very run that reached it: `UnverifyReads` and
`UnverifyCommits` do so, and no property forbids that either.

Of the migrations: the columns and constraints that come with a table and that no later revision
touches, where `orm.py` declares the same; the types of columns; foreign keys beyond those that
keep a table from being dropped. A command that waits for the lock of a table, or is waited
for, is not told from one that comes later. What the two keys of `membership_request` mean for
requests is in `Communities`: the run has that of the migrations, the theorems hold for both.

Of the URLs: names with signs that join are in the model, but no property forbids that they
collide, since nothing in the code restricts names. The scheme is always `https`.

Of the directory: the value of an admin token is as good as its id, since only the values that
were handed out pass the comparison. A removal that the database refuses because of rules,
requests or communities may fail here at any time (`RemoveFails`); `RouteStore` and
`Communities` have the condition. `POST /admin/domain` and the lists of routes need a token too,
and are one action, `ActsElsewhere`, that changes nothing here.

Of the tokens: the one that a registration hands out although its commit was swallowed names no
row, so that nobody exchanges it. A token that no key of the server verifies ends in an
exception that nobody handles, and changes nothing. Clocks of servers are one.

User authentication: the authenticators delegate to the token service or the OIDC provider and
end in a lookup of the user. Nothing is kept of it but the session cookie, which the client
holds and the middleware signs; the registry's part, that the user exists and is an
administrator, is in `Directory`. The login redirects would be a model of the provider, not of
this code.

`services.validate_route` and `fetch_authorization` are called by nothing. `generate_jwks` writes
files that no process reads; that it overwrites the key pair before it finds that
`settings.local.toml` exists (`command.py:70`) concerns one operator at a prompt. The assembly of
the server, the conversions of `adapter.py` and `pydantic_models.py`, the configuration and the
well-known router keep no state; where a conversion decides something, as `to_user` does in
dropping the admin flag, it is part of the operation.

## What could follow

1. Abstract specifications of `Communities` as serial operations, with the anomalies that keep the
   code from implementing it, and of `GatewaySync` (the gateway's copy is always a list that was
   current when it was fetched).
2. A proof across the modules that whatever is listed was contacted, has a domain and a URL of
   its own.
