# PortForge in TLA+

PortForge keeps track of which ports are used and reserved on a set of machines.
A **Central** server (FastAPI and PostgreSQL, `src/backend/app`) owns the registry;
an **agent** on every machine (`src/agent/portforge_agent`) discovers ports, reports
them, keeps a local reservation file, writes allocated ports into project files, runs as
a service of the operating system and upgrades itself; a **dashboard** (`src/dashboard`) only reads. These modules model the
parts of Central and of the agent where concurrency, failure and ordering matter.
TLC checks them on small instances and TLAPS proves the most important properties
for all values of the constants.

Run a model with `tlc -workers 2 -config <run>.cfg <MC module>.tla` and the proofs
with `tlapm <module>Proofs.tla`. `PROJECT.json` maps every definition to the source
lines it stands for.

## 1. Inventory

### Central

| Component | State | Operations | What is hard |
|---|---|---|---|
| Allocation bundles and reservations (`allocation_service`, `reservation_service`, `host_lock`) | `allocations`, `central_reservations`, a PostgreSQL advisory lock per host | create and release an allocation, create, upsert and delete a reservation | checks before the lock, retries with a `request_id`, all-or-nothing bundles, operations that do not take the lock |
| Remote bind probes (`probe_service`) and recommendations | `host_probes` | queue, claim on heartbeat, record a result, classify, recommend | no locks; lost heartbeat responses; evidence that is stale when used; queue limits |
| Agent upgrades (`upgrade_service`, `api/agents.py`) | `host_upgrades`, `hosts.agent_version` | create, rollback, report, deliver, cancel on decommission | reports racing rollbacks, lost and late reports, crashes between phases |
| Snapshot ingestion (`ingestion_service`) | `scans`, `current_port_observations`, `port_observation_events`, `last_scan_observed_at` | ingest one full snapshot of a host | late, reordered and repeated requests; partial discoveries; clocks |
| Host lifecycle (`host_lifecycle_service`) | `hosts.lifecycle_state` | decommission, reactivate, remove record | runs beside everything above and takes no host lock |
| Enrollment and credentials (`enrollment_service`, `agent_repository`) | `enrollment_tokens`, `agent_credentials`, `hosts` | mint, enroll, authenticate, revoke | one-time tokens and rotation beside decommission, Remove Record and heartbeats, all without a lock |
| Heartbeat and health | `hosts` (upsert), `agent_version` | heartbeat | creates and updates host rows beside the lifecycle; delivers probes and upgrades |
| Views (conflicts, fleet, projects, activity, compatibility) | none | queries | nothing: read-only |

### Agent

| Component | State | Operations | What is hard |
|---|---|---|---|
| Local reservations and identity (`reserve_ops`, `recommend`, `reservations/`, `identity`) | `reservations.json`, `reservations.lock`, `host.json` | reserve, sync-reservations, next --reserve, release, legacy migration | read-modify-write of one file by several processes; kills; lock timeouts; first start |
| Safe config mutation (`config_manager` and its editors) | `.portforge/mutations/<id>/`, the project's files | plan, apply, rollback | several files, one failing write, user edits in between, kills |
| Workflow (`workflow`) | `.portforge/workflows/<id>/record.json` | workflow apply, with compensation and replay | a distributed transaction over Central and the file system |
| Manifests and adapters (`manifest`, `project_adapter`, the three editors) | `portforge.yml`, the configuration files | validate, resolve the host, check the allocation, edit dotenv, Compose and Kubernetes documents | several mappings of one place, entries the editors do not make out, manifests edited since |
| Credential files (`credentials`, `central_config`, `cli_agent`, `cli_central`) | `credentials.json`, `central.json`, the token a daemon has loaded | `agent enroll`, `central enroll`, load with self-heal | two files, two commands, lost replies, a clone of the machine |
| Service installation (`service_ops`, `service_gen`, `upgrade/platform_restart`) | the plist or unit file, the manager's job and its autostart, the daemon process | install, start, stop, uninstall; the daemon's restart of itself | each command is several manager calls, any of which may fail; the manager restarts what it thinks has failed |
| Runtime (`runtime/agent`, `sync`, `state`, `backoff`) | `RuntimeState`, its state file | heartbeat, scan, submit | abandoned requests, several senders per host |
| Upgrade handler (`upgrade/`) | staged artifacts, the installed package | validate, download, verify, install, restart | fail-closed at every step |
| Discovery and collectors | none | discover ports and containers | partial failure |
| CLI, doctor | none of their own | parsing, rendering, diagnosis | read-only or a front of the components above |

### How they interact

* Agents talk to Central over HTTP only. A client gives up after 10 s and never
  retries by itself; Central may still carry out an abandoned request. Every heartbeat
  response may hand out probes and one upgrade.
* FastAPI runs each handler in a thread with a session of its own at READ COMMITTED.
  Handlers meet in the database: they see each other's commits and nothing else.
  `pg_advisory_xact_lock` serialises allocations, releases and ingestions of one host.
  Reservations, probes, upgrades and the lifecycle do not use it.
* The commands of one machine share files, with a lock for the reservation file only.
* `agent run` is started and restarted by Task Scheduler, launchd or systemd from a definition that
  `agent service install` has written; after an upgrade the daemon asks the manager to restart it.
* `workflow apply` calls Central for an allocation and the config manager for the files.

What makes each component correct:

* allocations: bundles disjoint, atomic, idempotent, off observed ports; a released or decommissioned owner holds nothing
* probes: "verified free" was free recently; the queue is bounded
* upgrades: Central never shows progress that did not happen; only verified artifacts are installed; a pending upgrade arrives
* registry: one active credential per host, none on a retired or removed one, spent tokens buy nothing
* ingestion: the rows are those of the newest snapshot and the history agrees with them
* local file: no lost or duplicated reservation; every command ends
* project files: every mapped place gets its port and nothing else changes; edits and originals survive; apply is all or nothing
* workflow: compensation gives up only its own allocation; records are true
* service: what install, uninstall and stop report stays true over logins, boots and crashes

`PROJECT.json` lists the hazards line by line, with the properties that watch them.

## 2. Modules

| Module | Models | Composes |
|---|---|---|
| `PortLedger` | abstract: bundles, single reservations, observed ports and hosts, changed by whole operations | |
| `CentralAllocation` | allocations, reservations, ingestion's lock, lifecycle | one registry shared by allocations, reservations, ingestion, lifecycle; implements `PortLedger` |
| `RemoteProbe` | probes from the queue to the recommendation | Central and the agent's sessions |
| `AgentUpgrade` | upgrades from request to restart | administrators, Central, one daemon |
| `ReservationRegistry` | abstract: a set of claims changed by whole operations | |
| `LocalReservations` | the commands on `reservations.json` and `host.json` | implements `ReservationRegistry` |
| `HostRegistry` | tokens, credentials, host rows, the machine's two credential files | enroll commands, daemon heartbeats, administrators, Central |
| `ProjectFiles` | the mapped files and the names of their copies | |
| `ConfigDocuments` | a manifest's way into the documents | extends `ProjectFiles`; validation, ownership check, editors, apply, rollback |
| `ConfigMutation` | plan, apply, rollback over several files | extends `ProjectFiles` |
| `Workflow` | `workflow apply` | extends `ConfigMutation` |
| `SnapshotIngestion` | scans of one host and their ingestion | senders, network, Central |
| `ServiceLifecycle` | the daemon as a service on Windows, macOS and Linux | commands, the manager, the daemon, sessions |
| `MC*` | constants for TLC | |
| `*Proofs` | theorems and proofs | extend the module they are about; `ConfigProofs` extends `Workflow` and `ConfigDocuments` |

An action is a handler, or the part of one between two points at which another
actor's step can be seen: a commit, a lock acquisition, a file replace, a request or
a response. What a transaction writes before its commit is invisible to the others,
so flush and commit are one step. Rows of a table are records in a set or a function
of ids; an absent row is a constant (`NoRow`, status `"none"`). Names, hashes and file
contents are values compared for equality only.

### CentralAllocation

A transaction `t` has a program counter (`pc`), the request (`job`) and what it has
read or resolved so far (`todo`, `claimed`, `seen`). `BeginAllocation` is the reads
before the lock: the replay of a `request_id` and the lifecycle check.
`AcquireHostLock` is `acquire_host_lock`. `EnsureHostAllocatable` is the re-read under
the lock, `ResolveCandidate` resolves one item, `CommitAllocation` inserts the rows and
meets the unique constraints. `BeginRelease`/`CommitRelease`,
`BeginReservation`/`InsertReservation`, `DeleteReservation`, `BeginIngest`/`CommitIngest`,
`BeginDecommission`/`CommitDecommission`, `ReactivateHost`, `RemoveHostRecord` and
`EnrollHost` are the other handlers. `Port` stands for a (port, protocol) pair;
PostgreSQL's NULL-distinct unique constraint is in `UniqueBinding`.
The snapshot content is a nondeterministic set of ports here; `SnapshotIngestion`
models it in detail. The refused lower candidates of a probe-aware resolution are
a nondeterministic choice bounded by `ProbeSkips`.

`PortLedger` is what the clients of that registry may rely on, without transactions or locks: `Grant` gives a host
a whole bundle, each item a port of its own that it asked for and that is free at that moment; `GiveUp`, `Reserve`,
`Delete`, `Observe`, `Welcome` and `Purge` are the other operations. The refinement reads the two tables
as `list_allocations` does (`Grants`); rows without an allocation are `singles`.

### RemoteProbe

A request `t` fills its transaction a port at a time: `SuggestPort` is a recommendation, `AllocateItem` one item of
`create_allocation`, `VerifyPort` one port of `verify_allocation`. Each may flush a probe (`QueueProbe`, on `WantsProbe`,
which counts the committed rows and the request's own in `tx[t].rows`), and `CommitRequest` shows them all at once;
`RollbackRequest` takes them back. The host lock that keeps two allocations apart is left out of `AllocateItem`: recommendations and
verifications do not take it, so this only adds behaviours. `Heartbeat`/`ClaimPendingProbes` are
the reads and the commit of a delivery, `ProbeBind` the agent's bind attempt,
`SubmitResult`/`RecordResult` the report. `Tick` lets time pass; ages saturate one
tick beyond the limit they are compared with, so no behaviour is lost.
`busyFor` is history: how long ago the port was last free on its host.

### AgentUpgrade

`BeginCreate`/`CommitCreate`, `BeginRollback`/`CommitRollback`, `Decommission` and
`Reactivate` are Central's side; `Heartbeat` delivers; `ValidatePayload`,
`DownloadArtifact`, `VerifyArtifact`, `InstallWheel`, `RestartService` and
`StartService` are the daemon's phases; `Send`, `ReadReport` and `WriteReport` carry a
status report, which may be lost or still be at work when the daemon has gone on.
`Crash` kills the daemon anywhere. `verified` and `intact` are history.

### LocalReservations and ReservationRegistry

A process is one command. `GetHostId`, `CreateIdentity` and `MigrateCheck` are
`main()`; `Discover`, `AcquireLock` or `LockTimeout`, `LoadAndDecide` (by operation:
`Migrate`, `Reserve`, `RecommendAndReserve`, `Release`, `ReleaseById`) and `Save` are
the command. `Crash` kills a process and releases its lock, as the kernel does;
an unreadable or corrupt file makes a command fail before it writes and is covered
by `Crash`. `ReservationRegistry` says what the file promises: claims change only by
one whole operation on the current claims.

### HostRegistry

Sessions are READ COMMITTED with autoflush off, so a handler is two steps: its reads, and the
span from its first flush to its commit. A `Command` is an enroll command with its request; an installation may run several beside
each other. `EnrollRead`/`EnrollCommit` are `enroll_host`, `EnrollFails` the request failing at Central. A client that gives up does
not end its request: what Central commits then is lost in `EnrollDies`, which also is the lost reply and the crash.
`HeartbeatAuth`/`HeartbeatRead`/`HeartbeatWrite` are a heartbeat (authentication, upsert),
`DecommissionRead`/`DecommissionCommit` and `ReactivateRead`/`ReactivateCommit` the lifecycle; Remove
Record is `PurgeRows` (credentials, whose locks it keeps) and `PurgeCommit` (the host; refused
by the foreign key while a credential refers to it). On the machine the
two enroll commands write their files in opposite orders (`StoreFirst`, `StoreSecond`);
`LoadCredential` prefers `credentials.json` and heals it from `central.json` in
`BeginHeal`/`SaveHealed`. A daemon keeps the token it read at its start (`DaemonStart`). A crash may fall between
any two steps, and a reply may be lost. `IdentityOf` gives each installation the UUID it presents: a cloned
one has its original's. `raced`, `dropped` and, in a credential, `before` (what had been issued when its request read the token) are history.

### ConfigDocuments

One pass from a manifest to the files: `LoadManifest` (every rule of `validate_manifest`),
`CheckAllocation` (`resolve_host_ref`, `verify_allocation_ownership`), then for each mapped file in the order of `build_plan`
`OpenFile`, one `EditEntry` per entry of its mapping, on the `draft` the entries before it have left, and `PlanFile`;
`SavePlan` (`persist_plan`), `ApplyPlan`, a second plan (`PlanAgain`), `Rollback`. A dotenv document is
its lines, a Compose document its services with their `ports` entries, a Kubernetes document its resources with their
containers and ports. The editors change the parsed YAML in place, so what an alias or a merge key makes one object is in the
model: services with one `list` (an alias, or a `ports` list merged from another service) and entries with one
`anchor`; `takes` are the services a service merges, whose list it gets when they are given one. `OneNode` says which places are one object, `Rewritten` sets it in all of them, and
`Extended` appends to the list of every service in `Sharing`. Which entry an editor finds, replaces, appends or refuses is modelled
(`Assigned`, `ServicePublished`, `FindEntry`, ...), down to entries whose text it does not make out (`readable`). YAML text is not.
`ConfigMutation` puts processes, failures and edits around this step, with the editors' work
abstracted to "the mapped ports become the allocation's, the rest stays".

### ServiceLifecycle

A command is its sequence of manager calls, one action each (`WriteDefinition`, `Probe`,
`Bootout`, `Bootstrap`, `Reload`, `Enable`, `EnsureLinger`, `Release`, `Unlink`, `CreateTask`, `DeleteTask`, `Start`, `Stop`),
between `Begin` and `Report`. `Abandoned` is a call that is refused, a
15 s timeout that nothing catches, or ^C: nothing is reported. The manager has a
loaded definition (`job`), what it will start by itself (`AtLogin`) and one instance (`proc`);
a daemon it has lost track of is `orphan`. `RestartPolicy` is `KeepAlive`/`Restart=on-failure`.
`DaemonReady`, `DaemonExit`, `DaemonCrash` are the daemon's; `InstallWheel` and `RestartVia*`,
`RestartBootout`, `RestartBootstrap`, `RestartEnd`, `RestartRun` its restart of itself.
Each virtual environment has a package of its own (`wheel`): a process runs that of the environment its definition names, and
`InstallWheel` installs into the daemon's own.
`Login`, `Logout` and `Reboot` end and begin user managers. What the managers do is external knowledge and marked so in the map.

### ConfigMutation and Workflow

A file is the user's text and the allocation whose ports it holds, or absent. `Plan`
writes a record with the contents seen. Apply is `BeginApply`, `CheckApply` (all
hashes), `BackUp`, `WriteFile` and `Verify` per file, `WriteFailed` then `RestoreFile`,
`SaveApplied`. Rollback is `StartRollback`, `CheckRollback`,
`RestoreBackup`, `RollbackFailed`, `SaveRolledBack`. `Abort` kills the process. `Workflow` adds
`BeginWorkflow` (with the replay of a finished record), `CreateAllocation`, whose
response may be lost, the two config phases, `Compensate` and `ReleaseOwn`, and every save
of the record. `UserCommand` and `UserEdit` are the user in between.

### SnapshotIngestion

`Begin` and `Submit` are a scan: `capture_snapshot` discovers and then takes the time,
`central sync` takes its time first (`Early`). `Discoverable` is what discovery may
return when either collector fails. Central answers a request by
`RefuseOversized`, `AcceptAgain`, `RefuseStale` or `Accept`; each holds the host's lock
from first read to commit and is one step. Requests stay in `requests` until
handled, in any order; a bounded number is handled twice, because the docstring of
`models/scan.py` asks for it. `RowsOf` is canonicalization, `Happened` the event
derived for a binding. A shared port is merged on the machine and again at Central (`Merge`).

## 3. Runs

State counts are those of one run with two workers.

| Run | Module | Shows |
|---|---|---|
| `allocation_safety` | MCCentralAllocation | Refinement of `PortLedger` (`TablesAreLedger`): a bundle appears whole, on free ports it asked for. Bundles are disjoint (`NoAllocationDoubleBooking`) and never on a port the host's observations show in use (`CommitAvoidsObserved`); a retry never owns two (`RetryNeverDuplicates`); a released one owns nothing (`ReleasedOwnsNothing`); an ended request never leaves the host locked (`LocksHaveWorkers`). 281,000 states. |
| `decommission_race` | MCCentralAllocation | *Violation.* An allocation that passed the lifecycle check commits after a decommission. |
| `probe_evidence` | MCRemoteProbe | `verified_free` is evidence from a moment within the probe's lifetime (`VerifiedFreeIsHonest`); a host's unfinished probes, committed or flushed, are at most the cap once for every request under way plus `MaxDelivered` for every session but one (`QueueStaysBounded`). 1.5 million states. |
| `upgrades` | MCAgentUpgrade | Central never shows progress that did not happen (`ProgressIsReal`), the next pending upgrade reaches the daemon, and so does a second one, left by two administrators, once reports get through (`PendingIsPickedUp`). 372,000 states. |
| `upgrade_never_succeeds` | MCAgentUpgrade | *Violation.* No code marks an upgrade SUCCEEDED. |
| `local_registry` | MCLocalReservations | Refinement of `ReservationRegistry` (`FileIsRegistry`) and no lost claims (`ReservationsSurvive`), on first start with a row to migrate. |
| `local_owners` | MCLocalReservations | One reservation per port (`PortReservedOnce`); every command ends (`CommandsFinish`). |
| `workflow_safety` | MCWorkflow | Records tell the truth (`AppliedIsTrue`), compensation gives up only the attempt's own allocation (`CompensationOwns`), apply is all or nothing (`ApplyAllOrNothing`), rollback is exact (`RollbackIsExact`), edits and originals are kept (`EditsKept`, `OriginalsKept`). 4.1 million states. |
| `snapshot_reports` | MCSnapshotIngestion | The rows are the newest snapshot's (`CurrentIsNewest`) and at most one per binding (`TypeOK`), the history explains them and is ordered (`HistoryExplainsCurrent`, `HistoryIsOrdered`), and a row goes only when a whole discovery found its port free or a collector had failed (`OnlyFreePortsDisappear`). 4.4 million states. |
| `host_registry` | MCHostRegistry | At most one active credential per host (`OneActiveCredential`), none without a host row (`CredentialsHaveHosts`), a token brings a second credential only to requests that were at Central together (`TokenReplayRefused`), a tombstone holds no credential unless an enrollment overlapped the decommission (`TombstoneHoldsNoCredential`), nothing but the administrator ends a decommission (`DecommissionStands`), and the machine loads its newest credential, unless it was lost to a crash, a lost reply, a self-healing read or an older command beside it (`NewestCredentialLoaded`). 1.3 million states. |
| `config_documents` | MCConfigDocuments | Every mapped place ends up with its port (`MappedPlacesDelivered`) and a second plan has nothing to do (`PlanIsIdempotent`), when no place is mapped twice and no two mapped places are one YAML object (`NodesApart`); nothing changes but the mapped places and what YAML makes one object with them, and what was shared stays shared (`NothingElseChanges`); rollback takes back exactly what apply did (`RollbackRestores`). 80,800 states. |
| `service_lifecycle` | MCServiceLifecycle | What install reported is what the next login or boot starts (`InstalledInForce`), what uninstall reported stays down (`RemovedStaysDown`), a stop is not undone by the manager (`StopHolds`), a wanted daemon gets to run (`WantedRuns`), and on Linux an upgraded one is succeeded by the new version, unless the service has been installed from another environment since (`UpgradeTakesOver`). 598,000 states. |

Most type invariants are proved (section 4) and not part of the runs.

### Bounds, and why they are enough

* `allocation_safety`: three transactions of any kind, two ports, one host, bundles of
  one and two items. Two requests compete and a third (lifecycle, release,
  ingestion, reservation) interferes; two ports let a two-item bundle fit exactly
  or collide in one item. Hosts do not share rows or locks: one is enough.
  `ReleaseLimit` = 6 is above the rows that can exist, so the 1000-row limit of the
  code is never exceeded (section 6). Transactions are symmetric.
* `probe_evidence`: two sessions of one host, two requests, two ports (programs take and free one of them), two probe
  rows, a cap of two and deliveries of one. Each request can flush both ports up to the cap while the other does; two rows let an older probe be answered beside a
  newer one of its port. `TTL` is one tick and `StaleAfter` none, so just in time and just too late both occur.
* `upgrades`: two upgrades, two administrators and one report in flight: two creations beside each other leave two pending
  rows, and a second upgrade or a rollback follows a first that is still reported on. It uses one version and no
  `request_id`: the properties do not depend on them, and the proofs cover all values.
  `upgrade_never_succeeds` needs two versions and one upgrade.
* `local_*`: two commands, one port, two projects, two UUIDs, three
  reservations ever created (`MaxId`). Every conflict is over one port and
  between two commands.
* `workflow_safety`: two requests, two files, two mutations, one process, one edit, one kill.
  Two files let one fail after the other was written; two requests plan over each
  other's files. With one process, two commands never overlap (section 6). `EditAnytime` = FALSE: the user
  edits between commands (section 5 says what happens otherwise).
* `snapshot_reports`: two senders, three scans, one binding, one change, one repeated request,
  four usages, two of them shared ports and one of those over the batch limit. Three scans give two outstanding requests
  and a newer one to overtake them. The comparison of snapshots is per binding, hence one.
* `host_registry`: one installation with two enroll commands beside each other, two tokens, two
  credentials, one administrator. Two enrollments of one host with one or with two tokens, each beside a decommission, a reactivation or a
  removal, are the conflicts the rows can have; a second host shares nothing with the first. A clone of the machine differs only in
  its files and is covered by the theorems. Commands and tokens are symmetric.
* `config_documents`: some 70 manifests with up to two entries per file over one dotenv, one Compose and one Kubernetes file, 23 states of those
  files, four replies of Central and three host lists. Edits go entry by entry, so two that meet
  in one place, or in one document without meeting, cover the cases; documents have duplicates, unreadable entries and missing files,
  services that share a list or take one that is yet to be made, and entries that share an anchor.
* `service_lifecycle`: the three platforms, two virtual environments to install from, two crashes. Two environments tell a stale
  definition from the new one and an upgraded package from the one that is started; a second crash meets a restart after the first.
* Deadlock is checked where `CHECK_DEADLOCK FALSE` is absent (the allocations, the
  local reservations and the service). In the other models the bounds, or the end of all requests, leave nothing to do.

### Fairness

* `AgentUpgrade!FairSpec`: weak fairness of the daemon's loop and of Central's handling of a
  report it received. Strong fairness of a heartbeat that delivers: the daemon
  heartbeats forever, and while a single one may be lost or find no upgrade, not
  all may. The second part of `PendingIsPickedUp` has a hypothesis of its own: `ReportsGetThrough`, strong fairness of the report that an upgrade has
  begun. The code does not promise it; without it the second row starves (section 5). Administrators, crashes and losses are not fair.
* `LocalReservations!FairSpec`: weak fairness of each running command. Nobody has to
  start one. The lock is polled without any fairness: `LockTimeout` is what ends the wait.
* `ServiceLifecycle!Spec`: weak fairness of a started process getting to run (`DaemonReady`), of one that was
  told to end doing so (`DaemonExit`; `TimeoutStopSec` and `ExitTimeOut` see to it) and of the
  restart the definition asks the manager for (`ManagerRestart`). Users, crashes and sessions are not fair.
* No other run assumes fairness. That Central's requests end is stated as safety
  (`LocksHaveWorkers`).

## 4. Proofs

Every theorem follows from an inductive invariant (`IInv`, or the one named in the table):
`Init => IInv`, one lemma per action for `IInv /\ [Next]_vars => IInv'`, and the property
from `IInv`. Of the properties of the passing runs all but the four liveness properties are proved.

The theorems assume what the `ASSUME`s of the modules say: sentinels are not in the sets they complete
(`Absent` is no file content, `AbsentAssumption` and `NoDocumentAssumption`), ports and ids are numbers, limits are naturals,
the files of a project are documents of their kinds and its manifests sequences of mappings (`TreeAssumption`, `ManifestAssumption`:
what the parsers return), and there are finitely many requests and sessions at a time (`ConcurrencyAssumption` of `RemoteProbe`),
and the sentinel for a service without a list is no service (`NoListAssumption`). Six have hypotheses of their own, named below.

| Module | Theorems | Inductive invariant, and why |
|---|---|---|
| `CentralAllocationProofs` | `TypeCorrect`, `BundlesAreDisjoint`, `RequestsAreIdempotent`, `AllocationsRespectSnapshots`, `NoLockIsLeaked`, `AllocationIsAtomic`, `ReleaseIsComplete`, `TablesImplementLedger` | `TypeOK`, a transaction past the lock holds it (`LockHeld`), has inserted nothing (`NothingClaimedYet`), and what it claimed is neither booked nor observed (`ClaimedUnbooked`, `ClaimedUnobserved`). Disjointness holds at commit because nobody else could commit since the claim. `NoLockIsLeaked` adds `OwnersWork`: whoever a lock names is between taking it and its end. Atomicity (`BundleAllOrNothing`, about rows; the run checks `TablesAreLedger`, which says it of the ports they stand for) adds that an allocation without a commit has no rows (`Uncommitted`) and that claimed and open items add up to the request (`ItemsResolved`). `ReleaseIsComplete` adds that a release aims at a committed allocation of its host (`TargetsCommitted`) and that a bundle's rows belong to an active one (`RowsHaveOwners`); its hypothesis `RowsWithinLimit` says that no host has more rows than the 1000 one listing returns, without which it is false (section 5). `TablesImplementLedger` is the refinement, one lemma per operation of the ledger, from `LedgerInv`: it adds that what is claimed is a choice of one port per resolved item, all different and each asked for (`PortsFit`), and that a bundle's row belongs to a known allocation of its own host (`RowsAtHome`, which unlike `RowsHaveOwners` needs no limit). Of the ledger's operations only `Grant` needs the host lock: the ports picked under it are still free in the ledger when it commits (`PickedAreFree`). |
| `RemoteProbeProofs` | `TypeCorrect`, `EvidenceIsHonest`, `QueueIsBounded` | A probe's age bounds the time since its bind at every stage: in the agent (`AnswerHonest`), in the request, in the row (`ResultHonest`); a session only answers what it claimed (`SessionOwns`). The bound on the queue (`QueueInv`) counts live rows and the flushed ones of every request: none flushes more than the cap it counts against (`RequestsBounded`), a session revives at most one batch (`BatchesBounded`), and one session at least revives nothing (`SomeoneIsCurrent`). |
| `AgentUpgradeProofs` | `TypeCorrect`, `ProgressIsNeverAhead`, `InstallFailsClosed`, `RequestsAreIdempotent` | What each actor is about to write is already true: the daemon (`AgentReal`), a report in flight (`ReportReal`), an administrator's row (`AdminReal`). |
| `LocalReservationsProofs` | `TypeCorrect`, `FileImplementsRegistry`, `NoReservationIsLost`, `PortsAreReservedOnce` | One process at a time is between load and save (`LockHolder`), what it will save is a whole operation on the *current* file (`SaveIsAStep`) that keeps others' rows (`SaveKeeps`), and ids are not reused (`IdsUsed`). `FileImplementsRegistry` is the refinement. `PortsAreReservedOnce` adds that every row and every process is under the one identity (`OneIdentity`); its hypothesis `Settled` says that the machine starts with that identity and no legacy rows, without which it is false (section 5). |
| `ConfigProofs` | `Types`, `CompensationReleasesOnlyItsOwn`, `RecordsAreTrue`, `EditsAreKept`, `OriginalsAreKept`, `RollbacksAreExact`, `AppliesAllOrNothing`; `DocumentsTyped`, `PlacesDelivered`, `OnlyMappedPlacesChange`, `SecondPlanIsEmpty`, `FilesTakenBack` | See below. |
| `SnapshotIngestionProofs` | `Types`, `NewestWins`, `SyncIsReal`, `HistoryTellsCurrent`, `HistoryInOrder`, `OnlyFreePortsGo` | A scan id belongs to one sender or one request (`IdsUnique`), so what is accepted again is not newer than the last scan (`TakenIsOld`); time 0 stands for no scan (`Timed`). The history theorems add `HistoryInv`: a binding's last event and its row agree, its events alternate and none is newer than the last scan. `OnlyFreePortsGo` rests on `ScansAreComplete`: a snapshot made by whole collectors has every port in use, through both merges. `Types` needs that `Merge` returns one of the rows it is given: the sort key orders them totally and a finite group has a greatest one (`GroupHasBest`, by well-foundedness of proper inclusion among finite sets). |
| `HostRegistryProofs` | `Types`, `AtMostOneActive`, `NoOrphanCredential`, `ReplayIsRefused`, `TombstonesAreEmpty`, `DecommissionsStand`, `NewestIsLoaded` | Rows refer to hosts and tokens that exist (`References`); what had been issued when a request read its token was not issued for that token (`TokenStillUnspent`); a decommission in progress knows every active credential but those of the enrollments it met (`DecommissionSeesAll`), and so leaves none (`TombstoneIsClosed`). `NewestIsLoaded` adds `NewestStored`: credentials are issued in the order of their numbers, a command holds one issued to its machine (`Held`), and the newest one, unless it is lost or a command has still to save it, is in `credentials.json` (`StoredAt`), for either order of the two files. |
| `ServiceLifecycleProofs` | `Types`, `InstallsStay`, `RemovalsStay`, `StopsStay` | Where each command can be on each platform (`Places`) and what is true there on the way to its report (`Installing`, `Uninstalling`), what remains after an uninstall (`Removed`) and after a stop (`Resting`), and what a process's flags mean (`ProcOK`). |

`ConfigProofs` has two parts. The first is about the processes (`Workflow`). `created_by_this_attempt` implies that this attempt's call created the
allocation, at every step until it is released (`FlowInv`). Every step of the workflow is, for the files, one of the kinds
in `CfgStep` (`WorkflowIsCfg`), a `Quiet` one or one that `Writes`; what each writing step does is one lemma (`BackUpDoes`, ...).
`WInv` is the types, that running commands and attempts name mutations that exist (`RunningRefs`, `FlowRefs`), and
every step makes records only `Advance`. On top of it:

* `RecordsAreTrue` (`AppliedInv`): while config apply runs, its process works on the attempt's mutation, and it returns well
  only when that one is applied.
* `EditsAreKept` (`Texts`): the user's last text is in every file, in what every running apply or rollback has read, in
  the originals it holds and in the backups it uses. Hypothesis `DistinctBackups`: two files never share a
  backup name. Any number of processes.
* `OriginalsAreKept`, `RollbacksAreExact`, `AppliesAllOrNothing` (`Copies`): while apply runs its originals, the backups and
  the record agree and the files it has not written are the originals; while rollback runs, those it has restored are.
  Hypotheses `DistinctBackups` and `Alone`: one command at a time, as in the run. Config apply takes no lock, and with two at
  once the properties are false: each may hold what the other has half written for the original.

The second part is about the documents (`ConfigDocuments`). What an editor does for one entry is one lemma per kind of file
(`DotenvEdited`, `ComposeEdited`, `KubernetesEdited`), all with the conclusion `WellEdited`: the result is a document of that kind, it
`Holds` the entry's port at the one place the entry means, differs from the document before only in the object at that place (`OnlyChanged`), holds what it
held for every entry that means neither that place (`Apart`) nor that object (`Separate`), and is the same document if it held the port already.
For YAML both editors are `Wrote`, shown once for a port that is set (`RewrittenWrote`) and once for an entry that is appended (`ExtendedWrote`);
`NodesJoin` is that being one object is an equivalence the edit respects. Two facts
carry this from one entry to a mapping. `EditsAddUp`: a change of a port, or an entry added for a mapping, does not change which places any entry means
(`MeansTheSame`), so edits that each change only what one entry means change together only what the mapping means, and join no objects, so entries that were `Separate` in the file still are in the draft (`SeparateBefore`).
`ValidIsDistinct`: validation, and `EntriesOnce` where it compares nothing, keep the entries of a mapping apart.

`DocumentsInv` then says how far the commands have come: a draft or plan has `Progress` on what the file read when it was opened (`DraftInv`,
`PlanInv`); every mapping has one plan when planning ends (`StageInv`); after apply each file is what one of its plans says and
its copy is the original (`WrittenInv`, by `LastExists` for a file mapped twice); and at the second plan each file already holds
every port, so no edit changes it (`ReplanInv`). The theorems have no hypotheses beyond those in the properties (`FilesOnce`, `EntriesOnce`,
`NodesApart`, `BackupsApart`), each of which the code does not ensure (section 5).

Only model-checked:

* liveness (`PendingIsPickedUp`, `CommandsFinish`, `WantedRuns`, `UpgradeTakesOver`), and everything about `ENABLED`: out of the prover's reach.

## 5. Disagreements between code and documentation

Two runs are violations, each with the sentence it contradicts, in `PROJECT.json`
"findings": decommission beside an allocation, and an upgrade that never becomes SUCCEEDED.

Three more are reachable in the models with other constants, and are why a passing run is set up as it is:

* *A swallowed migration.* `reserve_ops.py` and `cli.py:2077` ignore a lock timeout of the legacy
  migration; the command then runs on a file with hostname rows, and two projects can hold a port.
  With `InitialFile <- MCLegacyFile`, `PortReservedOnce` fails; `local_owners` starts with nothing to migrate.
* *An edit between check and write.* `config_manager.py:482` compares hashes and then replaces the file;
  `docs/phase8c_safe_config.md:200` says "the external edit is preserved exactly". With `EditAnytime = TRUE`, `EditsKept` fails.
* *A failed collector.* `discovery.py:57` turns a failed collector into an empty result, the snapshot is submitted
  as a full one, and `ingestion_service.py` removes the rows of ports in use. `OnlyFreePortsDisappear` names that exception.

Met while modelling, without a run of their own.

Central:

* `create_reservation` checks for an existing row before it inserts, and the unique
  constraint treats an absent bind address as distinct from itself, so two concurrent requests can reserve a binding twice.
* `release_allocation` reads at most 1000 rows of the host: on a larger host a released allocation could keep rows.
* Deleting the rows of a bundle one by one leaves an active allocation without ports.
* A late probe result overwrites an earlier one, a probe may be delivered twice, and candidates past the skip limit are not examined.
* `verify_allocation` and `create_allocation` flush one probe per port or item before one commit and see only their own and committed
  rows, so every request under way can fill the cap of a host again; `max_pending_probes_per_host` is no bound of the queue.
* Concurrent creations can leave two unfinished upgrades of a host: the older is delivered again as long as the reports about it are lost,
  and the newer one starves behind it. A report can overwrite
  a terminal state written by a rollback or decommission that ran beside it.
  The version check against `hosts.agent_version` uses the last heartbeat's, so a silent downgrade is possible.
* Overlapping enroll requests can all use a one-time token, which `enrollment_service.py:105-138` reads without a lock (the docstring: "it can
  never be replayed to enroll a second host"). A repeat of a command whose client gave up after 10 s is enough: the first request is still at Central.
* An enrollment that overlaps a decommission leaves an active credential on the DECOMMISSIONED host.
* A heartbeat that passed its authentication before Remove Record puts the host back, without a credential.
* Of two overlapping scans, the older discovery may carry the newer time and win.

Local state and project files:

* Two first commands may write `host.json` with different UUIDs; the loser's rows belong to
  an id nobody uses. A port is reserved on a discovery made before the lock.
* A rollback that fails partway is not undone and its retry is refused. Two files whose safe backup names are equal share one backup.
  Two applies of different mutations beside each other can both pass the comparison.
* A file listed twice in a manifest is planned twice from the same content: the second write wins, and rollback is refused from then on.
* Validation compares Kubernetes places with the namespace as written (`manifest.py:544-549`): an entry without one and an entry that names the
  resource's namespace meet in one place. Of Compose and dotenv entries it compares nothing.
* Services whose `ports` are one list by an alias or a merge key change together: the editor writes into the one object, so editing a service
  changes the others, and the second of two mappings overwrites the first. `compose_editor.py:5-8` and `docs/phase8c_safe_config.md:116-119`
  say that only the mapped port values change. The same goes for two entries with one anchor. `NothingElseChanges` counts such places as mapped, `NodesApart` excludes two mappings of one.
* A `ports` entry the Compose editor does not make out is skipped, and a second entry is appended for the same container port.
* A dotenv plan reported as "no_change" may still rewrite the file's formatting.
* A manifest without `target` ends in a `TypeError` from `uuid.UUID(None)`, not in a validation message.
* `apply` checks at Central that the allocation is active before it starts and not again.
* One `request_id` in two processes: the creator may compensate while the other goes on.
  After a compensation the `request_id` is used up: Central answers with the released allocation.

Credentials and the service:

* `agent enroll` writes `central.json` without a token and reports that central sync is enabled; `central sync` then refuses.
* Windows: `/Delete` does not end the running task, so a later install and start run a second daemon beside it.
* macOS: a stop that meets a daemon before it has set its signal handlers kills it by the signal, which launchd counts as a
  failure and restarts (`service_gen.py:253` says stop and launchd do not fight). `StopHolds` is about daemons that were running.
* A stop that meets an upgrade's restart is undone by it.
* Windows and macOS: the daemon restarts itself by a call that ends it (`/End`, `bootout`) before it can make the next one, and is down until the next login.
* Linux: `systemctl disable --now` may take `TimeoutStopSec` = 20 s while `_run` allows 15 s; the `TimeoutExpired` is not caught and the
  uninstall leaves the unit file. `install` neither starts nor restarts the unit: after an install from a second environment the running
  daemon still upgrades the package of the first, `systemctl restart` starts the second one's, and the new version does not run.

## 6. What is left out

Not modelled at all: the dashboard, the read-only views, collectors and detection, CLI parsing and output,
the doctor, and application set-up. They keep no state, or only read it; the reasons are in `PROJECT.json`.

Abstracted or assumed in the modelled components:

* `CentralAllocation`: (port, protocol) is `Port`; `created_at` order is insertion order; the
  10,000-row limit of the observation query is not exceeded.
* `RemoteProbe`: no host is deleted while probes are outstanding; failures of probes for lower candidates are nondeterministic.
* `AgentUpgrade`, `SnapshotIngestion`: one host; nothing in the code relates the rows of two.
* `SnapshotIngestion`: the senders share the host's clock, which does not go back; no activity feed, no `last_seen`,
  no unknown host, not the reservation upload of `central sync`. A request handled twice is an assumption about the network.
* `HostRegistry`: tokens and credentials are their own hashes; a host row is its lifecycle state. Enrolling again and
  healing use `os.replace`, one step each.
* `ConfigDocuments`: bad YAML syntax, and unknown or ill-typed fields, are one refusal. Anchors, aliases and merge keys are what they make one object,
  not how they are written; left out are merge keys inside one port entry, a merge list whose earlier member gets a `ports` list later, and a Kubernetes
  list shared as a whole (its entries share anchors instead). A name is compared as it is, without stripping; dumping a
  loaded document again changes nothing.
* `ConfigMutation`: every mutation maps every file, once; the editors are "replace the mapped ports, keep the rest".
* `Workflow`: one manifest per `request_id`. In the run every request maps files (`WithConfig` = `Alloc`) and one process runs; `CompensationReleasesOnlyItsOwn`, `RecordsAreTrue` and `EditsAreKept`
  cover any number, including requests without files and the branch of `Compensate` for an APPLIED record. `prepare` only previews.
* `ServiceLifecycle`: the user runs one service command at a time; the text of the definitions is the environment they name and when they restart it. The qualification
  override `PORTFORGE_WINDOWS_RESTART_HELPER` of the Windows restart is not modelled.
* The daemon's intervals and backoff are a delay before its next step; no model has them.

## 7. Plan

Done, in this order: `CentralAllocation` (later over `PortLedger`), `RemoteProbe`, `AgentUpgrade`, `LocalReservations` over
`ReservationRegistry`, `ConfigMutation`, `Workflow`, `SnapshotIngestion`, `HostRegistry`, `ConfigDocuments`, `ServiceLifecycle`, and
proofs about all of them.

Next, modelling:

1. A second process in `Workflow`, with the same `request_id`.
2. `SnapshotIngestion` with fairness: after the last change, Central's rows converge on the host's ports.
3. `AgentRuntime`: the loop's intervals, its backoff, and the runtime state file shared by the daemon and the CLI.
4. The conflict and fleet views as operators over the modelled tables.

Next, proofs: that `ConfigDocuments` implements the step `ConfigMutation` takes for it, and for two processes in `Workflow` what remains
true of originals and rollbacks when their commands overlap.
