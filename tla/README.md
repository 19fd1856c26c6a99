# TenantFlow: a TLA+ model of the tenant control plane

TenantFlow is a control plane for tenants: an HTTP API starts Temporal
workflows (sagas), their activities run on workers and change a PostgreSQL row,
a database per tenant, a database role, a Keycloak user and backup files, and an
interceptor mirrors failed runs into a table that serves as a dead letter queue.
This directory holds a formal model of it, the TLC runs that check the model, and
TLAPS proofs of the properties that matter most.

## 1. Inventory

| Component | State | Operations | Hard behaviour | Correct when |
|---|---|---|---|---|
| Tenant row (`repository/tenant.go`) | `tenants.status`, isolation mode | insert if absent, compare-and-set | two sagas write one column | transitions follow one life cycle, deleted is final |
| Provision saga (`workflow/provision.go`) | place in the saga, `userID`, `dbCreated` | 4 steps, 3 compensations | retries after a committed effect, lost results | a completed run leaves a served tenant |
| Delete saga (`workflow/delete.go`) | place, timer, buffered signal | mark, wait, restore or back up, tear down, mark | cancel against timer, resume after failure | nothing torn down is revived, nothing is dropped without a backup |
| Verified backup (`activities/backup.go`) | dump, `_temp` database, backup row | probe, dump, rebuild `_temp`, restore, validate, bless | crash with `_temp` left behind | a blessed backup holds the data |
| Recorder (`instance/recorder.go`) | seen set, `workflow_instances` | insert running, mark failed | swallowed write errors, worker death | a failed run can be found and resumed |
| API (`handler/tenant.go`) | none of its own | create, delete, cancel-delete, retry, reconcile, upgrade, migrate, backup, restore | reads the row, acts on it later | a request acts on the state it checked |
| Database provider (`cloud/docker.go`) | databases, roles, dump files | create, own, inspect, drop, rename, dump, restore | not transactional across statements | every step can be repeated |
| Identity (`identity/keycloak.go`) | users, roles; the admin token and its mutex | get, create, set password, assign, delete; grant, invalidate | lost answers, tokens refused before they expire, callers that share a cache | user exists exactly when promised, a retry is not sent with the refused token, the mutex is always released |
| Migrate saga (`workflow/migrate.go`) | live, `_new`, dump | build `_new`, drop live, rename | failure between drop and rename | the tenant always has its data somewhere |
| Backup and restore sagas | dump, live database | dump and verify; snapshot, restore, roll back | restore into a non-empty database | a failed restore leaves the old data |
| Reconciliation (`workflow/reconcile.go`, `sweep.go`) | spec, drifts, repairs; children of the sweep | probe, repair, escalate; sweep, continue as new | acts on a probed state beside other sagas | converges, never invents an empty database |
| Upgrade (`workflow/upgrade.go`) | quota | read, raise, roll back | read-modify-write with retries | a failed upgrade leaves the old quota |
| Names (`handler/tenant.go`, `cloud/docker.go`) | none | accept an ID, derive database and role names | derived names of one tenant are names of another; length limits | a tenant's sagas reach only its own databases; names that collide harm nobody else |
| Chaos, metrics, cost, audit, auth, routing, configuration | none that the above depends on | | | |

Interaction: a handler reads the tenant row, then starts or signals a workflow.
Temporal runs one activity of a workflow at a time and retries it up to three
times; two workflows of one tenant (`provision-<id>`, `delete-<id>`, ...) run
concurrently and meet in the row, the databases and the user. The recorder and
the chaos injector wrap each attempt of each activity.

`PROJECT.json` lists every component with its status, and every hazard with the
line where it bites.

## 2. Modules

| Module | What it is |
|---|---|
| `TenantStatus` | Abstract specification: the status column and "teardown has begun", nothing else. |
| `TenantLifecycle` | The provision and delete sagas of one tenant with everything they touch, the recorder, and the four lifecycle endpoints. Implements `TenantStatus`. |
| `SagaRuns` | How Temporal drives activities effect by effect, with retries: shared by the modules below. |
| `Databases` | The databases, the role, the dump files and the backup rows of one tenant, call by call, and what failed calls leave behind. |
| `DataSagas` | The migrate, backup, restore, delete and reconcile sagas of one tenant over `Databases`, and their endpoints. |
| `ReconcileSweep` | The scheduled driver of reconciliation, for several tenants. |
| `Upgrade` | The upgrade saga and the quota row. |
| `AdminToken` | The shared Keycloak token: cache, mutex, single retry after a 401. |
| `KeycloakIdentity` | The identity activities of the provision and delete sagas, request by request, composed with `AdminToken` and `SagaRuns`. |
| `TenantNames` | Many tenants: IDs, derived names, length limits. |
| `MC...` | TLC instances of the module after `MC`. |
| `...Proofs` | Theorems about the module before `Proofs`; `TenantOutcomeProofs` has the rest of those about `TenantLifecycle`. |

What one module leaves to another is marked external there: `ReconcileSweep` takes
a reconcile run to be open or closed (`DataSagas` has its steps, `SagasClose` shows
that it closes), `Upgrade` takes the status from outside (`TenantLifecycle`).

### How TenantLifecycle corresponds to the code

One tenant is modelled: workflows, rows, databases and users of two tenants share
nothing but the server; the name rules that make them collide are in
`TenantNames`.

*Sagas as tables.* `ProvisionTenantWorkflow` and `DeleteTenantWorkflow` give for
each activity its successor when it succeeds and when it is given up. The
flags of the deferred functions (`userID`, `dbCreated`) are a function of the
activity that failed, so the tables need no flags. `act[w]` is the activity that
saga `w` executes, `"grace"`, or how the last run closed.

*Activities as numbered effects.* `step[w] = 0`: an attempt is scheduled.
`step[w] = k`: a worker is about to perform effect `k`. An effect is one
committed change: an SQL statement, a Keycloak call, a dump. The last one is the
audit write together with the report to Temporal (`Report`). The effect actions
(`ProvisionTenant`, `BackupTenantData`, ...) stand for the corresponding
functions in `internal/activities`; the two sagas interleave effect by effect.

*Failure.* Before any effect, the last included, an attempt may end with an
error (`ActivityError`: a database error, a refused connection, chaos injection,
an audit write that failed) or with the death of its worker (`WorkerCrash`,
which ends all executing attempts and forgets the recorder's seen set). Effects
already performed stay. `EndAttempts` is the retry policy: another attempt while
`MaximumAttempts` allows, else the saga's failure successor. A lost
compare-and-set is a non-retryable error.

*Recorder.* `row[w]` is the current run's row (`unseen`, `running`, `failed`, or
`missed` when its insert failed), `dlq` remembers which sagas have failed rows
of earlier runs, which is all `FindLatestFailed` can tell.

*API.* Each handler is two actions, because it reads the row and acts later:
`DeleteTenant` then `startDelete`, `CancelTenantDelete` then `signalCancel`,
`RetryTenant` then `retryProvision`, or `FindLatestFailed` and `resumeDelete`.
Requests that a handler refuses change nothing and are not steps. The reuse
policies are the conditions on `act[w]`.

*Infrastructure.* `db` is absent, empty or holds data; `TenantWrites` (outside
the repository) puts data into it while the tenant is active. That tenants write
only while active is an assumption: nothing in the code stops a connection that
is already open, and data written after the dump would not be in it. `owned`
stands for owner and revoked PUBLIC; `role` cannot be dropped while `owned` or
`temp` holds. Creating `_temp` and making the role its owner is one effect; the
half-done state differs only for a `_temp` that the next attempt drops first.

*History.* `torn` and `graced` are history variables: no guard reads them.

Not in the model: audit events (written, never read by a saga), the version gate
for delete runs older than the pre-delete backup, HTTP details, user IDs (one
provision run at a time creates the user, so an ID stands for "the user").

### How SagaRuns, Databases and DataSagas correspond to the code

`SagaRuns` is the view of `TenantLifecycle` without recorder and clients: `act[w]`,
`step[w]`, `attempt[w]`; an attempt may end before any of its effects, the last one
included, and starts again at its first (`EndAttempt`). An error, a timeout and a
dead worker look the same to the workflow, so one action stands for them. A timed-out
attempt that goes on in the background while its retry runs is not modelled.

`Databases` has one operator for each call of `cloud/docker.go` and of
`repository/backup.go` the sagas make. `content[n]` is what the live, `_new` or `_temp`
database holds: absent, empty, `v1`, `v2`, or partial. psql replays a dump statement
by statement and adds to what is there, with `ON_ERROR_STOP`: hence `Loads` (a dump
with tables loads only into a database without), and `AfterFailedRestore` for what a
load that breaks off leaves. A file name has the resolution of a second:
`DumpNames(recent)` lets a dump overwrite one that another saga took in that second.

`DataSagas` gives each saga as a table of successors (`MigrateTenantWorkflow`, ...),
each activity as the disjunction of its numbered effects (`SwitchTraffic`: look for
`_new`, drop live, rename, report), and what an attempt that breaks off may leave
(`ActivityError` with `Remains`: the deferred drops of `_new` and `_temp`, the
self-healing load of `SwitchTraffic`, a half-made role, a failed backup row).

An endpoint that reads the status is two actions: the check (`MigrateTenant`,
`BackupTenant`, `RestoreTenant`, `DeleteTenant`, `RetryTenant`), and the start
(`ExecuteWorkflow`; for a retry `resumeDelete`). Between them anything may happen, and
the status that was read may be stale at the start. What the start itself refuses is
what Temporal refuses by the reuse policy: `Reusable` for first runs, an open run for a
resume, which starts under ALLOW_DUPLICATE even after a run that was cancelled or
completed. `dlq` holds the failed rows of the delete saga: any failed attempt leaves
one, whether or not a retry makes it good, and it stays, so that `FindLatestFailed` and
the start may be one action. `ReconcileTenant` looks at no status and is one action.
Requests for a saga that has used up its only run (REJECT_DUPLICATE) are left out.

`written` is history: what the tenant last wrote;
tenants write only while active. `ExternalDrift` is what an operator or an accident
does to the cluster; `disturbed` is history. The variable `scenario`, chosen at the
start and never changed, says which sagas a behaviour is about; it bounds the
instance and stands for nothing in the code. The delete saga is the one of
`TenantLifecycle` with its failed rows as the only trace of the recorder, and without
its signals (`GraceEnds` either way); a cancelled deletion makes the tenant active
again, so that it can write, be deleted again, or be torn down by a stale resume.

### How ReconcileSweep corresponds to the code

`Tick` is one workflow task of `ReconcileSweepWorkflow`: it requests a child for each
listed tenant whose ID is free, counts the sweep, and waits (last sweep), continues as
new, or sleeps. `CloseRun` is what Temporal does when the run closes under the default
parent close policy: running children are terminated, and those requested in the
closing task never start. `limit` is `MaxSweeps`, which the module lets be chosen at
each start. `ReconcileTenant` is the manual endpoint under the same workflow ID.

### How Upgrade corresponds to the code

`row` is the tenant's row of `tenant_quotas`, `old` the workflow's `oldQuota`.
`VerifyTenantActive` reads the quota, `RaiseQuotas` writes twice, four and two times
what was read, `RollbackQuotas` writes it back. The flag `quotaRaised` is a function
of the activity that was given up and is part of `OnFailure`.

### How AdminToken and KeycloakIdentity correspond to the code

In `AdminToken` a caller is a goroutine inside `doAdminRequest`. Tokens are numbers,
in the order of issue. `getAdminToken` locks `mu` and either returns the cached token
or keeps the mutex for the request (`Grant`, `GrantFails`); `Unauthorized` is a 401,
which leads through `invalidateToken` to one repetition. `SessionEnds` is the case the
code is written for: Keycloak refuses a token long before `expires_in`.

`KeycloakIdentity` makes each request of `ProvisionTenantIdentity`,
`DeleteTenantIdentity` and `DeleteTenantIdentityByTenant` pass through `AdminToken`;
its callers are the two sagas. A request that Keycloak executes may lose its answer
(`Lost` beside `Accepted`), and `WorkerCrash` may come anywhere, with the mutex held.
The delete saga starts only after `MarkTenantActive` has written; that includes
the time in which the provision saga compensates what it takes for a failure.
Runs resumed from the dead letter queue are in `TenantLifecycle`.

### How TenantNames corresponds to the code

A tenant ID is a sequence: a base with a length, then suffixes `_new` or `_temp` that
its last characters spell. That is all that `tenantIDPattern`, `validateIdentifier`,
`newDBName`, `tempDBName` and `tenantOwnerRole` look at. Activities are atomic here.

## 3. Runs

| Run | Question | Distinct states |
|---|---|---|
| `lifecycle` | Do the safety properties, the outcomes of completed runs and the refinement of `TenantStatus` survive racing clients, failing and retried activities, dying workers and recorder faults? | 1.6 M |
| `lifecycle_liveness` | Does every run close and every deletion settle, with every failed run on record? | 0.3 M |
| `data_sagas` | Is the tenant's data safe through a migration, two reconciliations of a damaged cluster, a restore beside a backup run, and deletions beside one that fail, are cancelled, repeated and resumed on a stale status? | 2.0 M |
| `data_liveness` | Do sagas that take the database from each other close? | 76 k |
| `sweep` | Is the history bounded, the last batch awaited, and every active tenant reconciled again and again? | 4 k |
| `upgrade_quota` | Is the plan raised once or restored, and does every upgrade end? | 0.3 k |
| `identity` | Do get-or-create, role and deletion survive lost answers, refused tokens and a dead worker, and do both sagas close? | 164 k |
| `names` | Do tenants at the length limits, beside two whose names collide, keep their databases and roles? | 20 k |
| `claim_*` | Four statements of comments and documents that the code does not keep; each run shows a counterexample. | |

### Properties of the passing runs

*Lifecycle.* `TypeOK`; `StatusPromise` (`TenantLifecycle` implements `TenantStatus`);
`NoReviveAfterTeardown` and `BackupBeforeTeardown`, the two promises of soft delete;
`ProvisionedIsServed` and `DeletedIsClean`, what a completed run leaves behind;
`FailedRunIsListed`; `RunsClose` and `DeletionSettles`. `DeletedIsClean` and
`ProvisionedIsServed` speak of tenants whose last provision run completed: a
provision run that is still open, or was given up, beside a delete run may leave a
database or a user behind, which the code does not exclude.

*Data.* `SwitchKeepsCopy`, `MigratedIsServed`: a retried switch never drops what it
promoted, no retry builds on a half-built `_new`. `ConvergedHasNoDrift`,
`RepairIsFromBackup`, `RestoreDropsResidue`: a reconciliation that reports convergence
stands for a complete cluster, has loaded the backup it chose if the database was
missing, and drops only its own residue. `DropIsBackedUp`, `DeletedIsGone`: the teardown
beside a backup run that shares its `_temp`. `DropIsBackedUp` is about tenants that are
deleting, which do not write; for one that a cancellation has made active again there
is no such guarantee (`claim_teardown_loses_nothing`). `RestoredIsWhole`; `SagasClose`.

*Sweep.* `SweepTypeOK` (with the bound on the counter), `FinishedBatchIsDone`,
`KeepsReconciling`. *Upgrade.* `CompletedIsRaisedOnce`, `RollbackRestoresPlan`,
`UpgradeEnds`. *Identity.* `RetryIsFresh`, `GrantsAreShared`, `ProbePreventsConflict`,
`ProvisionedHasRole`, `DeletedHasNoUser`, `IdentitySagasClose`. *Names.*
`CollisionIsContained`, `RoleIsOwn`, `AcceptedIsProvisionable`.

### Bounds

* `MaximumAttempts = 2` (3 in the code, and in `upgrade_quota`): one retry is what
  tells "again after a committed effect" from "once".
* `MaxRequests = 2`, two clients: a stale request beside a fresh one. Provisioning
  is not counted.
* `RecorderFaults = {"delete"}`: only the row of a delete run is read again, by the
  retry endpoint. With faults on both rows (2.8 M states) the properties hold as well.
* `Scenarios`: the passing runs take migrations and reconciliations alone and a deletion
  and a restore beside a backup, because these are the combinations in which the
  properties hold; in others TLC refutes them, see the claims below. Dumps of one second
  share a name only in the claim that is about it.
* `MaxDumps = 2`: a dump of each of two neighbours, or of both attempts of one; a
  further one is refused, as by a full disk. The failures of a migration and a restore
  need a third (`claim_migrate_failure_keeps_tenant`,
  `claim_restore_failure_rolls_back`). `maxDrifts = 2`: damage before and during a
  reconciliation. `MaxReconciles = 2`: a run that meets what one that was given up has
  left.
* `MaxPending = 1`: one request at a time is between its check and the start of its
  saga. The check is what goes stale, and a cancellation, which needs no check, can
  come in between; that two requests can be stale at once is modelled in
  `TenantLifecycle`.
* Sweep: two tenants, `Limits = {0, 2}` below `ContinueAfter = 3`, so that both kinds
  of sweep reach their end; `MaxTicks` only caps a counter for claims.
* Identity: `MaxTokens = 2`, a first token and a fresh one; one crash.
* Names: IDs of 1, 51, 56 and 57 characters: the limits for `_temp`, for `_new` and
  for the ID itself lie between them. Beside them `w` and `w_new`, which collide.

Deadlock is not checked where everything may come to rest (a tenant that nobody sends
requests for); the sweep never rests and its run does check it.

### Fairness

Weak fairness stands for Temporal: an open run is dispatched, an attempt that hangs
times out, a durable timer fires. So each attempt ends, though perhaps never well:
success, requests, cancellation and sessions that last are not assumed. A handler that
has read the row goes on. In `identity` the steps that take the mutex are strongly
fair: a `sync.Mutex` hands itself to a goroutine that has waited for a millisecond.
In `sweep` one worker boots once; nobody has to start a sweep after one that finished.
`KeepsReconciling` further assumes, as part of the property, that the interval is
longer than the reconcile runs of the sweep take: otherwise `ContinueAsNew` may
terminate each of them. `lifecycle_liveness` is without crashes and recorder faults:
with them `FailedRunIsListed` fails, and `DeletionSettles` with it.

### Claims that the code refutes

The lines that the claims quote are in `PROJECT.json` under `findings`.

| Run | What happens |
|---|---|
| `claim_migrate_failure_keeps_tenant` | The rename of `SwitchTraffic` fails for good: live was dropped, the self-healing load has no database to load into, and the compensation drops `_new`. |
| `claim_teardown_loses_nothing` | A stale resume runs after a cancellation: it dumps the database, the tenant, which is active, writes, and the teardown drops what no backup holds. |
| `claim_restore_failure_rolls_back` | The load of the named backup into the live database breaks off half-way; the rollback replays its snapshot into tables that exist, and fails as well. |
| `claim_converged_has_data` | A restore is given up; the next reconciliation finds the database that it created, and reports convergence. |

The following are stated in the modules, and TLC refutes each in seconds with a
configuration that checks it alone under `Spec` with the constants given; the others
are those of the module's passing run. "A x B" stands for a scenario with these sagas.

| Property | Module and constants | What happens |
|---|---|---|
| `ActivationConverges` | `TenantLifecycle`, 3 attempts | A retried `MarkTenantActive` conflicts with its own committed update and the saga compensates an active tenant ("every operation converges on retry", README.md:177). |
| `GraceBeforeTeardown` | `TenantLifecycle` | The same for `MarkTenantDeleting`: the run fails before its timer, and the resume skips the grace period. |
| `CancelRestoresService` | `TenantLifecycle`, 1 attempt | A deleted failed tenant becomes active, without infrastructure, when the deletion is cancelled. |
| `ActiveIsDeletable` | `TenantLifecycle` | After a cancelled deletion the reuse policy refuses the next one. |
| `RetryOnlyWhenNotActive` | `TenantLifecycle`, 1 attempt | A stale retry replays provisioning on an active tenant (against handler/tenant.go:948-949). |
| `FailedRunIsListed` | `TenantLifecycle`, `WorkerCrashes = TRUE` | A run whose worker dies in every attempt fails with its row still running. |
| `TeardownOnlyWhileDeleting` | `TenantLifecycle`, `MaxRequests = 3`, without crashes and recorder faults | A stale resume starts the teardown of an active tenant (against workflow/delete.go:115-116). |
| `ListedRunFailed` | `TenantLifecycle` | A run that recovered stays listed as failed ("marks it failed on terminal failure", docs/failure-matrix.md:82-83). |
| `CancelOnlyBeforeTeardown` | `TenantLifecycle` | A cancel during teardown is accepted and ignored (against docs/adr/0007-soft-delete.md:54-55). |
| `DropIsBackedUp` | `DataSagas`, migrate x delete | The pre-delete backup meets the gap of a migration switch, counts the database as absent, and the teardown drops the promoted data (against docs/adr/0007-soft-delete.md:45). |
| `DeletedIsGone` | `DataSagas`, delete x reconcile | A reconciliation that resolved the tenant as active recreates the database of a deleted one (against docs/failure-matrix.md:249). |
| `RoleIsDroppable` | `DataSagas`, migrate x delete | The role still owns `_new` when the teardown drops it, so that the deletion fails (against activities/deprovision.go:57-59). |
| `BackupMeansBackup` | `DataSagas`, migrate x backup | A backup run that meets the gap of a switch completes without a backup. |
| `BackupsAreImmutable` | `DataSagas`, migrate x backup, `sameSecond` | A dump overwrites the file of a recorded backup ("immutable artifacts", docs/idempotency.md:97). |
| `RestoreOverwrites` | `DataSagas`, restore | A backup without tables loads and leaves the present data (against workflow/restore.go:18-19). |
| `RestoreDropsResidue` | `DataSagas`, migrate x reconcile | A reconciliation that met the gap of a migration switch drops the promoted database as residue (against activities/reconcile.go:319-320). |
| `ReconcileNeverCreatesEmpty` | `DataSagas`, reconcile x migrate, 1 drift | A database that disappears after the probe is created empty (against workflow/reconcile.go:114-115). |
| `FinishKillsNothing` | `ReconcileSweep` | A one-shot sweep returns while a child of an earlier tick runs: it is terminated. |
| `StopsAfterMaxSweeps` | `ReconcileSweep`, `Limits = {3}`, `ContinueAfter = 2`, `MaxTicks = 4` | The counter starts again after ContinueAsNew, so that the limit is never reached (against workflow/sweep.go:32-33). |
| `TicksAreSpaced` | `ReconcileSweep` | The continued run ticks without having slept (against workflow/sweep.go:51-52). |
| `GivenUpRaiseIsUndone` | `Upgrade` | `RaiseQuotas` commits and is given up: the quota stays raised (against docs/failure-matrix.md:161). |
| `ProvisionedCanLogIn` | `KeycloakIdentity` | The attempt that created the user ends before it sets the password; the next one reuses the user (against docs/idempotency.md:78-79, 92). |
| `NeighboursAreSafe` | `TenantNames` | A migration of `w` drops, builds and renames the database of the tenant `w_new` (against docs/adr/0002-db-per-tenant.md:10-11). |
| `DerivedNamesAreValid` | `TenantNames` | An ID of 52 characters or more is accepted and can be neither backed up nor deleted (against handler/tenant.go:204-207). |

## 4. Proofs

All theorems hold for every value of the constants that the named assumptions of the
modules admit. TLC evaluates the assumptions on every run.

`TenantLifecycleProofs`: `TypeCorrect`, `NeverRevived`, `BackedUpBeforeTeardown`,
`SafetyCorrect` and the refinement `KeepsPromise` (`Spec => StatusPromise`), with or
without crashes and recorder faults. `NoReviveAfterTeardown` alone is not inductive:
nothing in it stops a saga in its grace period from holding a torn tenant.
`TeardownInv` adds where the delete saga is: where it may still revive (`MayRevive`),
nothing is torn; where the database is dropped (`PastDrop`) and the tenant is deleting,
teardown is on record. The second part is what makes the final compare-and-set a step
of `TenantStatus`. `BackupInv` follows the data: into the dump from effect 3 of
`BackupTenantData`, into the backups by effect 7, and into the teardown steps only
from there; `SharedInv` shows that shared tenants, which skip the backup, have no
database. Lemmas say where a saga can be after a step (`GotoPlace`, `ThenPlace`,
`EndAttemptsMove`, `NextRests`) and what a step does to the row and the data
(`ProvisionStatus`, `DeleteStatus`, `NextDatabase`, `NextCopies`); then there is one
case per action.

`TenantOutcomeProofs` (on top of the module before): `ProvisionedServed`, `DeletedClean`
and `FailedListed`. None of the three properties is inductive, because each speaks of
the end of a run. `ServedInv` says what a provision run has built at each effect it is
past, as long as nobody deletes the tenant. `CleanInv` does the same backwards for the
deletion of a settled tenant, and adds that a deleted tenant has no resumed run that is
about to build `_temp` again. `ListedInv` ties the recorder's row to the attempt:
`FailedListed` assumes `~WorkerCrashes` and `RecorderFaults = {}`, which is what its
run assumes and what section 3 shows to be necessary.

`UpgradeProofs`: `UpgradeTypes`, `RaisedOnce`, `RolledBack`. The invariant ties the row
to the place: before the raise it yields the default plan, while `RaiseQuotas` executes
the default or the raised one with `old` the default, after it the raised one, and `old`
never changes once it is read, so that a repetition writes the same.

`AdminTokenProofs`: `RetriesAreFresh`, `GrantsShared`, for any number of goroutines.
`MutexInv`: a caller in a grant is the only holder of the mutex. `FreshInv`: once a
caller that was refused has invalidated the cache, what the cache holds is empty or
younger than the token refused, because only a grant fills it and grants only count up.

`KeycloakIdentityProofs`: `UsesAdminToken` shows that the composition implements
`AdminToken` (every step of the sagas is a step of the token module or leaves its
variables alone), which carries `RetriesAreFresh` and `GrantsShared` over
(`IdentityRetriesAreFresh`, `IdentityGrantsShared`). `IdentityTypes`, `ProbePrevents`,
`RoleIsAssigned` and `UserIsDeleted` rest on `PlaceInv` (which requests a saga can be
at, and that the delete saga runs only once the tenant was activated) and `UserInv`
(what the realm holds at each place: no user between a probe that found none and the
create, the attempt's own user from there on).

`ReconcileSweepProofs`: `HistoryIsBounded` and `BatchIsDone`. `CountInv` keeps the
counter below `ContinueAfter` while there is another tick to do; `BatchInv` says of each
child of a waiting batch that it still runs or has come to its own end.

`TenantNamesProofs`, for any set of requested IDs, colliding ones included:
`AcceptedProvisionable`, `CollisionContained`, `RolesOwn`. None has a hypothesis. The
last two speak of the tenants that collide with no other (`Apart`), but the tenants
around them may, and take each other's databases, as `NeighboursAreSafe` shows: what is
proved is that the damage does not spread. `RoleIsOwn` leaves out IDs that end in a
suffix, because `tenantOwnerRole` maps these to another tenant's role (against
docs/adr/0005-owner-roles.md:18-19). `HoldsInv` and `OwnerInv` are about the `_new`
names as well, since a promotion makes them live; that derived names do not collide and
that `tenantOwnerRole` undoes `AuxName` are lemmas about sequences (`AuxInjective`,
`AuxRole`). `LengthAssumption` states that the length of an ID is a number: `Length` is
a fold, whose value the prover cannot compute by induction; TLC evaluates it.

`DataSagasProofs`, for every retry limit, number of dumps and set of scenarios:

* `DataTypes`. `DataTypeOK` is not inductive: `DataInv` adds which activities each saga
  can be at (`ControlInv`), at which places a saga has a dump to load (`SnapInv`; without
  it a restore would read a file that does not exist), that every row is about a file
  that exists (`RowsInv`), and that only sagas of the scenario run (`IdleInv`). The
  proof led to `DumpsAssumption`: with `MaxDumps = 0` the initial backup is no file.
* `CompletedBackupsStay`: no step of any saga unmakes a completed backup, if no two
  dumps are taken in one second. `BackingInv`: a dump that is on its way to become a
  backup has no completed row and is no other saga's.
* `SwitchKeeps`, `MigratedServed`, `DropBackedUp`, `DeletedGone`, `RestoredWhole`: under
  `RunsAlone(w)`, that the saga meets no other one than backups, no changes by others and
  no two dumps in one second. These are the scenarios of the runs; section 3 shows what
  happens in others. `MigrateInv`: before the switch the live database holds the
  tenant's last write, and from `SwitchTraffic` on `_new` is a whole copy (`Copied`) or
  has become the live database (`Switched`), also at the point between drop and rename.
  `DropBackedUp` covers every number of runs that failed, were cancelled or were resumed,
  by stale requests too. A property of the drop alone is not inductive: `DeleteInv`
  follows the data into the dump, the row and the completed backup. It does so only
  while the status is `deleting`, in which the tenant does not write; a run whose
  deletion was cancelled may lose what it knows of the data, and the tenant cannot get
  from active back to deleting while that run is open, because only the delete saga
  marks it. `RestoreInv`: the named backup is whole, and a live database that is half
  loaded meets a dump that psql does not load into it, so that no attempt takes it for a
  success.
* `ConvergedNoDrift`, `DropsResidue`: under `ReconcilesBeside` (no other saga than
  backups, no two dumps in one second; any changes by others). `ProbeInv`: what the looks
  of a probe have not found wrong so far is right unless `disturbed`, and what they
  found missing is missing until `RestoreTenantFromBackup` has dropped its residue.
* `RepairsFromBackup`: under `ReconcilesBeside`, for any number of runs and changes. A
  run that found the database missing and converges has loaded the dump it chose, unless
  `disturbed`. `RepairInv` follows that dump through the repair (`Loaded`), over attempts
  that start again after their load broke off. It says nothing of a run that finds a
  database, whose content the probe does not look at (`claim_converged_has_data`).

What a step of one saga leaves to the others is in lemmas of its own: `SagaStep` and
`AdvanceStep` (types), `RowChanges` and `CompletedStays` (backups), `FilesGrow` (dumps),
`BackupLeaves`, `ErrorLeaves` and `BackupBeside` (the live database), `OutsideAlone` and
`OutsideElsewhere` (requests and the world). The inductive invariants were checked by
TLC on the scenarios of `data_sagas` before they were proved.

Only model-checked: liveness and everything under fairness (`RunsClose`,
`DeletionSettles`, `SagasClose`, `KeepsReconciling`, `UpgradeEnds`,
`IdentitySagasClose`), which is out of the prover's reach. Every invariant and every
action property of a passing run is stated by a theorem.

## 5. Not modelled

* Authentication, routing, respond helpers: stateless filters.
* Metrics, cost, logging, audit events: observers. That an audit write may fail
  after the effect it reports is modelled, as the last effect of its activity.
* Configuration, schema, the web console, deployment, the load test.
* docker exec is taken to be synchronous. `execShell` inspects the exit code without
  draining the stream; what that returns depends on the docker daemon.
* The version gate for delete runs older than the pre-delete backup.
* Attempts that go on after their timeout.

## 6. Plan

1. An abstract specification of the tenant's data (always in the live database, in
   `_new`, or in a completed backup), with a proof that the migration and the deletion
   implement it under `RunsAlone`.
2. `BackupMeansBackup` for the scenarios without a migration, and the data properties
   for pairs of sagas that are not refuted (a migration or a reconciliation beside
   changes by others), so that `RunsAlone` can be weakened.
