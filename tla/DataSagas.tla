----------------------------- MODULE DataSagas ------------------------------
(***************************************************************************)
(* The sagas that work on the databases of one active, dedicated tenant:   *)
(* migrate, backup, restore, delete and reconcile, with the endpoints that *)
(* start them, interleaved effect by effect over what Databases describes. *)
(* The constant Scenarios says which of them may be started together.      *)
(* TenantLifecycle has the delete saga with its signals, its recorder and  *)
(* its races with the provision saga; here it runs against the sagas that  *)
(* share its databases.                                                    *)
(***************************************************************************)
EXTENDS Databases, SagaRuns, FiniteSets

CONSTANTS
  Scenarios,      \* what a behaviour may be about, one of them each
  MaxPending,     \* bound: requests between their check and their start
  MaxReconciles   \* bound: reconcile runs started

ASSUME DataSagasAssumption ==
  /\ Sagas = {"migrate", "backup", "restore", "delete", "reconcile"}
  /\ Scenarios \subseteq
       [sagas : SUBSET Sagas,                \* the sagas that may be started
        initial : SUBSET {"empty", "v1"},    \* what the live database holds at first
        sameSecond : BOOLEAN,                \* may two dumps be taken in one second?
        maxDrifts : Nat]                     \* bound: changes made by others
  /\ MaxPending \in Nat /\ MaxReconciles \in Nat

VARIABLES
  scenario,    \* the member of Scenarios that this behaviour is about
  status,      \* tenants.status
  dlq,         \* the sagas with a failed row in workflow_instances (kept for delete)
  asked,       \* the requests whose handler has checked the status and not yet started
  snap,        \* per saga: the dump it took, or the one it restores from
  chosen,      \* the file of the backup that the restore request names, 0 if none
  spec,        \* the status that ResolveTenantSpec read
  drifts,      \* what the last probe found wrong
  written,     \* history: what the tenant's last write left in its database
  disturbed,   \* history: somebody changed the cluster since reconcile started
  drifted,     \* how many such changes there were
  reconciles   \* how many reconcile runs there were

reads == <<snap, chosen, spec, drifts>>
tenant == <<status, written, dlq>>
world == <<scenario, disturbed, drifted, reconciles>>
vars == <<cluster, artifacts, control, reads, tenant, asked, world>>

-----------------------------------------------------------------------------
(* The sagas: which activity follows a success and which one follows an    *)
(* activity that was given up.  A compensation guarded by a flag runs from *)
(* the step that sets the flag on.                                         *)

\* The flag is switched.
MigrateTenantWorkflow ==
  [onSuccess |-> [MarkTenantMigrating     |-> "MigrateData",
                  MigrateData             |-> "SwitchTraffic",
                  SwitchTraffic           |-> "MarkTenantMigrated",
                  MarkTenantMigrated      |-> "completed",
                  DropTenantAuxDatabase   |-> "MarkTenantMigrateFailed",
                  MarkTenantMigrateFailed |-> "failed"],
   onFailure |-> [MarkTenantMigrating     |-> "DropTenantAuxDatabase",
                  MigrateData             |-> "DropTenantAuxDatabase",
                  SwitchTraffic           |-> "DropTenantAuxDatabase",
                  MarkTenantMigrated      |-> "MarkTenantMigrateFailed",
                  DropTenantAuxDatabase   |-> "MarkTenantMigrateFailed",
                  MarkTenantMigrateFailed |-> "failed"]]

BackupTenantWorkflow ==
  [onSuccess |-> [MarkTenantBackingUp    |-> "BackupTenantData",
                  BackupTenantData       |-> "MarkTenantBackedUp",
                  MarkTenantBackedUp     |-> "completed",
                  MarkTenantBackupFailed |-> "failed"],
   onFailure |-> [MarkTenantBackingUp    |-> "MarkTenantBackupFailed",
                  BackupTenantData       |-> "MarkTenantBackupFailed",
                  MarkTenantBackedUp     |-> "MarkTenantBackupFailed",
                  MarkTenantBackupFailed |-> "failed"]]

\* Mutant: the error of RestoreData is not looked at.
SwallowsRestoreError ==
  [onSuccess |-> [MarkTenantRestoring     |-> "PreRestoreSnapshot",
                  PreRestoreSnapshot      |-> "RestoreData",
                  RestoreData             |-> "MarkTenantRestored",
                  MarkTenantRestored      |-> "completed",
                  RestoreRollback         |-> "MarkTenantRestoreFailed",
                  MarkTenantRestoreFailed |-> "failed"],
   onFailure |-> [MarkTenantRestoring     |-> "MarkTenantRestoreFailed",
                  PreRestoreSnapshot      |-> "MarkTenantRestoreFailed",
                  RestoreData             |-> "MarkTenantRestored",
                  MarkTenantRestored      |-> "RestoreRollback",
                  RestoreRollback         |-> "MarkTenantRestoreFailed",
                  MarkTenantRestoreFailed |-> "failed"]]

\* The flag is preSnapshotTaken.
RestoreTenantWorkflow ==
  [onSuccess |-> [MarkTenantRestoring     |-> "PreRestoreSnapshot",
                  PreRestoreSnapshot      |-> "RestoreData",
                  RestoreData             |-> "MarkTenantRestored",
                  MarkTenantRestored      |-> "completed",
                  RestoreRollback         |-> "MarkTenantRestoreFailed",
                  MarkTenantRestoreFailed |-> "failed"],
   onFailure |-> [MarkTenantRestoring     |-> "MarkTenantRestoreFailed",
                  PreRestoreSnapshot      |-> "MarkTenantRestoreFailed",
                  RestoreData             |-> "RestoreRollback",
                  MarkTenantRestored      |-> "RestoreRollback",
                  RestoreRollback         |-> "MarkTenantRestoreFailed",
                  MarkTenantRestoreFailed |-> "failed"]]

DeleteTenantWorkflow ==
  LET next == [MarkTenantDeleting           |-> "grace",
               RestoreTenantAfterCancel     |-> "completed",
               BackupTenantData             |-> "DeprovisionTenant",
               DeprovisionTenant            |-> "DeleteTenantIdentityByTenant",
               DeleteTenantIdentityByTenant |-> "MarkTenantDeleted",
               MarkTenantDeleted            |-> "completed",
               MarkTenantDeleteFailed       |-> "failed"]
  IN [onSuccess |-> next,
      onFailure |-> [a \in DOMAIN next |-> IF a = "MarkTenantDeleteFailed"
                                             THEN "failed" ELSE "MarkTenantDeleteFailed"]]

\* The kinds of drift that EnsureTenantDatabase repairs.
needsDatabaseRepair == drifts \cap {"missing_database", "missing_role", "shape"} # {}

AfterEnsure ==
  IF "missing_backup" \in drifts THEN "BackupTenantData" ELSE "Reprobe"

AfterRestore == IF needsDatabaseRepair THEN "EnsureTenantDatabase" ELSE AfterEnsure

\* Mutant: any drift of the database or its role is repaired from a backup.
RestoresAnyDrift ==
  IF needsDatabaseRepair THEN "RestoreTenantFromBackup" ELSE AfterRestore

AfterRecord ==
  IF "missing_database" \in drifts THEN "RestoreTenantFromBackup" ELSE AfterRestore

\* Mutant: the error of RestoreTenantFromBackup is not looked at.
SwallowsRepairError ==
  LET next == [ResolveTenantSpec          |-> IF spec = "active" THEN "ProbeTenantActualState"
                                                                 ELSE "MarkReconcileSkipped",
               MarkReconcileSkipped       |-> "skipped",
               ProbeTenantActualState     |-> IF drifts = {} THEN "MarkReconcileConverged"
                                                             ELSE "RecordReconcileDrift",
               RecordReconcileDrift       |-> AfterRecord,
               RestoreTenantFromBackup    |-> AfterRestore,
               EnsureTenantDatabase       |-> AfterEnsure,
               BackupTenantData           |-> "Reprobe",
               Reprobe                    |-> IF drifts = {} THEN "MarkReconcileConverged"
                                                             ELSE "MarkReconcileFailed",
               MarkReconcileConverged     |-> "converged",
               MarkReconcileFailed        |-> "failed",
               MarkReconcileUnrecoverable |-> "failed"]
  IN [onSuccess |-> next, onFailure |->
        [a \in DOMAIN next |-> IF a = "RestoreTenantFromBackup" THEN AfterRestore ELSE "failed"]]

\* Resolve, probe, repair what drifted, probe again.  An activity that is given
\* up fails the run on the spot.
ReconcileTenantWorkflow ==
  LET next == [ResolveTenantSpec          |-> IF spec = "active" THEN "ProbeTenantActualState"
                                                                 ELSE "MarkReconcileSkipped",
               MarkReconcileSkipped       |-> "skipped",
               ProbeTenantActualState     |-> IF drifts = {} THEN "MarkReconcileConverged"
                                                             ELSE "RecordReconcileDrift",
               RecordReconcileDrift       |-> AfterRecord,
               RestoreTenantFromBackup    |-> AfterRestore,
               EnsureTenantDatabase       |-> AfterEnsure,
               BackupTenantData           |-> "Reprobe",
               Reprobe                    |-> IF drifts = {} THEN "MarkReconcileConverged"
                                                             ELSE "MarkReconcileFailed",
               MarkReconcileConverged     |-> "converged",
               MarkReconcileFailed        |-> "failed",
               MarkReconcileUnrecoverable |-> "failed"]
  IN [onSuccess |-> next, onFailure |-> [a \in DOMAIN next |-> "failed"]]

Saga(w) ==
  CASE w = "migrate"   -> MigrateTenantWorkflow
    [] w = "backup"    -> BackupTenantWorkflow
    [] w = "restore"   -> RestoreTenantWorkflow
    [] w = "delete"    -> DeleteTenantWorkflow
    [] w = "reconcile" -> ReconcileTenantWorkflow

First ==
  [migrate |-> "MarkTenantMigrating", backup |-> "MarkTenantBackingUp",
   restore |-> "MarkTenantRestoring", delete |-> "MarkTenantDeleting",
   reconcile |-> "ResolveTenantSpec"]

Executing(w) == act[w] \in DOMAIN Saga(w).onSuccess
Open(w) == Executing(w) \/ act[w] = "grace"

\* The number of the effect that reports success: the only one of the activities
\* that do nothing but write an audit event, or touch another system.
LastStep(a) ==
  CASE a = "MigrateData" -> 7
    [] a \in {"SwitchTraffic", "EnsureTenantDatabase", "ProbeTenantActualState",
              "Reprobe"} -> 4
    [] a = "BackupTenantData" -> 11
    [] a = "RestoreTenantFromBackup" -> 8
    [] a \in {"RestoreData", "DeprovisionTenant"} -> 3
    [] a \in {"DropTenantAuxDatabase", "PreRestoreSnapshot", "RestoreRollback",
              "MarkTenantDeleting", "RestoreTenantAfterCancel", "MarkTenantDeleted",
              "ResolveTenantSpec"} -> 2
    [] OTHER -> 1

-----------------------------------------------------------------------------
(* Effects that several activities share: effect k of activity a.          *)

Do(w, a, k) == At(w, a, k) /\ Then(w, k + 1) /\ UNCHANGED <<tenant, asked, world>>

\* The newest dump, if another saga has taken it in the second of w's dump.
Recent(w) ==
  {f \in {Len(files)} : /\ scenario.sameSecond
                        /\ \E v \in Sagas \ {w} :
                             /\ snap[v] = f
                             /\ act[v] \in {"MigrateData", "BackupTenantData",
                                           "PreRestoreSnapshot"}} \ {0}

Snapshot(w, a, k) ==
  /\ Do(w, a, k)
  /\ \E f \in DumpNames(Recent(w)) : SnapshotDatabase(f) /\ snap' = [snap EXCEPT ![w] = f]
  /\ UNCHANGED <<cluster, chosen, spec, drifts>>

Drop(w, a, k, n) ==
  Do(w, a, k) /\ DropDatabaseNamed(n) /\ UNCHANGED <<artifacts, reads>>

Create(w, a, k, n) ==
  Do(w, a, k) /\ CreateDatabaseNamed(n) /\ UNCHANGED <<artifacts, reads>>

Own(w, a, k, n) ==
  Do(w, a, k) /\ applyDatabaseOwnership(n) /\ UNCHANGED <<artifacts, reads>>

Load(w, a, k, n, f) ==
  Do(w, a, k) /\ RestoreDatabaseFromBackup(n, f) /\ UNCHANGED <<artifacts, reads>>

Validate(w, a, k, n) ==
  Do(w, a, k) /\ ValidateDatabase(n) /\ UNCHANGED <<cluster, artifacts, reads>>

\* Effect 1 inspects database n and goes on at one of two places.
Inspect(w, a, n, present, missing) ==
  /\ At(w, a, 1)
  /\ Then(w, IF Exists(n) THEN present ELSE missing)
  /\ UNCHANGED <<cluster, artifacts, reads, tenant, asked, world>>

-----------------------------------------------------------------------------
(* Migrate.                                                                *)

\* Mutant: _new is not handed over to the tenant's role.
LeavesUnowned ==
  \/ Snapshot("migrate", "MigrateData", 1)
  \/ Drop("migrate", "MigrateData", 2, "new")
  \/ Create("migrate", "MigrateData", 3, "new")
  \/ Do("migrate", "MigrateData", 4) /\ UNCHANGED <<cluster, artifacts, reads>>
  \/ Load("migrate", "MigrateData", 5, "new", snap["migrate"])
  \/ Validate("migrate", "MigrateData", 6, "new")

\* Dump the live database, rebuild _new from the dump, validate it.
MigrateData ==
  \/ Snapshot("migrate", "MigrateData", 1)
  \/ Drop("migrate", "MigrateData", 2, "new")
  \/ Create("migrate", "MigrateData", 3, "new")
  \/ Own("migrate", "MigrateData", 4, "new")
  \/ Load("migrate", "MigrateData", 5, "new", snap["migrate"])
  \/ Validate("migrate", "MigrateData", 6, "new")

Rename(w, a, k, from, to) ==
  Do(w, a, k) /\ RenameDatabase(from, to) /\ UNCHANGED <<artifacts, reads>>

\* Mutant: a retry drops the live database without looking for _new.
DropsPromoted ==
  \/ Inspect("migrate", "SwitchTraffic", "new", 2, 2)
  \/ Drop("migrate", "SwitchTraffic", 2, "live")
  \/ Rename("migrate", "SwitchTraffic", 3, "new", "live")

\* Promote _new: without it there is nothing to do; drop live, rename.
SwitchTraffic ==
  \/ Inspect("migrate", "SwitchTraffic", "new", 2, 4)
  \/ Drop("migrate", "SwitchTraffic", 2, "live")
  \/ Rename("migrate", "SwitchTraffic", 3, "new", "live")

DropTenantAuxDatabase == Drop("migrate", "DropTenantAuxDatabase", 1, "new")

-----------------------------------------------------------------------------
(* Backup, for the backup, the delete and the reconcile saga.              *)

\* Mutant: a recorded dump is taken for a backup, so that a retry skips it.
TrustsRecorded(w) ==
  LET a == "BackupTenantData" IN
  \/ /\ At(w, a, 1)
     /\ Then(w, IF Exists("live") /\ backups = <<>> THEN 2 ELSE 11)
     /\ UNCHANGED <<cluster, artifacts, reads, tenant, asked, world>>
  \/ Snapshot(w, a, 2)
  \/ Do(w, a, 3) /\ CreateBackup(snap[w]) /\ UNCHANGED <<cluster, reads>>
  \/ Drop(w, a, 4, "temp") \/ Create(w, a, 5, "temp") \/ Own(w, a, 6, "temp")
  \/ Load(w, a, 7, "temp", snap[w]) \/ Validate(w, a, 8, "temp")
  \/ Drop(w, a, 9, "temp")
  \/ Do(w, a, 10) /\ MarkBackupCompleted(snap[w]) /\ UNCHANGED <<cluster, reads>>

\* Probe (an absent database is success), dump, record the dump as pending,
\* rebuild _temp from it, validate and drop _temp, record it as completed.
BackupTenantData(w) ==
  LET a == "BackupTenantData" IN
  \/ Inspect(w, a, "live", 2, 11)
  \/ Snapshot(w, a, 2)
  \/ Do(w, a, 3) /\ CreateBackup(snap[w]) /\ UNCHANGED <<cluster, reads>>
  \/ Drop(w, a, 4, "temp")
  \/ Create(w, a, 5, "temp")
  \/ Own(w, a, 6, "temp")
  \/ Load(w, a, 7, "temp", snap[w])
  \/ Validate(w, a, 8, "temp")
  \/ Drop(w, a, 9, "temp")
  \/ Do(w, a, 10) /\ MarkBackupCompleted(snap[w]) /\ UNCHANGED <<cluster, reads>>

-----------------------------------------------------------------------------
(* Restore.                                                                *)

PreRestoreSnapshot == Snapshot("restore", "PreRestoreSnapshot", 1)

\* GetBackup finds the row whatever its status; an ID without a row, or of
\* another tenant, is an error.
RestoreData ==
  \/ chosen # 0 /\ Load("restore", "RestoreData", 1, "live", chosen)
  \/ Validate("restore", "RestoreData", 2, "live")

RestoreRollback == Load("restore", "RestoreRollback", 1, "live", snap["restore"])

-----------------------------------------------------------------------------
(* Delete.                                                                 *)

\* Effect 1: the compare-and-set; a conflict is not retried.
UpdateTenantStatusFrom(a, to, from) ==
  /\ At("delete", a, 1)
  /\ IF status \in from
       THEN /\ status' = to /\ UNCHANGED dlq
            /\ Then("delete", 2)
       ELSE /\ dlq' = {"delete"} /\ UNCHANGED status
            /\ Goto("delete", DeleteTenantWorkflow.onFailure[a])
  /\ UNCHANGED <<cluster, artifacts, reads, written, asked, world>>

MarkTenantDeleting ==
  UpdateTenantStatusFrom("MarkTenantDeleting", "deleting", {"active", "failed"})
RestoreTenantAfterCancel ==
  UpdateTenantStatusFrom("RestoreTenantAfterCancel", "active", {"deleting"})
MarkTenantDeleted ==
  UpdateTenantStatusFrom("MarkTenantDeleted", "deleted", {"deleting"})

\* The grace period ends, or the deletion is cancelled in it.
GraceEnds ==
  /\ act["delete"] = "grace"
  /\ \E a \in {"BackupTenantData", "RestoreTenantAfterCancel"} : Goto("delete", a)
  /\ UNCHANGED <<cluster, artifacts, reads, tenant, asked, world>>

\* Mutant: a teardown that only records itself.
OnlyAudits ==
  \E k \in {1, 2} : /\ Do("delete", "DeprovisionTenant", k)
                    /\ UNCHANGED <<cluster, artifacts, reads>>

DeprovisionTenant ==
  \/ Drop("delete", "DeprovisionTenant", 1, "live")
  \/ /\ Do("delete", "DeprovisionTenant", 2) /\ DropTenantRole
     /\ UNCHANGED <<artifacts, reads>>

-----------------------------------------------------------------------------
(* Reconcile.                                                              *)

ResolveTenantSpec ==
  /\ Do("reconcile", "ResolveTenantSpec", 1)
  /\ spec' = status
  /\ UNCHANGED <<cluster, artifacts, snap, chosen, drifts>>

\* Mutant: the owner and the CONNECT privilege are not compared.
ProbesExistence(a) ==
  /\ \/ /\ Do("reconcile", a, 1)
        /\ drifts' = IF Exists("live") THEN {} ELSE {"missing_database"}
     \/ /\ Do("reconcile", a, 2)
        /\ drifts' = drifts \cup IF role THEN {} ELSE {"missing_role"}
     \/ /\ Do("reconcile", a, 3)
        /\ drifts' = drifts \cup IF Completed # {} THEN {} ELSE {"missing_backup"}
  /\ UNCHANGED <<cluster, artifacts, snap, chosen, spec>>

\* DetectDrifts on what InspectDatabase, RoleExists and ListBackups report, in
\* this order and not at one instant.  "shape" stands for a wrong owner and for
\* PUBLIC that may connect.
ProbeTenantActualState(a) ==
  /\ \/ /\ Do("reconcile", a, 1)
        /\ drifts' = IF ~Exists("live") THEN {"missing_database"}
                     ELSE IF "live" \notin owned THEN {"shape"} ELSE {}
     \/ /\ Do("reconcile", a, 2)
        /\ drifts' = drifts \cup IF role THEN {} ELSE {"missing_role"}
     \/ /\ Do("reconcile", a, 3)
        /\ drifts' = drifts \cup IF Completed # {} THEN {} ELSE {"missing_backup"}
  /\ UNCHANGED <<cluster, artifacts, snap, chosen, spec>>

\* ErrNoVerifiedBackup is not retried.
NoVerifiedBackup ==
  /\ At("reconcile", "RestoreTenantFromBackup", 1)
  /\ LatestCompleted = 0
  /\ Goto("reconcile", "MarkReconcileUnrecoverable")
  /\ UNCHANGED <<cluster, artifacts, reads, tenant, asked, world>>

\* The latest completed backup, loaded into a database that is dropped and
\* created for it.
RestoreTenantFromBackup ==
  LET a == "RestoreTenantFromBackup" IN
  \/ /\ Do("reconcile", a, 1)
     /\ LatestCompleted # 0
     /\ snap' = [snap EXCEPT !["reconcile"] = LatestCompleted]
     /\ UNCHANGED <<cluster, artifacts, chosen, spec, drifts>>
  \/ Drop("reconcile", a, 2, "live")
  \/ Create("reconcile", a, 3, "live")
  \/ Own("reconcile", a, 4, "live")
  \/ Load("reconcile", a, 5, "live", snap["reconcile"])
  \/ Own("reconcile", a, 6, "live")
  \/ Validate("reconcile", a, 7, "live")

\* Create the database if it is missing, re-apply the ownership.
EnsureTenantDatabase ==
  \/ Inspect("reconcile", "EnsureTenantDatabase", "live", 3, 2)
  \/ Create("reconcile", "EnsureTenantDatabase", 2, "live")
  \/ Own("reconcile", "EnsureTenantDatabase", 3, "live")

-----------------------------------------------------------------------------
(* Attempts that end without success.                                      *)

\* The database that the attempt is loading a dump into.
Loading(w) ==
  CASE At(w, "MigrateData", 5) -> "new"
    [] At(w, "BackupTenantData", 7) -> "temp"
    [] \/ At(w, "SwitchTraffic", 3) \/ At(w, "RestoreRollback", 1)
       \/ At(w, "RestoreData", 1) /\ chosen # 0
       \/ At(w, "RestoreTenantFromBackup", 5) -> "live"
    [] OTHER -> "none"

LoadedFrom(w) == IF act[w] = "RestoreData" THEN chosen ELSE snap[w]

\* The disposable database that the attempt drops when its restore or its
\* validation fails (dropAux, dropTemp), if it lives to do so.
CleansUp(w) ==
  IF At(w, "MigrateData", 5) \/ At(w, "MigrateData", 6) THEN {"new"}
  ELSE IF At(w, "BackupTenantData", 7) \/ At(w, "BackupTenantData", 8) THEN {"temp"}
  ELSE {}

\* The contents that the cluster may have once the attempt has ended.  When the
\* rename of SwitchTraffic fails, the attempt loads the dump into the live name.
Remains(w) ==
  LET n == Loading(w)
  IN  {content} \cup {[content EXCEPT ![m] = "absent"] : m \in CleansUp(w)}
      \cup IF n = "none" THEN {}
           ELSE {[content EXCEPT ![n] = c] : c \in AfterFailedRestore(n, LoadedFrom(w))}

\* The attempt runs the ownership statements, the first of which makes the role.
Owning(w) ==
  \/ At(w, "MigrateData", 4) \/ At(w, "BackupTenantData", 6)
  \/ At(w, "RestoreTenantFromBackup", 4) \/ At(w, "RestoreTenantFromBackup", 6)
  \/ At(w, "EnsureTenantDatabase", 3)

Snapshotting(w) ==
  \/ At(w, "MigrateData", 1) \/ At(w, "BackupTenantData", 2)
  \/ At(w, "PreRestoreSnapshot", 1)

\* The attempt returns an error, times out or dies with its worker.  From the
\* creation of _temp on, BackupTenantData marks its row failed if it can.  The
\* recorder lists a failed attempt of the delete saga for good, whether or not a
\* retry makes it good; a row that a dying worker did not write is one that
\* nobody asks for.
ActivityError(w) ==
  /\ Executing(w)
  /\ EndAttempt(w, Saga(w).onFailure[act[w]])
  /\ content' \in Remains(w)
  /\ owned' = {n \in owned : content'[n] # "absent"}
  /\ files' \in IF Snapshotting(w) THEN AfterFailedSnapshot(Recent(w)) ELSE {files}
  /\ backups' \in IF act[w] = "BackupTenantData" /\ step[w] \in 5 .. 10
                    THEN {backups, Marked(snap[w], "failed")} ELSE {backups}
  /\ role' \in IF Owning(w) THEN {role, TRUE} ELSE {role}
  /\ dlq' = dlq \cup ({w} \cap {"delete"})
  /\ UNCHANGED <<reads, status, written, asked, world>>

\* The attempt performs its last effect and its success reaches Temporal.
Report(w) ==
  /\ Executing(w)
  /\ step[w] = LastStep(act[w])
  /\ Goto(w, Saga(w).onSuccess[act[w]])
  /\ UNCHANGED <<cluster, artifacts, reads, tenant, asked, world>>

-----------------------------------------------------------------------------
(* The API: a handler checks the status, then starts the workflow.  What    *)
(* it has checked may be stale by then.                                    *)

Ask(w) ==
  /\ w \notin asked /\ Cardinality(asked) < MaxPending
  /\ asked' = asked \cup {w}
  /\ UNCHANGED <<cluster, artifacts, control, snap, spec, drifts, tenant, world>>

\* Only active tenants.  REJECT_DUPLICATE allows one run per tenant and operation:
\* a request that comes after it is refused whenever it comes, and left out.
AskOnce(w) ==
  status = "active" /\ act[w] = "none" /\ w \in scenario.sagas /\ Ask(w)

MigrateTenant == AskOnce("migrate") /\ UNCHANGED chosen
BackupTenant == AskOnce("backup") /\ UNCHANGED chosen

\* The request names a backup: a row of the tenant, or an ID that is none.
RestoreTenant ==
  /\ AskOnce("restore")
  /\ chosen' \in {0} \cup {backups[i].file : i \in DOMAIN backups}

DeleteTenant ==
  /\ "delete" \in scenario.sagas /\ status \in {"active", "failed"}
  /\ Ask("delete") /\ UNCHANGED chosen

\* On a tenant that is deleting, the retry endpoint is to resume the deletion.
RetryTenant == status = "deleting" /\ Ask("resume") /\ UNCHANGED chosen

\* How the run before may have closed: REJECT_DUPLICATE, and for a deletion
\* ALLOW_DUPLICATE_FAILED_ONLY.
Reusable(w) == {"none"} \cup IF w = "delete" THEN {"failed"} ELSE {}

ExecuteWorkflow(w) ==
  /\ w \in asked
  /\ asked' = asked \ {w}
  /\ IF act[w] \in Reusable(w) THEN Goto(w, First[w]) ELSE UNCHANGED control
  /\ UNCHANGED <<cluster, artifacts, reads, tenant, world>>

\* FindLatestFailed, then a start with ALLOW_DUPLICATE, which only an open run
\* refuses.  A failed row stays, so that what the lookup found still holds at the
\* start; the status that RetryTenant read need not.  The run begins with the
\* teardown and looks at no status before it has dropped the database.
resumeDelete ==
  /\ "resume" \in asked
  /\ asked' = asked \ {"resume"}
  /\ IF "delete" \in dlq /\ ~Open("delete")
       THEN Goto("delete", "BackupTenantData") ELSE UNCHANGED control
  /\ UNCHANGED <<cluster, artifacts, reads, tenant, world>>

\* ALLOW_DUPLICATE: refused while a run is open.  The row exists, whatever its
\* status; the sweep starts the same workflow.
ReconcileTenant ==
  /\ "reconcile" \in scenario.sagas
  /\ ~Open("reconcile")
  /\ reconciles < MaxReconciles
  /\ reconciles' = reconciles + 1
  /\ disturbed' = FALSE
  /\ Goto("reconcile", First["reconcile"])
  /\ UNCHANGED <<cluster, artifacts, reads, tenant, asked, scenario, drifted>>

-----------------------------------------------------------------------------
(* The world outside the control plane (external).                         *)

\* The tenant's application changes its data, while the tenant is active.
TenantWrites ==
  /\ status = "active"
  /\ content["live"] = written /\ written # "v2"
  /\ written' = IF written = "empty" THEN "v1" ELSE "v2"
  /\ content' = [content EXCEPT !["live"] = written']
  /\ UNCHANGED <<owned, role, artifacts, control, reads, status, dlq, asked, world>>

\* Somebody drops the live database, changes its owner or grants, or drops the
\* role.
ExternalDrift ==
  /\ drifted < scenario.maxDrifts
  /\ drifted' = drifted + 1
  /\ disturbed' = TRUE
  /\ \/ Exists("live") /\ DropDatabaseNamed("live")
     \/ "live" \in owned /\ owned' = owned \ {"live"} /\ UNCHANGED <<content, role>>
     \/ role /\ DropTenantRole
  /\ UNCHANGED <<artifacts, control, reads, tenant, asked, scenario, reconciles>>

-----------------------------------------------------------------------------
(* The specification.                                                      *)

\* A provisioned tenant, with or without a verified backup of what it holds.
Init ==
  /\ status = "active" /\ scenario \in Scenarios /\ written \in scenario.initial
  /\ content = [n \in DatabaseNames |-> IF n = "live" THEN written ELSE "absent"]
  /\ owned = {"live"} /\ role = TRUE
  /\ \/ files = <<>> /\ backups = <<>>
     \/ files = <<written>> /\ backups = <<[file |-> 1, status |-> "completed"]>>
  /\ NoRuns /\ asked = {} /\ dlq = {}
  /\ snap = [w \in Sagas |-> 0] /\ chosen = 0
  /\ spec = "none" /\ drifts = {}
  /\ disturbed = FALSE /\ drifted = 0 /\ reconciles = 0

Activity(w) ==
  \/ /\ w = "migrate"
     /\ MigrateData \/ SwitchTraffic \/ DropTenantAuxDatabase
  \/ /\ w \in {"backup", "delete", "reconcile"}
     /\ BackupTenantData(w)
  \/ /\ w = "restore"
     /\ PreRestoreSnapshot \/ RestoreData \/ RestoreRollback
  \/ /\ w = "delete"
     /\ \/ MarkTenantDeleting \/ RestoreTenantAfterCancel
        \/ DeprovisionTenant \/ MarkTenantDeleted
  \/ /\ w = "reconcile"
     /\ \/ ResolveTenantSpec
        \/ \E a \in {"ProbeTenantActualState", "Reprobe"} : ProbeTenantActualState(a)
        \/ NoVerifiedBackup \/ RestoreTenantFromBackup \/ EnsureTenantDatabase

\* What Temporal and a worker do for saga w.
Advance(w) == Activity(w) \/ Report(w) \/ ActivityError(w)

Next ==
  \/ \E w \in Sagas : Advance(w) \/ ExecuteWorkflow(w)
  \/ GraceEnds
  \/ MigrateTenant \/ BackupTenant \/ RestoreTenant
  \/ DeleteTenant \/ RetryTenant \/ resumeDelete \/ ReconcileTenant
  \/ TenantWrites \/ ExternalDrift

Spec == Init /\ [][Next]_vars

\* Temporal dispatches every activity and retries it, and fires every timer.
Fairness == WF_vars(GraceEnds) /\ \A w \in Sagas : WF_vars(Advance(w))

FairSpec == Spec /\ Fairness

-----------------------------------------------------------------------------
(* Properties.                                                             *)

\* Every variable has its type.
DataTypeOK ==
  /\ DatabasesOK
  /\ \A w \in Sagas :
       /\ Executing(w)
          \/ act[w] \in {"none", "grace", "completed", "failed", "converged", "skipped"}
       /\ step[w] \in 1 .. 11 /\ attempt[w] \in 1 .. MaximumAttempts
       /\ snap[w] \in 0 .. Len(files)
  /\ status \in {"active", "deleting", "deleted"} /\ asked \subseteq scenario.sagas \cup {"resume"}
  /\ dlq \subseteq {"delete"}
  /\ chosen \in 0 .. Len(files) /\ spec \in {"none", "active", "deleting", "deleted"}
  /\ drifts \subseteq {"missing_database", "missing_role", "shape", "missing_backup"}
  /\ written \in Data \cup {"empty"} /\ disturbed \in BOOLEAN
  /\ drifted \in 0 .. scenario.maxDrifts /\ reconciles \in 0 .. MaxReconciles

-----------------------------------------------------------------------------
(* Migrate.                                                                *)

\* From the switch on, wherever it fails and however often it is retried, the
\* live or the _new database holds the dumped data: a retried SwitchTraffic
\* never drops the database that it has already promoted.
SwitchKeepsCopy ==
  act["migrate"] \in {"SwitchTraffic", "MarkTenantMigrated", "completed"} =>
    \E n \in {"live", "new"} : content[n] \in {written, files[snap["migrate"]]}

\* After a migration that completed the tenant is served a whole copy, from a
\* database of its own role, and nothing is left of _new: no retry of MigrateData
\* builds on the half-built _new of the attempt before it.
MigratedIsServed ==
  act["migrate"] = "completed" =>
    /\ content["live"] \in {written, files[snap["migrate"]]}
    /\ "live" \in owned
    /\ ~Exists("new")

\* A migration that failed leaves the tenant with its live database.
MigrateFailureKeepsTenant == act["migrate"] = "failed" => Exists("live")

-----------------------------------------------------------------------------
(* Backup and restore.                                                     *)

\* A backup run that completed has a completed row for the dump that it took.
BackupMeansBackup ==
  act["backup"] = "completed" =>
    \E i \in Completed : backups[i].file = snap["backup"]

\* What a recorded backup file holds never changes.
BackupsAreImmutable ==
  [][\A i \in DOMAIN backups : files'[backups[i].file] = files[backups[i].file]]_vars

\* A restore that completed leaves no half-loaded live database, even though
\* RestoreData loads in place and is retried on what its last attempt left.
RestoredIsWhole == act["restore"] = "completed" => content["live"] # "partial"

\* A restore from a backup that failed leaves no half-loaded live database: the
\* rollback brings the state of the snapshot back.  (The tenant has written nothing
\* since the snapshot, so that a rollback alone would have nothing to load.)
RestoreFailureRollsBack ==
  (/\ act["restore"] = "failed" /\ chosen # 0
   /\ snap["restore"] # 0 /\ files[snap["restore"]] = written) =>
     content["live"] # "partial"

\* A load that RestoreData takes for a success leaves what the named backup holds.
RestoreOverwrites ==
  [][At("restore", "RestoreData", 1) /\ step'["restore"] = 2 =>
       content'["live"] = files[chosen]]_vars

-----------------------------------------------------------------------------
(* Delete.                                                                 *)

\* This step is the teardown's drop of a live database that holds data, and no
\* completed backup holds that data.
DropsUnsaved ==
  /\ At("delete", "DeprovisionTenant", 1)
  /\ content["live"] \in Data /\ content'["live"] = "absent"
  /\ \A i \in Completed : files[backups[i].file] # content["live"]

\* The teardown of a tenant that is deleting drops data only if a completed backup
\* holds exactly that data: after any mix of failed, cancelled and resumed runs,
\* and whatever the backup saga did to the shared _temp database meanwhile.
DropIsBackedUp == [][status = "deleting" => ~DropsUnsaved]_vars

\* No teardown drops data that no completed backup holds, also none that was
\* resumed on a status that has changed since it was read.
TeardownLosesNothing == [][~DropsUnsaved]_vars

\* A deleted tenant has no live database once nothing runs for it any more.
DeletedIsGone ==
  status = "deleted" /\ (\A w \in Sagas : ~Open(w)) => ~Exists("live")

\* When the teardown comes to the role, no database of the tenant is left to own.
RoleIsDroppable == At("delete", "DeprovisionTenant", 2) => owned = {}

-----------------------------------------------------------------------------
(* Reconcile.                                                              *)

\* If nobody else touched the cluster during a run that reports convergence, the
\* database, its owner, the role and a verified backup are all there: what the
\* probes read one after the other holds together, and every repair took.
ConvergedHasNoDrift ==
  act["reconcile"] = "converged" /\ ~disturbed =>
    Exists("live") /\ "live" \in owned /\ role /\ Completed # {}

\* A run that reports convergence never stands for an empty or half-loaded
\* database in place of the tenant's data.
ConvergedHasData ==
  act["reconcile"] = "converged" /\ ~disturbed /\ written # "empty" =>
    content["live"] \in Data

\* A run that found the database missing, and comes to probe again with nobody else
\* having touched the cluster, has loaded the whole of the backup it chose, over
\* however many attempts, each on the residue of the one before.
RepairIsFromBackup ==
  (/\ At("reconcile", "Reprobe", 1) /\ "missing_database" \in drifts
   /\ ~disturbed) =>
     /\ snap["reconcile"] # 0
     /\ content["live"] \in {files[snap["reconcile"]], written}

\* What RestoreTenantFromBackup drops in its first attempt does not exist: only a
\* later attempt finds something, the residue of the one before.
RestoreDropsResidue ==
  At("reconcile", "RestoreTenantFromBackup", 2) /\ attempt["reconcile"] = 1 =>
    ~Exists("live")

\* The repair never comes to create an empty database for an existing tenant.
ReconcileNeverCreatesEmpty == ~At("reconcile", "EnsureTenantDatabase", 2)

-----------------------------------------------------------------------------
(* All of them.                                                            *)

\* Every run ends, however its attempts interfere with those of the others.
SagasClose == \A w \in Sagas : Open(w) ~> ~Open(w)

=============================================================================
