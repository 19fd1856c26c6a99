-------------------------- MODULE DataSagasProofs ---------------------------
(***************************************************************************)
(* Proofs about DataSagas, for every retry limit, number of dumps and      *)
(* number of reconcile runs.                                               *)
(***************************************************************************)
EXTENDS DataSagas, SequenceTheorems, WellFoundedInduction, TLAPS

-----------------------------------------------------------------------------
(* Where the sagas can be.                                                 *)

MigrateActivities ==
  {"MarkTenantMigrating", "MigrateData", "SwitchTraffic", "MarkTenantMigrated",
   "DropTenantAuxDatabase", "MarkTenantMigrateFailed"}
BackupActivities ==
  {"MarkTenantBackingUp", "BackupTenantData", "MarkTenantBackedUp", "MarkTenantBackupFailed"}
RestoreActivities ==
  {"MarkTenantRestoring", "PreRestoreSnapshot", "RestoreData", "MarkTenantRestored",
   "RestoreRollback", "MarkTenantRestoreFailed"}
DeleteActivities ==
  {"MarkTenantDeleting", "RestoreTenantAfterCancel", "BackupTenantData", "DeprovisionTenant",
   "DeleteTenantIdentityByTenant", "MarkTenantDeleted", "MarkTenantDeleteFailed"}
ReconcileActivities ==
  {"ResolveTenantSpec", "MarkReconcileSkipped", "ProbeTenantActualState",
   "RecordReconcileDrift", "RestoreTenantFromBackup", "EnsureTenantDatabase",
   "BackupTenantData", "Reprobe", "MarkReconcileConverged", "MarkReconcileFailed",
   "MarkReconcileUnrecoverable"}

Closed == {"none", "completed", "failed"}
AllPlaces ==
  MigrateActivities \cup BackupActivities \cup RestoreActivities \cup DeleteActivities
    \cup ReconcileActivities \cup Closed \cup {"grace", "converged", "skipped"}

ControlInv ==
  /\ act \in [Sagas -> AllPlaces]
  /\ step \in [Sagas -> 1 .. 11]
  /\ attempt \in [Sagas -> 1 .. MaximumAttempts]
  /\ act["migrate"] \in MigrateActivities \cup Closed
  /\ act["backup"] \in BackupActivities \cup Closed
  /\ act["restore"] \in RestoreActivities \cup Closed
  /\ act["delete"] \in DeleteActivities \cup Closed \cup {"grace"}
  /\ act["reconcile"] \in ReconcileActivities \cup {"none", "failed", "converged", "skipped"}

\* The other sagas than w stay where they are.
Others(w) ==
  \A v \in Sagas \ {w} : act'[v] = act[v] /\ step'[v] = step[v] /\ attempt'[v] = attempt[v]

LEMMA SagaNames == Sagas = {"migrate", "backup", "restore", "delete", "reconcile"}
BY DataSagasAssumption

LEMMA Gotos ==
  ASSUME ControlInv, NEW w \in Sagas, NEW a, Goto(w, a)
  PROVE  /\ act'[w] = a /\ step'[w] = 1 /\ attempt'[w] = 1 /\ Others(w)
         /\ step' \in [Sagas -> 1 .. 11] /\ attempt' \in [Sagas -> 1 .. MaximumAttempts]
         /\ a \in AllPlaces => act' \in [Sagas -> AllPlaces]
BY AttemptsAssumption DEF ControlInv, Goto, Others

LEMMA Thens ==
  ASSUME ControlInv, NEW w \in Sagas, NEW k, Then(w, k)
  PROVE  /\ act' = act /\ attempt' = attempt /\ step'[w] = k /\ Others(w)
         /\ k \in 1 .. 11 => step' \in [Sagas -> 1 .. 11]
BY DEF ControlInv, Then, Others

LEMMA EndAttempts ==
  ASSUME ControlInv, NEW w \in Sagas, NEW a, EndAttempt(w, a)
  PROVE  /\ step'[w] = 1 /\ Others(w)
         /\ \/ act' = act /\ attempt[w] < MaximumAttempts /\ attempt'[w] = attempt[w] + 1
            \/ act'[w] = a /\ attempt'[w] = 1
         /\ step' \in [Sagas -> 1 .. 11] /\ attempt' \in [Sagas -> 1 .. MaximumAttempts]
         /\ a \in AllPlaces => act' \in [Sagas -> AllPlaces]
BY AttemptsAssumption DEF ControlInv, EndAttempt, Goto, Others

-----------------------------------------------------------------------------
(* The tables of the sagas.                                                *)

LEMMA MigrateTable ==
  /\ Saga("migrate") = MigrateTenantWorkflow
  /\ DOMAIN Saga("migrate").onSuccess = MigrateActivities
  /\ \A a \in MigrateActivities :
       /\ Saga("migrate").onSuccess[a] =
            CASE a = "MarkTenantMigrating" -> "MigrateData"
              [] a = "MigrateData" -> "SwitchTraffic"
              [] a = "SwitchTraffic" -> "MarkTenantMigrated"
              [] a = "MarkTenantMigrated" -> "completed"
              [] a = "DropTenantAuxDatabase" -> "MarkTenantMigrateFailed"
              [] a = "MarkTenantMigrateFailed" -> "failed"
       /\ Saga("migrate").onFailure[a] =
            CASE a \in {"MarkTenantMigrating", "MigrateData", "SwitchTraffic"}
                   -> "DropTenantAuxDatabase"
              [] a \in {"MarkTenantMigrated", "DropTenantAuxDatabase"}
                   -> "MarkTenantMigrateFailed"
              [] a = "MarkTenantMigrateFailed" -> "failed"
BY DEF Saga, MigrateTenantWorkflow, MigrateActivities

LEMMA BackupTable ==
  /\ DOMAIN Saga("backup").onSuccess = BackupActivities
  /\ \A a \in BackupActivities :
       /\ Saga("backup").onSuccess[a] =
            CASE a = "MarkTenantBackingUp" -> "BackupTenantData"
              [] a = "BackupTenantData" -> "MarkTenantBackedUp"
              [] a = "MarkTenantBackedUp" -> "completed"
              [] a = "MarkTenantBackupFailed" -> "failed"
       /\ Saga("backup").onFailure[a] =
            IF a = "MarkTenantBackupFailed" THEN "failed" ELSE "MarkTenantBackupFailed"
BY DEF Saga, BackupTenantWorkflow, BackupActivities

LEMMA RestoreTable ==
  /\ DOMAIN Saga("restore").onSuccess = RestoreActivities
  /\ \A a \in RestoreActivities :
       /\ Saga("restore").onSuccess[a] =
            CASE a = "MarkTenantRestoring" -> "PreRestoreSnapshot"
              [] a = "PreRestoreSnapshot" -> "RestoreData"
              [] a = "RestoreData" -> "MarkTenantRestored"
              [] a = "MarkTenantRestored" -> "completed"
              [] a = "RestoreRollback" -> "MarkTenantRestoreFailed"
              [] a = "MarkTenantRestoreFailed" -> "failed"
       /\ Saga("restore").onFailure[a] =
            CASE a \in {"RestoreData", "MarkTenantRestored"} -> "RestoreRollback"
              [] a \in {"MarkTenantRestoring", "PreRestoreSnapshot", "RestoreRollback"}
                   -> "MarkTenantRestoreFailed"
              [] a = "MarkTenantRestoreFailed" -> "failed"
BY DEF Saga, RestoreTenantWorkflow, RestoreActivities

LEMMA DeleteTable ==
  /\ Saga("delete") = DeleteTenantWorkflow
  /\ DOMAIN Saga("delete").onSuccess = DeleteActivities
  /\ \A a \in DeleteActivities :
       /\ Saga("delete").onSuccess[a] =
            CASE a = "MarkTenantDeleting" -> "grace"
              [] a \in {"RestoreTenantAfterCancel", "MarkTenantDeleted"} -> "completed"
              [] a = "BackupTenantData" -> "DeprovisionTenant"
              [] a = "DeprovisionTenant" -> "DeleteTenantIdentityByTenant"
              [] a = "DeleteTenantIdentityByTenant" -> "MarkTenantDeleted"
              [] a = "MarkTenantDeleteFailed" -> "failed"
       /\ Saga("delete").onFailure[a] =
            IF a = "MarkTenantDeleteFailed" THEN "failed" ELSE "MarkTenantDeleteFailed"
BY DEF Saga, DeleteTenantWorkflow, DeleteActivities

LEMMA ReconcileTable ==
  /\ DOMAIN Saga("reconcile").onSuccess = ReconcileActivities
  /\ \A a \in ReconcileActivities :
       /\ Saga("reconcile").onSuccess[a] =
            CASE a = "ResolveTenantSpec" -> (IF spec = "active" THEN "ProbeTenantActualState"
                                                                ELSE "MarkReconcileSkipped")
              [] a = "MarkReconcileSkipped" -> "skipped"
              [] a = "ProbeTenantActualState" -> (IF drifts = {} THEN "MarkReconcileConverged"
                                                                 ELSE "RecordReconcileDrift")
              [] a = "RecordReconcileDrift" -> AfterRecord
              [] a = "RestoreTenantFromBackup" -> AfterRestore
              [] a = "EnsureTenantDatabase" -> AfterEnsure
              [] a = "BackupTenantData" -> "Reprobe"
              [] a = "Reprobe" -> (IF drifts = {} THEN "MarkReconcileConverged"
                                                  ELSE "MarkReconcileFailed")
              [] a = "MarkReconcileConverged" -> "converged"
              [] a \in {"MarkReconcileFailed", "MarkReconcileUnrecoverable"} -> "failed"
       /\ Saga("reconcile").onFailure[a] = "failed"
BY DEF Saga, ReconcileTenantWorkflow, ReconcileActivities

-----------------------------------------------------------------------------
(* Types.                                                                  *)

ClusterInv ==
  /\ content \in [DatabaseNames -> Contents \cup {"absent"}]
  /\ owned \subseteq {n \in DatabaseNames : Exists(n)}
  /\ role \in BOOLEAN /\ (owned # {} => role)

FilesInv == files \in Seq(Contents) /\ Len(files) <= MaxDumps

\* Every row is about a dump that was taken.
RowsInv == backups \in Seq([file : 1 .. Len(files), status : BackupStatuses])

\* The places at which saga w has a dump to load.
Carries(w) ==
  \/ act[w] = "MigrateData" /\ step[w] >= 2
  \/ act[w] \in {"SwitchTraffic", "MarkTenantMigrated"}
  \/ act[w] = "BackupTenantData" /\ step[w] \in 3 .. 10
  \/ At(w, "PreRestoreSnapshot", 2)
  \/ act[w] \in {"RestoreData", "MarkTenantRestored", "RestoreRollback"}
  \/ act[w] = "RestoreTenantFromBackup" /\ step[w] >= 2
  \/ w = "migrate" /\ act[w] = "completed"

SnapInv ==
  /\ snap \in [Sagas -> 0 .. Len(files)]
  /\ \A w \in Sagas : Carries(w) => snap[w] # 0

ReadsInv ==
  /\ chosen \in 0 .. Len(files)
  /\ spec \in {"none", "active", "deleting", "deleted"}
  /\ drifts \subseteq {"missing_database", "missing_role", "shape", "missing_backup"}

WorldInv ==
  /\ scenario \in Scenarios
  /\ status \in {"active", "deleting", "deleted"}
  /\ written \in Data \cup {"empty"}
  /\ disturbed \in BOOLEAN /\ dlq \subseteq {"delete"}
  /\ drifted \in 0 .. scenario.maxDrifts /\ reconciles \in 0 .. MaxReconciles

\* Sagas that are not of the scenario do not run, and only a deletion changes the
\* status.  A request that was checked and has not started a workflow yet finds its
\* saga where it was, unless it is about a deletion.
IdleInv ==
  /\ asked \subseteq (scenario.sagas \ {"reconcile"}) \cup {"resume"}
  /\ "resume" \in asked \/ status # "active" => "delete" \in scenario.sagas
  /\ \A w \in Sagas \ scenario.sagas : act[w] = "none"
  /\ \A w \in asked \ {"delete", "resume"} : act[w] = "none"

DataInv ==
  /\ ControlInv /\ ClusterInv /\ FilesInv /\ RowsInv /\ SnapInv /\ ReadsInv /\ WorldInv
  /\ IdleInv

-----------------------------------------------------------------------------
(* What the calls of the provider do to the cluster.                       *)

LEMMA Creates ==
  ASSUME ClusterInv, NEW n \in DatabaseNames, CreateDatabaseNamed(n)
  PROVE  ClusterInv'
<1>1. role' \in BOOLEAN /\ (owned' # {} => role')
  BY Zenon DEF ClusterInv, CreateDatabaseNamed
<1>2. QED
  BY <1>1 DEF ClusterInv, CreateDatabaseNamed, Exists, Contents

LEMMA Owns ==
  ASSUME ClusterInv, NEW n \in DatabaseNames, applyDatabaseOwnership(n)
  PROVE  ClusterInv'
<1>1. role' \in BOOLEAN /\ (owned' # {} => role')
  BY Zenon DEF applyDatabaseOwnership
<1>2. QED
  BY <1>1 DEF ClusterInv, applyDatabaseOwnership, Exists

LEMMA Drops ==
  ASSUME ClusterInv, NEW n \in DatabaseNames, DropDatabaseNamed(n)
  PROVE  ClusterInv'
<1>1. role' \in BOOLEAN /\ (owned' # {} => role')
  BY Zenon DEF ClusterInv, DropDatabaseNamed
<1>2. QED
  BY <1>1 DEF ClusterInv, DropDatabaseNamed, Exists

LEMMA RoleDrops ==
  ASSUME ClusterInv, DropTenantRole
  PROVE  ClusterInv'
<1>1. role' \in BOOLEAN /\ (owned' # {} => role')
  BY Zenon DEF DropTenantRole
<1>2. QED
  BY <1>1 DEF ClusterInv, DropTenantRole, Exists

LEMMA Renames ==
  ASSUME ClusterInv, RenameDatabase("new", "live")
  PROVE  ClusterInv'
<1>1. role' \in BOOLEAN /\ (owned' # {} => role')
  BY Zenon DEF ClusterInv, RenameDatabase
<1>2. QED
  BY <1>1 DEF ClusterInv, RenameDatabase, Exists, DatabaseNames

LEMMA LoadsKeep ==
  ASSUME ClusterInv, FilesInv, NEW n \in DatabaseNames, NEW f \in 1 .. Len(files),
         RestoreDatabaseFromBackup(n, f)
  PROVE  ClusterInv'
<1>1. role' \in BOOLEAN /\ (owned' # {} => role')
  BY Zenon DEF ClusterInv, RestoreDatabaseFromBackup
<1>2. files[f] \in Contents
  BY ElementOfSeq DEF FilesInv
<1>3. QED
  BY <1>1, <1>2 DEF ClusterInv, RestoreDatabaseFromBackup, Loads, Exists, Contents, Data

LEMMA SameCluster == ASSUME ClusterInv, UNCHANGED cluster PROVE ClusterInv'
<1>1. role' = role /\ owned' = owned /\ content' = content
  BY DEF cluster
<1>2. QED
  BY <1>1, Zenon DEF ClusterInv, Exists

-----------------------------------------------------------------------------
(* What they do to the files and the rows.                                 *)

LEMMA FileTypes ==
  ASSUME FilesInv, RowsInv
  PROVE  /\ Len(files) \in Nat /\ Len(files) \in 0 .. MaxDumps
         /\ DOMAIN files = 1 .. Len(files) /\ DOMAIN backups = 1 .. Len(backups)
         /\ Len(backups) \in Nat
         /\ \A f \in 1 .. Len(files) : files[f] \in Contents
         /\ \A i \in DOMAIN backups : backups[i].file \in 1 .. Len(files)
<1>1. /\ Len(files) \in Nat /\ DOMAIN files = 1 .. Len(files)
      /\ \A f \in 1 .. Len(files) : files[f] \in Contents
  BY LenProperties, ElementOfSeq DEF FilesInv
<1>2. /\ Len(backups) \in Nat /\ DOMAIN backups = 1 .. Len(backups)
      /\ \A i \in 1 .. Len(backups) :
           backups[i] \in [file : 1 .. Len(files), status : BackupStatuses]
  BY LenProperties, ElementOfSeq DEF RowsInv
<1>3. QED
  BY <1>1, <1>2, DumpsAssumption DEF FilesInv

\* Rows stay about dumps that were taken, however many more of them there are.
LEMMA RowsGrow ==
  ASSUME RowsInv, backups' = backups, Len(files') \in Nat, Len(files) \in Nat,
         Len(files) <= Len(files')
  PROVE  RowsInv'
<1>1. [file : 1 .. Len(files), status : BackupStatuses]
        \subseteq [file : 1 .. Len(files'), status : BackupStatuses]
  OBVIOUS
<1>2. QED
  BY <1>1, SeqMonotonic DEF RowsInv

LEMMA FunctionIsSeq ==
  ASSUME NEW S, NEW n \in Nat, NEW s \in [1 .. n -> S]
  PROVE  s \in Seq(S) /\ Len(s) = n
<1>1. s \in Seq(S)
  BY SeqDef, Zenon
<1>2. Len(s) \in Nat /\ 1 .. Len(s) = 1 .. n
  BY <1>1, LenProperties
<1>3. QED
  BY <1>1, <1>2

LEMMA MarkedRows ==
  ASSUME FilesInv, RowsInv, NEW f, NEW s \in BackupStatuses
  PROVE  /\ Marked(f, s) \in Seq([file : 1 .. Len(files), status : BackupStatuses])
         /\ Len(Marked(f, s)) = Len(backups) /\ DOMAIN Marked(f, s) = DOMAIN backups
         /\ \A i \in DOMAIN backups : Marked(f, s)[i].file = backups[i].file
         /\ \A i \in DOMAIN backups :
              Marked(f, s)[i].status = IF backups[i].file = f THEN s ELSE backups[i].status
<1> DEFINE Row == [file : 1 .. Len(files), status : BackupStatuses]
<1>1. /\ Len(backups) \in Nat /\ DOMAIN backups = 1 .. Len(backups)
      /\ \A i \in 1 .. Len(backups) : backups[i] \in Row
  BY LenProperties, ElementOfSeq DEF RowsInv
<1>2. \A i \in 1 .. Len(backups) : Marked(f, s)[i] \in Row
  BY <1>1 DEF Marked
<1>3. /\ DOMAIN Marked(f, s) = 1 .. Len(backups)
      /\ Marked(f, s) \in [1 .. Len(backups) -> Row]
  BY <1>1, <1>2 DEF Marked
<1>4. Marked(f, s) \in Seq(Row) /\ Len(Marked(f, s)) = Len(backups)
  <2> HIDE DEF Row
  <2> QED BY <1>1, <1>3, FunctionIsSeq
<1>5. QED
  BY <1>1, <1>3, <1>4 DEF Marked

LEMMA CreatedRow ==
  ASSUME FilesInv, RowsInv, NEW f \in 1 .. Len(files), CreateBackup(f)
  PROVE  /\ RowsInv' /\ files' = files
         /\ Len(backups') = Len(backups) + 1
         /\ \A i \in DOMAIN backups : backups'[i] = backups[i]
         /\ backups'[Len(backups) + 1] = [file |-> f, status |-> "pending"]
<1> DEFINE Row == [file : 1 .. Len(files), status : BackupStatuses]
           new == [file |-> f, status |-> "pending"]
<1>1. new \in Row
  BY DEF BackupStatuses
<1>2. backups \in Seq(Row) /\ backups' = Append(backups, new) /\ files' = files
  BY DEF RowsInv, CreateBackup
<1>3. DOMAIN backups = 1 .. Len(backups)
  BY <1>2, LenProperties
<1> HIDE DEF new, Row
<1>4. backups' \in Seq(Row) /\ Len(backups') = Len(backups) + 1
      /\ backups'[Len(backups) + 1] = new
      /\ \A i \in 1 .. Len(backups) : backups'[i] = backups[i]
  BY <1>1, <1>2, AppendProperties
<1>5. QED
  BY <1>2, <1>3, <1>4 DEF RowsInv, Row, new

\* The newest completed row is a completed row.
LEMMA LatestIsCompleted ==
  ASSUME FilesInv, RowsInv, Completed # {}
  PROVE  /\ Max(Completed) \in Completed
         /\ LatestCompleted = backups[Max(Completed)].file
         /\ LatestCompleted \in 1 .. Len(files)
<1> DEFINE N == Len(backups)
           T == {N - i : i \in Completed}
           R == {ss \in Nat \X Nat : ss[1] < ss[2]}
<1>1. N \in Nat /\ Completed \subseteq 1 .. N
  BY FileTypes DEF Completed
<1>2. T \subseteq Nat /\ T # {}
  <2>1. \A i \in Completed : N - i \in Nat
    BY <1>1
  <2>2. QED
    BY <2>1, Zenon
<1>3. IsWellFoundedOn(R, Nat)
  BY NatLessThanWellFounded DEF OpToRel
<1> HIDE DEF R, T
<1>4. PICK x \in T : \A y \in T : ~(<<y, x>> \in R)
  BY <1>2, <1>3, WFMin
<1>5. \A y \in T : ~(y < x)
  BY <1>2, <1>4 DEF R
<1>6. PICK m \in Completed : x = N - m
  BY DEF T
<1>7. \A i \in Completed : m >= i
  <2> SUFFICES ASSUME NEW i \in Completed PROVE m >= i
    OBVIOUS
  <2>1. N - i \in T
    BY DEF T
  <2> QED BY <1>1, <1>5, <1>6, <2>1
<1>8. Max(Completed) \in Completed
  BY <1>7 DEF Max
<1>9. QED
  BY <1>8, FileTypes DEF LatestCompleted, Completed

-----------------------------------------------------------------------------
(* What a step of saga w leaves alone.                                     *)

\* Nothing of the tenant, its requests and the world, but for a failure on record.
Undisturbed ==
  /\ status' = status /\ written' = written /\ asked' = asked /\ scenario' = scenario
  /\ disturbed' = disturbed /\ drifted' = drifted /\ reconciles' = reconciles
  /\ dlq' \subseteq dlq \cup {"delete"}

LEMMA Dos ==
  ASSUME ControlInv, NEW w \in Sagas, NEW a, NEW k \in 1 .. 10, Do(w, a, k)
  PROVE  /\ act[w] = a /\ step[w] = k
         /\ act' = act /\ attempt' = attempt /\ step'[w] = k + 1 /\ Others(w)
         /\ ControlInv' /\ Undisturbed
<1>1. At(w, a, k) /\ Then(w, k + 1) /\ UNCHANGED <<tenant, asked, world>>
  BY DEF Do
<1>2. /\ act' = act /\ attempt' = attempt /\ step'[w] = k + 1 /\ Others(w)
      /\ step' \in [Sagas -> 1 .. 11]
  BY <1>1, Thens
<1>3. Undisturbed
  BY <1>1 DEF tenant, world, Undisturbed
<1>4. QED
  BY <1>1, <1>2, <1>3 DEF At, ControlInv

\* Dumps that others took are left alone, except in the second in which they were
\* taken.
FilesKept ==
  /\ Len(files') \in Nat /\ Len(files) <= Len(files')
  /\ ~scenario.sameSecond => \A f \in 1 .. Len(files) : files'[f] = files[f]

LEMMA RecentFiles ==
  ASSUME FilesInv, NEW w \in Sagas
  PROVE  Recent(w) \subseteq 1 .. Len(files) /\ (~scenario.sameSecond => Recent(w) = {})
<1>1. Len(files) \in Nat
  BY LenProperties DEF FilesInv
<1>2. QED
  BY <1>1 DEF Recent

LEMMA Snapshots ==
  ASSUME DataInv, NEW w \in Sagas, NEW a, NEW k \in 1 .. 10, Snapshot(w, a, k)
  PROVE  /\ Do(w, a, k) /\ UNCHANGED <<content, owned, role, backups, chosen, spec, drifts>>
         /\ Exists("live") /\ FilesInv' /\ RowsInv' /\ FilesKept
         /\ snap' \in [Sagas -> 0 .. Len(files')]
         /\ snap'[w] \in 1 .. Len(files') /\ \A v \in Sagas \ {w} : snap'[v] = snap[v]
         /\ files'[snap'[w]] = content["live"]
         /\ ~scenario.sameSecond =>
              Len(files') = Len(files) + 1 /\ snap'[w] = Len(files) + 1
<1>1. PICK f \in DumpNames(Recent(w)) :
        SnapshotDatabase(f) /\ snap' = [snap EXCEPT ![w] = f]
  BY DEF Snapshot
<1>2. Do(w, a, k) /\ UNCHANGED <<content, owned, role, backups, chosen, spec, drifts>>
  BY <1>1 DEF Snapshot, cluster, SnapshotDatabase
<1>3. /\ FilesInv /\ RowsInv /\ snap \in [Sagas -> 0 .. Len(files)]
      /\ Len(files) \in Nat /\ Recent(w) \subseteq 1 .. Len(files)
      /\ ~scenario.sameSecond => Recent(w) = {}
  BY FileTypes, RecentFiles DEF DataInv, SnapInv
<1>4. /\ Exists("live") /\ content["live"] \in Contents
      /\ files' = IF f > Len(files) THEN Append(files, content["live"])
                                    ELSE [files EXCEPT ![f] = content["live"]]
  BY <1>1 DEF SnapshotDatabase, DataInv, ClusterInv, DatabaseNames, Exists
<1>5. /\ f \in 1 .. Len(files') /\ FilesInv' /\ FilesKept
      /\ files'[f] = content["live"]
      /\ ~scenario.sameSecond => Len(files') = Len(files) + 1 /\ f = Len(files) + 1
  <2>1. CASE f > Len(files)
    <3>1. f = Len(files) + 1 /\ f <= MaxDumps
      BY <1>3, <2>1 DEF DumpNames
    <3>2. files' = Append(files, content["live"]) /\ files \in Seq(Contents)
      BY <1>3, <1>4, <2>1 DEF FilesInv
    <3>3. /\ files' \in Seq(Contents) /\ Len(files') = Len(files) + 1
          /\ files'[Len(files) + 1] = content["live"]
          /\ \A g \in 1 .. Len(files) : files'[g] = files[g]
      BY <1>4, <3>2, AppendProperties
    <3>4. QED
      BY <1>3, <3>1, <3>3 DEF FilesInv, FilesKept
  <2>2. CASE ~(f > Len(files))
    <3>1. f \in Recent(w) /\ f \in 1 .. Len(files)
      BY <1>3, <2>2 DEF DumpNames
    <3>2. files' = [files EXCEPT ![f] = content["live"]] /\ files \in Seq(Contents)
      BY <1>3, <1>4, <2>2 DEF FilesInv
    <3>3. /\ files' \in Seq(Contents) /\ Len(files') = Len(files)
          /\ files'[f] = content["live"]
      BY <1>4, <3>1, <3>2, ExceptSeq
    <3>4. QED
      BY <1>3, <3>1, <3>3 DEF FilesInv, FilesKept
  <2>3. QED
    BY <2>1, <2>2
<1>6. RowsInv'
  BY <1>2, <1>3, <1>5, RowsGrow DEF FilesKept
<1>7. /\ snap' \in [Sagas -> 0 .. Len(files')] /\ snap'[w] = f
      /\ \A v \in Sagas \ {w} : snap'[v] = snap[v]
  BY <1>1, <1>3, <1>5 DEF FilesKept
<1>8. QED
  BY <1>2, <1>4, <1>5, <1>6, <1>7

\* What an attempt that ends badly loads, it loads from a dump that was taken.
LEMMA LoadsDump ==
  ASSUME DataInv, NEW w \in Sagas, Loading(w) # "none"
  PROVE  Loading(w) \in DatabaseNames /\ LoadedFrom(w) \in 1 .. Len(files)
<1>1. Loading(w) \in DatabaseNames
  BY DEF Loading, DatabaseNames
<1>2. snap[w] \in 0 .. Len(files) /\ chosen \in 0 .. Len(files) /\ Len(files) \in Nat
      /\ (Carries(w) => snap[w] # 0) /\ step[w] \in 1 .. 11
  BY FileTypes DEF DataInv, SnapInv, ReadsInv, ControlInv
<1>3. \/ At(w, "MigrateData", 5) \/ At(w, "BackupTenantData", 7)
      \/ At(w, "SwitchTraffic", 3) \/ At(w, "RestoreRollback", 1)
      \/ At(w, "RestoreData", 1) /\ chosen # 0
      \/ At(w, "RestoreTenantFromBackup", 5)
  BY DEF Loading
<1>4. QED
  BY <1>1, <1>2, <1>3 DEF LoadedFrom, Carries, At

LEMMA Errors ==
  ASSUME DataInv, NEW w \in Sagas, ActivityError(w)
  PROVE  /\ Executing(w) /\ EndAttempt(w, Saga(w).onFailure[act[w]])
         /\ ClusterInv' /\ FilesInv' /\ RowsInv' /\ FilesKept
         /\ Len(files') = Len(files) /\ (~scenario.sameSecond => files' = files)
         /\ UNCHANGED <<snap, chosen, spec, drifts>> /\ Undisturbed
<1> USE DEF DataInv
<1>1. /\ Executing(w) /\ EndAttempt(w, Saga(w).onFailure[act[w]])
      /\ UNCHANGED <<snap, chosen, spec, drifts>> /\ Undisturbed
  BY DEF ActivityError, reads, tenant, world, Undisturbed
<1>2. content' \in [DatabaseNames -> Contents \cup {"absent"}]
  <2>1. /\ content \in [DatabaseNames -> Contents \cup {"absent"}]
        /\ content' \in Remains(w)
    BY DEF ActivityError, ClusterInv
  <2>2. CleansUp(w) \subseteq DatabaseNames
    BY DEF CleansUp, DatabaseNames
  <2>3. ASSUME Loading(w) # "none"
        PROVE  /\ Loading(w) \in DatabaseNames
               /\ AfterFailedRestore(Loading(w), LoadedFrom(w)) \subseteq
                    Contents \cup {"absent"}
    <3>1. Loading(w) \in DatabaseNames /\ LoadedFrom(w) \in 1 .. Len(files)
      BY <2>3, LoadsDump
    <3>2. files[LoadedFrom(w)] \in Contents /\ "partial" \in Contents
      BY <3>1, FileTypes DEF Contents
    <3>3. QED
      BY <2>1, <3>1, <3>2 DEF AfterFailedRestore
  <2>4. QED
    BY <2>1, <2>2, <2>3 DEF Remains
<1>3. owned' \subseteq {n \in DatabaseNames : content'[n] # "absent"} /\ owned' \subseteq owned
  BY DEF ActivityError, ClusterInv
<1>4. role' \in BOOLEAN /\ (role => role')
  BY Zenon DEF ActivityError, ClusterInv
<1>5. ClusterInv'
  <2>1. owned' # {} => role'
    BY <1>3, <1>4, Zenon DEF ClusterInv
  <2>2. QED
    BY <1>2, <1>3, <1>4, <2>1, Zenon DEF ClusterInv, Exists
<1>6. /\ FilesInv' /\ FilesKept /\ Len(files') = Len(files)
      /\ ~scenario.sameSecond => files' = files
  <2>1. Len(files) \in Nat /\ files \in Seq(Contents) /\ "partial" \in Contents
    BY FileTypes DEF FilesInv, Contents
  <2>2. \/ files' = files
        \/ \E f \in Recent(w) : files' = [files EXCEPT ![f] = "partial"]
    BY DEF ActivityError, AfterFailedSnapshot
  <2>3. CASE files' = files
    BY <2>1, <2>3 DEF FilesInv, FilesKept
  <2>4. CASE \E f \in Recent(w) : files' = [files EXCEPT ![f] = "partial"]
    <3>1. PICK f \in Recent(w) : files' = [files EXCEPT ![f] = "partial"]
      BY <2>4
    <3>2. f \in 1 .. Len(files) /\ scenario.sameSecond
      BY RecentFiles
    <3>3. files' \in Seq(Contents) /\ Len(files') = Len(files)
      BY <2>1, <3>1, <3>2, ExceptSeq
    <3>4. QED
      BY <2>1, <3>2, <3>3 DEF FilesInv, FilesKept
  <2>5. QED
    BY <2>2, <2>3, <2>4
<1>7. RowsInv'
  <2>1. backups' = backups \/ backups' = Marked(snap[w], "failed")
    BY DEF ActivityError
  <2>2. "failed" \in BackupStatuses
    BY DEF BackupStatuses
  <2>3. QED
    BY <1>6, <2>1, <2>2, MarkedRows DEF RowsInv
<1>8. QED
  BY <1>1, <1>5, <1>6, <1>7

-----------------------------------------------------------------------------
(* Steps of one saga keep the types.                                       *)

\* A step of saga w, seen from outside.
SagaStep(w) ==
  /\ Others(w) /\ ControlInv' /\ ClusterInv' /\ FilesInv' /\ RowsInv' /\ ReadsInv'
  /\ Len(files) <= Len(files')
  /\ snap' \in [Sagas -> 0 .. Len(files')]
  /\ \A v \in Sagas \ {w} : snap'[v] = snap[v]
  /\ Carries(w)' => snap'[w] # 0
  /\ written' = written /\ asked' = asked /\ scenario' = scenario
  /\ disturbed' = disturbed /\ drifted' = drifted /\ reconciles' = reconciles
  /\ dlq' \subseteq dlq \cup {"delete"}
  /\ status' \in {"active", "deleting", "deleted"} /\ (w # "delete" => status' = status)

LEMMA SagaStepTypes ==
  ASSUME DataInv, NEW w \in scenario.sagas, w \in Sagas, w \in asked => w = "delete",
         SagaStep(w)
  PROVE  DataInv'
<1>1. SnapInv'
  <2> SUFFICES ASSUME NEW v \in Sagas, Carries(v)' PROVE snap'[v] # 0
    BY DEF SnapInv, SagaStep
  <2>1. CASE v = w
    BY <2>1 DEF SagaStep
  <2>2. CASE v # w
    <3>1. act'[v] = act[v] /\ step'[v] = step[v] /\ snap'[v] = snap[v]
      BY <2>2 DEF SagaStep, Others
    <3>2. Carries(v)
      BY <3>1 DEF Carries, At
    <3> QED BY <3>1, <3>2 DEF DataInv, SnapInv
  <2> QED BY <2>1, <2>2
<1>2. IdleInv'
  <2>1. /\ asked \subseteq (scenario.sagas \ {"reconcile"}) \cup {"resume"}
        /\ "resume" \in asked \/ status # "active" => "delete" \in scenario.sagas
        /\ \A v \in Sagas \ scenario.sagas : act[v] = "none"
        /\ \A v \in asked \ {"delete", "resume"} : act[v] = "none"
        /\ asked' = asked /\ scenario' = scenario /\ (w # "delete" => status' = status)
        /\ \A v \in Sagas \ {w} : act'[v] = act[v]
        /\ scenario.sagas \subseteq Sagas
    BY DataSagasAssumption DEF DataInv, IdleInv, SagaStep, Others, WorldInv
  <2>2. \A v \in Sagas \ scenario.sagas : act'[v] = "none"
    BY <2>1
  <2>3. \A v \in asked \ {"delete", "resume"} : v \in Sagas \ {w} /\ act'[v] = act[v]
    BY <2>1
  <2> QED BY <2>1, <2>2, <2>3 DEF IdleInv
<1>3. disturbed' \in BOOLEAN
  BY Zenon DEF DataInv, WorldInv, SagaStep
<1>4. WorldInv'
  BY <1>3 DEF DataInv, WorldInv, SagaStep
<1>5. QED
  BY <1>1, <1>2, <1>4 DEF DataInv, SagaStep

\* A saga that runs is of the scenario, and nobody is about to start it, unless it
\* is a deletion.
LEMMA OpenSagas ==
  ASSUME DataInv, NEW w \in Sagas, act[w] # "none"
  PROVE  w \in scenario.sagas /\ (w \in asked => w = "delete")
<1>1. w # "resume"
  BY SagaNames
<1>2. QED
  BY <1>1 DEF DataInv, IdleInv

\* Effects that do not give the saga a dump.
Steady(a, k) ==
  ~ \/ a = "MigrateData" /\ k = 1
    \/ a = "BackupTenantData" /\ k = 2
    \/ a = "PreRestoreSnapshot"
    \/ a = "RestoreTenantFromBackup" /\ k = 1

LEMMA SteadyStep ==
  ASSUME DataInv, NEW w \in Sagas, NEW a, NEW k \in 1 .. 10, Steady(a, k), Do(w, a, k),
         ClusterInv', FilesInv', RowsInv', files' = files, ReadsInv', snap' = snap
  PROVE  SagaStep(w)
<1>1. /\ act[w] = a /\ step[w] = k /\ act' = act /\ step'[w] = k + 1
      /\ Others(w) /\ ControlInv' /\ Undisturbed
  BY Dos DEF DataInv
<1>2. Carries(w)' => Carries(w)
  BY <1>1 DEF Carries, At, Steady
<1>3. snap \in [Sagas -> 0 .. Len(files)] /\ (Carries(w) => snap[w] # 0)
      /\ status \in {"active", "deleting", "deleted"} /\ Len(files) \in Nat
  BY FileTypes DEF DataInv, SnapInv, WorldInv
<1>4. QED
  BY <1>1, <1>2, <1>3 DEF SagaStep, Undisturbed

LEMMA ClusterStep ==
  ASSUME DataInv, NEW w \in Sagas, NEW a, NEW k \in 1 .. 10, Steady(a, k), Do(w, a, k),
         ClusterInv', UNCHANGED <<artifacts, reads>>
  PROVE  SagaStep(w)
<1>1. files' = files /\ backups' = backups /\ snap' = snap /\ chosen' = chosen
      /\ spec' = spec /\ drifts' = drifts
  BY DEF artifacts, reads
<1>2. FilesInv' /\ RowsInv' /\ ReadsInv'
  BY <1>1 DEF DataInv, FilesInv, RowsInv, ReadsInv
<1>3. QED
  BY <1>1, <1>2, SteadyStep

LEMMA DropStep ==
  ASSUME DataInv, NEW w \in Sagas, NEW a, NEW k \in 1 .. 10, Steady(a, k),
         NEW n \in DatabaseNames, Drop(w, a, k, n)
  PROVE  SagaStep(w)
BY Drops, ClusterStep DEF DataInv, Drop

LEMMA CreateStep ==
  ASSUME DataInv, NEW w \in Sagas, NEW a, NEW k \in 1 .. 10, Steady(a, k),
         NEW n \in DatabaseNames, Create(w, a, k, n)
  PROVE  SagaStep(w)
BY Creates, ClusterStep DEF DataInv, Create

LEMMA OwnStep ==
  ASSUME DataInv, NEW w \in Sagas, NEW a, NEW k \in 1 .. 10, Steady(a, k),
         NEW n \in DatabaseNames, Own(w, a, k, n)
  PROVE  SagaStep(w)
BY Owns, ClusterStep DEF DataInv, Own

LEMMA ValidateStep ==
  ASSUME DataInv, NEW w \in Sagas, NEW a, NEW k \in 1 .. 10, Steady(a, k),
         NEW n \in DatabaseNames, Validate(w, a, k, n)
  PROVE  SagaStep(w)
BY SameCluster, ClusterStep DEF DataInv, Validate

LEMMA LoadStep ==
  ASSUME DataInv, NEW w \in Sagas, NEW a, NEW k \in 1 .. 10, Steady(a, k),
         NEW n \in DatabaseNames, NEW f \in 1 .. Len(files), Load(w, a, k, n, f)
  PROVE  SagaStep(w)
BY LoadsKeep, ClusterStep DEF DataInv, Load

LEMMA SnapshotStep ==
  ASSUME DataInv, NEW w \in Sagas, NEW a, NEW k \in 1 .. 10, Snapshot(w, a, k)
  PROVE  SagaStep(w)
<1>1. /\ Do(w, a, k) /\ UNCHANGED <<content, owned, role, backups, chosen, spec, drifts>>
      /\ FilesInv' /\ RowsInv' /\ FilesKept
      /\ snap' \in [Sagas -> 0 .. Len(files')]
      /\ snap'[w] \in 1 .. Len(files') /\ \A v \in Sagas \ {w} : snap'[v] = snap[v]
  BY Snapshots
<1>2. Others(w) /\ ControlInv' /\ Undisturbed
  BY <1>1, Dos DEF DataInv
<1>3. ClusterInv'
  BY <1>1, SameCluster DEF DataInv, cluster
<1>4. Len(files) \in Nat /\ Len(files') \in Nat /\ Len(files) <= Len(files')
  BY <1>1, FileTypes DEF DataInv, FilesKept
<1>5. ReadsInv' /\ status \in {"active", "deleting", "deleted"}
  BY <1>1, <1>4 DEF DataInv, ReadsInv, WorldInv
<1>6. QED
  BY <1>1, <1>2, <1>3, <1>4, <1>5 DEF SagaStep, Undisturbed

\* The saga goes on elsewhere and nothing else happens.
LEMMA ControlStep ==
  ASSUME DataInv, NEW w \in Sagas, Others(w), ControlInv', Carries(w)' => snap[w] # 0,
         UNCHANGED <<cluster, artifacts, reads, tenant, asked, world>>
  PROVE  SagaStep(w)
<1>1. /\ files' = files /\ backups' = backups /\ snap' = snap /\ chosen' = chosen
      /\ spec' = spec /\ drifts' = drifts /\ Undisturbed
  BY DEF artifacts, reads, tenant, world, Undisturbed
<1>2. FilesInv' /\ RowsInv' /\ ReadsInv' /\ Len(files) \in Nat
  BY <1>1, FileTypes DEF DataInv, FilesInv, RowsInv, ReadsInv
<1>3. ClusterInv'
  BY SameCluster DEF DataInv
<1>4. snap \in [Sagas -> 0 .. Len(files)] /\ status \in {"active", "deleting", "deleted"}
  BY DEF DataInv, SnapInv, WorldInv
<1>5. QED
  BY <1>1, <1>2, <1>3, <1>4 DEF SagaStep, Undisturbed

\* Effects that look for a database and go on without a dump.
Settles(a, p, m) ==
  \/ a \in {"SwitchTraffic", "EnsureTenantDatabase"}
  \/ a = "BackupTenantData" /\ p \notin 3 .. 10 /\ m \notin 3 .. 10

LEMMA InspectStep ==
  ASSUME DataInv, NEW w \in Sagas, NEW a, NEW n, NEW p \in 1 .. 11, NEW m \in 1 .. 11,
         Inspect(w, a, n, p, m), Settles(a, p, m)
  PROVE  SagaStep(w)
<1>1. PICK k \in {p, m} : At(w, a, 1) /\ Then(w, k)
  BY DEF Inspect
<1>2. /\ act' = act /\ attempt' = attempt /\ step'[w] = k /\ Others(w)
      /\ step' \in [Sagas -> 1 .. 11] /\ act[w] = a
  BY <1>1, Thens DEF DataInv, At
<1>3. ControlInv'
  BY <1>2 DEF DataInv, ControlInv
<1>4. Carries(w)' => Carries(w)
  BY <1>2 DEF Carries, At, Settles
<1>5. QED
  BY <1>2, <1>3, <1>4, ControlStep DEF Inspect, DataInv, SnapInv

\* Where sagas go, by their tables.
LEMMA Successors ==
  ASSUME ControlInv, NEW w \in Sagas, Executing(w)
  PROVE  /\ Saga(w).onSuccess[act[w]] \in AllPlaces /\ Saga(w).onFailure[act[w]] \in AllPlaces
         /\ w = "migrate" =>
              {Saga(w).onSuccess[act[w]], Saga(w).onFailure[act[w]]}
                \subseteq MigrateActivities \cup Closed
         /\ w = "backup" =>
              {Saga(w).onSuccess[act[w]], Saga(w).onFailure[act[w]]}
                \subseteq BackupActivities \cup Closed
         /\ w = "restore" =>
              {Saga(w).onSuccess[act[w]], Saga(w).onFailure[act[w]]}
                \subseteq RestoreActivities \cup Closed
         /\ w = "delete" =>
              {Saga(w).onSuccess[act[w]], Saga(w).onFailure[act[w]]}
                \subseteq DeleteActivities \cup Closed \cup {"grace"}
         /\ w = "reconcile" =>
              {Saga(w).onSuccess[act[w]], Saga(w).onFailure[act[w]]}
                \subseteq ReconcileActivities \cup {"none", "failed", "converged", "skipped"}
<1> USE DEF Executing
<1>1. CASE w = "migrate"
  BY <1>1, MigrateTable DEF MigrateActivities, Closed, AllPlaces
<1>2. CASE w = "backup"
  BY <1>2, BackupTable DEF BackupActivities, Closed, AllPlaces
<1>3. CASE w = "restore"
  BY <1>3, RestoreTable DEF RestoreActivities, Closed, AllPlaces
<1>4. CASE w = "delete"
  BY <1>4, DeleteTable DEF DeleteActivities, Closed, AllPlaces
<1>5. CASE w = "reconcile"
  <2>1. /\ AfterEnsure \in {"BackupTenantData", "Reprobe"}
        /\ AfterRestore \in {"EnsureTenantDatabase", AfterEnsure}
        /\ AfterRecord \in {"RestoreTenantFromBackup", AfterRestore}
    BY DEF AfterEnsure, AfterRestore, AfterRecord
  <2> QED BY <1>5, <2>1, ReconcileTable DEF ReconcileActivities, Closed, AllPlaces
<1>6. QED
  BY <1>1, <1>2, <1>3, <1>4, <1>5, SagaNames

LEMMA MovesTo ==
  ASSUME ControlInv, NEW w \in Sagas, Executing(w), Others(w),
         act'[w] \in {act[w], Saga(w).onSuccess[act[w]], Saga(w).onFailure[act[w]]},
         act' \in [Sagas -> AllPlaces], step' \in [Sagas -> 1 .. 11],
         attempt' \in [Sagas -> 1 .. MaximumAttempts]
  PROVE  ControlInv'
BY Successors, SagaNames DEF ControlInv, Others

\* A saga comes to a place where it loads a dump only with a dump.
LEMMA ReportCarries ==
  ASSUME DataInv, NEW w \in Sagas, Executing(w), step[w] = LastStep(act[w]),
         act'[w] = Saga(w).onSuccess[act[w]], step'[w] = 1, Carries(w)'
  PROVE  Carries(w)
<1> ControlInv
  BY DEF DataInv
<1> USE DEF Executing, Carries, At
<1>1. CASE w = "migrate"
  BY <1>1, MigrateTable DEF MigrateActivities, LastStep
<1>2. CASE w = "backup"
  BY <1>2, BackupTable DEF BackupActivities
<1>3. CASE w = "restore"
  BY <1>3, RestoreTable DEF RestoreActivities, LastStep
<1>4. CASE w = "delete"
  BY <1>4, DeleteTable DEF DeleteActivities
<1>5. CASE w = "reconcile"
  <2>1. act'[w] \in ReconcileActivities \cup {"none", "failed", "converged", "skipped"}
    BY <1>5, Successors
  <2> QED BY <1>5, <2>1 DEF ReconcileActivities
<1>6. QED
  BY <1>1, <1>2, <1>3, <1>4, <1>5, SagaNames

LEMMA ErrorCarries ==
  ASSUME DataInv, NEW w \in Sagas, Executing(w),
         act'[w] \in {act[w], Saga(w).onFailure[act[w]]}, step'[w] = 1, Carries(w)'
  PROVE  Carries(w)
<1> ControlInv
  BY DEF DataInv
<1> USE DEF Executing, Carries, At
<1>1. CASE w = "migrate"
  BY <1>1, MigrateTable DEF MigrateActivities
<1>2. CASE w = "backup"
  BY <1>2, BackupTable DEF BackupActivities
<1>3. CASE w = "restore"
  BY <1>3, RestoreTable DEF RestoreActivities
<1>4. CASE w = "delete"
  BY <1>4, DeleteTable DEF DeleteActivities
<1>5. CASE w = "reconcile"
  BY <1>5, ReconcileTable DEF ReconcileActivities
<1>6. QED
  BY <1>1, <1>2, <1>3, <1>4, <1>5, SagaNames

LEMMA ReportStep ==
  ASSUME DataInv, NEW w \in Sagas, Report(w)
  PROVE  SagaStep(w)
<1>1. /\ Executing(w) /\ step[w] = LastStep(act[w])
      /\ Goto(w, Saga(w).onSuccess[act[w]])
      /\ UNCHANGED <<cluster, artifacts, reads, tenant, asked, world>>
  BY DEF Report
<1>2. ControlInv /\ Saga(w).onSuccess[act[w]] \in AllPlaces
  BY <1>1, Successors DEF DataInv
<1>3. /\ act'[w] = Saga(w).onSuccess[act[w]] /\ step'[w] = 1 /\ Others(w)
      /\ step' \in [Sagas -> 1 .. 11] /\ attempt' \in [Sagas -> 1 .. MaximumAttempts]
      /\ act' \in [Sagas -> AllPlaces]
  BY <1>1, <1>2, Gotos
<1>4. ControlInv'
  BY <1>1, <1>2, <1>3, MovesTo
<1>5. Carries(w)' => snap[w] # 0
  BY <1>1, <1>3, ReportCarries DEF DataInv, SnapInv
<1>6. QED
  BY <1>1, <1>3, <1>4, <1>5, ControlStep

LEMMA ErrorStep ==
  ASSUME DataInv, NEW w \in Sagas, ActivityError(w)
  PROVE  SagaStep(w)
<1>1. /\ Executing(w) /\ EndAttempt(w, Saga(w).onFailure[act[w]])
      /\ ClusterInv' /\ FilesInv' /\ RowsInv' /\ FilesKept /\ Len(files') = Len(files)
      /\ UNCHANGED <<snap, chosen, spec, drifts>> /\ Undisturbed
  BY Errors
<1>2. ControlInv /\ Saga(w).onFailure[act[w]] \in AllPlaces
  BY <1>1, Successors DEF DataInv
<1>3. /\ act'[w] \in {act[w], Saga(w).onFailure[act[w]]} /\ step'[w] = 1 /\ Others(w)
      /\ step' \in [Sagas -> 1 .. 11] /\ attempt' \in [Sagas -> 1 .. MaximumAttempts]
      /\ act' \in [Sagas -> AllPlaces]
  BY <1>1, <1>2, EndAttempts
<1>4. ControlInv'
  BY <1>1, <1>2, <1>3, MovesTo
<1>5. Carries(w)' => snap'[w] # 0
  BY <1>1, <1>3, ErrorCarries DEF DataInv, SnapInv
<1>6. /\ ReadsInv' /\ snap' \in [Sagas -> 0 .. Len(files')]
      /\ status \in {"active", "deleting", "deleted"} /\ Len(files) <= Len(files')
  BY <1>1 DEF DataInv, ReadsInv, SnapInv, WorldInv, FilesKept
<1>7. QED
  BY <1>1, <1>3, <1>4, <1>5, <1>6 DEF SagaStep, Undisturbed

-----------------------------------------------------------------------------
(* The activities, one by one.                                             *)

LEMMA Numbers ==
  /\ 1 \in 1 .. 10 /\ 2 \in 1 .. 10 /\ 3 \in 1 .. 10 /\ 4 \in 1 .. 10 /\ 5 \in 1 .. 10
  /\ 6 \in 1 .. 10 /\ 7 \in 1 .. 10 /\ 8 \in 1 .. 10 /\ 9 \in 1 .. 10 /\ 10 \in 1 .. 10
  /\ 2 \in 1 .. 11 /\ 3 \in 1 .. 11 /\ 4 \in 1 .. 11 /\ 11 \in 1 .. 11
  /\ 11 \notin 3 .. 10 /\ 2 \notin 3 .. 10
OBVIOUS

LEMMA SteadyEffects ==
  /\ \A k \in {2, 3, 4, 5, 6} : Steady("MigrateData", k)
  /\ \A k \in {3, 4, 5, 6, 7, 8, 9, 10} : Steady("BackupTenantData", k)
  /\ \A k \in {2, 3, 4, 5, 6, 7} : Steady("RestoreTenantFromBackup", k)
  /\ \A a \in {"SwitchTraffic", "DropTenantAuxDatabase", "RestoreData", "RestoreRollback",
               "DeprovisionTenant", "EnsureTenantDatabase", "ResolveTenantSpec",
               "ProbeTenantActualState", "Reprobe"} : \A k : Steady(a, k)
  /\ Settles("SwitchTraffic", 2, 4) /\ Settles("BackupTenantData", 2, 11)
  /\ Settles("EnsureTenantDatabase", 3, 2)
BY DEF Steady, Settles

LEMMA MigrateSteps ==
  ASSUME DataInv, MigrateData \/ SwitchTraffic \/ DropTenantAuxDatabase
  PROVE  SagaStep("migrate")
<1> "migrate" \in Sagas /\ "new" \in DatabaseNames /\ "live" \in DatabaseNames
  BY SagaNames DEF DatabaseNames
<1>1. CASE Snapshot("migrate", "MigrateData", 1)
  BY <1>1, SnapshotStep, Numbers
<1>2. CASE Drop("migrate", "MigrateData", 2, "new")
  BY <1>2, DropStep, Numbers, SteadyEffects, Zenon
<1>9. CASE Create("migrate", "MigrateData", 3, "new")
  BY <1>9, CreateStep, Numbers, SteadyEffects, Zenon
<1>10. CASE Own("migrate", "MigrateData", 4, "new")
  BY <1>10, OwnStep, Numbers, SteadyEffects, Zenon
<1>11. CASE Validate("migrate", "MigrateData", 6, "new")
  BY <1>11, ValidateStep, Numbers, SteadyEffects, Zenon
<1>3. CASE Load("migrate", "MigrateData", 5, "new", snap["migrate"])
  <2>1. snap["migrate"] \in 1 .. Len(files)
    BY <1>3, FileTypes DEF Load, Do, At, DataInv, SnapInv, Carries
  <2> QED BY <1>3, <2>1, LoadStep, Numbers, SteadyEffects, Zenon
<1>4. CASE Inspect("migrate", "SwitchTraffic", "new", 2, 4)
  BY <1>4, InspectStep, Numbers, SteadyEffects, Zenon
<1>5. CASE Drop("migrate", "SwitchTraffic", 2, "live")
  BY <1>5, DropStep, Numbers, SteadyEffects, Zenon
<1>6. CASE Rename("migrate", "SwitchTraffic", 3, "new", "live")
  <2>1. ClusterInv'
    BY <1>6, Renames DEF Rename, DataInv
  <2> QED BY <1>6, <2>1, ClusterStep, Numbers, SteadyEffects, Zenon DEF Rename
<1>7. CASE DropTenantAuxDatabase
  BY <1>7, DropStep, Numbers, SteadyEffects, Zenon DEF DropTenantAuxDatabase
<1>8. QED
  BY <1>1, <1>2, <1>3, <1>4, <1>5, <1>6, <1>7, <1>9, <1>10, <1>11 DEF MigrateData, SwitchTraffic

LEMMA BackupSteps ==
  ASSUME DataInv, NEW w \in Sagas, BackupTenantData(w)
  PROVE  SagaStep(w)
<1> "live" \in DatabaseNames /\ "temp" \in DatabaseNames
  BY DEF DatabaseNames
<1> DEFINE a == "BackupTenantData"
<1>1. CASE Inspect(w, a, "live", 2, 11)
  BY <1>1, InspectStep, Numbers, SteadyEffects, Zenon
<1>2. CASE Snapshot(w, a, 2)
  BY <1>2, SnapshotStep, Numbers
<1>3. CASE Do(w, a, 3) /\ CreateBackup(snap[w]) /\ UNCHANGED <<cluster, reads>>
  <2>1. snap[w] \in 1 .. Len(files)
    BY <1>3, FileTypes DEF Do, At, DataInv, SnapInv, Carries
  <2>2. RowsInv' /\ files' = files
    BY <1>3, <2>1, CreatedRow DEF DataInv
  <2>3. ClusterInv' /\ FilesInv' /\ ReadsInv' /\ snap' = snap
    BY <1>3, <2>2, SameCluster DEF DataInv, FilesInv, ReadsInv, reads
  <2> QED BY <1>3, <2>2, <2>3, SteadyStep, Numbers, SteadyEffects, Zenon
<1>4. CASE Drop(w, a, 4, "temp")
  BY <1>4, DropStep, Numbers, SteadyEffects, Zenon
<1>8. CASE Create(w, a, 5, "temp")
  BY <1>8, CreateStep, Numbers, SteadyEffects, Zenon
<1>9. CASE Own(w, a, 6, "temp")
  BY <1>9, OwnStep, Numbers, SteadyEffects, Zenon
<1>10. CASE Validate(w, a, 8, "temp")
  BY <1>10, ValidateStep, Numbers, SteadyEffects, Zenon
<1>11. CASE Drop(w, a, 9, "temp")
  BY <1>11, DropStep, Numbers, SteadyEffects, Zenon
<1>5. CASE Load(w, a, 7, "temp", snap[w])
  <2>1. snap[w] \in 1 .. Len(files)
    BY <1>5, FileTypes DEF Load, Do, At, DataInv, SnapInv, Carries
  <2> QED BY <1>5, <2>1, LoadStep, Numbers, SteadyEffects, Zenon
<1>6. CASE Do(w, a, 10) /\ MarkBackupCompleted(snap[w]) /\ UNCHANGED <<cluster, reads>>
  <2>1. RowsInv' /\ files' = files
    BY <1>6, MarkedRows DEF DataInv, MarkBackupCompleted, RowsInv, BackupStatuses
  <2>2. ClusterInv' /\ FilesInv' /\ ReadsInv' /\ snap' = snap
    BY <1>6, <2>1, SameCluster DEF DataInv, FilesInv, ReadsInv, reads
  <2> QED BY <1>6, <2>1, <2>2, SteadyStep, Numbers, SteadyEffects, Zenon
<1>7. QED
  BY <1>1, <1>2, <1>3, <1>4, <1>5, <1>6, <1>8, <1>9, <1>10, <1>11 DEF BackupTenantData

LEMMA RestoreSteps ==
  ASSUME DataInv, PreRestoreSnapshot \/ RestoreData \/ RestoreRollback
  PROVE  SagaStep("restore")
<1> "restore" \in Sagas /\ "live" \in DatabaseNames
  BY SagaNames DEF DatabaseNames
<1>1. CASE PreRestoreSnapshot
  BY <1>1, SnapshotStep, Numbers DEF PreRestoreSnapshot
<1>2. CASE chosen # 0 /\ Load("restore", "RestoreData", 1, "live", chosen)
  <2>1. chosen \in 1 .. Len(files)
    BY <1>2, FileTypes DEF DataInv, ReadsInv
  <2> QED BY <1>2, <2>1, LoadStep, Numbers, SteadyEffects, Zenon
<1>3. CASE Validate("restore", "RestoreData", 2, "live")
  BY <1>3, ValidateStep, Numbers, SteadyEffects, Zenon
<1>4. CASE RestoreRollback
  <2>1. snap["restore"] \in 1 .. Len(files)
    BY <1>4, FileTypes DEF RestoreRollback, Load, Do, At, DataInv, SnapInv, Carries
  <2> QED BY <1>4, <2>1, LoadStep, Numbers, SteadyEffects, Zenon DEF RestoreRollback
<1>5. QED
  BY <1>1, <1>2, <1>3, <1>4 DEF RestoreData

LEMMA StatusSteps ==
  ASSUME DataInv, NEW a \in {"MarkTenantDeleting", "RestoreTenantAfterCancel",
                             "MarkTenantDeleted"},
         NEW to \in {"active", "deleting", "deleted"}, NEW from,
         UpdateTenantStatusFrom(a, to, from)
  PROVE  SagaStep("delete")
<1> "delete" \in Sagas /\ ControlInv
  BY SagaNames DEF DataInv
<1>1. /\ act["delete"] = a /\ step["delete"] = 1
      /\ \/ status' = to /\ Then("delete", 2)
         \/ status' = status /\ Goto("delete", DeleteTenantWorkflow.onFailure[a])
      /\ UNCHANGED <<cluster, artifacts, reads, written, asked, world>>
      /\ dlq' \subseteq dlq \cup {"delete"}
  BY DEF UpdateTenantStatusFrom, At
<1>2. DeleteTenantWorkflow.onFailure[a] = "MarkTenantDeleteFailed"
  BY DeleteTable DEF DeleteActivities
<1>3. /\ act'["delete"] \in {a, "MarkTenantDeleteFailed"} /\ Others("delete")
      /\ act' \in [Sagas -> AllPlaces] /\ step' \in [Sagas -> 1 .. 11]
      /\ attempt' \in [Sagas -> 1 .. MaximumAttempts]
  <2>1. CASE Then("delete", 2)
    BY <1>1, <2>1, Thens, Numbers DEF ControlInv
  <2>2. CASE Goto("delete", DeleteTenantWorkflow.onFailure[a])
    BY <1>2, <2>2, Gotos DEF AllPlaces, DeleteActivities
  <2> QED BY <1>1, <2>1, <2>2
<1>4. ControlInv'
  BY <1>3, SagaNames DEF ControlInv, Others, DeleteActivities
<1>5. ~Carries("delete")'
  BY <1>3 DEF Carries, At
<1>6. ClusterInv' /\ FilesInv' /\ RowsInv' /\ ReadsInv' /\ files' = files /\ snap' = snap
  BY <1>1, SameCluster DEF DataInv, FilesInv, RowsInv, ReadsInv, artifacts, reads
<1>7. /\ snap \in [Sagas -> 0 .. Len(files)] /\ Len(files) \in Nat
      /\ status' \in {"active", "deleting", "deleted"}
  BY <1>1, FileTypes DEF DataInv, SnapInv, WorldInv
<1>8. QED
  BY <1>1, <1>3, <1>4, <1>5, <1>6, <1>7 DEF SagaStep, world

LEMMA DeleteSteps ==
  ASSUME DataInv, \/ MarkTenantDeleting \/ RestoreTenantAfterCancel
                  \/ DeprovisionTenant \/ MarkTenantDeleted
  PROVE  SagaStep("delete")
<1> "delete" \in Sagas /\ "live" \in DatabaseNames
  BY SagaNames DEF DatabaseNames
<1>1. CASE MarkTenantDeleting \/ RestoreTenantAfterCancel \/ MarkTenantDeleted
  BY <1>1, StatusSteps DEF MarkTenantDeleting, RestoreTenantAfterCancel, MarkTenantDeleted
<1>2. CASE Drop("delete", "DeprovisionTenant", 1, "live")
  BY <1>2, DropStep, Numbers, SteadyEffects, Zenon
<1>3. CASE /\ Do("delete", "DeprovisionTenant", 2) /\ DropTenantRole
           /\ UNCHANGED <<artifacts, reads>>
  BY <1>3, RoleDrops, ClusterStep, Numbers, SteadyEffects, Zenon DEF DataInv
<1>4. QED
  BY <1>1, <1>2, <1>3 DEF DeprovisionTenant

LEMMA ReconcileSteps ==
  ASSUME DataInv,
         \/ ResolveTenantSpec
         \/ \E a \in {"ProbeTenantActualState", "Reprobe"} : ProbeTenantActualState(a)
         \/ NoVerifiedBackup \/ RestoreTenantFromBackup \/ EnsureTenantDatabase
  PROVE  SagaStep("reconcile")
<1> "reconcile" \in Sagas /\ "live" \in DatabaseNames /\ ControlInv
  BY SagaNames DEF DatabaseNames, DataInv
<1> DEFINE R == "RestoreTenantFromBackup"
           E == "EnsureTenantDatabase"
<1>1. CASE ResolveTenantSpec
  <2>1. /\ Do("reconcile", "ResolveTenantSpec", 1) /\ spec' = status
        /\ UNCHANGED <<cluster, artifacts, snap, chosen, drifts>>
    BY <1>1 DEF ResolveTenantSpec
  <2>2. /\ ClusterInv' /\ FilesInv' /\ RowsInv' /\ ReadsInv' /\ files' = files /\ snap' = snap
    BY <2>1, SameCluster DEF DataInv, FilesInv, RowsInv, ReadsInv, WorldInv, artifacts
  <2> QED BY <2>1, <2>2, SteadyStep, SteadyEffects, Numbers, Zenon
<1>2. CASE \E a \in {"ProbeTenantActualState", "Reprobe"} : ProbeTenantActualState(a)
  <2>1. PICK a \in {"ProbeTenantActualState", "Reprobe"} : ProbeTenantActualState(a)
    BY <1>2
  <2>2. PICK k \in {1, 2, 3} : Do("reconcile", a, k)
    BY <2>1 DEF ProbeTenantActualState
  <2>3. /\ drifts' \subseteq {"missing_database", "missing_role", "shape", "missing_backup"}
        /\ UNCHANGED <<cluster, artifacts, snap, chosen, spec>>
    BY <2>1 DEF ProbeTenantActualState, DataInv, ReadsInv
  <2>4. /\ ClusterInv' /\ FilesInv' /\ RowsInv' /\ ReadsInv' /\ files' = files /\ snap' = snap
    BY <2>3, SameCluster DEF DataInv, FilesInv, RowsInv, ReadsInv, artifacts
  <2> QED BY <2>2, <2>4, SteadyStep, SteadyEffects, Numbers, Zenon
<1>3. CASE NoVerifiedBackup
  <2>1. /\ act["reconcile"] = R /\ Goto("reconcile", "MarkReconcileUnrecoverable")
        /\ UNCHANGED <<cluster, artifacts, reads, tenant, asked, world>>
    BY <1>3 DEF NoVerifiedBackup, At
  <2>2. /\ act'["reconcile"] = "MarkReconcileUnrecoverable" /\ Others("reconcile")
        /\ step' \in [Sagas -> 1 .. 11] /\ attempt' \in [Sagas -> 1 .. MaximumAttempts]
        /\ act' \in [Sagas -> AllPlaces]
    BY <2>1, Gotos DEF AllPlaces, ReconcileActivities
  <2>3. ControlInv'
    BY <2>2, SagaNames DEF ControlInv, Others, ReconcileActivities
  <2>4. ~Carries("reconcile")'
    BY <2>2 DEF Carries, At
  <2> QED BY <2>1, <2>2, <2>3, <2>4, ControlStep
<1>4. CASE /\ Do("reconcile", R, 1) /\ LatestCompleted # 0
           /\ snap' = [snap EXCEPT !["reconcile"] = LatestCompleted]
           /\ UNCHANGED <<cluster, artifacts, chosen, spec, drifts>>
  <2>1. LatestCompleted \in 1 .. Len(files)
    BY <1>4, LatestIsCompleted DEF LatestCompleted, DataInv
  <2>2. Others("reconcile") /\ ControlInv' /\ Undisturbed
    BY <1>4, Dos, Numbers
  <2>3. /\ ClusterInv' /\ FilesInv' /\ RowsInv' /\ ReadsInv' /\ files' = files
    BY <1>4, SameCluster DEF DataInv, FilesInv, RowsInv, ReadsInv, artifacts
  <2>4. /\ snap' \in [Sagas -> 0 .. Len(files)] /\ snap'["reconcile"] # 0
        /\ \A v \in Sagas \ {"reconcile"} : snap'[v] = snap[v]
        /\ Len(files) \in Nat /\ status \in {"active", "deleting", "deleted"}
    BY <1>4, <2>1, FileTypes DEF DataInv, SnapInv, WorldInv
  <2> QED BY <2>2, <2>3, <2>4 DEF SagaStep, Undisturbed
<1>5. CASE Drop("reconcile", R, 2, "live")
  BY <1>5, DropStep, Numbers, SteadyEffects, Zenon
<1>6. CASE Create("reconcile", R, 3, "live")
  BY <1>6, CreateStep, Numbers, SteadyEffects, Zenon
<1>7. CASE Own("reconcile", R, 4, "live")
  BY <1>7, OwnStep, Numbers, SteadyEffects, Zenon
<1>8. CASE Load("reconcile", R, 5, "live", snap["reconcile"])
  <2>1. snap["reconcile"] \in 1 .. Len(files)
    BY <1>8, FileTypes DEF Load, Do, At, DataInv, SnapInv, Carries
  <2> QED BY <1>8, <2>1, LoadStep, Numbers, SteadyEffects, Zenon
<1>9. CASE Own("reconcile", R, 6, "live")
  BY <1>9, OwnStep, Numbers, SteadyEffects, Zenon
<1>10. CASE Validate("reconcile", R, 7, "live")
  BY <1>10, ValidateStep, Numbers, SteadyEffects, Zenon
<1>11. CASE Inspect("reconcile", E, "live", 3, 2)
  BY <1>11, InspectStep, Numbers, SteadyEffects, Zenon
<1>12. CASE Create("reconcile", E, 2, "live")
  BY <1>12, CreateStep, Numbers, SteadyEffects, Zenon
<1>13. CASE Own("reconcile", E, 3, "live")
  BY <1>13, OwnStep, Numbers, SteadyEffects, Zenon
<1>14. QED
  BY <1>1, <1>2, <1>3, <1>4, <1>5, <1>6, <1>7, <1>8, <1>9, <1>10, <1>11, <1>12, <1>13
     DEF RestoreTenantFromBackup, EnsureTenantDatabase

\* Only a saga that is executing an activity advances.
LEMMA AdvanceExecutes ==
  ASSUME DataInv, NEW w \in Sagas, Advance(w)
  PROVE  Executing(w) /\ act[w] \notin {"none", "failed"}
<1> ControlInv
  BY DEF DataInv
<1> USE DEF Executing
<1>1. CASE w = "migrate"
  BY <1>1, MigrateTable DEF Advance, Activity, Report, ActivityError, MigrateActivities,
     MigrateData, SwitchTraffic, DropTenantAuxDatabase, Snapshot, Drop, Create, Own, Load,
     Validate, Rename, Inspect, Do, At
<1>2. CASE w = "backup"
  BY <1>2, BackupTable DEF Advance, Activity, Report, ActivityError, BackupActivities,
     BackupTenantData, Snapshot, Drop, Create, Own, Load, Validate, Inspect, Do, At
<1>3. CASE w = "restore"
  BY <1>3, RestoreTable DEF Advance, Activity, Report, ActivityError, RestoreActivities,
     PreRestoreSnapshot, RestoreData, RestoreRollback, Snapshot, Load, Validate, Do, At
<1>4. CASE w = "delete"
  BY <1>4, DeleteTable DEF Advance, Activity, Report, ActivityError, DeleteActivities,
     BackupTenantData, Snapshot, Drop, Create, Own, Load, Validate, Inspect, Do, At,
     MarkTenantDeleting, RestoreTenantAfterCancel, MarkTenantDeleted, UpdateTenantStatusFrom,
     DeprovisionTenant
<1>5. CASE w = "reconcile"
  BY <1>5, ReconcileTable DEF Advance, Activity, Report, ActivityError, ReconcileActivities,
     BackupTenantData, Snapshot, Drop, Create, Own, Load, Validate, Inspect, Do, At,
     ResolveTenantSpec, ProbeTenantActualState, NoVerifiedBackup, RestoreTenantFromBackup,
     EnsureTenantDatabase
<1>6. QED
  BY <1>1, <1>2, <1>3, <1>4, <1>5, SagaNames

LEMMA AdvanceStep ==
  ASSUME DataInv, NEW w \in Sagas, Advance(w)
  PROVE  SagaStep(w) /\ w \in scenario.sagas /\ (w \in asked => w = "delete")
<1>1. w \in scenario.sagas /\ (w \in asked => w = "delete")
  BY AdvanceExecutes, OpenSagas
<1>2. SagaStep(w)
  <2>1. CASE Report(w)
    BY <2>1, ReportStep
  <2>2. CASE ActivityError(w)
    BY <2>2, ErrorStep
  <2>3. CASE Activity(w)
    BY <2>3, MigrateSteps, BackupSteps, RestoreSteps, DeleteSteps, ReconcileSteps DEF Activity
  <2> QED BY <2>1, <2>2, <2>3 DEF Advance
<1>3. QED
  BY <1>1, <1>2

-----------------------------------------------------------------------------
(* The handlers and the world.                                             *)

LEMMA ScenarioTypes ==
  ASSUME scenario \in Scenarios
  PROVE  /\ scenario.sagas \subseteq Sagas /\ scenario.initial \subseteq {"empty", "v1"}
         /\ scenario.sameSecond \in BOOLEAN /\ scenario.maxDrifts \in Nat
BY DataSagasAssumption

\* A request: the saga that it is for is where the handler found it.
LEMMA AskStep ==
  ASSUME DataInv, NEW w, Ask(w), chosen' \in 0 .. Len(files),
         \/ w \in {"migrate", "backup", "restore"} /\ act[w] = "none" /\ w \in scenario.sagas
         \/ w \in {"delete", "resume"} /\ "delete" \in scenario.sagas
  PROVE  DataInv'
<1>1. /\ asked' = asked \cup {w}
      /\ UNCHANGED <<cluster, files, backups, act, step, attempt, snap, spec, drifts, status,
                     written, dlq, scenario, disturbed, drifted, reconciles>>
  BY DEF Ask, artifacts, control, tenant, world
<1>2. ControlInv' /\ FilesInv' /\ RowsInv' /\ ReadsInv'
  BY <1>1 DEF DataInv, ControlInv, FilesInv, RowsInv, ReadsInv
<1>3. ClusterInv'
  BY <1>1, SameCluster DEF DataInv
<1>4. SnapInv'
  BY <1>1 DEF DataInv, SnapInv, Carries, At
<1>5. WorldInv'
  <2>1. disturbed' \in BOOLEAN
    BY <1>1, Zenon DEF DataInv, WorldInv
  <2> QED BY <1>1, <2>1 DEF DataInv, WorldInv
<1>6. IdleInv'
  BY <1>1 DEF DataInv, IdleInv
<1>7. QED
  BY <1>2, <1>3, <1>4, <1>5, <1>6 DEF DataInv

LEMMA HandlerSteps ==
  ASSUME DataInv,
         MigrateTenant \/ BackupTenant \/ RestoreTenant \/ DeleteTenant \/ RetryTenant
  PROVE  DataInv'
<1>1. chosen \in 0 .. Len(files) /\ (status # "active" => "delete" \in scenario.sagas)
  BY DEF DataInv, ReadsInv, IdleInv
<1>2. CASE MigrateTenant
  BY <1>1, <1>2, AskStep DEF MigrateTenant, AskOnce
<1>3. CASE BackupTenant
  BY <1>1, <1>3, AskStep DEF BackupTenant, AskOnce
<1>4. CASE RestoreTenant
  <2>1. chosen' \in 0 .. Len(files)
    BY <1>4, FileTypes DEF RestoreTenant, DataInv
  <2> QED BY <1>4, <2>1, AskStep DEF RestoreTenant, AskOnce
<1>5. CASE DeleteTenant
  BY <1>1, <1>5, AskStep DEF DeleteTenant
<1>6. CASE RetryTenant
  BY <1>1, <1>6, AskStep DEF RetryTenant
<1>7. QED
  BY <1>2, <1>3, <1>4, <1>5, <1>6

\* A workflow that starts, by a request or by the sweep, or again for a deletion
\* that failed, and the end of the grace period.
LEMMA StartStep ==
  ASSUME DataInv, NEW w \in Sagas, NEW a, Goto(w, a),
         \/ w \in asked /\ a = First[w]
         \/ w = "reconcile" /\ a = "ResolveTenantSpec"
         \/ w = "delete" /\ a \in {"BackupTenantData", "RestoreTenantAfterCancel"}
  PROVE  Others(w) /\ ControlInv' /\ ~Carries(w)' /\ act'[w] = a /\ step'[w] = 1
<1>1. /\ a \in AllPlaces
      /\ w = "migrate" => a \in MigrateActivities
      /\ w = "backup" => a \in BackupActivities
      /\ w = "restore" => a \in RestoreActivities
      /\ w = "delete" => a \in DeleteActivities
      /\ w = "reconcile" => a \in ReconcileActivities
      /\ a \in {"MarkTenantMigrating", "MarkTenantBackingUp", "MarkTenantRestoring",
                "MarkTenantDeleting", "ResolveTenantSpec", "BackupTenantData",
                "RestoreTenantAfterCancel"}
  BY SagaNames DEF First, AllPlaces, MigrateActivities, BackupActivities, RestoreActivities,
     DeleteActivities, ReconcileActivities
<1>2. /\ act'[w] = a /\ step'[w] = 1 /\ Others(w)
      /\ step' \in [Sagas -> 1 .. 11] /\ attempt' \in [Sagas -> 1 .. MaximumAttempts]
      /\ act' \in [Sagas -> AllPlaces]
  BY <1>1, Gotos DEF DataInv
<1>3. ControlInv'
  BY <1>1, <1>2, SagaNames DEF DataInv, ControlInv, Others
<1>4. ~Carries(w)'
  BY <1>1, <1>2 DEF Carries, At
<1>5. QED
  BY <1>2, <1>3, <1>4

\* The answer to a request: saga w starts, or its start is refused.
LEMMA AnswerStep ==
  ASSUME DataInv, NEW w \in Sagas, w \in scenario.sagas, Others(w), ControlInv',
         Carries(w)' => Carries(w),
         asked' \subseteq asked, w \notin asked' \/ w = "delete",
         UNCHANGED <<cluster, artifacts, reads, tenant, world>>
  PROVE  DataInv'
<1>1. UNCHANGED <<cluster, files, backups, snap, chosen, spec, drifts, status,
                  written, dlq, scenario, disturbed, drifted, reconciles>>
  BY DEF artifacts, reads, tenant, world
<1>2. FilesInv' /\ RowsInv' /\ ReadsInv' /\ ClusterInv'
  BY <1>1, SameCluster DEF DataInv, FilesInv, RowsInv, ReadsInv
<1>3. SnapInv'
  <2> SUFFICES ASSUME NEW v \in Sagas, Carries(v)' PROVE snap[v] # 0
    BY <1>1 DEF DataInv, SnapInv
  <2>1. CASE v = w
    BY <2>1 DEF DataInv, SnapInv
  <2>2. CASE v # w
    <3>1. act'[v] = act[v] /\ step'[v] = step[v]
      BY <2>2 DEF Others
    <3> QED BY <3>1 DEF DataInv, SnapInv, Carries, At
  <2> QED BY <2>1, <2>2
<1>4. WorldInv'
  <2>1. disturbed' \in BOOLEAN
    BY <1>1, Zenon DEF DataInv, WorldInv
  <2> QED BY <1>1, <2>1 DEF DataInv, WorldInv
<1>5. IdleInv'
  <2>1. /\ asked \subseteq (scenario.sagas \ {"reconcile"}) \cup {"resume"}
        /\ "resume" \in asked \/ status # "active" => "delete" \in scenario.sagas
        /\ \A v \in Sagas \ scenario.sagas : act[v] = "none"
        /\ \A v \in asked \ {"delete", "resume"} : act[v] = "none"
        /\ \A v \in Sagas \ {w} : act'[v] = act[v]
        /\ scenario.sagas \subseteq Sagas
    BY ScenarioTypes DEF DataInv, IdleInv, Others, WorldInv
  <2>2. \A v \in asked' \ {"delete", "resume"} : v \in Sagas \ {w} /\ act'[v] = act[v]
    BY <2>1
  <2> QED BY <1>1, <2>1, <2>2 DEF IdleInv
<1>6. QED
  BY <1>2, <1>3, <1>4, <1>5 DEF DataInv

LEMMA ExecuteStep ==
  ASSUME DataInv, NEW w \in Sagas, ExecuteWorkflow(w)
  PROVE  DataInv'
<1>1. /\ w \in asked /\ asked' = asked \ {w}
      /\ Goto(w, First[w]) \/ UNCHANGED control
      /\ UNCHANGED <<cluster, artifacts, reads, tenant, world>>
  BY DEF ExecuteWorkflow
<1>2. Others(w) /\ ControlInv' /\ (Carries(w)' => Carries(w))
  <2>1. CASE Goto(w, First[w])
    BY <1>1, <2>1, StartStep
  <2>2. CASE UNCHANGED control
    <3>1. UNCHANGED <<act, step, attempt>>
      BY <2>2 DEF control
    <3>2. snap' = snap
      BY <1>1 DEF reads
    <3> QED BY <3>1 DEF DataInv, ControlInv, Others, Carries, At
  <2> QED BY <1>1, <2>1, <2>2
<1>3. w \in scenario.sagas
  BY <1>1, SagaNames DEF DataInv, IdleInv
<1>4. QED
  BY <1>1, <1>2, <1>3, AnswerStep

LEMMA ResumeStep ==
  ASSUME DataInv, resumeDelete
  PROVE  DataInv'
<1> "delete" \in Sagas
  BY SagaNames
<1>1. /\ "resume" \in asked /\ asked' = asked \ {"resume"}
      /\ Goto("delete", "BackupTenantData") \/ UNCHANGED control
      /\ UNCHANGED <<cluster, artifacts, reads, tenant, world>>
  BY DEF resumeDelete
<1>2. Others("delete") /\ ControlInv' /\ (Carries("delete")' => Carries("delete"))
  <2>1. CASE Goto("delete", "BackupTenantData")
    BY <2>1, StartStep
  <2>2. CASE UNCHANGED control
    BY <2>2 DEF control, DataInv, ControlInv, Others, Carries, At
  <2> QED BY <1>1, <2>1, <2>2
<1>3. "delete" \in scenario.sagas
  BY <1>1 DEF DataInv, IdleInv
<1>4. QED
  BY <1>1, <1>2, <1>3, AnswerStep

\* The end of the grace period.
LEMMA GraceStep ==
  ASSUME DataInv, GraceEnds
  PROVE  DataInv'
<1> "delete" \in Sagas
  BY SagaNames
<1>1. PICK a \in {"BackupTenantData", "RestoreTenantAfterCancel"} : Goto("delete", a)
  BY DEF GraceEnds
<1>2. UNCHANGED <<cluster, artifacts, reads, tenant, asked, world>>
  BY DEF GraceEnds
<1>3. "delete" \in scenario.sagas
  BY OpenSagas DEF GraceEnds
<1>4. Others("delete") /\ ControlInv' /\ ~Carries("delete")'
  BY <1>1, StartStep
<1>5. SagaStep("delete")
  BY <1>2, <1>4, ControlStep
<1>6. QED
  BY <1>3, <1>5, SagaStepTypes

LEMMA ReconcileStarts ==
  ASSUME DataInv, ReconcileTenant
  PROVE  DataInv'
<1> "reconcile" \in Sagas
  BY SagaNames
<1>1. /\ "reconcile" \in scenario.sagas /\ reconciles < MaxReconciles
      /\ reconciles' = reconciles + 1 /\ disturbed' = FALSE
      /\ Goto("reconcile", "ResolveTenantSpec")
      /\ UNCHANGED <<cluster, files, backups, snap, chosen, spec, drifts, status,
                     written, dlq, asked, scenario, drifted>>
  BY DEF ReconcileTenant, First, artifacts, reads, tenant
<1>2. Others("reconcile") /\ ControlInv' /\ ~Carries("reconcile")'
  BY <1>1, StartStep
<1>3. FilesInv' /\ RowsInv' /\ ReadsInv' /\ ClusterInv'
  BY <1>1, SameCluster DEF DataInv, FilesInv, RowsInv, ReadsInv
<1>4. SnapInv'
  <2> SUFFICES ASSUME NEW v \in Sagas, Carries(v)' PROVE snap[v] # 0
    BY <1>1 DEF DataInv, SnapInv
  <2>1. v # "reconcile" /\ act'[v] = act[v] /\ step'[v] = step[v]
    BY <1>2 DEF Others
  <2> QED BY <2>1 DEF DataInv, SnapInv, Carries, At
<1>5. WorldInv'
  <2>1. disturbed' \in BOOLEAN
    BY <1>1, Zenon
  <2> QED BY <1>1, <2>1, DataSagasAssumption DEF DataInv, WorldInv
<1>6. IdleInv'
  <2>1. scenario.sagas \subseteq Sagas
    BY ScenarioTypes DEF DataInv, WorldInv
  <2> QED BY <1>1, <1>2, <2>1, SagaNames DEF DataInv, IdleInv, Others
<1>7. QED
  BY <1>2, <1>3, <1>4, <1>5, <1>6 DEF DataInv

\* Writes of the tenant and changes made by others.
LEMMA WorldSteps ==
  ASSUME DataInv, TenantWrites \/ ExternalDrift
  PROVE  DataInv'
<1>1. UNCHANGED <<files, backups, act, step, attempt, snap, chosen, spec, drifts, status,
                  dlq, asked, scenario, reconciles>>
  BY DEF TenantWrites, ExternalDrift, artifacts, control, reads, tenant, world
<1>2. ControlInv' /\ FilesInv' /\ RowsInv' /\ ReadsInv' /\ IdleInv'
  BY <1>1 DEF DataInv, ControlInv, FilesInv, RowsInv, ReadsInv, IdleInv
<1>3. SnapInv'
  BY <1>1 DEF DataInv, SnapInv, Carries, At
<1>4. ClusterInv' /\ WorldInv'
  <2>1. CASE TenantWrites
    <3>1. role' = role /\ owned' = owned /\ disturbed' = disturbed /\ drifted' = drifted
      BY <2>1 DEF TenantWrites, world
    <3>2. disturbed' \in BOOLEAN /\ role' \in BOOLEAN /\ (owned' # {} => role')
      BY <3>1, Zenon DEF DataInv, ClusterInv, WorldInv
    <3>3. written' \in Data /\ content["live"] = written
          /\ content' = [content EXCEPT !["live"] = written']
      BY <2>1 DEF TenantWrites, DataInv, WorldInv, Data
    <3>4. ClusterInv'
      BY <3>1, <3>2, <3>3 DEF DataInv, ClusterInv, DatabaseNames, Contents, Exists, Data
    <3> QED BY <1>1, <3>1, <3>2, <3>3, <3>4 DEF DataInv, WorldInv
  <2>2. CASE ExternalDrift
    <3>1. /\ drifted < scenario.maxDrifts /\ drifted' = drifted + 1 /\ disturbed' = TRUE
          /\ written' = written
      BY <2>2 DEF ExternalDrift, tenant
    <3>2. disturbed' \in BOOLEAN
      BY <3>1, Zenon
    <3>3. WorldInv'
      BY <1>1, <3>1, <3>2, ScenarioTypes DEF DataInv, WorldInv
    <3>4. CASE DropDatabaseNamed("live")
      BY <3>3, <3>4, Drops DEF DataInv, DatabaseNames
    <3>5. CASE DropTenantRole
      BY <3>3, <3>5, RoleDrops DEF DataInv
    <3>6. CASE owned' = owned \ {"live"} /\ UNCHANGED <<content, role>>
      <4>1. role' \in BOOLEAN /\ (owned' # {} => role')
        BY <3>6, Zenon DEF DataInv, ClusterInv
      <4> QED BY <3>3, <3>6, <4>1 DEF DataInv, ClusterInv, Exists
    <3> QED BY <2>2, <3>4, <3>5, <3>6 DEF ExternalDrift
  <2> QED BY <2>1, <2>2
<1>5. QED
  BY <1>2, <1>3, <1>4 DEF DataInv

LEMMA SameData == ASSUME DataInv, UNCHANGED vars PROVE DataInv'
<1>1. UNCHANGED <<cluster, files, backups, act, step, attempt, snap, chosen, spec, drifts,
                  status, written, dlq, asked, scenario, disturbed, drifted, reconciles>>
  BY DEF vars, artifacts, control, reads, tenant, world
<1>2. ControlInv' /\ FilesInv' /\ RowsInv' /\ ReadsInv' /\ IdleInv' /\ ClusterInv'
  BY <1>1, SameCluster DEF DataInv, ControlInv, FilesInv, RowsInv, ReadsInv, IdleInv
<1>3. SnapInv'
  BY <1>1 DEF DataInv, SnapInv, Carries, At
<1>4. WorldInv'
  <2>1. disturbed' \in BOOLEAN
    BY <1>1, Zenon DEF DataInv, WorldInv
  <2> QED BY <1>1, <2>1 DEF DataInv, WorldInv
<1>5. QED
  BY <1>2, <1>3, <1>4 DEF DataInv

LEMMA DataNext == DataInv /\ [Next]_vars => DataInv'
<1> SUFFICES ASSUME DataInv, [Next]_vars PROVE DataInv'
  OBVIOUS
<1>1. CASE \E w \in Sagas : Advance(w)
  BY <1>1, AdvanceStep, SagaStepTypes
<1>2. CASE \E w \in Sagas : ExecuteWorkflow(w)
  BY <1>2, ExecuteStep
<1>3. CASE GraceEnds \/ resumeDelete
  BY <1>3, GraceStep, ResumeStep
<1>4. CASE MigrateTenant \/ BackupTenant \/ RestoreTenant \/ DeleteTenant \/ RetryTenant
  BY <1>4, HandlerSteps
<1>5. CASE ReconcileTenant
  BY <1>5, ReconcileStarts
<1>6. CASE TenantWrites \/ ExternalDrift
  BY <1>6, WorldSteps
<1>7. CASE UNCHANGED vars
  BY <1>7, SameData
<1>8. QED
  BY <1>1, <1>2, <1>3, <1>4, <1>5, <1>6, <1>7 DEF Next

LEMMA DataInit == Init => DataInv
<1> SUFFICES ASSUME Init PROVE DataInv
  OBVIOUS
<1>1. role = TRUE /\ disturbed = FALSE
  BY DEF Init
<1>2. role \in BOOLEAN /\ role /\ disturbed \in BOOLEAN
  BY <1>1, Zenon
<1>3. written \in {"empty", "v1"} /\ scenario.maxDrifts \in Nat
  BY ScenarioTypes DEF Init
<1>4. ControlInv
  BY AttemptsAssumption, SagaNames DEF Init, NoRuns, ControlInv, AllPlaces, Closed
<1>5. ClusterInv
  BY <1>2, <1>3 DEF Init, ClusterInv, Contents, Data, DatabaseNames, Exists
<1>6. FilesInv /\ RowsInv
  <2>1. CASE files = <<>> /\ backups = <<>>
    BY <2>1, DumpsAssumption DEF FilesInv, RowsInv
  <2>2. CASE files = <<written>> /\ backups = <<[file |-> 1, status |-> "completed"]>>
    BY <1>3, <2>2, DumpsAssumption DEF FilesInv, RowsInv, Contents, Data, BackupStatuses
  <2> QED BY <2>1, <2>2 DEF Init
<1>7. SnapInv /\ ReadsInv
  BY <1>6, FileTypes DEF Init, NoRuns, SnapInv, ReadsInv, Carries, At
<1>8. WorldInv
  BY <1>2, <1>3, DataSagasAssumption DEF Init, WorldInv, Data
<1>9. IdleInv
  BY DEF Init, NoRuns, IdleInv
<1>10. QED
  BY <1>4, <1>5, <1>6, <1>7, <1>8, <1>9 DEF DataInv

LEMMA DataInvariant == Spec => []DataInv
BY DataInit, DataNext, PTL DEF Spec

\* Whichever of the sagas run together, every variable keeps its type: every row is
\* about a dump that exists, nothing is loaded from a dump that was not taken, and
\* no saga comes to an activity that is not its own.
THEOREM DataTypes == Spec => []DataTypeOK
<1>1. DataInv => DataTypeOK
  <2> SUFFICES ASSUME DataInv PROVE DataTypeOK
    OBVIOUS
  <2>1. DatabasesOK
    <3>1. backups \in Seq([file : 1 .. MaxDumps, status : BackupStatuses])
      <4> DEFINE S == [file : 1 .. Len(files), status : BackupStatuses]
                 T == [file : 1 .. MaxDumps, status : BackupStatuses]
      <4>1. S \subseteq T
        BY FileTypes, DumpsAssumption DEF DataInv, FilesInv
      <4>2. backups \in Seq(S)
        BY DEF DataInv, RowsInv
      <4> HIDE DEF S, T
      <4>3. backups \in Seq(T)
        BY <4>1, <4>2, SeqMonotonic
      <4> QED BY <4>3 DEF T
    <3>2. role \in BOOLEAN /\ (owned # {} => role)
      BY Zenon DEF DataInv, ClusterInv
    <3> QED BY <3>1, <3>2 DEF DataInv, ClusterInv, FilesInv, DatabasesOK
  <2>2. ASSUME NEW w \in Sagas
        PROVE  Executing(w) \/ act[w] \in {"none", "grace", "completed", "failed", "converged",
                                           "skipped"}
    BY <2>2, SagaNames, MigrateTable, BackupTable, RestoreTable, DeleteTable, ReconcileTable
       DEF DataInv, ControlInv, Executing, Closed
  <2>3. ASSUME NEW w \in Sagas
        PROVE  /\ step[w] \in 1 .. 11 /\ attempt[w] \in 1 .. MaximumAttempts
               /\ snap[w] \in 0 .. Len(files)
    BY <2>3 DEF DataInv, ControlInv, SnapInv
  <2>4. disturbed \in BOOLEAN
    BY Zenon DEF DataInv, WorldInv
  <2> QED BY <2>1, <2>2, <2>3, <2>4 DEF DataInv, ReadsInv, WorldInv, IdleInv, DataTypeOK
<1>2. QED
  BY <1>1, DataInvariant, PTL

-----------------------------------------------------------------------------
(* What holds where, beyond types.                                         *)

\* Saga w runs with no other one than a backup, nobody else changes the cluster, and
\* no two dumps are taken in one second.
RunsAlone(w) ==
  \A s \in Scenarios :
    w \in s.sagas => s.sagas \subseteq {w, "backup"} /\ ~s.sameSecond /\ s.maxDrifts = 0

\* The places at which saga w has a dump of its own that is not a backup yet.
Backing(w) == act[w] = "BackupTenantData" /\ step[w] \in 3 .. 10

\* A dump that is being made a backup has no completed row, and nobody else's row.
BackingInv ==
  ~scenario.sameSecond =>
    \A w \in Sagas : Backing(w) =>
      /\ \A i \in DOMAIN backups : backups[i].file = snap[w] => backups[i].status # "completed"
      /\ \A v \in Sagas \ {w} : Backing(v) => snap[v] # snap[w]

\* What the migrate saga knows: until the switch the tenant is served from its live
\* database; then either _new is a whole copy or it has become the live database.
Copied == content["new"] = files[snap["migrate"]] /\ "new" \in owned
Switched ==
  /\ ~Exists("new")
  /\ content["live"] \in {written, files[snap["migrate"]]} /\ "live" \in owned

MigrateInv ==
  LET a == act["migrate"]
      k == step["migrate"]
  IN  /\ a \in {"none", "MarkTenantMigrating", "MigrateData"} =>
           content["live"] = written /\ "live" \in owned
      /\ a = "MigrateData" /\ k \in {4, 5} => content["new"] = "empty"
      /\ a = "MigrateData" /\ k = 5 => "new" \in owned
      /\ a = "MigrateData" /\ k \in {6, 7} => Copied
      /\ a = "SwitchTraffic" => k <= 4
      /\ a = "SwitchTraffic" /\ k = 1 => Copied \/ Switched
      /\ a = "SwitchTraffic" /\ k \in {2, 3} => Copied
      /\ a = "SwitchTraffic" /\ k = 3 => ~Exists("live")
      /\ a = "SwitchTraffic" /\ k = 4 => Switched
      /\ a \in {"MarkTenantMigrated", "completed"} => Switched

\* What the delete saga knows: what it is about to drop of a tenant that is deleting
\* has a completed backup.  Of a tenant that is active again, the saga of a stale
\* resume knows nothing, because the tenant may write after the dump.
BackedUp == \E i \in Completed : files[backups[i].file] = content["live"]

DeleteInv ==
  LET a == act["delete"]
      k == step["delete"]
  IN  /\ status = "deleting" =>
           /\ Backing("delete") => Exists("live") /\ files[snap["delete"]] = content["live"]
           /\ a = "DeprovisionTenant" \/ (a = "BackupTenantData" /\ k = 11) =>
                ~Exists("live") \/ BackedUp
      /\ Backing("delete") /\ k >= 4 =>
           \E i \in DOMAIN backups : backups[i].file = snap["delete"]
      /\ \/ a = "DeprovisionTenant" /\ k >= 2
         \/ a \in {"DeleteTenantIdentityByTenant", "MarkTenantDeleted"}
         \/ status = "deleted"
         => ~Exists("live")

\* What the restore saga knows: the backup that was asked for is whole, and a live
\* database that is not can only be loaded by a dump that does not load into it.
RestoreInv ==
  LET a == act["restore"]
      k == step["restore"]
  IN  /\ a \in {"none", "MarkTenantRestoring", "PreRestoreSnapshot"} =>
           /\ content["live"] # "partial"
           /\ \A f \in 1 .. Len(files) : files[f] # "partial"
      /\ chosen # 0 => files[chosen] # "partial"
      /\ a = "RestoreData" /\ k = 1 /\ content["live"] = "partial" =>
           chosen # 0 /\ files[chosen] # "empty"
      /\ a = "RestoreData" /\ k > 1 => content["live"] # "partial"
      /\ a \in {"MarkTenantRestored", "completed"} => content["live"] # "partial"

\* What the reconcile saga knows: what its probe did not find wrong is right, unless
\* somebody changed it since, and a missing database stays missing until it is
\* restored.
Probing(k) ==
  act["reconcile"] \in {"ProbeTenantActualState", "Reprobe"} /\ step["reconcile"] >= k
Converging == act["reconcile"] \in {"MarkReconcileConverged", "converged"}

ProbeInv ==
  /\ ~disturbed =>
       /\ (Probing(2) /\ drifts = {}) \/ Converging => Exists("live") /\ "live" \in owned
       /\ (Probing(3) /\ drifts = {}) \/ Converging => role
       /\ (Probing(4) /\ drifts = {}) \/ Converging => Completed # {}
  /\ \/ /\ Probing(2) \/ act["reconcile"] = "RecordReconcileDrift"
        /\ "missing_database" \in drifts
     \/ /\ act["reconcile"] = "RestoreTenantFromBackup"
        /\ attempt["reconcile"] = 1 /\ step["reconcile"] <= 2
     => ~Exists("live")

\* And, unless somebody changed the cluster during the run: a database that was found
\* missing holds, once it is restored, what the dump holds that the saga names, or what
\* the tenant has written since.
Loaded ==
  snap["reconcile"] # 0 /\ content["live"] \in {files[snap["reconcile"]], written}

Repairs ==
  LET a == act["reconcile"]
      k == step["reconcile"]
  IN  /\ \/ a = "ProbeTenantActualState" /\ k >= 2
         \/ a = "RecordReconcileDrift"
         => "missing_database" \in drifts \/ Exists("live")
      /\ a = "RestoreTenantFromBackup" /\ k \in {4, 5} => content["live"] \in {"empty", written}
      /\ a = "RestoreTenantFromBackup" /\ k >= 6 => Loaded
      /\ a \in {"EnsureTenantDatabase", "BackupTenantData", "Reprobe"} =>
           Exists("live") /\ ("missing_database" \in drifts => Loaded)

RepairInv == ~disturbed => Repairs

-----------------------------------------------------------------------------
(* A completed backup stays one.                                           *)

LEMMA SameFiles == ASSUME DataInv, files' = files PROVE FilesKept
BY FileTypes DEF DataInv, FilesKept

\* An activity other than BackupTenantData leaves the rows alone.
LEMMA OtherActivities ==
  ASSUME DataInv, NEW w \in Sagas, Activity(w), ~BackupTenantData(w)
  PROVE  /\ act[w] # "BackupTenantData" /\ act'[w] # "BackupTenantData"
         /\ backups' = backups /\ FilesKept
<1> ControlInv
  BY DEF DataInv
<1>1. CASE \/ Snapshot("migrate", "MigrateData", 1) /\ w = "migrate"
           \/ PreRestoreSnapshot /\ w = "restore"
  <2>1. PICK a \in {"MigrateData", "PreRestoreSnapshot"} : Snapshot(w, a, 1)
    BY <1>1 DEF PreRestoreSnapshot
  <2>2. Do(w, a, 1) /\ backups' = backups /\ FilesKept
    BY <2>1, Snapshots, Numbers
  <2> QED BY <2>1, <2>2, Dos, Numbers
<1>2. CASE \/ /\ w = "migrate" /\ ~Snapshot("migrate", "MigrateData", 1)
              /\ MigrateData \/ SwitchTraffic \/ DropTenantAuxDatabase
           \/ w = "restore" /\ (RestoreData \/ RestoreRollback)
           \/ w = "delete" /\ DeprovisionTenant
  <2>1. /\ act[w] \in {"MigrateData", "SwitchTraffic", "DropTenantAuxDatabase", "RestoreData",
                       "RestoreRollback", "DeprovisionTenant"}
        /\ act' = act /\ backups' = backups /\ files' = files
    BY <1>2 DEF MigrateData, SwitchTraffic, DropTenantAuxDatabase, RestoreData,
       RestoreRollback, DeprovisionTenant, Drop, Create, Own, Load, Validate, Rename, Inspect,
       Do, At, Then, artifacts
  <2> QED BY <2>1, SameFiles
<1>3. CASE w = "delete" /\ (MarkTenantDeleting \/ RestoreTenantAfterCancel \/ MarkTenantDeleted)
  <2>1. /\ act[w] \in {"MarkTenantDeleting", "RestoreTenantAfterCancel", "MarkTenantDeleted"}
        /\ act' = act \/ Goto(w, DeleteTenantWorkflow.onFailure[act[w]])
        /\ backups' = backups /\ files' = files
    BY <1>3 DEF MarkTenantDeleting, RestoreTenantAfterCancel, MarkTenantDeleted,
       UpdateTenantStatusFrom, At, Then, artifacts
  <2>2. DeleteTenantWorkflow.onFailure[act[w]] = "MarkTenantDeleteFailed"
    BY <2>1, DeleteTable DEF DeleteActivities
  <2>3. act' = act \/ act'[w] = "MarkTenantDeleteFailed"
    BY <2>1, <2>2, Gotos
  <2> QED BY <2>1, <2>3, SameFiles
<1>4. CASE /\ w = "reconcile"
           /\ \/ ResolveTenantSpec
              \/ \E a \in {"ProbeTenantActualState", "Reprobe"} : ProbeTenantActualState(a)
              \/ RestoreTenantFromBackup \/ EnsureTenantDatabase
  <2>1. /\ act[w] \in {"ResolveTenantSpec", "ProbeTenantActualState", "Reprobe",
                       "RestoreTenantFromBackup", "EnsureTenantDatabase"}
        /\ act' = act /\ backups' = backups /\ files' = files
    BY <1>4 DEF ResolveTenantSpec, ProbeTenantActualState, RestoreTenantFromBackup,
       EnsureTenantDatabase, Drop, Create, Own, Load, Validate, Inspect, Do, At, Then, artifacts
  <2> QED BY <2>1, SameFiles
<1>5. CASE w = "reconcile" /\ NoVerifiedBackup
  <2>1. /\ act[w] = "RestoreTenantFromBackup" /\ Goto(w, "MarkReconcileUnrecoverable")
        /\ backups' = backups /\ files' = files
    BY <1>5 DEF NoVerifiedBackup, At, artifacts
  <2> QED BY <2>1, Gotos, SameFiles
<1>6. QED
  BY <1>1, <1>2, <1>3, <1>4, <1>5 DEF Activity

\* What a step of saga w does to the rows, and where it leaves a dump that is being
\* made a backup.
LEMMA RowChanges ==
  ASSUME DataInv, NEW w \in Sagas, Advance(w)
  PROVE  /\ FilesKept
         /\ \/ backups' = backups
            \/ Backing(w) /\ CreateBackup(snap[w])
            \/ Backing(w) /\ ~Backing(w)' /\ backups' = Marked(snap[w], "completed")
            \/ Backing(w) /\ backups' = Marked(snap[w], "failed")
         /\ Backing(w)' => \/ Backing(w) /\ snap'[w] = snap[w]
                           \/ /\ snap'[w] \in 1 .. Len(files') /\ backups' = backups
                              /\ ~scenario.sameSecond => snap'[w] = Len(files) + 1
<1> ControlInv
  BY DEF DataInv
<1>1. CASE Report(w)
  <2>1. backups' = backups /\ files' = files /\ Goto(w, Saga(w).onSuccess[act[w]])
    BY <1>1 DEF Report, artifacts
  <2>2. ~Backing(w)'
    BY <2>1, Gotos DEF Backing
  <2> QED BY <2>1, <2>2, SameFiles
<1>2. CASE ActivityError(w)
  <2>1. FilesKept /\ EndAttempt(w, Saga(w).onFailure[act[w]])
    BY <1>2, Errors
  <2>2. ~Backing(w)'
    BY <2>1, EndAttempts DEF Backing
  <2>3. backups' = backups \/ (Backing(w) /\ backups' = Marked(snap[w], "failed"))
    BY <1>2 DEF ActivityError, Backing
  <2> QED BY <2>1, <2>2, <2>3
<1>3. CASE BackupTenantData(w)
  <2> DEFINE a == "BackupTenantData"
  <2>1. CASE Inspect(w, a, "live", 2, 11)
    <3>1. Then(w, IF Exists("live") THEN 2 ELSE 11) /\ backups' = backups /\ files' = files
      BY <2>1 DEF Inspect, artifacts
    <3>2. step'[w] \in {2, 11}
      BY <3>1, Thens
    <3>3. ~Backing(w)'
      BY <3>2 DEF Backing
    <3> QED BY <3>1, <3>3, SameFiles
  <2>2. CASE Snapshot(w, a, 2)
    BY <2>2, Snapshots, Numbers
  <2>3. CASE \/ Drop(w, a, 4, "temp") \/ Create(w, a, 5, "temp") \/ Own(w, a, 6, "temp")
             \/ Load(w, a, 7, "temp", snap[w]) \/ Validate(w, a, 8, "temp")
             \/ Drop(w, a, 9, "temp")
    <3>1. /\ act[w] = a /\ step[w] \in 4 .. 9 /\ backups' = backups /\ files' = files
          /\ snap' = snap
      BY <2>3 DEF Drop, Create, Own, Load, Validate, Do, At, artifacts, reads
    <3> QED BY <3>1, SameFiles DEF Backing
  <2>4. CASE Do(w, a, 3) /\ CreateBackup(snap[w]) /\ UNCHANGED <<cluster, reads>>
    <3>1. Backing(w) /\ files' = files /\ snap' = snap
      BY <2>4 DEF Do, At, Backing, CreateBackup, reads
    <3> QED BY <2>4, <3>1, SameFiles
  <2>5. CASE Do(w, a, 10) /\ MarkBackupCompleted(snap[w]) /\ UNCHANGED <<cluster, reads>>
    <3>1. /\ Backing(w) /\ files' = files /\ snap' = snap
          /\ backups' = Marked(snap[w], "completed")
      BY <2>5 DEF Do, At, Backing, MarkBackupCompleted, reads
    <3>2. step'[w] = 11
      BY <2>5, Dos, Numbers
    <3>3. ~Backing(w)'
      BY <3>2 DEF Backing
    <3> QED BY <3>1, <3>3, SameFiles
  <2> QED BY <1>3, <2>1, <2>2, <2>3, <2>4, <2>5 DEF BackupTenantData
<1>4. CASE Activity(w) /\ ~BackupTenantData(w)
  BY <1>4, OtherActivities DEF Backing
<1>5. QED
  BY <1>1, <1>2, <1>3, <1>4 DEF Advance

\* Steps that no saga takes: requests, starts, and the world.
Outside ==
  \/ \E w \in Sagas : ExecuteWorkflow(w)
  \/ GraceEnds \/ MigrateTenant \/ BackupTenant \/ RestoreTenant \/ DeleteTenant
  \/ RetryTenant \/ resumeDelete \/ ReconcileTenant \/ TenantWrites \/ ExternalDrift
  \/ UNCHANGED vars

LEMMA OutsideLeaves ==
  ASSUME DataInv, Outside
  PROVE  /\ files' = files /\ backups' = backups /\ snap' = snap /\ scenario' = scenario
         /\ \A v \in Sagas : \/ act'[v] = act[v] /\ step'[v] = step[v] /\ attempt'[v] = attempt[v]
                             \/ step'[v] = 1 /\ attempt'[v] = 1
<1>1. files' = files /\ backups' = backups /\ snap' = snap /\ scenario' = scenario
  BY DEF Outside, ExecuteWorkflow, GraceEnds, MigrateTenant, BackupTenant, RestoreTenant,
     AskOnce, DeleteTenant, RetryTenant, Ask, resumeDelete, ReconcileTenant, TenantWrites,
     ExternalDrift, vars, artifacts, reads, world
<1>2. \/ UNCHANGED <<act, step, attempt>>
      \/ \E w \in Sagas : \E a \in {First[w], "BackupTenantData", "RestoreTenantAfterCancel"} :
           Goto(w, a)
  BY SagaNames DEF Outside, ExecuteWorkflow, GraceEnds, MigrateTenant, BackupTenant,
     RestoreTenant, AskOnce, DeleteTenant, RetryTenant, Ask, resumeDelete, ReconcileTenant,
     TenantWrites, ExternalDrift, vars, control
<1>3. ASSUME NEW w \in Sagas, NEW a, Goto(w, a), NEW v \in Sagas
      PROVE  \/ act'[v] = act[v] /\ step'[v] = step[v] /\ attempt'[v] = attempt[v]
             \/ step'[v] = 1 /\ attempt'[v] = 1
  BY <1>3, Gotos DEF Others, DataInv
<1>4. QED
  BY <1>1, <1>2, <1>3

LEMMA NextSplits == ASSUME [Next]_vars PROVE Outside \/ \E w \in Sagas : Advance(w)
BY DEF Next, Outside

LEMMA BackingNext ==
  ASSUME DataInv, BackingInv, [Next]_vars
  PROVE  BackingInv'
<1> SUFFICES ASSUME ~scenario'.sameSecond, NEW w \in Sagas, Backing(w)'
             PROVE  /\ \A i \in DOMAIN backups' :
                         backups'[i].file = snap'[w] => backups'[i].status # "completed"
                    /\ \A v \in Sagas \ {w} : Backing(v)' => snap'[v] # snap'[w]
  BY DEF BackingInv
<1>1. CASE Outside
  <2>1. /\ files' = files /\ backups' = backups /\ snap' = snap /\ scenario' = scenario
        /\ \A v \in Sagas : Backing(v)' => Backing(v)
    BY <1>1, OutsideLeaves DEF Backing
  <2> QED BY <2>1 DEF BackingInv
<1>2. ASSUME NEW u \in Sagas, Advance(u)
      PROVE  /\ \A i \in DOMAIN backups' :
                  backups'[i].file = snap'[w] => backups'[i].status # "completed"
             /\ \A v \in Sagas \ {w} : Backing(v)' => snap'[v] # snap'[w]
  <2>1. /\ SagaStep(u) /\ scenario' = scenario
        /\ \A v \in Sagas \ {u} : snap'[v] = snap[v] /\ (Backing(v)' => Backing(v))
    BY <1>2, AdvanceStep DEF SagaStep, Others, Backing
  <2>2. \A v \in Sagas : snap[v] \in 0 .. Len(files)
    BY DEF DataInv, SnapInv
  <2>3. /\ Len(files) \in Nat /\ FilesInv /\ RowsInv
        /\ \A i \in DOMAIN backups : backups[i].file \in 1 .. Len(files)
    BY FileTypes DEF DataInv
  <2>4. /\ \/ backups' = backups
           \/ Backing(u) /\ CreateBackup(snap[u])
           \/ Backing(u) /\ ~Backing(u)' /\ backups' = Marked(snap[u], "completed")
           \/ Backing(u) /\ backups' = Marked(snap[u], "failed")
        /\ Backing(u)' => \/ Backing(u) /\ snap'[u] = snap[u]
                          \/ snap'[u] = Len(files) + 1 /\ backups' = backups
    BY <1>2, <2>1, RowChanges
  <2>5. \A v \in Sagas \ {w} : Backing(v)' => snap'[v] # snap'[w]
    BY <2>1, <2>2, <2>3, <2>4 DEF BackingInv
  <2>6. ASSUME NEW i \in DOMAIN backups', backups'[i].file = snap'[w]
        PROVE  backups'[i].status # "completed"
    <3>1. CASE snap'[w] = Len(files) + 1 /\ backups' = backups
      BY <2>3, <2>6, <3>1
    <3>2. CASE Backing(w) /\ snap'[w] = snap[w]
      <4>1. \A j \in DOMAIN backups :
              backups[j].file = snap[w] => backups[j].status # "completed"
        BY <2>1, <3>2 DEF BackingInv
      <4>2. CASE backups' = backups
        BY <2>6, <3>2, <4>1, <4>2
      <4>3. CASE Backing(u) /\ CreateBackup(snap[u])
        <5>1. snap[u] \in 1 .. Len(files)
          BY <2>2, <2>3, <4>3 DEF Backing, DataInv, SnapInv, Carries
        <5>2. /\ Len(backups') = Len(backups) + 1 /\ RowsInv' /\ FilesInv'
              /\ \A j \in DOMAIN backups : backups'[j] = backups[j]
              /\ backups'[Len(backups) + 1] = [file |-> snap[u], status |-> "pending"]
          BY <2>3, <4>3, <5>1, CreatedRow DEF FilesInv
        <5>3. i \in DOMAIN backups \/ i = Len(backups) + 1
          BY <2>3, <2>6, <5>2, FileTypes
        <5> QED BY <2>6, <3>2, <4>1, <5>2, <5>3
      <4>4. CASE Backing(u) /\ ~Backing(u)' /\ backups' = Marked(snap[u], "completed")
        <5>1. u # w /\ snap[u] # snap[w]
          BY <2>1, <3>2, <4>4 DEF BackingInv
        <5>2. "completed" \in BackupStatuses
          BY DEF BackupStatuses
        <5> QED BY <2>3, <2>6, <3>2, <4>1, <4>4, <5>1, <5>2, MarkedRows
      <4>5. CASE Backing(u) /\ backups' = Marked(snap[u], "failed")
        <5>1. "failed" \in BackupStatuses
          BY DEF BackupStatuses
        <5> QED BY <2>3, <2>6, <3>2, <4>1, <4>5, <5>1, MarkedRows
      <4> QED BY <2>4, <4>2, <4>3, <4>4, <4>5
    <3> QED BY <2>1, <2>4, <3>1, <3>2
  <2> QED BY <2>5, <2>6
<1>3. QED
  BY <1>1, <1>2, NextSplits

\* What is completed stays completed, and its dump stays what it is.
CompletedKept ==
  ~scenario.sameSecond =>
    \A i \in Completed : /\ i \in Completed' /\ backups'[i].file = backups[i].file
                         /\ files'[backups[i].file] = files[backups[i].file]

LEMMA CompletedStays ==
  ASSUME DataInv, BackingInv, [Next]_vars
  PROVE  CompletedKept
<1> SUFFICES ASSUME ~scenario.sameSecond, NEW i \in Completed
             PROVE  /\ i \in Completed' /\ backups'[i].file = backups[i].file
                    /\ files'[backups[i].file] = files[backups[i].file]
  BY DEF CompletedKept
<1>1. /\ i \in DOMAIN backups /\ backups[i].status = "completed"
      /\ backups[i].file \in 1 .. Len(files) /\ FilesInv /\ RowsInv
      /\ DOMAIN backups = 1 .. Len(backups) /\ Len(backups) \in Nat
  BY FileTypes DEF DataInv, Completed
<1>2. CASE Outside
  BY <1>1, <1>2, OutsideLeaves DEF Completed
<1>3. ASSUME NEW u \in Sagas, Advance(u)
      PROVE  /\ i \in Completed' /\ backups'[i].file = backups[i].file
             /\ files'[backups[i].file] = files[backups[i].file]
  <2>1. /\ files'[backups[i].file] = files[backups[i].file]
        /\ \/ backups' = backups
           \/ Backing(u) /\ CreateBackup(snap[u])
           \/ Backing(u) /\ backups' = Marked(snap[u], "completed")
           \/ Backing(u) /\ backups' = Marked(snap[u], "failed")
    BY <1>1, <1>3, RowChanges DEF FilesKept
  <2>2. CASE backups' = backups
    BY <1>1, <2>1, <2>2 DEF Completed
  <2>3. CASE Backing(u) /\ CreateBackup(snap[u])
    <3>1. snap[u] \in 1 .. Len(files)
      BY <2>3, FileTypes DEF Backing, DataInv, SnapInv, Carries
    <3>2. /\ Len(backups') = Len(backups) + 1 /\ RowsInv' /\ files' = files
          /\ \A j \in DOMAIN backups : backups'[j] = backups[j]
      BY <1>1, <2>3, <3>1, CreatedRow
    <3>3. DOMAIN backups' = 1 .. Len(backups')
      BY <1>1, <3>2, FileTypes DEF FilesInv
    <3> QED BY <1>1, <2>1, <3>2, <3>3 DEF Completed
  <2>4. CASE Backing(u) /\ backups' = Marked(snap[u], "completed")
    <3>1. "completed" \in BackupStatuses
      BY DEF BackupStatuses
    <3> QED BY <1>1, <2>1, <2>4, <3>1, MarkedRows DEF Completed
  <2>5. CASE Backing(u) /\ backups' = Marked(snap[u], "failed")
    <3>1. "failed" \in BackupStatuses /\ backups[i].file # snap[u]
      BY <1>1, <2>5 DEF BackupStatuses, BackingInv
    <3> QED BY <1>1, <2>1, <2>5, <3>1, MarkedRows DEF Completed
  <2> QED BY <2>1, <2>2, <2>3, <2>4, <2>5
<1>4. QED
  BY <1>2, <1>3, NextSplits

LEMMA BackingInit == Init => BackingInv
BY DEF Init, NoRuns, BackingInv, Backing

LEMMA BackingInvariant == Spec => []BackingInv
<1>1. DataInv /\ BackingInv /\ [Next]_vars => BackingInv'
  BY BackingNext
<1>2. QED
  BY <1>1, BackingInit, DataInvariant, PTL DEF Spec

\* A backup that was verified stays verified and its dump stays what it was, whatever
\* sagas take, restore and fail to take backups meanwhile, as long as no two dumps are
\* taken in one second: SnapshotDatabase, CreateBackup and the UPDATEs of the status
\* reach only the dump and the row of their own attempt.
THEOREM CompletedBackupsStay == Spec => [][CompletedKept]_vars
<1>1. DataInv /\ BackingInv /\ [Next]_vars => [CompletedKept]_vars
  BY CompletedStays
<1>2. QED
  BY <1>1, DataInvariant, BackingInvariant, PTL DEF Spec

-----------------------------------------------------------------------------
(* What a backup leaves alone.                                             *)

LeavesLive ==
  /\ \A n \in {"live", "new"} : content'[n] = content[n] /\ (n \in owned' <=> n \in owned)
  /\ role => role'

LEMMA BackupLeaves ==
  ASSUME DataInv, NEW w \in Sagas, BackupTenantData(w)
  PROVE  LeavesLive
<1>1. role => role'
  BY Zenon DEF BackupTenantData, Inspect, Snapshot, Drop, Create, Own, Load, Validate, cluster,
     DropDatabaseNamed, CreateDatabaseNamed, applyDatabaseOwnership, RestoreDatabaseFromBackup
<1>2. \A n \in {"live", "new"} : content'[n] = content[n] /\ (n \in owned' <=> n \in owned)
  BY DEF DataInv, ClusterInv, DatabaseNames, BackupTenantData, Inspect, Snapshot, Drop, Create,
     Own, Load, Validate, cluster, DropDatabaseNamed, CreateDatabaseNamed,
     applyDatabaseOwnership, RestoreDatabaseFromBackup
<1>3. QED
  BY <1>1, <1>2, Zenon DEF LeavesLive

LEMMA SameLive == ASSUME UNCHANGED cluster PROVE LeavesLive
<1>1. content' = content /\ owned' = owned /\ role' = role
  BY DEF cluster
<1>2. QED
  BY <1>1, Zenon DEF LeavesLive

\* An attempt that ends badly while it is not loading or cleaning up one of them.
LEMMA ErrorLeaves ==
  ASSUME DataInv, NEW w \in Sagas, ActivityError(w), Loading(w) \in {"none", "temp"},
         "new" \notin CleansUp(w)
  PROVE  LeavesLive
<1>1. role => role'
  BY Zenon DEF ActivityError
<1>2. CleansUp(w) \subseteq {"temp"}
  BY DEF CleansUp
<1>3. \A n \in {"live", "new"} : content'[n] = content[n]
  BY <1>2 DEF ActivityError, Remains, DataInv, ClusterInv, DatabaseNames
<1>4. \A n \in {"live", "new"} : n \in owned' <=> n \in owned
  BY <1>3 DEF ActivityError, DataInv, ClusterInv, Exists
<1>5. QED
  BY <1>1, <1>3, <1>4, Zenon DEF LeavesLive

LEMMA BackupSaga ==
  ASSUME DataInv, Advance("backup")
  PROVE  LeavesLive /\ UNCHANGED <<chosen, spec, drifts>>
<1> "backup" \in Sagas /\ ControlInv
  BY SagaNames DEF DataInv
<1>1. CASE Report("backup")
  BY <1>1, SameLive DEF Report, reads
<1>2. CASE ActivityError("backup")
  <2>1. act["backup"] \in BackupActivities \cup Closed
    BY DEF ControlInv
  <2>2. Loading("backup") \in {"none", "temp"} /\ "new" \notin CleansUp("backup")
    BY <2>1 DEF Loading, CleansUp, At, BackupActivities, Closed
  <2> QED BY <1>2, <2>2, ErrorLeaves DEF ActivityError, reads
<1>3. CASE BackupTenantData("backup")
  <2>1. UNCHANGED <<chosen, spec, drifts>>
    BY <1>3 DEF BackupTenantData, Inspect, Snapshot, Drop, Create, Own, Load, Validate, reads
  <2> QED BY <1>3, <2>1, BackupLeaves
<1>4. QED
  BY <1>1, <1>2, <1>3 DEF Advance, Activity

\* What happens outside the sagas when w runs alone.
Unmoved ==
  UNCHANGED <<content, owned, role, files, backups, snap, status, written, scenario>>

LEMMA OutsideAlone ==
  ASSUME DataInv, NEW w \in {"migrate", "restore", "delete"}, w \in scenario.sagas,
         RunsAlone(w), Outside
  PROVE  \/ /\ TenantWrites
            /\ UNCHANGED <<act, step, attempt, chosen>>
         \/ /\ Unmoved
            /\ \/ act'[w] = act[w] /\ step'[w] = step[w]
               \/ w \in asked /\ act'[w] = First[w] /\ step'[w] = 1
               \/ /\ w = "delete"
                  /\ \E a \in {"BackupTenantData", "RestoreTenantAfterCancel"} : Goto(w, a)
            /\ chosen' = chosen \/ RestoreTenant
<1> w \in Sagas /\ scenario \in Scenarios
  BY SagaNames DEF DataInv, WorldInv
<1>1. scenario.sagas \subseteq {w, "backup"} /\ scenario.maxDrifts = 0
  BY DEF RunsAlone
<1>2. ~ReconcileTenant /\ ~ExternalDrift
  BY <1>1 DEF ReconcileTenant, ExternalDrift, DataInv, WorldInv
<1>3. CASE TenantWrites
  BY <1>3 DEF TenantWrites, control, reads
<1>4. CASE \/ MigrateTenant \/ BackupTenant \/ RestoreTenant \/ DeleteTenant \/ RetryTenant
           \/ UNCHANGED vars
  BY <1>4 DEF MigrateTenant, BackupTenant, DeleteTenant, RestoreTenant, RetryTenant, AskOnce,
     Ask, vars, cluster, artifacts, control, reads, tenant, world, Unmoved
<1>5. CASE \E v \in Sagas : ExecuteWorkflow(v)
  <2>1. PICK v \in Sagas : ExecuteWorkflow(v)
    BY <1>5
  <2>2. /\ v \in asked /\ Unmoved /\ chosen' = chosen
        /\ Goto(v, First[v]) \/ UNCHANGED control
    BY <2>1 DEF ExecuteWorkflow, cluster, artifacts, reads, tenant, world, Unmoved
  <2>3. CASE UNCHANGED control
    BY <2>2, <2>3 DEF control
  <2>4. CASE Goto(v, First[v])
    <3>1. act'[v] = First[v] /\ step'[v] = 1 /\ Others(v)
      BY <2>4, Gotos DEF DataInv
    <3> QED BY <2>2, <3>1 DEF Others
  <2> QED BY <2>2, <2>3, <2>4
<1>6. CASE GraceEnds \/ resumeDelete
  <2>1. /\ Unmoved /\ chosen' = chosen
    BY <1>6 DEF GraceEnds, resumeDelete, cluster, artifacts, reads, tenant, world, Unmoved
  <2>2. w = "delete"
    BY <1>1, <1>6, SagaNames DEF GraceEnds, resumeDelete, DataInv, IdleInv
  <2>3. \/ UNCHANGED control
        \/ \E a \in {"BackupTenantData", "RestoreTenantAfterCancel"} : Goto("delete", a)
    BY <1>6 DEF GraceEnds, resumeDelete
  <2> QED BY <2>1, <2>2, <2>3 DEF control
<1>7. QED
  BY <1>2, <1>3, <1>4, <1>5, <1>6 DEF Outside

-----------------------------------------------------------------------------
(* Migrate.                                                                *)

\* A step that leaves the live and the _new database alone, and the saga where it is
\* or at the beginning of the activity.
LEMMA MigrateKept ==
  ASSUME DataInv, MigrateInv, LeavesLive, FilesKept, ~scenario.sameSecond,
         snap'["migrate"] = snap["migrate"], written' = written,
         act'["migrate"] = act["migrate"],
         step'["migrate"] = step["migrate"] \/ step'["migrate"] = 1
  PROVE  MigrateInv'
<1>1. Carries("migrate") => files'[snap'["migrate"]] = files[snap["migrate"]]
  BY SagaNames, FileTypes DEF DataInv, SnapInv, FilesKept
<1>2. step["migrate"] \in 1 .. 11
  BY SagaNames DEF DataInv, ControlInv
<1>3. /\ content'["live"] = content["live"] /\ content'["new"] = content["new"]
      /\ "live" \in owned' <=> "live" \in owned
      /\ "new" \in owned' <=> "new" \in owned
  BY DEF LeavesLive
<1>4. \/ act["migrate"] \in {"SwitchTraffic", "MarkTenantMigrated", "completed"}
      \/ act["migrate"] = "MigrateData" /\ step["migrate"] >= 2
      => Carries("migrate")
  BY DEF Carries
<1>5. CASE act["migrate"] = "MigrateData"
  BY <1>1, <1>2, <1>3, <1>4, <1>5 DEF MigrateInv, Copied, Switched, Exists
<1>6. CASE act["migrate"] = "SwitchTraffic"
  <2>1. step["migrate"] \in {1, 2, 3, 4} /\ (Copied \/ Switched)
    BY <1>2, <1>6 DEF MigrateInv
  <2> QED BY <1>1, <1>2, <1>3, <1>4, <1>6, <2>1 DEF MigrateInv, Copied, Switched, Exists
<1>7. CASE act["migrate"] \notin {"MigrateData", "SwitchTraffic"}
  BY <1>1, <1>2, <1>3, <1>4, <1>7 DEF MigrateInv, Copied, Switched, Exists
<1>8. QED
  BY <1>5, <1>6, <1>7

LEMMA MigrateEffects ==
  ASSUME DataInv, MigrateInv, MigrateData \/ SwitchTraffic \/ DropTenantAuxDatabase
  PROVE  MigrateInv'
<1> DEFINE m == "migrate"
<1> /\ m \in Sagas /\ ControlInv /\ ClusterInv /\ DatabaseNames = {"live", "new", "temp"}
    /\ content \in [DatabaseNames -> Contents \cup {"absent"}] /\ m # "delete"
  BY SagaNames DEF DataInv, ClusterInv, DatabaseNames
<1>1. CASE Snapshot(m, "MigrateData", 1)
  <2>1. /\ Do(m, "MigrateData", 1) /\ content' = content /\ owned' = owned
    BY <1>1, Snapshots, Numbers
  <2>2. act[m] = "MigrateData" /\ act' = act /\ step'[m] = 2 /\ written' = written
    BY <2>1, Dos, Numbers DEF Undisturbed
  <2> QED BY <2>1, <2>2 DEF MigrateInv
<1>2. CASE Drop(m, "MigrateData", 2, "new")
  <2>1. /\ act[m] = "MigrateData" /\ act' = act /\ step'[m] = 3 /\ written' = written
    BY <1>2, Dos, Numbers DEF Undisturbed, Drop
  <2> QED BY <1>2, <2>1 DEF Drop, DropDatabaseNamed, MigrateInv
<1>3. CASE Create(m, "MigrateData", 3, "new")
  <2>1. /\ act[m] = "MigrateData" /\ act' = act /\ step'[m] = 4 /\ written' = written
    BY <1>3, Dos, Numbers DEF Undisturbed, Create
  <2> QED BY <1>3, <2>1 DEF Create, CreateDatabaseNamed, MigrateInv
<1>4. CASE Own(m, "MigrateData", 4, "new")
  <2>1. /\ act[m] = "MigrateData" /\ step[m] = 4 /\ act' = act /\ step'[m] = 5
        /\ written' = written
    BY <1>4, Dos, Numbers DEF Undisturbed, Own
  <2> QED BY <1>4, <2>1 DEF Own, applyDatabaseOwnership, MigrateInv
<1>5. CASE Load(m, "MigrateData", 5, "new", snap[m])
  <2>1. /\ act[m] = "MigrateData" /\ step[m] = 5 /\ act' = act /\ step'[m] = 6
        /\ written' = written /\ files' = files /\ snap' = snap
    BY <1>5, Dos, Numbers DEF Undisturbed, Load, artifacts, reads
  <2>2. /\ content["new"] = "empty" /\ "new" \in owned /\ owned' = owned
        /\ content' = [content EXCEPT !["new"] = IF files[snap[m]] = "empty" THEN @
                                                 ELSE files[snap[m]]]
    BY <1>5, <2>1 DEF Load, RestoreDatabaseFromBackup, MigrateInv
  <2>3. Copied' /\ content'["live"] = content["live"]
    BY <2>1, <2>2 DEF Copied
  <2> QED BY <2>1, <2>2, <2>3 DEF MigrateInv
<1>6. CASE Validate(m, "MigrateData", 6, "new")
  <2>1. /\ act[m] = "MigrateData" /\ step[m] = 6 /\ act' = act /\ step'[m] = 7
        /\ written' = written /\ files' = files /\ snap' = snap /\ content' = content
        /\ owned' = owned
    BY <1>6, Dos, Numbers DEF Undisturbed, Validate, artifacts, reads, cluster
  <2> QED BY <2>1 DEF MigrateInv, Copied
<1>7. CASE Inspect(m, "SwitchTraffic", "new", 2, 4)
  <2>1. /\ act[m] = "SwitchTraffic" /\ step[m] = 1
        /\ Then(m, IF Exists("new") THEN 2 ELSE 4)
        /\ written' = written /\ files' = files /\ snap' = snap /\ content' = content
        /\ owned' = owned
    BY <1>7 DEF Inspect, At, artifacts, reads, cluster, tenant
  <2>2. act' = act /\ step'[m] = IF Exists("new") THEN 2 ELSE 4
    BY <2>1, Thens
  <2>3. Copied => Exists("new")
    BY DEF Copied, ClusterInv
  <2> QED BY <2>1, <2>2, <2>3 DEF MigrateInv, Copied, Switched, Exists
<1>8. CASE Drop(m, "SwitchTraffic", 2, "live")
  <2>1. /\ act[m] = "SwitchTraffic" /\ step[m] = 2 /\ act' = act /\ step'[m] = 3
        /\ written' = written /\ files' = files /\ snap' = snap
    BY <1>8, Dos, Numbers DEF Undisturbed, Drop, artifacts, reads
  <2> QED BY <1>8, <2>1 DEF Drop, DropDatabaseNamed, MigrateInv, Copied, Exists
<1>9. CASE Rename(m, "SwitchTraffic", 3, "new", "live")
  <2>1. /\ act[m] = "SwitchTraffic" /\ step[m] = 3 /\ act' = act /\ step'[m] = 4
        /\ written' = written /\ files' = files /\ snap' = snap
    BY <1>9, Dos, Numbers DEF Undisturbed, Rename, artifacts, reads
  <2>2. Copied
    BY <2>1 DEF MigrateInv
  <2>3. Switched'
    BY <1>9, <2>1, <2>2 DEF Rename, RenameDatabase, Copied, Switched, Exists
  <2> QED BY <2>1, <2>3 DEF MigrateInv
<1>10. CASE DropTenantAuxDatabase
  <2>1. act[m] = "DropTenantAuxDatabase" /\ act' = act
    BY <1>10, Dos, Numbers DEF DropTenantAuxDatabase, Drop
  <2> QED BY <2>1 DEF MigrateInv
<1>11. QED
  BY <1>1, <1>2, <1>3, <1>4, <1>5, <1>6, <1>7, <1>8, <1>9, <1>10
     DEF MigrateData, SwitchTraffic

LEMMA MigrateReports ==
  ASSUME DataInv, MigrateInv, Report("migrate")
  PROVE  MigrateInv'
<1> DEFINE m == "migrate"
<1>1. /\ act[m] \in MigrateActivities /\ step[m] = LastStep(act[m])
      /\ Goto(m, Saga(m).onSuccess[act[m]])
      /\ written' = written /\ files' = files /\ snap' = snap /\ content' = content
      /\ owned' = owned
  BY MigrateTable DEF Report, Executing, cluster, artifacts, reads, tenant
<1>2. act'[m] = Saga(m).onSuccess[act[m]] /\ step'[m] = 1
  BY <1>1, Gotos, SagaNames DEF DataInv
<1>3. CASE act[m] = "MarkTenantMigrating"
  BY <1>1, <1>2, <1>3, MigrateTable DEF MigrateInv, MigrateActivities
<1>4. CASE act[m] = "MigrateData"
  <2>1. Copied /\ act'[m] = "SwitchTraffic"
    BY <1>1, <1>2, <1>4, MigrateTable DEF MigrateInv, MigrateActivities, LastStep
  <2> QED BY <1>1, <1>2, <2>1 DEF MigrateInv, Copied
<1>5. CASE act[m] = "SwitchTraffic"
  <2>1. Switched /\ act'[m] = "MarkTenantMigrated"
    BY <1>1, <1>2, <1>5, MigrateTable DEF MigrateInv, MigrateActivities, LastStep
  <2> QED BY <1>1, <1>2, <2>1 DEF MigrateInv, Switched, Exists
<1>6. CASE act[m] = "MarkTenantMigrated"
  <2>1. Switched /\ act'[m] = "completed"
    BY <1>1, <1>2, <1>6, MigrateTable DEF MigrateInv, MigrateActivities
  <2> QED BY <1>1, <1>2, <2>1 DEF MigrateInv, Switched, Exists
<1>7. CASE act[m] \in {"DropTenantAuxDatabase", "MarkTenantMigrateFailed"}
  <2>1. act'[m] \in {"MarkTenantMigrateFailed", "failed"}
    BY <1>1, <1>2, <1>7, MigrateTable DEF MigrateActivities
  <2> QED BY <2>1 DEF MigrateInv
<1>8. QED
  BY <1>1, <1>3, <1>4, <1>5, <1>6, <1>7 DEF MigrateActivities

LEMMA MigrateErrors ==
  ASSUME DataInv, MigrateInv, ActivityError("migrate"), ~scenario.sameSecond
  PROVE  MigrateInv'
<1> DEFINE m == "migrate"
<1> m \in Sagas /\ ControlInv /\ ClusterInv
  BY SagaNames DEF DataInv
<1>1. /\ act[m] \in MigrateActivities /\ EndAttempt(m, Saga(m).onFailure[act[m]])
      /\ written' = written /\ FilesKept /\ snap' = snap
  BY Errors, MigrateTable DEF Executing, Undisturbed
<1>2. /\ step'[m] = 1
      /\ act' = act \/ act'[m] \in {"DropTenantAuxDatabase", "MarkTenantMigrateFailed", "failed"}
  <2>1. Saga(m).onFailure[act[m]]
          \in {"DropTenantAuxDatabase", "MarkTenantMigrateFailed", "failed"}
    BY <1>1, MigrateTable DEF MigrateActivities
  <2>2. /\ step'[m] = 1 /\ (act' = act \/ act'[m] = Saga(m).onFailure[act[m]])
    BY <1>1, EndAttempts
  <2> QED BY <2>1, <2>2
<1>3. CASE act'[m] \in {"DropTenantAuxDatabase", "MarkTenantMigrateFailed", "failed"}
  BY <1>3 DEF MigrateInv
<1>4. CASE act' = act /\ act[m] = "MigrateData"
  <2>1. Loading(m) \in {"none", "new"} /\ CleansUp(m) \subseteq {"new"}
    BY <1>4 DEF Loading, CleansUp, At
  <2>2. content'["live"] = content["live"] /\ content'["live"] = written
    BY <1>4, <2>1 DEF ActivityError, Remains, ClusterInv, DatabaseNames, MigrateInv
  <2>3. "live" \in owned'
    BY <1>4, <2>2 DEF ActivityError, ClusterInv, MigrateInv, Exists
  <2> QED BY <1>1, <1>2, <1>4, <2>2, <2>3 DEF MigrateInv
<1>5. CASE act' = act /\ act[m] = "SwitchTraffic" /\ step[m] = 3
  <2>1. ~Exists("live") /\ CleansUp(m) = {} /\ Loading(m) = "live"
    BY <1>5 DEF MigrateInv, CleansUp, Loading, At
  <2>2. AfterFailedRestore("live", LoadedFrom(m)) = {content["live"]}
    BY <2>1 DEF AfterFailedRestore, Exists
  <2>3. content' = content
    BY <2>1, <2>2 DEF ActivityError, Remains, ClusterInv, DatabaseNames
  <2>4. owned' = owned
    BY <2>3 DEF ActivityError, ClusterInv, Exists
  <2>5. role => role'
    BY Zenon DEF ActivityError
  <2>6. LeavesLive
    BY <2>3, <2>4, <2>5, Zenon DEF LeavesLive
  <2> QED BY <1>1, <1>2, <1>5, <2>6, MigrateKept
<1>6. CASE act' = act /\ act[m] # "MigrateData" /\ ~(act[m] = "SwitchTraffic" /\ step[m] = 3)
  <2>1. Loading(m) \in {"none", "temp"} /\ "new" \notin CleansUp(m)
    BY <1>1, <1>6 DEF Loading, CleansUp, At, MigrateActivities
  <2>2. LeavesLive
    BY <2>1, ErrorLeaves
  <2> QED BY <1>1, <1>2, <1>6, <2>2, MigrateKept
<1>7. QED
  BY <1>2, <1>3, <1>4, <1>5, <1>6

LEMMA MigrateWrites ==
  ASSUME DataInv, MigrateInv, TenantWrites, act' = act, step' = step
  PROVE  MigrateInv'
<1>1. /\ content["live"] = written /\ written # "absent"
      /\ content' = [content EXCEPT !["live"] = written'] /\ owned' = owned
      /\ files' = files /\ snap' = snap
  BY DEF TenantWrites, artifacts, reads, DataInv, WorldInv, Data
<1>2. content \in [DatabaseNames -> Contents \cup {"absent"}]
  BY DEF DataInv, ClusterInv
<1>3. content'["live"] = written' /\ content'["new"] = content["new"] /\ Exists("live")
  BY <1>1, <1>2 DEF DatabaseNames, Exists
<1>4. (Copied => Copied') /\ (Switched => Switched')
  BY <1>1, <1>3 DEF Copied, Switched, Exists
<1>5. QED
  BY <1>1, <1>3, <1>4 DEF MigrateInv

\* Which sagas can advance when w runs alone.
LEMMA AloneAdvance ==
  ASSUME DataInv, NEW w, w \in scenario.sagas, RunsAlone(w), NEW v \in Sagas, Advance(v)
  PROVE  v \in {w, "backup"} /\ ~scenario.sameSecond
<1>1. v \in scenario.sagas /\ scenario \in Scenarios
  BY AdvanceStep DEF DataInv, WorldInv
<1>2. QED
  BY <1>1 DEF RunsAlone

\* What a step of the backup saga leaves to a saga w that runs with it.
LEMMA BackupBeside ==
  ASSUME DataInv, Advance("backup"), NEW w \in Sagas, w # "backup"
  PROVE  /\ LeavesLive /\ FilesKept /\ UNCHANGED <<chosen, spec, drifts, status, written>>
         /\ snap'[w] = snap[w] /\ act'[w] = act[w] /\ step'[w] = step[w]
         /\ attempt'[w] = attempt[w]
<1>1. "backup" \in Sagas /\ "backup" # "delete"
  BY SagaNames
<1>2. SagaStep("backup")
  BY <1>1, AdvanceStep
<1>3. LeavesLive /\ FilesKept /\ UNCHANGED <<chosen, spec, drifts>>
  BY <1>1, BackupSaga, RowChanges
<1>4. QED
  BY <1>1, <1>2, <1>3 DEF SagaStep, Others

LEMMA MigrateNext ==
  ASSUME RunsAlone("migrate"), "migrate" \in scenario.sagas, DataInv, MigrateInv, [Next]_vars
  PROVE  MigrateInv' /\ scenario' = scenario
<1> "migrate" \in Sagas /\ "migrate" \in {"migrate", "restore", "delete"} /\ ~scenario.sameSecond
  BY SagaNames DEF RunsAlone, DataInv, WorldInv
<1>1. CASE Outside
  <2>0. scenario' = scenario
    BY <1>1, OutsideLeaves
  <2>1. CASE TenantWrites /\ UNCHANGED <<act, step>>
    BY <2>0, <2>1, MigrateWrites
  <2>2. CASE Unmoved /\ act'["migrate"] = act["migrate"] /\ step'["migrate"] = step["migrate"]
    BY <2>0, <2>2 DEF Unmoved, MigrateInv, Copied, Switched, Exists
  <2>3. CASE Unmoved /\ "migrate" \in asked /\ act'["migrate"] = First["migrate"]
    <3>1. act["migrate"] = "none" /\ act'["migrate"] = "MarkTenantMigrating"
      BY <2>3 DEF DataInv, IdleInv, First
    <3> QED BY <2>0, <2>3, <3>1 DEF Unmoved, MigrateInv
  <2> QED BY <1>1, <2>1, <2>2, <2>3, OutsideAlone
<1>2. CASE Advance("migrate")
  <2>0. scenario' = scenario
    BY <1>2, AdvanceStep DEF SagaStep
  <2>1. \/ Report("migrate") \/ ActivityError("migrate")
        \/ MigrateData \/ SwitchTraffic \/ DropTenantAuxDatabase
    BY <1>2 DEF Advance, Activity
  <2> QED BY <2>0, <2>1, MigrateEffects, MigrateReports, MigrateErrors
<1>3. CASE Advance("backup")
  <2>0. scenario' = scenario
    BY <1>3, AdvanceStep, SagaNames DEF SagaStep
  <2> QED BY <1>3, <2>0, BackupBeside, MigrateKept
<1>4. QED
  BY <1>1, <1>2, <1>3, NextSplits, AloneAdvance

LEMMA MigrateInvariant ==
  ASSUME RunsAlone("migrate")
  PROVE  Spec => []("migrate" \in scenario.sagas => MigrateInv)
<1>1. Init => MigrateInv
  BY SagaNames DEF Init, NoRuns, MigrateInv, DatabaseNames
<1>2. DataInv /\ ("migrate" \in scenario.sagas => MigrateInv) /\ [Next]_vars
        => ("migrate" \in scenario.sagas => MigrateInv)'
  <2>1. DataInv /\ [Next]_vars => scenario' = scenario
    BY NextSplits, OutsideLeaves, AdvanceStep DEF SagaStep
  <2> QED BY <2>1, MigrateNext
<1>3. QED
  BY <1>1, <1>2, DataInvariant, PTL DEF Spec

\* SwitchTraffic: if migrations run with nothing else but backups, a whole copy of the
\* tenant's data is in the live or in the _new database from the switch on, at every
\* step of every attempt.
THEOREM SwitchKeeps ==
  ASSUME RunsAlone("migrate")
  PROVE  Spec => []SwitchKeepsCopy
<1>1. DataInv /\ ("migrate" \in scenario.sagas => MigrateInv) => SwitchKeepsCopy
  <2> SUFFICES ASSUME DataInv, "migrate" \in scenario.sagas => MigrateInv,
                      act["migrate"] \in {"SwitchTraffic", "MarkTenantMigrated", "completed"}
               PROVE  \E n \in {"live", "new"} : content[n] \in {written, files[snap["migrate"]]}
    BY DEF SwitchKeepsCopy
  <2>1. MigrateInv /\ step["migrate"] \in 1 .. 11
    BY SagaNames DEF DataInv, IdleInv, ControlInv
  <2>2. Copied \/ Switched
    BY <2>1 DEF MigrateInv
  <2> QED BY <2>2 DEF Copied, Switched
<1>2. QED
  BY <1>1, MigrateInvariant, DataInvariant, PTL

\* MigrateTenantWorkflow: if migrations run with nothing else but backups, one that
\* completed serves the tenant a whole copy from a database of its own role.
THEOREM MigratedServed ==
  ASSUME RunsAlone("migrate")
  PROVE  Spec => []MigratedIsServed
<1>1. DataInv /\ ("migrate" \in scenario.sagas => MigrateInv) => MigratedIsServed
  <2> SUFFICES ASSUME DataInv, "migrate" \in scenario.sagas => MigrateInv,
                      act["migrate"] = "completed"
               PROVE  Switched
    BY DEF MigratedIsServed, Switched
  <2>1. MigrateInv
    BY SagaNames DEF DataInv, IdleInv
  <2> QED BY <2>1 DEF MigrateInv
<1>2. QED
  BY <1>1, MigrateInvariant, DataInvariant, PTL

-----------------------------------------------------------------------------
(* Delete.                                                                 *)

\* Rows are never removed and stay about their dump.
RowsKept ==
  \A i \in DOMAIN backups : i \in DOMAIN backups' /\ backups'[i].file = backups[i].file

LEMMA RowsStay ==
  ASSUME DataInv, NEW w \in Sagas, Advance(w)
  PROVE  RowsKept
<1>1. FilesInv /\ RowsInv /\ DOMAIN backups = 1 .. Len(backups) /\ Len(backups) \in Nat
  BY FileTypes DEF DataInv
<1>2. \/ backups' = backups
      \/ Backing(w) /\ CreateBackup(snap[w])
      \/ \E s \in {"completed", "failed"} : backups' = Marked(snap[w], s)
  BY RowChanges
<1>3. CASE backups' = backups
  BY <1>3 DEF RowsKept
<1>4. CASE Backing(w) /\ CreateBackup(snap[w])
  <2>1. snap[w] \in 1 .. Len(files)
    BY <1>4, FileTypes DEF Backing, DataInv, SnapInv, Carries
  <2>2. /\ Len(backups') = Len(backups) + 1 /\ RowsInv' /\ files' = files
        /\ \A j \in DOMAIN backups : backups'[j] = backups[j]
    BY <1>1, <1>4, <2>1, CreatedRow
  <2>3. DOMAIN backups' = 1 .. Len(backups')
    BY <1>1, <2>2, FileTypes DEF FilesInv
  <2> QED BY <1>1, <2>2, <2>3 DEF RowsKept
<1>5. CASE \E s \in {"completed", "failed"} : backups' = Marked(snap[w], s)
  <2>1. {"completed", "failed"} \subseteq BackupStatuses
    BY DEF BackupStatuses
  <2> QED BY <1>1, <1>5, <2>1, MarkedRows DEF RowsKept
<1>6. QED
  BY <1>2, <1>3, <1>4, <1>5

LEMMA BackedUpStays ==
  ASSUME DataInv, BackedUp, CompletedKept, ~scenario.sameSecond,
         content'["live"] = content["live"]
  PROVE  BackedUp'
<1>1. PICK i \in Completed : files[backups[i].file] = content["live"]
  BY DEF BackedUp
<1>2. /\ i \in Completed' /\ backups'[i].file = backups[i].file
      /\ files'[backups[i].file] = files[backups[i].file]
  BY <1>1 DEF CompletedKept
<1>3. QED
  BY <1>1, <1>2 DEF BackedUp

\* A step that leaves the live database and the backups alone, and the saga where it
\* is or at the beginning of the activity.
LEMMA DeleteKept ==
  ASSUME DataInv, DeleteInv, LeavesLive, FilesKept, RowsKept, CompletedKept,
         ~scenario.sameSecond, snap'["delete"] = snap["delete"], status' = status,
         act'["delete"] = act["delete"],
         step'["delete"] = step["delete"] \/ step'["delete"] = 1
  PROVE  DeleteInv'
<1>1. Backing("delete") => files'[snap'["delete"]] = files[snap["delete"]]
  BY SagaNames, FileTypes DEF DataInv, SnapInv, FilesKept, Backing, Carries
<1>2. content'["live"] = content["live"] /\ (BackedUp => BackedUp')
  BY BackedUpStays DEF LeavesLive
<1>3. Backing("delete")' => Backing("delete") /\ step'["delete"] = step["delete"]
  BY DEF Backing
<1>4. step["delete"] \in 1 .. 11
  BY SagaNames DEF DataInv, ControlInv
<1>5. Backing("delete")' /\ step'["delete"] >= 4 =>
        \E i \in DOMAIN backups' : backups'[i].file = snap'["delete"]
  BY <1>3 DEF DeleteInv, RowsKept
<1>6. QED
  BY <1>1, <1>2, <1>3, <1>4, <1>5 DEF DeleteInv, Exists

\* The steps of BackupTenantData, which the teardown relies on.
LEMMA DeleteBackups ==
  ASSUME DataInv, BackingInv, DeleteInv, ~scenario.sameSecond, BackupTenantData("delete"),
         Advance("delete")
  PROVE  DeleteInv'
<1> DEFINE d == "delete"
           b == "BackupTenantData"
<1> d \in Sagas /\ ControlInv
  BY SagaNames DEF DataInv
<1>1. content'["live"] = content["live"] /\ RowsKept /\ FilesKept
  BY BackupLeaves, RowsStay, RowChanges DEF LeavesLive
<1>2. act[d] = b /\ (status = "deleted" => ~Exists("live"))
  BY DEF DeleteInv, BackupTenantData, Inspect, Snapshot, Drop, Create, Own, Load, Validate, Do,
     At
<1>3. ASSUME NEW k \in 1 .. 10, Do(d, b, k)
      PROVE  step[d] = k /\ act' = act /\ step'[d] = k + 1 /\ status' = status
  BY <1>3, Dos DEF Undisturbed
<1>4. CASE Inspect(d, b, "live", 2, 11)
  <2>1. Then(d, IF Exists("live") THEN 2 ELSE 11) /\ status' = status
    BY <1>4 DEF Inspect, tenant
  <2>2. act' = act /\ step'[d] = IF Exists("live") THEN 2 ELSE 11
    BY <2>1, Thens
  <2>3. ~Backing(d)'
    BY <2>2 DEF Backing
  <2> QED BY <1>1, <1>2, <2>1, <2>2, <2>3 DEF DeleteInv, Exists
<1>5. CASE Snapshot(d, b, 2)
  <2>1. /\ Do(d, b, 2) /\ Exists("live") /\ files'[snap'[d]] = content["live"]
    BY <1>5, Snapshots, Numbers
  <2>2. act' = act /\ step'[d] = 3 /\ status' = status
    BY <2>1, <1>3, Numbers
  <2> QED BY <1>1, <1>2, <2>1, <2>2 DEF DeleteInv, Exists
<1>6. CASE Do(d, b, 3) /\ CreateBackup(snap[d]) /\ UNCHANGED <<cluster, reads>>
  <2>1. step[d] = 3 /\ act' = act /\ step'[d] = 4 /\ status' = status /\ snap' = snap
        /\ files' = files
    BY <1>3, <1>6, Numbers DEF reads, CreateBackup
  <2>2. Backing(d) /\ snap[d] \in 1 .. Len(files)
    BY <1>2, <2>1, FileTypes DEF Backing, DataInv, SnapInv, Carries
  <2>3. /\ Len(backups') = Len(backups) + 1 /\ RowsInv' /\ FilesInv'
        /\ backups'[Len(backups) + 1] = [file |-> snap[d], status |-> "pending"]
    BY <1>6, <2>1, <2>2, CreatedRow DEF DataInv, FilesInv
  <2>4. Len(backups) + 1 \in DOMAIN backups' /\ backups'[Len(backups) + 1].file = snap[d]
    BY <2>3, FileTypes DEF DataInv
  <2> QED BY <1>1, <1>2, <2>1, <2>2, <2>4 DEF DeleteInv, Exists
<1>7. CASE \/ Drop(d, b, 4, "temp") \/ Create(d, b, 5, "temp") \/ Own(d, b, 6, "temp")
           \/ Load(d, b, 7, "temp", snap[d]) \/ Validate(d, b, 8, "temp")
           \/ Drop(d, b, 9, "temp")
  <2>1. PICK k \in 4 .. 9 : Do(d, b, k)
    BY <1>7 DEF Drop, Create, Own, Load, Validate
  <2>2. step[d] = k /\ act' = act /\ step'[d] = k + 1 /\ status' = status
    BY <1>3, <2>1
  <2>3. snap' = snap /\ files' = files
    BY <1>7 DEF Drop, Create, Own, Load, Validate, artifacts, reads
  <2>4. Backing(d) /\ step[d] >= 4
    BY <1>2, <2>2 DEF Backing
  <2>5. PICK i \in DOMAIN backups : backups[i].file = snap[d]
    BY <2>4 DEF DeleteInv
  <2>6. i \in DOMAIN backups' /\ backups'[i].file = snap'[d]
    BY <1>1, <2>3, <2>5 DEF RowsKept
  <2> QED BY <1>1, <1>2, <2>2, <2>3, <2>4, <2>6 DEF DeleteInv, Exists
<1>8. CASE Do(d, b, 10) /\ MarkBackupCompleted(snap[d]) /\ UNCHANGED <<cluster, reads>>
  <2>1. step[d] = 10 /\ act' = act /\ step'[d] = 11 /\ status' = status /\ snap' = snap
        /\ files' = files /\ backups' = Marked(snap[d], "completed")
    BY <1>3, <1>8, Numbers DEF reads, MarkBackupCompleted
  <2>2. Backing(d) /\ step[d] >= 4
    BY <1>2, <2>1 DEF Backing
  <2>3. PICK i \in DOMAIN backups : backups[i].file = snap[d]
    BY <2>2 DEF DeleteInv
  <2>4. /\ i \in DOMAIN backups' /\ backups'[i].file = snap[d]
        /\ backups'[i].status = "completed"
    <3>1. "completed" \in BackupStatuses /\ FilesInv /\ RowsInv
      BY DEF BackupStatuses, DataInv
    <3> QED BY <2>1, <2>3, <3>1, MarkedRows
  <2>5. i \in Completed' /\ (status = "deleting" => files'[backups'[i].file] = content'["live"])
    BY <1>1, <2>1, <2>2, <2>4 DEF Completed, DeleteInv
  <2>6. status = "deleting" => BackedUp'
    BY <2>5 DEF BackedUp
  <2>7. ~Backing(d)'
    BY <2>1 DEF Backing
  <2> QED BY <1>1, <1>2, <2>1, <2>6, <2>7 DEF DeleteInv, Exists
<1>9. QED
  BY <1>4, <1>5, <1>6, <1>7, <1>8 DEF BackupTenantData

\* Where the saga demands nothing of the cluster.
LEMMA DeleteRests ==
  ASSUME status' \in {"active", "deleting"} \/ content'["live"] = "absent",
         \/ act'["delete"] \in {"MarkTenantDeleting", "grace", "RestoreTenantAfterCancel",
                                "MarkTenantDeleteFailed", "failed", "completed"}
         \/ act'["delete"] = "BackupTenantData" /\ step'["delete"] = 1
  PROVE  DeleteInv'
BY DEF DeleteInv, Backing, Exists

LEMMA DeleteMarks ==
  ASSUME DataInv, DeleteInv,
         MarkTenantDeleting \/ RestoreTenantAfterCancel \/ MarkTenantDeleted
  PROVE  DeleteInv'
<1> DEFINE d == "delete"
<1> d \in Sagas /\ ControlInv /\ status \in {"active", "deleting", "deleted"}
  BY SagaNames DEF DataInv, WorldInv
<1>1. /\ act[d] \in {"MarkTenantDeleting", "RestoreTenantAfterCancel", "MarkTenantDeleted"}
      /\ step[d] = 1 /\ content' = content
      /\ \/ status' = status /\ Goto(d, DeleteTenantWorkflow.onFailure[act[d]])
         \/ /\ Then(d, 2)
            /\ \/ act[d] = "MarkTenantDeleting" /\ status' = "deleting"
               \/ act[d] = "RestoreTenantAfterCancel" /\ status' = "active"
               \/ act[d] = "MarkTenantDeleted" /\ status' = "deleted"
  BY DEF MarkTenantDeleting, RestoreTenantAfterCancel, MarkTenantDeleted,
     UpdateTenantStatusFrom, At, cluster
<1>2. CASE status' = status /\ Goto(d, DeleteTenantWorkflow.onFailure[act[d]])
  <2>1. DeleteTenantWorkflow.onFailure[act[d]] = "MarkTenantDeleteFailed"
    BY <1>1, DeleteTable DEF DeleteActivities
  <2>2. act'[d] = "MarkTenantDeleteFailed"
    BY <1>2, <2>1, Gotos
  <2>3. status' \in {"active", "deleting"} \/ content'["live"] = "absent"
    BY <1>1, <1>2 DEF DeleteInv, Exists
  <2> QED BY <2>2, <2>3, DeleteRests
<1>3. CASE Then(d, 2) /\ act[d] # "MarkTenantDeleted"
  <2>1. act' = act /\ step'[d] = 2
    BY <1>3, Thens
  <2>2. status' \in {"active", "deleting"} \/ content'["live"] = "absent"
    BY <1>1, <1>3 DEF DeleteInv, Exists
  <2> QED BY <1>1, <1>3, <2>1, <2>2, DeleteRests
<1>4. CASE Then(d, 2) /\ act[d] = "MarkTenantDeleted"
  <2>1. act' = act /\ step'[d] = 2
    BY <1>4, Thens
  <2>2. content'["live"] = "absent"
    BY <1>1, <1>4 DEF DeleteInv, Exists
  <2> QED BY <1>4, <2>1, <2>2 DEF DeleteInv, Backing, Exists
<1>5. QED
  BY <1>1, <1>2, <1>3, <1>4

LEMMA DeleteTeardown ==
  ASSUME DataInv, DeleteInv, DeprovisionTenant
  PROVE  DeleteInv'
<1> DEFINE d == "delete"
<1> /\ d \in Sagas /\ ControlInv /\ DatabaseNames = {"live", "new", "temp"}
    /\ content \in [DatabaseNames -> Contents \cup {"absent"}]
  BY SagaNames DEF DataInv, ClusterInv, DatabaseNames
<1>1. PICK k \in {1, 2} :
        /\ Do(d, "DeprovisionTenant", k)
        /\ \/ k = 1 /\ DropDatabaseNamed("live")
           \/ k = 2 /\ DropTenantRole
  BY DEF DeprovisionTenant, Drop
<1>2. /\ act[d] = "DeprovisionTenant" /\ step[d] = k /\ act' = act /\ step'[d] = k + 1
      /\ status' = status
  BY <1>1, Dos, Numbers DEF Undisturbed
<1>3. content'["live"] = "absent"
  BY <1>1, <1>2 DEF DropDatabaseNamed, DropTenantRole, DeleteInv, Exists
<1>4. QED
  BY <1>2, <1>3 DEF DeleteInv, Backing, Exists

LEMMA DeleteReports ==
  ASSUME DataInv, DeleteInv, Report("delete")
  PROVE  DeleteInv'
<1> DEFINE d == "delete"
<1>1. /\ act[d] \in DeleteActivities /\ step[d] = LastStep(act[d])
      /\ Goto(d, Saga(d).onSuccess[act[d]])
      /\ status' = status /\ files' = files /\ backups' = backups /\ content' = content
  BY DeleteTable DEF Report, Executing, cluster, artifacts, tenant
<1>2. /\ act'[d] = Saga(d).onSuccess[act[d]] /\ step'[d] = 1
      /\ status \in {"active", "deleting", "deleted"}
  BY <1>1, Gotos, SagaNames DEF DataInv, WorldInv
<1>3. status' \in {"active", "deleting"} \/ content'["live"] = "absent"
  BY <1>1, <1>2 DEF DeleteInv, Exists
<1>4. CASE act[d] = "MarkTenantDeleting"
  <2>1. act'[d] = "grace"
    BY <1>1, <1>2, <1>4, DeleteTable DEF DeleteActivities
  <2> QED BY <1>3, <2>1, DeleteRests
<1>5. CASE act[d] \in {"RestoreTenantAfterCancel", "MarkTenantDeleted", "MarkTenantDeleteFailed"}
  <2>1. act'[d] \in {"completed", "failed"}
    BY <1>1, <1>2, <1>5, DeleteTable DEF DeleteActivities
  <2> QED BY <1>3, <2>1, DeleteRests
<1>6. CASE act[d] = "BackupTenantData"
  <2>1. /\ act'[d] = "DeprovisionTenant" /\ (status = "deleted" => ~Exists("live"))
        /\ status = "deleting" => ~Exists("live") \/ BackedUp
    BY <1>1, <1>2, <1>6, DeleteTable DEF DeleteActivities, LastStep, DeleteInv
  <2>2. BackedUp => BackedUp'
    BY <1>1 DEF BackedUp, Completed
  <2> QED BY <1>1, <1>2, <2>1, <2>2 DEF DeleteInv, Backing, Exists
<1>7. CASE act[d] \in {"DeprovisionTenant", "DeleteTenantIdentityByTenant"}
  <2>1. /\ act'[d] \in {"DeleteTenantIdentityByTenant", "MarkTenantDeleted"}
        /\ content["live"] = "absent"
    BY <1>1, <1>2, <1>7, DeleteTable DEF DeleteActivities, LastStep, DeleteInv, Exists
  <2> QED BY <1>1, <2>1 DEF DeleteInv, Backing, Exists
<1>8. QED
  BY <1>1, <1>4, <1>5, <1>6, <1>7 DEF DeleteActivities

LEMMA DeleteErrors ==
  ASSUME DataInv, BackingInv, DeleteInv, ActivityError("delete"), Advance("delete"),
         [Next]_vars, ~scenario.sameSecond
  PROVE  DeleteInv'
<1> DEFINE d == "delete"
<1> d \in Sagas /\ ControlInv
  BY SagaNames DEF DataInv
<1>1. /\ act[d] \in DeleteActivities /\ EndAttempt(d, Saga(d).onFailure[act[d]])
      /\ status' = status /\ FilesKept /\ snap' = snap
  BY Errors, DeleteTable DEF Executing, Undisturbed
<1>2. LeavesLive /\ RowsKept /\ CompletedKept
  <2>1. Loading(d) \in {"none", "temp"} /\ "new" \notin CleansUp(d)
    BY <1>1 DEF Loading, CleansUp, At, DeleteActivities
  <2> QED BY <2>1, ErrorLeaves, RowsStay, CompletedStays
<1>3. step'[d] = 1 /\ (act' = act \/ act'[d] \in {"MarkTenantDeleteFailed", "failed"})
  <2>1. Saga(d).onFailure[act[d]] \in {"MarkTenantDeleteFailed", "failed"}
    BY <1>1, DeleteTable
  <2>2. /\ step'[d] = 1 /\ (act' = act \/ act'[d] = Saga(d).onFailure[act[d]])
    BY <1>1, EndAttempts
  <2> QED BY <2>1, <2>2
<1>4. CASE act' = act
  BY <1>1, <1>2, <1>3, <1>4, DeleteKept
<1>5. CASE act'[d] \in {"MarkTenantDeleteFailed", "failed"}
  <2>1. content'["live"] = content["live"] /\ status \in {"active", "deleting", "deleted"}
    BY <1>2 DEF LeavesLive, DataInv, WorldInv
  <2>2. status' \in {"active", "deleting"} \/ content'["live"] = "absent"
    BY <1>1, <2>1 DEF DeleteInv, Exists
  <2> QED BY <1>5, <2>2, DeleteRests
<1>6. QED
  BY <1>3, <1>4, <1>5

\* A tenant that may write is not deleting, and has its database.
LEMMA DeleteWrites ==
  ASSUME DataInv, DeleteInv, TenantWrites, act' = act, step' = step
  PROVE  DeleteInv'
<1>1. /\ status = "active" /\ status' = status /\ Exists("live")
      /\ backups' = backups /\ snap' = snap
  BY DEF TenantWrites, artifacts, reads, DataInv, WorldInv, Data, Exists
<1>2. QED
  BY <1>1 DEF DeleteInv, Backing

LEMMA DeleteNext ==
  ASSUME RunsAlone("delete"), "delete" \in scenario.sagas, DataInv, BackingInv, DeleteInv,
         [Next]_vars
  PROVE  DeleteInv'
<1> DEFINE d == "delete"
<1> d \in Sagas /\ d \in {"migrate", "restore", "delete"} /\ ~scenario.sameSecond
    /\ status \in {"active", "deleting", "deleted"}
  BY SagaNames DEF RunsAlone, DataInv, WorldInv
<1>0. status \in {"active", "deleting"} \/ content["live"] = "absent"
  BY DEF DeleteInv, Exists
<1>1. CASE Outside
  <2>1. CASE TenantWrites /\ UNCHANGED <<act, step>>
    BY <2>1, DeleteWrites
  <2>2. CASE Unmoved /\ act'[d] = act[d] /\ step'[d] = step[d]
    BY <2>2 DEF Unmoved, DeleteInv, Backing, BackedUp, Completed, Exists
  <2>3. CASE Unmoved /\ d \in asked /\ act'[d] = First[d] /\ step'[d] = 1
    BY <1>0, <2>3, DeleteRests DEF Unmoved, First
  <2>4. CASE /\ Unmoved
             /\ \E a \in {"BackupTenantData", "RestoreTenantAfterCancel"} : Goto(d, a)
    <3>1. PICK a \in {"BackupTenantData", "RestoreTenantAfterCancel"} : Goto(d, a)
      BY <2>4
    <3>2. act'[d] = a /\ step'[d] = 1
      BY <3>1, Gotos DEF DataInv
    <3> QED BY <1>0, <2>4, <3>2, DeleteRests DEF Unmoved
  <2> QED BY <1>1, <2>1, <2>2, <2>3, <2>4, OutsideAlone
<1>2. CASE Advance(d)
  <2>1. \/ Report(d) \/ ActivityError(d) \/ BackupTenantData(d) \/ DeprovisionTenant
        \/ MarkTenantDeleting \/ RestoreTenantAfterCancel \/ MarkTenantDeleted
    BY <1>2 DEF Advance, Activity
  <2> QED BY <1>2, <2>1, DeleteReports, DeleteErrors, DeleteBackups, DeleteTeardown, DeleteMarks
<1>3. CASE Advance("backup")
  <2>1. "backup" \in Sagas /\ d # "backup"
    BY SagaNames
  <2>2. RowsKept /\ CompletedKept
    BY <1>3, <2>1, RowsStay, CompletedStays
  <2> QED BY <1>3, <2>1, <2>2, BackupBeside, DeleteKept
<1>4. QED
  BY <1>1, <1>2, <1>3, NextSplits, AloneAdvance

LEMMA SameScenario == DataInv /\ [Next]_vars => scenario' = scenario
BY NextSplits, OutsideLeaves, AdvanceStep DEF SagaStep

LEMMA DeleteInvariant ==
  ASSUME RunsAlone("delete")
  PROVE  Spec => []("delete" \in scenario.sagas => DeleteInv)
<1>1. Init => DeleteInv
  BY SagaNames DEF Init, NoRuns, DeleteInv, Backing
<1>2. DataInv /\ BackingInv /\ ("delete" \in scenario.sagas => DeleteInv) /\ [Next]_vars
        => ("delete" \in scenario.sagas => DeleteInv)'
  BY SameScenario, DeleteNext
<1>3. QED
  BY <1>1, <1>2, DataInvariant, BackingInvariant, PTL DEF Spec

\* DeprovisionTenant: if deletions run with nothing else but a backup, and no two dumps
\* are taken in one second, what they drop of a tenant that is deleting is what a
\* completed backup holds: for every number of retries and of runs that failed, were
\* cancelled or resumed, also by a request that read the status before a cancellation.
THEOREM DropBackedUp ==
  ASSUME RunsAlone("delete")
  PROVE  Spec => DropIsBackedUp
<1>1. DataInv /\ ("delete" \in scenario.sagas => DeleteInv) /\ [Next]_vars
        => [status = "deleting" => ~DropsUnsaved]_vars
  <2> SUFFICES ASSUME DataInv, "delete" \in scenario.sagas => DeleteInv,
                      status = "deleting", DropsUnsaved
               PROVE  FALSE
    OBVIOUS
  <2>1. DeleteInv /\ ~BackedUp
    BY SagaNames DEF DropsUnsaved, BackedUp, DataInv, IdleInv, At
  <2> QED BY <2>1 DEF DropsUnsaved, DeleteInv, At, Exists, Data
<1>2. QED
  BY <1>1, DeleteInvariant, DataInvariant, PTL DEF Spec, DropIsBackedUp

\* MarkTenantDeleted: if a deletion runs with nothing else but a backup, a tenant that
\* is recorded as deleted has no live database.
THEOREM DeletedGone ==
  ASSUME RunsAlone("delete")
  PROVE  Spec => []DeletedIsGone
<1>1. DataInv /\ ("delete" \in scenario.sagas => DeleteInv) => DeletedIsGone
  BY DEF DataInv, IdleInv, DeleteInv, DeletedIsGone
<1>2. QED
  BY <1>1, DeleteInvariant, DataInvariant, PTL

-----------------------------------------------------------------------------
(* Restore.                                                                *)

\* A dump that a saga adds holds what the live database holds.
NewFiles ==
  \A f \in 1 .. Len(files') : \/ f \in 1 .. Len(files) /\ files'[f] = files[f]
                              \/ files'[f] = content["live"]

LEMMA FilesGrow ==
  ASSUME DataInv, NEW w \in Sagas, Advance(w), ~scenario.sameSecond
  PROVE  NewFiles
<1>1. Len(files) \in Nat
  BY FileTypes DEF DataInv
<1>2. ASSUME NEW a, NEW k \in 1 .. 10, Snapshot(w, a, k)
      PROVE  NewFiles
  <2>1. /\ Len(files') = Len(files) + 1 /\ files'[Len(files) + 1] = content["live"]
        /\ FilesKept
    BY <1>2, Snapshots
  <2> QED BY <1>1, <2>1 DEF NewFiles, FilesKept
<1>3. ASSUME files' = files PROVE NewFiles
  BY <1>3 DEF NewFiles
<1>4. CASE Report(w) \/ ActivityError(w)
  BY <1>3, <1>4, Errors DEF Report, artifacts
<1>5. CASE Activity(w)
  <2>1. \/ files' = files
        \/ \E a \in {"MigrateData", "BackupTenantData", "PreRestoreSnapshot"} :
             \E k \in {1, 2} : Snapshot(w, a, k)
    BY <1>5 DEF Activity, MigrateData, SwitchTraffic, DropTenantAuxDatabase, BackupTenantData,
       PreRestoreSnapshot, RestoreData, RestoreRollback, MarkTenantDeleting,
       RestoreTenantAfterCancel, MarkTenantDeleted, UpdateTenantStatusFrom, DeprovisionTenant,
       ResolveTenantSpec, ProbeTenantActualState, NoVerifiedBackup, RestoreTenantFromBackup,
       EnsureTenantDatabase, Drop, Create, Own, Load, Validate, Rename, Inspect, CreateBackup,
       MarkBackupCompleted, artifacts
  <2> QED BY <1>2, <1>3, <2>1, Numbers
<1>6. QED
  BY <1>4, <1>5 DEF Advance

\* A step that leaves the live database alone, and the saga where it is or at the
\* beginning of the activity.
LEMMA RestoreKept ==
  ASSUME DataInv, RestoreInv, content'["live"] = content["live"], FilesKept, NewFiles,
         ~scenario.sameSecond, chosen' = chosen,
         act'["restore"] = act["restore"],
         \/ step'["restore"] = step["restore"]
         \/ step'["restore"] = 1 /\ (act["restore"] # "RestoreData" \/ step["restore"] > 1)
         \/ act["restore"] = "PreRestoreSnapshot"
         \/ act["restore"] = "RestoreData" /\ step["restore"] > 1
  PROVE  RestoreInv'
<1>1. step["restore"] \in 1 .. 11 /\ chosen \in 0 .. Len(files) /\ Len(files) \in Nat
  BY SagaNames, FileTypes DEF DataInv, ControlInv, ReadsInv
<1>2. chosen # 0 => files'[chosen] = files[chosen]
  BY <1>1 DEF FilesKept
<1>3. act["restore"] \in {"none", "MarkTenantRestoring", "PreRestoreSnapshot"} =>
        \A f \in 1 .. Len(files') : files'[f] # "partial"
  BY DEF RestoreInv, NewFiles
<1>4. QED
  BY <1>1, <1>2, <1>3 DEF RestoreInv

LEMMA RestoreEffects ==
  ASSUME DataInv, RestoreInv, Advance("restore"), ~scenario.sameSecond,
         PreRestoreSnapshot \/ RestoreData \/ RestoreRollback
  PROVE  RestoreInv'
<1> DEFINE r == "restore"
<1> /\ r \in Sagas /\ ControlInv /\ DatabaseNames = {"live", "new", "temp"}
    /\ content \in [DatabaseNames -> Contents \cup {"absent"}]
  BY SagaNames DEF DataInv, ClusterInv, DatabaseNames
<1>0. FilesKept /\ NewFiles
  BY FilesGrow, RowChanges
<1>1. CASE PreRestoreSnapshot
  <2>1. /\ Do(r, "PreRestoreSnapshot", 1) /\ content' = content /\ chosen' = chosen
    BY <1>1, Snapshots, Numbers DEF PreRestoreSnapshot
  <2>2. act[r] = "PreRestoreSnapshot" /\ act' = act
    BY <2>1, Dos, Numbers
  <2> QED BY <1>0, <2>1, <2>2, RestoreKept
<1>2. CASE chosen # 0 /\ Load(r, "RestoreData", 1, "live", chosen)
  <2>1. /\ act[r] = "RestoreData" /\ step[r] = 1 /\ act' = act /\ step'[r] = 2
        /\ files' = files /\ chosen' = chosen
    BY <1>2, Dos, Numbers DEF Load, artifacts, reads
  <2>2. /\ content["live"] = "empty" \/ files[chosen] = "empty"
        /\ content'["live"] = IF files[chosen] = "empty" THEN content["live"] ELSE files[chosen]
    BY <1>2 DEF Load, RestoreDatabaseFromBackup, Loads
  <2>3. content'["live"] # "partial"
    BY <1>2, <2>1, <2>2 DEF RestoreInv
  <2> QED BY <2>1, <2>3 DEF RestoreInv
<1>3. CASE Validate(r, "RestoreData", 2, "live")
  <2>1. /\ act[r] = "RestoreData" /\ step[r] = 2 /\ act' = act
        /\ content' = content /\ chosen' = chosen
    BY <1>3, Dos, Numbers DEF Validate, artifacts, reads, cluster
  <2> QED BY <1>0, <2>1, RestoreKept
<1>4. CASE RestoreRollback
  <2>1. act[r] = "RestoreRollback" /\ act' = act /\ files' = files /\ chosen' = chosen
    BY <1>4, Dos, Numbers DEF RestoreRollback, Load, artifacts, reads
  <2> QED BY <2>1 DEF RestoreInv
<1>5. QED
  BY <1>1, <1>2, <1>3, <1>4 DEF RestoreData

LEMMA RestoreReports ==
  ASSUME DataInv, RestoreInv, Report("restore")
  PROVE  RestoreInv'
<1> DEFINE r == "restore"
<1>1. /\ act[r] \in RestoreActivities /\ step[r] = LastStep(act[r])
      /\ Goto(r, Saga(r).onSuccess[act[r]])
      /\ files' = files /\ chosen' = chosen /\ content' = content
  BY RestoreTable DEF Report, Executing, cluster, artifacts, reads
<1>2. act'[r] = Saga(r).onSuccess[act[r]] /\ step'[r] = 1
  BY <1>1, Gotos, SagaNames DEF DataInv
<1>3. CASE act[r] \in {"MarkTenantRestoring", "PreRestoreSnapshot"}
  <2>1. act'[r] \in {"PreRestoreSnapshot", "RestoreData"}
    BY <1>2, <1>3, RestoreTable DEF RestoreActivities
  <2> QED BY <1>1, <1>2, <1>3, <2>1 DEF RestoreInv
<1>4. CASE act[r] \in {"RestoreData", "MarkTenantRestored"}
  <2>1. act'[r] \in {"MarkTenantRestored", "completed"} /\ content["live"] # "partial"
    BY <1>1, <1>2, <1>4, RestoreTable DEF RestoreActivities, RestoreInv, LastStep
  <2> QED BY <1>1, <2>1 DEF RestoreInv
<1>5. CASE act[r] \in {"RestoreRollback", "MarkTenantRestoreFailed"}
  <2>1. act'[r] \in {"MarkTenantRestoreFailed", "failed"}
    BY <1>2, <1>5, RestoreTable DEF RestoreActivities
  <2> QED BY <1>1, <2>1 DEF RestoreInv
<1>6. QED
  BY <1>1, <1>3, <1>4, <1>5 DEF RestoreActivities

LEMMA RestoreErrors ==
  ASSUME DataInv, RestoreInv, ActivityError("restore"), Advance("restore"),
         ~scenario.sameSecond
  PROVE  RestoreInv'
<1> DEFINE r == "restore"
<1> r \in Sagas /\ ControlInv /\ ClusterInv
  BY SagaNames DEF DataInv
<1>1. /\ act[r] \in RestoreActivities /\ EndAttempt(r, Saga(r).onFailure[act[r]])
      /\ chosen' = chosen /\ files' = files /\ FilesKept /\ NewFiles
  BY Errors, RestoreTable, FilesGrow DEF Executing
<1>2. /\ step'[r] = 1
      /\ act' = act \/ act'[r] \in {"RestoreRollback", "MarkTenantRestoreFailed", "failed"}
  <2>1. Saga(r).onFailure[act[r]] \in {"RestoreRollback", "MarkTenantRestoreFailed", "failed"}
    BY <1>1, RestoreTable DEF RestoreActivities
  <2>2. /\ step'[r] = 1 /\ (act' = act \/ act'[r] = Saga(r).onFailure[act[r]])
    BY <1>1, EndAttempts
  <2> QED BY <2>1, <2>2
<1>3. CASE act'[r] \in {"RestoreRollback", "MarkTenantRestoreFailed", "failed"}
  BY <1>1, <1>3 DEF RestoreInv
<1>4. CASE act' = act /\ Loading(r) = "none"
  <2>1. "new" \notin CleansUp(r)
    BY <1>1 DEF CleansUp, At, RestoreActivities
  <2>2. content'["live"] = content["live"]
    BY <1>4, <2>1, ErrorLeaves DEF LeavesLive
  <2>3. step[r] \in 1 .. 11
    BY DEF ControlInv
  <2> QED BY <1>1, <1>2, <1>4, <2>2, <2>3, RestoreKept
<1>5. CASE act' = act /\ Loading(r) # "none" /\ act[r] = "RestoreRollback"
  BY <1>1, <1>5 DEF RestoreInv
<1>6. CASE act' = act /\ Loading(r) # "none" /\ act[r] # "RestoreRollback"
  <2>1. act[r] = "RestoreData" /\ step[r] = 1 /\ chosen # 0
    BY <1>1, <1>6 DEF Loading, At, RestoreActivities
  <2>2. Loading(r) = "live" /\ LoadedFrom(r) = chosen /\ CleansUp(r) = {}
    BY <2>1 DEF Loading, LoadedFrom, CleansUp, At
  <2>3. content'["live"] \in {content["live"]} \cup AfterFailedRestore("live", chosen)
    BY <2>2 DEF ActivityError, Remains, ClusterInv, DatabaseNames
  <2>4. content'["live"] = "partial" => files[chosen] # "empty"
    BY <2>1, <2>3 DEF AfterFailedRestore, RestoreInv
  <2> QED BY <1>1, <1>2, <1>6, <2>1, <2>4 DEF RestoreInv
<1>7. QED
  BY <1>2, <1>3, <1>4, <1>5, <1>6

LEMMA RestoreNext ==
  ASSUME RunsAlone("restore"), "restore" \in scenario.sagas, DataInv, RestoreInv, [Next]_vars
  PROVE  RestoreInv'
<1> DEFINE r == "restore"
<1> r \in Sagas /\ r \in {"migrate", "restore", "delete"} /\ ~scenario.sameSecond
  BY SagaNames DEF RunsAlone, DataInv, WorldInv
<1>1. CASE Outside
  <2>1. CASE TenantWrites /\ UNCHANGED <<act, step, chosen>>
    <3>1. /\ content'["live"] \in Data /\ files' = files
      BY <2>1 DEF TenantWrites, DataInv, ClusterInv, DatabaseNames, Data, artifacts
    <3> QED BY <2>1, <3>1 DEF RestoreInv, Data
  <2>2. CASE Unmoved /\ act'[r] = act[r] /\ step'[r] = step[r] /\ chosen' = chosen
    BY <2>2 DEF Unmoved, RestoreInv
  <2>3. CASE Unmoved /\ RestoreTenant
    <3>1. act[r] = "none" /\ act' = act
      BY <2>3 DEF RestoreTenant, AskOnce, Ask, control
    <3>2. chosen' # 0 => chosen' \in 1 .. Len(files)
      BY <2>3, FileTypes DEF RestoreTenant, DataInv
    <3> QED BY <2>3, <3>1, <3>2 DEF RestoreInv, Unmoved
  <2>4. CASE Unmoved /\ r \in asked /\ act'[r] = First[r] /\ chosen' = chosen
    <3>1. act[r] = "none" /\ act'[r] = "MarkTenantRestoring"
      BY <2>4 DEF DataInv, IdleInv, First
    <3> QED BY <2>4, <3>1 DEF Unmoved, RestoreInv
  <2> QED BY <1>1, <2>1, <2>2, <2>3, <2>4, OutsideAlone
<1>2. CASE Advance(r)
  <2>1. Report(r) \/ ActivityError(r) \/ PreRestoreSnapshot \/ RestoreData \/ RestoreRollback
    BY <1>2 DEF Advance, Activity
  <2> QED BY <1>2, <2>1, RestoreEffects, RestoreReports, RestoreErrors
<1>3. CASE Advance("backup")
  <2>1. "backup" \in Sagas /\ r # "backup"
    BY SagaNames
  <2>2. /\ LeavesLive /\ FilesKept /\ NewFiles /\ chosen' = chosen
        /\ act'[r] = act[r] /\ step'[r] = step[r]
    BY <1>3, <2>1, BackupBeside, FilesGrow
  <2> QED BY <2>2, RestoreKept DEF LeavesLive
<1>4. QED
  BY <1>1, <1>2, <1>3, NextSplits, AloneAdvance

\* RestoreData: if a restore runs with nothing else but a backup, one that completed
\* leaves no half-loaded live database, however often the load in place failed before.
THEOREM RestoredWhole ==
  ASSUME RunsAlone("restore")
  PROVE  Spec => []RestoredIsWhole
<1> DEFINE Inv == "restore" \in scenario.sagas => RestoreInv
<1>1. Init => Inv
  <2> SUFFICES ASSUME Init PROVE RestoreInv
    OBVIOUS
  <2>1. /\ written # "partial" /\ content["live"] = written /\ act["restore"] = "none"
        /\ chosen = 0 /\ (files = <<>> \/ files = <<written>>)
    BY SagaNames, ScenarioTypes DEF Init, NoRuns, DatabaseNames
  <2> QED BY <2>1 DEF RestoreInv
<1>2. DataInv /\ Inv /\ [Next]_vars => Inv'
  BY SameScenario, RestoreNext
<1>3. DataInv /\ Inv => RestoredIsWhole
  BY SagaNames DEF DataInv, IdleInv, RestoreInv, RestoredIsWhole
<1>4. QED
  BY <1>1, <1>2, <1>3, DataInvariant, PTL DEF Spec

-----------------------------------------------------------------------------
(* Reconcile.                                                              *)

\* Reconcile runs with no other saga than a backup, and no two dumps are taken in one
\* second; others may change the cluster.
ReconcilesBeside ==
  \A s \in Scenarios :
    "reconcile" \in s.sagas => s.sagas \subseteq {"reconcile", "backup"} /\ ~s.sameSecond

\* Where the saga knows nothing of the cluster.
LEMMA ProbeRests ==
  ASSUME \/ act'["reconcile"] \notin {"ProbeTenantActualState", "Reprobe",
                                      "MarkReconcileConverged", "converged",
                                      "RecordReconcileDrift", "RestoreTenantFromBackup"}
         \/ /\ act'["reconcile"] \in {"ProbeTenantActualState", "Reprobe"}
            /\ step'["reconcile"] = 1
         \/ /\ act'["reconcile"] = "RestoreTenantFromBackup"
            /\ attempt'["reconcile"] # 1 \/ step'["reconcile"] \in 3 .. 8
  PROVE  ProbeInv'
<1>1. ~Probing(2)' /\ ~Probing(3)' /\ ~Probing(4)' /\ ~Converging'
  BY DEF Probing, Converging
<1>2. ~ \/ act'["reconcile"] = "RecordReconcileDrift"
        \/ /\ act'["reconcile"] = "RestoreTenantFromBackup"
           /\ attempt'["reconcile"] = 1 /\ step'["reconcile"] <= 2
  OBVIOUS
<1>3. QED
  BY <1>1, <1>2, Zenon DEF ProbeInv

\* A step that leaves the live database, the role and the backups alone, and the saga
\* where it is or at the beginning of another attempt.
LEMMA ProbeKept ==
  ASSUME ProbeInv, LeavesLive, Completed # {} => Completed' # {}, disturbed' = disturbed,
         drifts' = drifts, act'["reconcile"] = act["reconcile"],
         \/ step'["reconcile"] = step["reconcile"] /\ attempt'["reconcile"] = attempt["reconcile"]
         \/ step'["reconcile"] = 1 /\ attempt'["reconcile"] # 1
  PROVE  ProbeInv'
<1>1. /\ Probing(2)' => Probing(2)
      /\ Probing(3)' => Probing(3)
      /\ Probing(4)' => Probing(4)
      /\ Converging' <=> Converging
  BY DEF Probing, Converging
<1>2. /\ act'["reconcile"] = "RestoreTenantFromBackup"
      /\ attempt'["reconcile"] = 1 /\ step'["reconcile"] <= 2
      => /\ act["reconcile"] = "RestoreTenantFromBackup"
         /\ attempt["reconcile"] = 1 /\ step["reconcile"] <= 2
  OBVIOUS
<1>3. /\ Exists("live")' <=> Exists("live")
      /\ "live" \in owned' <=> "live" \in owned
      /\ role => role'
  BY Zenon DEF LeavesLive, Exists
<1>4. QED
  BY <1>1, <1>2, <1>3, Zenon DEF ProbeInv

\* The three looks of a probe.
LEMMA ProbeLooks ==
  ASSUME DataInv, ProbeInv, NEW a \in {"ProbeTenantActualState", "Reprobe"},
         ProbeTenantActualState(a)
  PROVE  ProbeInv'
<1> DEFINE r == "reconcile"
<1> r \in Sagas /\ ControlInv
  BY SagaNames DEF DataInv
<1>1. UNCHANGED <<content, owned, role, files, backups>>
  BY DEF ProbeTenantActualState, cluster, artifacts
<1>2. PICK k \in {1, 2, 3} :
        /\ Do(r, a, k)
        /\ \/ /\ k = 1
              /\ drifts' = IF ~Exists("live") THEN {"missing_database"}
                           ELSE IF "live" \notin owned THEN {"shape"} ELSE {}
           \/ k = 2 /\ drifts' = drifts \cup IF role THEN {} ELSE {"missing_role"}
           \/ /\ k = 3
              /\ drifts' = drifts \cup IF Completed # {} THEN {} ELSE {"missing_backup"}
  BY Zenon DEF ProbeTenantActualState
<1>3. /\ act[r] = a /\ step[r] = k /\ act'[r] = a /\ step'[r] = k + 1
      /\ disturbed' = disturbed
  BY <1>2, Dos, Numbers DEF Undisturbed
<1>4. /\ k = 1 => ~Probing(3)' /\ ~Probing(4)'
      /\ k = 2 => ~Probing(4)' /\ Probing(2)
      /\ k = 3 => Probing(2) /\ Probing(3)
      /\ Probing(2)' /\ ~Converging' /\ k \in {1, 2, 3}
      /\ act'[r] \notin {"RecordReconcileDrift", "RestoreTenantFromBackup"}
  BY <1>2, <1>3 DEF Probing, Converging
<1>5. (Exists("live")' <=> Exists("live")) /\ Completed' = Completed
  BY <1>1 DEF Exists, Completed
<1>6. CASE k = 1
  <2>1. /\ drifts' = {} => Exists("live") /\ "live" \in owned
        /\ "missing_database" \in drifts' => ~Exists("live")
    BY <1>2, <1>6
  <2> QED BY <1>1, <1>4, <1>5, <1>6, <2>1, Zenon DEF ProbeInv
<1>7. CASE k = 2
  <2>1. drifts' = drifts \cup IF role THEN {} ELSE {"missing_role"}
    BY <1>2, <1>7
  <2>2. /\ drifts' = {} => drifts = {} /\ role
        /\ "missing_database" \in drifts' => "missing_database" \in drifts
    <3>1. CASE role
      BY <2>1, <3>1, Zenon
    <3>2. CASE ~role
      <4>1. drifts' = drifts \cup {"missing_role"}
        BY <2>1, <3>2, Zenon
      <4> QED BY <4>1
    <3> QED BY <3>1, <3>2, Zenon
  <2> QED BY <1>1, <1>3, <1>4, <1>5, <1>7, <2>2, Zenon DEF ProbeInv
<1>8. CASE k = 3
  <2>1. /\ drifts' = {} => drifts = {} /\ Completed # {}
        /\ "missing_database" \in drifts' => "missing_database" \in drifts
    BY <1>2, <1>8
  <2> QED BY <1>1, <1>3, <1>4, <1>5, <1>8, <2>1, Zenon DEF ProbeInv
<1>9. QED
  BY <1>6, <1>7, <1>8

LEMMA ProbeReports ==
  ASSUME DataInv, ProbeInv, Report("reconcile")
  PROVE  ProbeInv'
<1> DEFINE r == "reconcile"
<1>1. /\ act[r] \in ReconcileActivities /\ step[r] = LastStep(act[r])
      /\ Goto(r, Saga(r).onSuccess[act[r]])
      /\ UNCHANGED <<content, owned, role, files, backups, drifts, disturbed>>
  BY ReconcileTable DEF Report, Executing, cluster, artifacts, reads, world
<1>2. act'[r] = Saga(r).onSuccess[act[r]] /\ step'[r] = 1 /\ attempt'[r] = 1
  BY <1>1, Gotos, SagaNames DEF DataInv
<1>3. ~Probing(2)' /\ ~Probing(3)' /\ ~Probing(4)'
  BY <1>2 DEF Probing
<1>4. (Exists("live")' <=> Exists("live")) /\ Completed' = Completed
  BY <1>1 DEF Exists, Completed
<1>5. CASE act[r] \in {"ProbeTenantActualState", "Reprobe"}
  <2>1. Probing(2) /\ Probing(3) /\ Probing(4)
    BY <1>1, <1>5 DEF Probing, LastStep
  <2>2. \/ act'[r] = "MarkReconcileConverged" /\ drifts = {}
        \/ act'[r] = "RecordReconcileDrift"
        \/ act'[r] = "MarkReconcileFailed"
    BY <1>2, <1>5, ReconcileTable DEF ReconcileActivities
  <2>3. /\ Converging' => drifts = {}
        /\ act'[r] # "RestoreTenantFromBackup"
    BY <2>2 DEF Converging
  <2> QED BY <1>1, <1>3, <1>4, <2>1, <2>3, Zenon DEF ProbeInv
<1>6. CASE act[r] = "RecordReconcileDrift"
  <2>1. act'[r] = AfterRecord
    BY <1>2, <1>6, ReconcileTable DEF ReconcileActivities
  <2>2. \/ act'[r] = "RestoreTenantFromBackup" /\ "missing_database" \in drifts
        \/ act'[r] \in {"EnsureTenantDatabase", "BackupTenantData", "Reprobe"}
    BY <2>1 DEF AfterRecord, AfterRestore, AfterEnsure
  <2>3. CASE act'[r] = "RestoreTenantFromBackup" /\ "missing_database" \in drifts
    <3>1. ~Exists("live")
      BY <1>6, <2>3, Zenon DEF ProbeInv
    <3>2. ~Converging'
      BY <2>3 DEF Converging
    <3> QED BY <1>3, <1>4, <3>1, <3>2, Zenon DEF ProbeInv
  <2>4. CASE act'[r] \in {"EnsureTenantDatabase", "BackupTenantData", "Reprobe"}
    BY <1>2, <2>4, ProbeRests
  <2> QED BY <2>2, <2>3, <2>4
<1>7. CASE act[r] = "MarkReconcileConverged"
  <2>1. act'[r] = "converged"
    BY <1>2, <1>7, ReconcileTable DEF ReconcileActivities
  <2>2. Converging /\ act'[r] \notin {"RecordReconcileDrift", "RestoreTenantFromBackup"}
    BY <1>7, <2>1 DEF Converging
  <2> QED BY <1>1, <1>3, <1>4, <2>2, Zenon DEF ProbeInv
<1>8. CASE act[r] \notin {"ProbeTenantActualState", "Reprobe", "RecordReconcileDrift",
                          "MarkReconcileConverged"}
  <2>1. act'[r] \in {"ProbeTenantActualState", "MarkReconcileSkipped", "skipped", "failed",
                     "EnsureTenantDatabase", "BackupTenantData", "Reprobe"}
    BY <1>1, <1>2, <1>8, ReconcileTable DEF ReconcileActivities, AfterRestore, AfterEnsure
  <2> QED BY <1>2, <2>1, ProbeRests
<1>9. QED
  BY <1>5, <1>6, <1>7, <1>8

LEMMA ProbeErrors ==
  ASSUME DataInv, ProbeInv, ActivityError("reconcile"), CompletedKept, ~scenario.sameSecond
  PROVE  ProbeInv'
<1> DEFINE r == "reconcile"
<1> r \in Sagas /\ ControlInv
  BY SagaNames DEF DataInv
<1>1. /\ act[r] \in ReconcileActivities /\ EndAttempt(r, Saga(r).onFailure[act[r]])
      /\ drifts' = drifts /\ disturbed' = disturbed
  BY Errors, ReconcileTable DEF Executing, Undisturbed
<1>2. /\ step'[r] = 1
      /\ \/ act' = act /\ attempt'[r] # 1
         \/ act'[r] = "failed"
  <2>1. Saga(r).onFailure[act[r]] = "failed"
    BY <1>1, ReconcileTable
  <2>2. /\ step'[r] = 1
        /\ \/ act' = act /\ attempt'[r] = attempt[r] + 1
           \/ act'[r] = Saga(r).onFailure[act[r]]
    BY <1>1, EndAttempts
  <2>3. attempt[r] \in Nat \ {0}
    BY AttemptsAssumption DEF ControlInv
  <2> QED BY <2>1, <2>2, <2>3
<1>3. CASE act'[r] = "failed"
  BY <1>3, ProbeRests
<1>4. CASE act' = act /\ act[r] = "RestoreTenantFromBackup"
  BY <1>2, <1>4, ProbeRests
<1>5. CASE act' = act /\ act[r] # "RestoreTenantFromBackup"
  <2>1. Loading(r) \in {"none", "temp"} /\ "new" \notin CleansUp(r)
    BY <1>1, <1>5 DEF Loading, CleansUp, At, ReconcileActivities
  <2>2. LeavesLive /\ (Completed # {} => Completed' # {})
    BY <2>1, ErrorLeaves DEF CompletedKept
  <2>3. attempt'[r] # 1
    BY <1>1, <1>2, <1>5 DEF ReconcileActivities
  <2> QED BY <1>1, <1>2, <1>5, <2>2, <2>3, ProbeKept
<1>6. QED
  BY <1>2, <1>3, <1>4, <1>5

\* The repairs.
LEMMA ProbeRepairs ==
  ASSUME DataInv, ProbeInv,
         \/ ResolveTenantSpec \/ BackupTenantData("reconcile") \/ NoVerifiedBackup
         \/ RestoreTenantFromBackup \/ EnsureTenantDatabase
  PROVE  ProbeInv'
<1> DEFINE r == "reconcile"
           a == "RestoreTenantFromBackup"
<1> r \in Sagas /\ ControlInv
  BY SagaNames DEF DataInv
<1>1. CASE ResolveTenantSpec \/ BackupTenantData(r) \/ EnsureTenantDatabase
  <2>1. /\ act[r] \in {"ResolveTenantSpec", "BackupTenantData", "EnsureTenantDatabase"}
        /\ act' = act
    BY <1>1 DEF ResolveTenantSpec, BackupTenantData, EnsureTenantDatabase, Snapshot, Drop,
       Create, Own, Load, Validate, Inspect, Do, At, Then
  <2> QED BY <2>1, ProbeRests
<1>2. CASE NoVerifiedBackup
  <2>1. act'[r] = "MarkReconcileUnrecoverable"
    BY <1>2, Gotos DEF NoVerifiedBackup
  <2> QED BY <2>1, ProbeRests
<1>3. CASE /\ Do(r, a, 1)
           /\ UNCHANGED <<cluster, artifacts, chosen, spec, drifts>>
  <2>1. /\ act[r] = a /\ step[r] = 1 /\ act'[r] = a /\ attempt'[r] = attempt[r]
    BY <1>3, Dos, Numbers
  <2>2. attempt'[r] = 1 => ~Exists("live")
    BY <2>1 DEF ProbeInv
  <2>3. Exists("live")' <=> Exists("live")
    BY <1>3 DEF cluster, Exists
  <2>4. /\ ~Probing(2)' /\ ~Probing(3)' /\ ~Probing(4)' /\ ~Converging'
        /\ act'[r] # "RecordReconcileDrift"
    BY <2>1 DEF Probing, Converging
  <2> QED BY <2>2, <2>3, <2>4, Zenon DEF ProbeInv
<1>4. CASE \E k \in {2, 3, 4, 5, 6, 7} : Do(r, a, k)
  <2>1. PICK k \in {2, 3, 4, 5, 6, 7} : Do(r, a, k)
    BY <1>4
  <2>2. act'[r] = a /\ step'[r] = k + 1
    BY <2>1, Dos, Numbers
  <2> QED BY <2>2, ProbeRests
<1>5. RestoreTenantFromBackup =>
        \/ Do(r, a, 1) /\ UNCHANGED <<cluster, artifacts, chosen, spec, drifts>>
        \/ \E k \in {2, 3, 4, 5, 6, 7} : Do(r, a, k)
  BY DEF RestoreTenantFromBackup, Drop, Create, Own, Load, Validate
<1>6. QED
  BY <1>1, <1>2, <1>3, <1>4, <1>5

\* The other steps that no saga takes leave reconcile and the cluster alone.
LEMMA OutsideElsewhere ==
  ASSUME DataInv, Outside, ~TenantWrites, ~ExternalDrift, ~ReconcileTenant
  PROVE  /\ UNCHANGED <<content, owned, role, backups, drifts, disturbed, written, reconciles>>
         /\ act'["reconcile"] = act["reconcile"] /\ step'["reconcile"] = step["reconcile"]
         /\ attempt'["reconcile"] = attempt["reconcile"]
<1> DEFINE r == "reconcile"
<1> r \in Sagas /\ ControlInv
  BY SagaNames DEF DataInv
<1>1. UNCHANGED <<content, owned, role, backups, drifts, disturbed, written, reconciles>>
  BY DEF Outside, ExecuteWorkflow, GraceEnds, MigrateTenant, BackupTenant, RestoreTenant,
     AskOnce, DeleteTenant, RetryTenant, Ask, resumeDelete, vars, cluster, artifacts, reads,
     tenant, world
<1>2. CASE UNCHANGED <<act, step, attempt>>
  BY <1>1, <1>2
<1>3. ASSUME NEW w \in Sagas \ {r}, NEW b, Goto(w, b)
      PROVE  act'[r] = act[r] /\ step'[r] = step[r] /\ attempt'[r] = attempt[r]
  BY <1>3, Gotos DEF Others
<1>4. \/ UNCHANGED <<act, step, attempt>>
      \/ \E w \in Sagas \ {r} : \E b : Goto(w, b)
  BY SagaNames DEF Outside, ExecuteWorkflow, GraceEnds, MigrateTenant, BackupTenant,
     RestoreTenant, AskOnce, DeleteTenant, RetryTenant, Ask, resumeDelete, vars, control,
     DataInv, IdleInv
<1>5. QED
  BY <1>1, <1>2, <1>3, <1>4

LEMMA ProbeOutside ==
  ASSUME DataInv, ProbeInv, Outside
  PROVE  ProbeInv'
<1> DEFINE r == "reconcile"
<1> r \in Sagas /\ ControlInv
  BY SagaNames DEF DataInv
<1>1. CASE TenantWrites
  <2>1. /\ content' = [content EXCEPT !["live"] = written'] /\ owned' = owned /\ role' = role
        /\ content["live"] = written /\ written' \in Data
        /\ UNCHANGED <<backups, act, step, attempt, drifts, disturbed>>
    BY <1>1 DEF TenantWrites, artifacts, control, reads, world, Data
  <2>2. Exists("live") /\ Exists("live")'
    BY <2>1 DEF DataInv, WorldInv, ClusterInv, DatabaseNames, Data, Exists
  <2>3. /\ Probing(2)' <=> Probing(2)
        /\ Probing(3)' <=> Probing(3)
        /\ Probing(4)' <=> Probing(4)
        /\ Converging' <=> Converging
        /\ Completed' = Completed
    BY <2>1 DEF Probing, Converging, Completed
  <2> QED BY <2>1, <2>2, <2>3, Zenon DEF ProbeInv
<1>2. CASE ExternalDrift
  <2>1. disturbed' = TRUE /\ UNCHANGED <<act, step, attempt, drifts>>
    BY <1>2 DEF ExternalDrift, control, reads
  <2>2. ~Exists("live") => ~Exists("live")'
    BY <1>2 DEF ExternalDrift, DropDatabaseNamed, DropTenantRole, Exists, DataInv, ClusterInv,
       DatabaseNames
  <2>3. Probing(2)' <=> Probing(2)
    BY <2>1 DEF Probing
  <2> QED BY <2>1, <2>2, <2>3, Zenon DEF ProbeInv
<1>3. CASE ReconcileTenant
  <2>1. act'[r] = "ResolveTenantSpec"
    BY <1>3, Gotos DEF ReconcileTenant, First
  <2> QED BY <2>1, ProbeRests
<1>4. CASE ~TenantWrites /\ ~ExternalDrift /\ ~ReconcileTenant
  <2>1. UNCHANGED <<content, owned, role, backups, drifts, disturbed>>
    BY <1>4, OutsideElsewhere
  <2>2. act'[r] = act[r] /\ step'[r] = step[r] /\ attempt'[r] = attempt[r]
    BY <1>4, OutsideElsewhere
  <2>3. LeavesLive /\ Completed' = Completed
    BY <2>1, SameLive DEF cluster, Completed
  <2> QED BY <2>1, <2>2, <2>3, ProbeKept
<1>5. QED
  BY <1>1, <1>2, <1>3, <1>4

LEMMA ProbeNext ==
  ASSUME ReconcilesBeside, "reconcile" \in scenario.sagas, DataInv, BackingInv, ProbeInv,
         [Next]_vars
  PROVE  ProbeInv'
<1> DEFINE r == "reconcile"
<1> r \in Sagas /\ "backup" \in Sagas /\ scenario \in Scenarios
  BY SagaNames DEF DataInv, WorldInv
<1>1. /\ scenario.sagas \subseteq {r, "backup"} /\ ~scenario.sameSecond
      /\ CompletedKept
  BY CompletedStays DEF ReconcilesBeside
<1>2. CASE Advance(r)
  <2>1. \/ Report(r) \/ ActivityError(r)
        \/ \E a \in {"ProbeTenantActualState", "Reprobe"} : ProbeTenantActualState(a)
        \/ ResolveTenantSpec \/ BackupTenantData(r) \/ NoVerifiedBackup
        \/ RestoreTenantFromBackup \/ EnsureTenantDatabase
    BY <1>2 DEF Advance, Activity
  <2> QED BY <1>1, <2>1, ProbeReports, ProbeErrors, ProbeLooks, ProbeRepairs
<1>3. CASE Advance("backup")
  <2>1. /\ LeavesLive /\ drifts' = drifts /\ act'[r] = act[r] /\ step'[r] = step[r]
        /\ attempt'[r] = attempt[r]
    BY <1>3, BackupBeside
  <2>2. disturbed' = disturbed /\ (Completed # {} => Completed' # {})
    BY <1>1, <1>3, AdvanceStep DEF SagaStep, CompletedKept
  <2> QED BY <2>1, <2>2, ProbeKept
<1>4. ASSUME NEW w \in Sagas, Advance(w) PROVE w \in {r, "backup"}
  BY <1>1, <1>4, AdvanceStep
<1>5. QED
  BY <1>2, <1>3, <1>4, ProbeOutside, NextSplits

LEMMA ProbeInvariant ==
  ASSUME ReconcilesBeside
  PROVE  Spec => []("reconcile" \in scenario.sagas => ProbeInv)
<1>1. Init => ProbeInv
  <2> SUFFICES ASSUME Init PROVE ProbeInv
    OBVIOUS
  <2>1. act["reconcile"] = "none"
    BY SagaNames DEF Init, NoRuns
  <2>2. /\ ~Probing(2) /\ ~Probing(3) /\ ~Probing(4) /\ ~Converging
        /\ act["reconcile"] \notin {"RecordReconcileDrift", "RestoreTenantFromBackup"}
    BY <2>1 DEF Probing, Converging
  <2> QED BY <2>2, Zenon DEF ProbeInv
<1>2. DataInv /\ BackingInv /\ ("reconcile" \in scenario.sagas => ProbeInv) /\ [Next]_vars
        => ("reconcile" \in scenario.sagas => ProbeInv)'
  BY SameScenario, ProbeNext
<1>3. QED
  BY <1>1, <1>2, DataInvariant, BackingInvariant, PTL DEF Spec

\* ProbeTenantActualState: if reconcile runs with nothing else but a backup, what its
\* three looks report one after the other holds together when it reports convergence,
\* unless somebody changed the cluster during the run; for every number of drifts and
\* of runs.
THEOREM ConvergedNoDrift ==
  ASSUME ReconcilesBeside
  PROVE  Spec => []ConvergedHasNoDrift
<1>1. ("reconcile" \in scenario.sagas => ProbeInv) /\ DataInv => ConvergedHasNoDrift
  <2> SUFFICES ASSUME "reconcile" \in scenario.sagas => ProbeInv, DataInv,
                      act["reconcile"] = "converged", ~disturbed
               PROVE  Exists("live") /\ "live" \in owned /\ role /\ Completed # {}
    BY Zenon DEF ConvergedHasNoDrift
  <2>1. ProbeInv /\ Converging
    BY SagaNames DEF DataInv, IdleInv, Converging
  <2> QED BY <2>1, Zenon DEF ProbeInv
<1>2. QED
  BY <1>1, ProbeInvariant, DataInvariant, PTL

\* RestoreTenantFromBackup: if reconcile runs with nothing else but a backup, the
\* database that its first attempt drops is not there.
THEOREM DropsResidue ==
  ASSUME ReconcilesBeside
  PROVE  Spec => []RestoreDropsResidue
<1>1. ("reconcile" \in scenario.sagas => ProbeInv) /\ DataInv => RestoreDropsResidue
  <2> SUFFICES ASSUME "reconcile" \in scenario.sagas => ProbeInv, DataInv,
                      At("reconcile", "RestoreTenantFromBackup", 2), attempt["reconcile"] = 1
               PROVE  ~Exists("live")
    BY DEF RestoreDropsResidue
  <2>1. ProbeInv
    BY SagaNames DEF DataInv, IdleInv, At
  <2> QED BY <2>1 DEF ProbeInv, At
<1>2. QED
  BY <1>1, ProbeInvariant, DataInvariant, PTL

\* A step that leaves the live database alone, where the saga has it restored.
LEMMA RepairServes ==
  ASSUME Exists("live")', "missing_database" \in drifts' => Loaded',
         act'["reconcile"] \in {"EnsureTenantDatabase", "BackupTenantData", "Reprobe"}
  PROVE  Repairs'
BY DEF Repairs

\* Where the saga demands nothing of the database.
LEMMA RepairRests ==
  ASSUME \/ act'["reconcile"] \notin {"ProbeTenantActualState", "RecordReconcileDrift",
                                      "RestoreTenantFromBackup", "EnsureTenantDatabase",
                                      "BackupTenantData", "Reprobe"}
         \/ act'["reconcile"] = "ProbeTenantActualState" /\ step'["reconcile"] = 1
         \/ /\ act'["reconcile"] = "RestoreTenantFromBackup"
            /\ step'["reconcile"] \in {1, 2, 3}
  PROVE  Repairs'
BY DEF Repairs

\* A dump that the saga has loaded is there, and so is the database.
LEMMA LoadedExists ==
  ASSUME DataInv, Loaded
  PROVE  snap["reconcile"] \in 1 .. Len(files) /\ Exists("live")
<1>1. snap["reconcile"] \in 1 .. Len(files) /\ files \in Seq(Contents)
  BY SagaNames, FileTypes DEF DataInv, SnapInv, FilesInv, Loaded
<1>2. files[snap["reconcile"]] \in Contents /\ written # "absent"
  BY <1>1 DEF DataInv, WorldInv, Data
<1>3. QED
  BY <1>1, <1>2 DEF Loaded, Exists, Contents, Data

\* A step that leaves the live database and the dumps alone, and the saga where it is or
\* at the beginning of another attempt.
LEMMA RepairKept ==
  ASSUME DataInv, Repairs, content'["live"] = content["live"], written' = written, FilesKept,
         ~scenario.sameSecond, snap'["reconcile"] = snap["reconcile"], drifts' = drifts,
         act'["reconcile"] = act["reconcile"],
         step'["reconcile"] = step["reconcile"] \/ step'["reconcile"] = 1
  PROVE  Repairs'
<1>1. ASSUME Loaded PROVE Loaded'
  <2>1. snap["reconcile"] \in 1 .. Len(files)
    BY <1>1, LoadedExists
  <2>2. files'[snap["reconcile"]] = files[snap["reconcile"]]
    BY <2>1 DEF FilesKept
  <2> QED BY <1>1, <2>2 DEF Loaded
<1>2. QED
  BY <1>1 DEF Repairs, Exists

LEMMA RepairReports ==
  ASSUME DataInv, Repairs, Report("reconcile")
  PROVE  Repairs'
<1> DEFINE r == "reconcile"
<1>1. /\ act[r] \in ReconcileActivities /\ step[r] = LastStep(act[r])
      /\ Goto(r, Saga(r).onSuccess[act[r]])
      /\ UNCHANGED <<content, files, snap, drifts, written>>
  BY ReconcileTable DEF Report, Executing, cluster, artifacts, reads, tenant
<1>2. act'[r] = Saga(r).onSuccess[act[r]] /\ step'[r] = 1
  BY <1>1, Gotos, SagaNames DEF DataInv
<1>3. /\ Exists("live") => Exists("live")'
      /\ Loaded => Loaded'
  BY <1>1 DEF Exists, Loaded
<1>4. CASE act[r] \notin {"ProbeTenantActualState", "RecordReconcileDrift",
                          "RestoreTenantFromBackup", "EnsureTenantDatabase"}
  <2>1. \/ act'[r] \notin {"ProbeTenantActualState", "RecordReconcileDrift",
                           "RestoreTenantFromBackup", "EnsureTenantDatabase",
                           "BackupTenantData", "Reprobe"}
        \/ act'[r] = "ProbeTenantActualState"
        \/ act[r] = "BackupTenantData" /\ act'[r] = "Reprobe"
    BY <1>1, <1>2, <1>4, ReconcileTable DEF ReconcileActivities
  <2>2. CASE act[r] = "BackupTenantData" /\ act'[r] = "Reprobe"
    BY <1>1, <1>3, <2>2, RepairServes DEF Repairs
  <2> QED BY <1>2, <2>1, <2>2, RepairRests
<1>5. CASE act[r] = "ProbeTenantActualState"
  <2>1. act'[r] \in {"MarkReconcileConverged", "RecordReconcileDrift"}
    BY <1>2, <1>5, ReconcileTable DEF ReconcileActivities
  <2>2. "missing_database" \in drifts \/ Exists("live")
    BY <1>1, <1>5 DEF Repairs, LastStep
  <2> QED BY <1>1, <1>3, <2>1, <2>2 DEF Repairs
<1>6. CASE act[r] = "RecordReconcileDrift"
  <2>1. act'[r] = AfterRecord
    BY <1>2, <1>6, ReconcileTable DEF ReconcileActivities
  <2>2. \/ act'[r] = "RestoreTenantFromBackup"
        \/ /\ act'[r] \in {"EnsureTenantDatabase", "BackupTenantData", "Reprobe"}
           /\ "missing_database" \notin drifts
    BY <2>1 DEF AfterRecord, AfterRestore, AfterEnsure
  <2>3. "missing_database" \in drifts \/ Exists("live")
    BY <1>6 DEF Repairs
  <2> QED BY <1>1, <1>2, <1>3, <2>2, <2>3, RepairServes, RepairRests
<1>7. CASE act[r] \in {"RestoreTenantFromBackup", "EnsureTenantDatabase"}
  <2>1. Exists("live") /\ ("missing_database" \in drifts => Loaded)
    BY <1>1, <1>7, LoadedExists DEF Repairs, LastStep
  <2>2. act'[r] \in {"EnsureTenantDatabase", "BackupTenantData", "Reprobe"}
    BY <1>2, <1>7, ReconcileTable DEF ReconcileActivities, AfterRestore, AfterEnsure
  <2> QED BY <1>1, <1>3, <2>1, <2>2, RepairServes
<1>8. QED
  BY <1>4, <1>5, <1>6, <1>7

LEMMA RepairErrors ==
  ASSUME DataInv, Repairs, ActivityError("reconcile"), Advance("reconcile"),
         ~scenario.sameSecond
  PROVE  Repairs'
<1> DEFINE r == "reconcile"
<1> r \in Sagas /\ ControlInv
  BY SagaNames DEF DataInv
<1>1. /\ act[r] \in ReconcileActivities /\ EndAttempt(r, Saga(r).onFailure[act[r]])
      /\ drifts' = drifts /\ written' = written /\ snap' = snap /\ FilesKept
  BY Errors, ReconcileTable, RowChanges DEF Executing, ActivityError, reads
<1>2. step'[r] = 1 /\ (act' = act \/ act'[r] = "failed")
  <2>1. Saga(r).onFailure[act[r]] = "failed"
    BY <1>1, ReconcileTable
  <2> QED BY <1>1, <2>1, EndAttempts
<1>3. CASE act'[r] = "failed" \/ act'[r] = "RestoreTenantFromBackup"
  BY <1>2, <1>3, RepairRests
<1>4. CASE act' = act /\ act[r] # "RestoreTenantFromBackup"
  <2>1. Loading(r) \in {"none", "temp"} /\ "new" \notin CleansUp(r)
    BY <1>1, <1>4 DEF Loading, CleansUp, At, ReconcileActivities
  <2>2. content'["live"] = content["live"]
    BY <2>1, ErrorLeaves DEF LeavesLive
  <2> QED BY <1>1, <1>2, <1>4, <2>2, RepairKept
<1>5. QED
  BY <1>2, <1>3, <1>4

\* The looks of the two probes.
LEMMA RepairLooks ==
  ASSUME DataInv, Repairs, NEW a \in {"ProbeTenantActualState", "Reprobe"},
         ProbeTenantActualState(a)
  PROVE  Repairs'
<1> DEFINE r == "reconcile"
<1> r \in Sagas /\ ControlInv
  BY SagaNames DEF DataInv
<1>1. UNCHANGED <<content, files, snap>>
  BY DEF ProbeTenantActualState, cluster, artifacts
<1>2. PICK k \in {1, 2, 3} :
        /\ Do(r, a, k)
        /\ \/ /\ k = 1 /\ (~Exists("live") => drifts' = {"missing_database"})
              /\ Exists("live") => drifts' \subseteq {"shape"}
           \/ k \in {2, 3} /\ \E d \in SUBSET {"missing_role", "missing_backup"} :
                                drifts' = drifts \cup d
  BY Zenon DEF ProbeTenantActualState
<1>3. /\ act[r] = a /\ act' = act /\ step[r] = k /\ step'[r] = k + 1 /\ written' = written
  BY <1>2, Dos, Numbers DEF Undisturbed
<1>4. /\ Exists("live") => Exists("live")'
      /\ Loaded => Loaded'
  BY <1>1, <1>3 DEF Exists, Loaded
<1>5. CASE a = "ProbeTenantActualState"
  <2>1. "missing_database" \in drifts' \/ Exists("live")
    BY <1>2, <1>3, <1>5 DEF Repairs
  <2> QED BY <1>3, <1>4, <1>5, <2>1 DEF Repairs
<1>6. CASE a = "Reprobe"
  <2>1. Exists("live") /\ ("missing_database" \in drifts => Loaded)
    BY <1>3, <1>6 DEF Repairs
  <2>2. "missing_database" \in drifts' => "missing_database" \in drifts
    BY <1>2, <2>1
  <2> QED BY <1>3, <1>4, <1>6, <2>1, <2>2, RepairServes
<1>7. QED
  BY <1>5, <1>6

\* The backup that the saga takes becomes the dump that it names.
LEMMA RepairBackups ==
  ASSUME DataInv, Repairs, Advance("reconcile"), BackupTenantData("reconcile"),
         ~scenario.sameSecond
  PROVE  Repairs'
<1> DEFINE r == "reconcile"
           b == "BackupTenantData"
<1> r \in Sagas /\ ControlInv
  BY SagaNames DEF DataInv
<1>1. act[r] = b /\ act' = act /\ drifts' = drifts /\ written' = written
  BY DEF BackupTenantData, Snapshot, Drop, Create, Own, Load, Validate, Inspect, Do, At, Then,
     reads, tenant
<1>2. content'["live"] = content["live"] /\ FilesKept
  BY BackupLeaves, RowChanges DEF LeavesLive
<1>3. Exists("live") /\ ("missing_database" \in drifts => Loaded)
  BY <1>1 DEF Repairs
<1>4. CASE Snapshot(r, b, 2)
  <2>1. snap'[r] \in 1 .. Len(files') /\ files'[snap'[r]] = content["live"]
    BY <1>4, Snapshots, Numbers
  <2>2. Loaded'
    BY <1>2, <2>1 DEF Loaded
  <2> QED BY <1>1, <1>2, <1>3, <2>2, RepairServes DEF Exists
<1>5. CASE snap' = snap
  <2>1. ASSUME Loaded PROVE Loaded'
    <3>1. files'[snap[r]] = files[snap[r]]
      BY <1>2, <2>1, LoadedExists DEF FilesKept
    <3> QED BY <1>1, <1>2, <1>5, <2>1, <3>1 DEF Loaded
  <2> QED BY <1>1, <1>2, <1>3, <2>1, RepairServes DEF Exists
<1>6. Snapshot(r, b, 2) \/ snap' = snap
  BY DEF BackupTenantData, Drop, Create, Own, Load, Validate, Inspect, reads
<1>7. QED
  BY <1>4, <1>5, <1>6

LEMMA RepairEffects ==
  ASSUME DataInv, Repairs, NoVerifiedBackup \/ RestoreTenantFromBackup \/ EnsureTenantDatabase
  PROVE  Repairs'
<1> DEFINE r == "reconcile"
           a == "RestoreTenantFromBackup"
<1> /\ r \in Sagas /\ ControlInv /\ DatabaseNames = {"live", "new", "temp"}
    /\ content \in [DatabaseNames -> Contents \cup {"absent"}]
  BY SagaNames DEF DataInv, ClusterInv, DatabaseNames
<1>1. CASE NoVerifiedBackup
  <2>1. act'[r] = "MarkReconcileUnrecoverable"
    BY <1>1, Gotos DEF NoVerifiedBackup
  <2> QED BY <2>1, RepairRests
<1>2. CASE EnsureTenantDatabase
  <2>1. act[r] = "EnsureTenantDatabase" /\ act' = act /\ UNCHANGED <<files, snap, drifts, written>>
    BY <1>2 DEF EnsureTenantDatabase, Inspect, Create, Own, artifacts, reads, tenant, Do, At,
       Then
  <2>2. Exists("live") /\ ("missing_database" \in drifts => Loaded)
    BY <2>1 DEF Repairs
  <2>3. content'["live"] = content["live"]
    BY <1>2, <2>2 DEF EnsureTenantDatabase, Inspect, Create, Own, cluster,
       CreateDatabaseNamed, applyDatabaseOwnership, Exists
  <2> QED BY <2>1, <2>2, <2>3, RepairServes DEF Loaded, Exists
<1>3. ASSUME NEW k \in 1 .. 7, Do(r, a, k)
      PROVE  act[r] = a /\ step[r] = k /\ act' = act /\ step'[r] = k + 1 /\ written' = written
  BY <1>3, Dos DEF Undisturbed
<1>4. CASE Do(r, a, 1) \/ Drop(r, a, 2, "live")
  <2>1. act'[r] = a /\ step'[r] \in {2, 3}
    BY <1>3, <1>4 DEF Drop
  <2> QED BY <2>1, RepairRests
<1>5. CASE Create(r, a, 3, "live")
  <2>1. act'[r] = a /\ step'[r] = 4 /\ content'["live"] = "empty"
    BY <1>3, <1>5 DEF Create, CreateDatabaseNamed
  <2> QED BY <2>1 DEF Repairs
<1>6. CASE Own(r, a, 4, "live")
  <2>1. /\ act[r] = a /\ step[r] = 4 /\ act'[r] = a /\ step'[r] = 5
        /\ written' = written /\ content' = content
    BY <1>3, <1>6 DEF Own, applyDatabaseOwnership
  <2> QED BY <2>1 DEF Repairs
<1>7. CASE Load(r, a, 5, "live", snap[r])
  <2>1. /\ act[r] = a /\ step[r] = 5 /\ act'[r] = a /\ step'[r] = 6
        /\ files' = files /\ snap' = snap /\ written' = written
        /\ content["live"] = "empty" \/ files[snap[r]] = "empty"
        /\ content'["live"] = IF files[snap[r]] = "empty" THEN content["live"]
                                                          ELSE files[snap[r]]
    BY <1>3, <1>7 DEF Load, artifacts, reads, RestoreDatabaseFromBackup, Loads
  <2>2. snap[r] \in 1 .. Len(files)
    BY <2>1, FileTypes DEF DataInv, SnapInv, Carries
  <2>3. content["live"] \in {"empty", written}
    BY <2>1 DEF Repairs
  <2>4. Loaded'
    BY <2>1, <2>2, <2>3 DEF Loaded
  <2> QED BY <2>1, <2>4 DEF Repairs
<1>8. CASE Own(r, a, 6, "live") \/ Validate(r, a, 7, "live")
  <2>1. PICK k \in {6, 7} : Do(r, a, k) /\ UNCHANGED <<files, snap, content>>
    BY <1>8 DEF Own, Validate, artifacts, reads, cluster, applyDatabaseOwnership
  <2>2. act[r] = a /\ step[r] = k /\ act'[r] = a /\ step'[r] = k + 1 /\ written' = written
    BY <1>3, <2>1
  <2> QED BY <2>1, <2>2 DEF Repairs, Loaded
<1>9. RestoreTenantFromBackup =>
        \/ Do(r, a, 1)
        \/ Drop(r, a, 2, "live") \/ Create(r, a, 3, "live") \/ Own(r, a, 4, "live")
        \/ Load(r, a, 5, "live", snap[r]) \/ Own(r, a, 6, "live")
        \/ Validate(r, a, 7, "live")
  BY DEF RestoreTenantFromBackup
<1>10. QED
  BY <1>1, <1>2, <1>4, <1>5, <1>6, <1>7, <1>8, <1>9

LEMMA RepairOutside ==
  ASSUME DataInv, RepairInv, Outside, ~scenario.sameSecond
  PROVE  RepairInv'
<1> DEFINE r == "reconcile"
<1> /\ r \in Sagas /\ ControlInv /\ DatabaseNames = {"live", "new", "temp"}
    /\ content \in [DatabaseNames -> Contents \cup {"absent"}]
    /\ files' = files /\ snap' = snap
  BY SagaNames, OutsideLeaves DEF DataInv, ClusterInv, DatabaseNames
<1>1. CASE TenantWrites
  <2>1. /\ content["live"] = written /\ written' \in Data /\ content'["live"] = written'
        /\ UNCHANGED <<act, step, disturbed, drifts>>
    BY <1>1 DEF TenantWrites, control, world, reads, Data
  <2>2. Repairs => Repairs'
    BY <2>1 DEF Repairs, Loaded, Exists, Data
  <2> QED BY <2>1, <2>2, Zenon DEF RepairInv
<1>2. CASE ExternalDrift
  <2>1. disturbed' = TRUE
    BY <1>2 DEF ExternalDrift
  <2> QED BY <2>1, Zenon DEF RepairInv
<1>3. CASE ReconcileTenant
  <2>1. act'[r] = "ResolveTenantSpec"
    BY <1>3, Gotos DEF ReconcileTenant, First
  <2> QED BY <2>1, RepairRests DEF RepairInv
<1>4. CASE ~TenantWrites /\ ~ExternalDrift /\ ~ReconcileTenant
  <2>1. /\ UNCHANGED <<content, drifts, disturbed, written>>
        /\ act'[r] = act[r] /\ step'[r] = step[r]
    BY <1>4, OutsideElsewhere
  <2>2. Repairs => Repairs'
    BY <2>1, SameFiles, RepairKept
  <2> QED BY <2>1, <2>2, Zenon DEF RepairInv
<1>5. QED
  BY <1>1, <1>2, <1>3, <1>4

LEMMA RepairNext ==
  ASSUME ReconcilesBeside, "reconcile" \in scenario.sagas, DataInv, RepairInv, [Next]_vars
  PROVE  RepairInv'
<1> DEFINE r == "reconcile"
<1> r \in Sagas /\ "backup" \in Sagas /\ scenario \in Scenarios
  BY SagaNames DEF DataInv, WorldInv
<1>1. scenario.sagas \subseteq {r, "backup"} /\ ~scenario.sameSecond
  BY DEF ReconcilesBeside
<1>2. ASSUME NEW w \in Sagas, Advance(w)
      PROVE  w \in {r, "backup"} /\ disturbed' = disturbed
  BY <1>1, <1>2, AdvanceStep DEF SagaStep
<1>3. CASE Advance(r)
  <2>1. \/ Report(r) \/ ActivityError(r)
        \/ \E a \in {"ProbeTenantActualState", "Reprobe"} : ProbeTenantActualState(a)
        \/ ResolveTenantSpec \/ BackupTenantData(r) \/ NoVerifiedBackup
        \/ RestoreTenantFromBackup \/ EnsureTenantDatabase
    BY <1>3 DEF Advance, Activity
  <2>2. ASSUME ResolveTenantSpec PROVE Repairs'
    <3>1. act[r] = "ResolveTenantSpec" /\ act' = act
      BY <2>2 DEF ResolveTenantSpec, Do, At, Then
    <3> QED BY <3>1, RepairRests
  <2>3. Repairs => Repairs'
    BY <1>1, <1>3, <2>1, <2>2, RepairReports, RepairErrors, RepairLooks, RepairBackups,
       RepairEffects
  <2> QED BY <1>2, <1>3, <2>3, Zenon DEF RepairInv
<1>4. CASE Advance("backup")
  <2>1. Repairs => Repairs'
    BY <1>1, <1>4, BackupBeside, RepairKept DEF LeavesLive
  <2> QED BY <1>2, <1>4, <2>1, Zenon DEF RepairInv
<1>5. QED
  BY <1>1, <1>2, <1>3, <1>4, RepairOutside, NextSplits

\* RestoreTenantFromBackup: if reconcile runs with nothing else but a backup, and nobody
\* else changed the cluster during the run, a database that the run found missing holds
\* the whole of a dump, or what the tenant wrote since, by the time it is probed again;
\* for every number of runs, of attempts on the residue of other ones, and of drifts.
THEOREM RepairsFromBackup ==
  ASSUME ReconcilesBeside
  PROVE  Spec => []RepairIsFromBackup
<1> DEFINE Inv == "reconcile" \in scenario.sagas => RepairInv
<1>1. Init => Inv
  <2> SUFFICES ASSUME Init PROVE RepairInv
    OBVIOUS
  <2>1. act["reconcile"] = "none"
    BY SagaNames DEF Init, NoRuns
  <2>2. Repairs
    BY <2>1 DEF Repairs
  <2> QED BY <2>2 DEF RepairInv
<1>2. DataInv /\ Inv /\ [Next]_vars => Inv'
  BY SameScenario, RepairNext
<1>3. DataInv /\ Inv => RepairIsFromBackup
  <2> SUFFICES ASSUME DataInv, Inv, At("reconcile", "Reprobe", 1), ~disturbed,
                      "missing_database" \in drifts
               PROVE  Loaded
    BY Zenon DEF RepairIsFromBackup, Loaded
  <2>1. RepairInv
    BY SagaNames DEF DataInv, IdleInv, At
  <2>2. Repairs
    BY <2>1, Zenon DEF RepairInv
  <2> QED BY <2>2 DEF Repairs, At
<1>4. QED
  BY <1>1, <1>2, <1>3, DataInvariant, PTL DEF Spec

=============================================================================
