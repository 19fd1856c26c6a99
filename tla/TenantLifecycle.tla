--------------------------- MODULE TenantLifecycle ---------------------------
(***************************************************************************)
(* The life of one tenant: the provision and delete sagas as Temporal runs  *)
(* their activities (internal/workflow, internal/activities), the API      *)
(* requests that start, cancel and retry them (internal/handler), the      *)
(* instance recorder behind the dead letter queue (internal/instance), and *)
(* the tenant's row, database, owner role, Keycloak user and backups.      *)
(*                                                                         *)
(* An activity is a sequence of numbered effects.  step[w] = 0 means that  *)
(* the next attempt of act[w] is scheduled but no worker has picked it up; *)
(* step[w] = k means that the attempt is about to perform effect k.  The   *)
(* last effect writes the audit event, if there is one, and reports        *)
(* success.  An attempt may end badly before any effect, the last one      *)
(* included, with the earlier effects committed.  Two runs interleave      *)
(* effect by effect.                                                       *)
(***************************************************************************)
EXTENDS Naturals

CONSTANTS
  Clients,          \* concurrent API requests
  MaximumAttempts,  \* RetryPolicy.MaximumAttempts of every activity
  MaxRequests,      \* bound: API requests that pass their handler's checks
  WorkerCrashes,    \* BOOLEAN: may a worker die with attempts executing?
  RecorderFaults    \* the sagas whose workflow_instances writes may fail

ASSUME ConstantsAssumption ==
  /\ MaximumAttempts \in Nat \ {0}
  /\ MaxRequests \in Nat
  /\ WorkerCrashes \in BOOLEAN
  /\ RecorderFaults \subseteq {"provision", "delete"}

VARIABLES
  status,    \* tenants.status, "none" while there is no row
  mode,      \* tenants.isolation_mode
  db,        \* database tenant_<id>: absent, or what it holds
  owned,     \* tenant_<id> is owned by the tenant's role, PUBLIC is revoked
  role,      \* the owner role tenant_<id> exists
  temp,      \* the verification database tenant_<id>_temp exists
  user,      \* the Keycloak user of the tenant
  backups,   \* contents of the backups recorded as completed
  dump,      \* what the snapshot under verification holds
  act,       \* per saga: the activity to execute, or how the last run closed
  step,      \* per saga: the effect the executing attempt performs next
  attempt,   \* per saga: the number of the attempt
  row,       \* per saga: the current run's workflow_instances row
  dlq,       \* the sagas with a failed row left by an earlier run
  signal,    \* a cancel-delete signal is buffered for the open delete run
  pending,   \* per client: the request whose handler has done its checks
  requests,  \* how many requests passed the checks so far
  torn,      \* history: teardown of the deleting tenant has begun
  graced     \* history: a grace period ran out since it became deleting

infra == <<db, owned, role, temp, user>>
copies == <<backups, dump>>
control == <<act, step, attempt>>
records == <<row, dlq>>
api == <<pending, requests>>
history == <<torn, graced>>
vars == <<status, mode, infra, copies, control, records, signal, api, history>>

Workflows == {"provision", "delete"}
Modes == {"dedicated", "shared"}
Statuses == {"none", "provisioning", "active", "failed", "deleting", "deleted"}
Contents == {"empty", "data"}

-----------------------------------------------------------------------------
(* The two sagas as tables: which activity follows a success, which one    *)
(* follows an activity that was given up, and how many effects each has.   *)

ProvisionActivities ==
  {"CreateTenantRecord", "ProvisionTenant", "ProvisionTenantIdentity",
   "MarkTenantActive", "DeleteTenantIdentity", "DropTenantDatabase",
   "MarkTenantFailed"}

DeleteActivities ==
  {"MarkTenantDeleting", "RestoreTenantAfterCancel", "BackupTenantData",
   "DeprovisionTenant", "DeleteTenantIdentityByTenant", "MarkTenantDeleted",
   "MarkTenantDeleteFailed"}

Activities == ProvisionActivities \cup DeleteActivities

\* ProvisionTenantWorkflow: the forward steps, and the deferred compensation,
\* which undoes exactly the steps that reported success (userID, dbCreated).
ProvisionTenantWorkflow ==
  [onSuccess |-> [CreateTenantRecord      |-> "ProvisionTenant",
                  ProvisionTenant         |-> "ProvisionTenantIdentity",
                  ProvisionTenantIdentity |-> "MarkTenantActive",
                  MarkTenantActive        |-> "completed",
                  DeleteTenantIdentity    |-> "DropTenantDatabase",
                  DropTenantDatabase      |-> "MarkTenantFailed",
                  MarkTenantFailed        |-> "failed"],
   onFailure |-> [CreateTenantRecord      |-> "MarkTenantFailed",
                  ProvisionTenant         |-> "MarkTenantFailed",
                  ProvisionTenantIdentity |-> "DropTenantDatabase",
                  MarkTenantActive        |-> "DeleteTenantIdentity",
                  DeleteTenantIdentity    |-> "DropTenantDatabase",
                  DropTenantDatabase      |-> "MarkTenantFailed",
                  MarkTenantFailed        |-> "failed"]]

\* Mutant: a deletion that fails is undone, as the other sagas undo theirs.
UndoesDeletion ==
  [a \in DeleteActivities |->
     CASE a = "MarkTenantDeleteFailed" -> "failed"
       [] a = "DeprovisionTenant" -> "RestoreTenantAfterCancel"
       [] OTHER -> "MarkTenantDeleteFailed"]

\* Mutant: a user that cannot be deleted is left behind.
IgnoresIdentity ==
  [a \in DeleteActivities |->
     CASE a = "MarkTenantDeleteFailed" -> "failed"
       [] a = "DeleteTenantIdentityByTenant" -> "MarkTenantDeleted"
       [] OTHER -> "MarkTenantDeleteFailed"]

\* The deferred function of DeleteTenantWorkflow: a step that is given up leads
\* to the audit of the failure, and nothing is undone.
DeleteFailure ==
  [a \in DeleteActivities |->
     IF a = "MarkTenantDeleteFailed" THEN "failed" ELSE "MarkTenantDeleteFailed"]

\* DeleteTenantWorkflow: a cancelled deletion closes as completed.
DeleteTenantWorkflow ==
  [onSuccess |-> [MarkTenantDeleting           |-> "grace",
                  RestoreTenantAfterCancel     |-> "completed",
                  BackupTenantData             |-> "DeprovisionTenant",
                  DeprovisionTenant            |-> "DeleteTenantIdentityByTenant",
                  DeleteTenantIdentityByTenant |-> "MarkTenantDeleted",
                  MarkTenantDeleted            |-> "completed",
                  MarkTenantDeleteFailed       |-> "failed"],
   onFailure |-> DeleteFailure]

Saga(w) == IF w = "provision" THEN ProvisionTenantWorkflow ELSE DeleteTenantWorkflow

\* The teardown of the delete saga: shared tenants have nothing to back up.
FirstTeardownStep ==
  IF mode = "shared" THEN "DeprovisionTenant" ELSE "BackupTenantData"

\* The number of the effect that reports success.
LastStep ==
  [CreateTenantRecord |-> 2, ProvisionTenant |-> 5,
   ProvisionTenantIdentity |-> 3, MarkTenantActive |-> 2,
   DeleteTenantIdentity |-> 2, DropTenantDatabase |-> 3,
   MarkTenantFailed |-> 2, MarkTenantDeleting |-> 2,
   RestoreTenantAfterCancel |-> 2, BackupTenantData |-> 7,
   DeprovisionTenant |-> 3, DeleteTenantIdentityByTenant |-> 2,
   MarkTenantDeleted |-> 2, MarkTenantDeleteFailed |-> 1]

Open(w) == act[w] \in Activities \cup {"grace"}

-----------------------------------------------------------------------------
(* Attempts: how Temporal schedules, retries and gives up an activity, and *)
(* what the instance recorder writes around it.                            *)

At(w, a, k) == act[w] = a /\ step[w] = k

Goto(w, a) ==
  /\ act' = [act EXCEPT ![w] = a]
  /\ step' = [step EXCEPT ![w] = 0]
  /\ attempt' = [attempt EXCEPT ![w] = 1]

\* The attempt performs an effect and goes on with effect k.
Then(w, k) ==
  /\ step' = [step EXCEPT ![w] = k]
  /\ UNCHANGED <<act, attempt, records>>

\* Mutant: one attempt more than MaximumAttempts.
RetriesOnceMore(lost, final) ==
  LET over(w) == w \in final \/ attempt[w] > MaximumAttempts
  IN  /\ act' = [w \in Workflows |->
                   IF w \in lost /\ over(w) THEN Saga(w).onFailure[act[w]] ELSE act[w]]
      /\ step' = [w \in Workflows |-> IF w \in lost THEN 0 ELSE step[w]]
      /\ attempt' = [w \in Workflows |->
                       IF w \notin lost THEN attempt[w]
                       ELSE IF over(w) THEN 1 ELSE attempt[w] + 1]

\* Mutant: a retry policy without a limit.
RetriesForever(lost, final) ==
  /\ act' = [w \in Workflows |->
               IF w \in lost \cap final THEN Saga(w).onFailure[act[w]] ELSE act[w]]
  /\ step' = [w \in Workflows |-> IF w \in lost THEN 0 ELSE step[w]]
  /\ UNCHANGED attempt

\* The attempts of the sagas in lost end without success.  The ones in final
\* are not retried; the others are retried until MaximumAttempts is reached.
EndAttempts(lost, final) ==
  LET over(w) == w \in final \/ attempt[w] = MaximumAttempts
  IN  /\ act' = [w \in Workflows |->
                   IF w \in lost /\ over(w) THEN Saga(w).onFailure[act[w]] ELSE act[w]]
      /\ step' = [w \in Workflows |-> IF w \in lost THEN 0 ELSE step[w]]
      /\ attempt' = [w \in Workflows |->
                       IF w \notin lost THEN attempt[w]
                       ELSE IF over(w) THEN 1 ELSE attempt[w] + 1]

\* Mutant: every attempt sets the row to running, also after a failure.
Upserts(w) == row' = [row EXCEPT ![w] = "running"]

\* Recorder.markRunning: the seen set is updated before the insert, so that an
\* insert that fails ("missed") is not repeated by this worker.
markRunning(w) ==
  \/ row[w] # "unseen" /\ UNCHANGED row
  \/ row[w] = "unseen" /\ row' = [row EXCEPT ![w] = "running"]
  \/ w \in RecorderFaults /\ row[w] = "unseen" /\ row' = [row EXCEPT ![w] = "missed"]

\* Recorder.markFailed: an UPDATE, of no row if the insert was missed.
markFailed(w) ==
  \/ row[w] \in {"running", "failed"} /\ row' = [row EXCEPT ![w] = "failed"]
  \/ row[w] \notin {"running", "failed"} /\ UNCHANGED row
  \/ w \in RecorderFaults /\ UNCHANGED row

\* A worker picks up a scheduled attempt: Recorder.ExecuteActivity begins.
ExecuteActivity(w) ==
  /\ act[w] \in Activities
  /\ step[w] = 0
  /\ step' = [step EXCEPT ![w] = 1]
  /\ markRunning(w)
  /\ UNCHANGED <<status, mode, infra, copies, act, attempt, dlq, signal, api, history>>

\* The attempt performs its last effect and its success reaches Temporal.
Report(w) ==
  /\ act[w] \in Activities
  /\ step[w] = LastStep[act[w]]
  /\ Goto(w, Saga(w).onSuccess[act[w]])
  /\ UNCHANGED <<status, mode, infra, copies, records, signal, api, history>>

\* What a failed BackupTenantData leaves of the _temp database: it may have got
\* past the pre-drop, and a failed restore or validation drops it if it can.
TempLeft ==
  IF At("delete", "BackupTenantData", 3) \/ At("delete", "BackupTenantData", 4)
    THEN {temp, FALSE} ELSE {temp}

\* The attempt returns a retryable error instead of performing its next effect.
ActivityError(w) ==
  /\ act[w] \in Activities
  /\ step[w] > 0
  /\ EndAttempts({w}, {})
  /\ markFailed(w)
  /\ temp' \in IF w = "delete" THEN TempLeft ELSE {temp}
  /\ UNCHANGED <<status, mode, db, owned, role, user, copies, dlq, signal, api, history>>

\* The worker process dies: every executing attempt times out unreported, and
\* the recorder's seen set is gone.
WorkerCrash ==
  /\ WorkerCrashes
  /\ \E w \in Workflows : step[w] > 0
  /\ EndAttempts({w \in Workflows : step[w] > 0}, {})
  /\ row' = [w \in Workflows |-> IF row[w] = "missed" THEN "unseen" ELSE row[w]]
  /\ temp' \in TempLeft
  /\ UNCHANGED <<status, mode, db, owned, role, user, copies, dlq, signal, api, history>>

-----------------------------------------------------------------------------
(* The tenant row.                                                         *)

\* Effect 1 of activity a: the compare-and-set of UpdateTenantStatusFrom.  A
\* conflict is a non-retryable error.
UpdateTenantStatusFrom(w, a, to, from) ==
  /\ At(w, a, 1)
  /\ \/ /\ status \in from
        /\ status' = to
        /\ Then(w, 2)
     \/ /\ status \notin from
        /\ EndAttempts({w}, {w})
        /\ markFailed(w)
        /\ UNCHANGED <<status, dlq>>

CreateTenantRecord ==
  /\ At("provision", "CreateTenantRecord", 1)
  /\ status' = IF status = "none" THEN "provisioning" ELSE status
  /\ Then("provision", 2)
  /\ UNCHANGED <<mode, infra, copies, signal, api, history>>

MarkTenantActive ==
  /\ UpdateTenantStatusFrom("provision", "MarkTenantActive", "active",
                            {"provisioning", "failed"})
  /\ UNCHANGED <<mode, infra, copies, signal, api, history>>

\* Mutant: the compensation's update is not a compare-and-set.
FailsAnyway ==
  /\ UpdateTenantStatusFrom("provision", "MarkTenantFailed", "failed", Statuses)
  /\ UNCHANGED <<mode, infra, copies, signal, api, history>>

MarkTenantFailed ==
  /\ UpdateTenantStatusFrom("provision", "MarkTenantFailed", "failed",
                            {"provisioning", "failed"})
  /\ UNCHANGED <<mode, infra, copies, signal, api, history>>

MarkTenantDeleting ==
  /\ UpdateTenantStatusFrom("delete", "MarkTenantDeleting", "deleting",
                            {"active", "failed"})
  /\ graced' = (graced /\ status' = status)
  /\ UNCHANGED <<mode, infra, copies, signal, api, torn>>

RestoreTenantAfterCancel ==
  /\ UpdateTenantStatusFrom("delete", "RestoreTenantAfterCancel", "active",
                            {"deleting"})
  /\ UNCHANGED <<mode, infra, copies, signal, api, history>>

MarkTenantDeleted ==
  /\ UpdateTenantStatusFrom("delete", "MarkTenantDeleted", "deleted",
                            {"deleting"})
  /\ UNCHANGED <<mode, infra, copies, signal, api, history>>

-----------------------------------------------------------------------------
(* The tenant's infrastructure.                                            *)

\* Mutant: an existing database is taken to be provisioned.
TrustsExisting == IF mode = "shared" \/ db # "absent" THEN 5 ELSE 2

\* The effect that follows the inspection of the tenant's database.
AfterInspect == CASE mode = "shared" -> 5
                  [] mode # "shared" /\ db = "absent" -> 2
                  [] OTHER -> 3

\* ProvisionTenant: inspect, create the database if it is missing, create the
\* role if it is missing, make it the owner.  Shared tenants get none of this.
ProvisionTenant ==
  /\ \/ /\ At("provision", "ProvisionTenant", 1)
        /\ Then("provision", AfterInspect)
        /\ UNCHANGED infra
     \/ /\ At("provision", "ProvisionTenant", 2)
        /\ db = "absent"
        /\ db' = "empty"
        /\ Then("provision", 3)
        /\ UNCHANGED <<owned, role, temp, user>>
     \/ /\ At("provision", "ProvisionTenant", 3)
        /\ role' = TRUE
        /\ Then("provision", 4)
        /\ UNCHANGED <<db, owned, temp, user>>
     \/ /\ At("provision", "ProvisionTenant", 4)
        /\ db # "absent" /\ role
        /\ owned' = TRUE
        /\ Then("provision", 5)
        /\ UNCHANGED <<db, role, temp, user>>
  /\ UNCHANGED <<status, mode, copies, signal, api, history>>

\* ProvisionTenantIdentity: get or create the user, then assign its role.
ProvisionTenantIdentity ==
  /\ \/ /\ At("provision", "ProvisionTenantIdentity", 1)
        /\ user' = IF user = "absent" THEN "created" ELSE user
        /\ Then("provision", 2)
     \/ /\ At("provision", "ProvisionTenantIdentity", 2)
        /\ user # "absent"
        /\ user' = "operator"
        /\ Then("provision", 3)
  /\ UNCHANGED <<status, mode, db, owned, role, temp, copies, signal, api, history>>

\* DeleteTenantIdentity (the compensation, by user ID) and
\* DeleteTenantIdentityByTenant (the delete saga, by name): gone is success.
DropUser(w, a) ==
  /\ At(w, a, 1)
  /\ user' = "absent"
  /\ Then(w, 2)
  /\ UNCHANGED <<status, mode, db, owned, role, temp, copies, signal, api, history>>

DeleteTenantIdentity == DropUser("provision", "DeleteTenantIdentity")

DeleteTenantIdentityByTenant == DropUser("delete", "DeleteTenantIdentityByTenant")

\* DROP DATABASE IF EXISTS, then DROP ROLE IF EXISTS, which PostgreSQL refuses
\* while the role still owns a database.
DropDatabase(w, a) ==
  /\ At(w, a, 1)
  /\ db' = "absent"
  /\ owned' = FALSE
  /\ Then(w, 2)
  /\ UNCHANGED <<role, temp, user>>

DropTenantRole(w, a) ==
  /\ At(w, a, 2)
  /\ ~owned /\ ~temp
  /\ role' = FALSE
  /\ Then(w, 3)
  /\ UNCHANGED <<db, owned, temp, user>>

DropTenantDatabase ==
  /\ \/ DropDatabase("provision", "DropTenantDatabase")
     \/ DropTenantRole("provision", "DropTenantDatabase")
  /\ UNCHANGED <<status, mode, copies, signal, api, history>>

DeprovisionTenant ==
  /\ \/ /\ DropDatabase("delete", "DeprovisionTenant")
        /\ torn' = (torn \/ status = "deleting")
     \/ /\ DropTenantRole("delete", "DeprovisionTenant")
        /\ UNCHANGED torn
  /\ UNCHANGED <<status, mode, copies, signal, api, graced>>

\* BackupTenantData: probe (an absent database is success), dump, rebuild the
\* _temp database and make the role its owner, restore and validate the dump in
\* it, drop it, bless the dump.
BackupTenantData ==
  /\ \/ /\ At("delete", "BackupTenantData", 1)
        /\ Then("delete", IF db = "absent" THEN 7 ELSE 2)
        /\ UNCHANGED <<role, temp, copies>>
     \/ /\ At("delete", "BackupTenantData", 2)
        /\ db # "absent"
        /\ dump' = db
        /\ Then("delete", 3)
        /\ UNCHANGED <<role, temp, backups>>
     \/ /\ At("delete", "BackupTenantData", 3)
        /\ temp' = TRUE
        /\ role' = TRUE
        /\ Then("delete", 4)
        /\ UNCHANGED copies
     \/ /\ At("delete", "BackupTenantData", 4)
        /\ Then("delete", 5)
        /\ UNCHANGED <<role, temp, copies>>
     \/ /\ At("delete", "BackupTenantData", 5)
        /\ temp' = FALSE
        /\ Then("delete", 6)
        /\ UNCHANGED <<role, copies>>
     \/ /\ At("delete", "BackupTenantData", 6)
        /\ backups' = backups \cup {dump}
        /\ Then("delete", 7)
        /\ UNCHANGED <<role, temp, dump>>
  /\ UNCHANGED <<status, mode, db, owned, user, signal, api, history>>

\* The tenant uses its database while it is active (outside this repository).
TenantWrites ==
  /\ status = "active" /\ db = "empty"
  /\ db' = "data"
  /\ UNCHANGED <<status, mode, owned, role, temp, user, copies, control, records,
                 signal, api, history>>

-----------------------------------------------------------------------------
(* The grace period: DeleteTenantWorkflow waits for its timer or a signal. *)

GraceExpires ==
  /\ act["delete"] = "grace"
  /\ Goto("delete", FirstTeardownStep)
  /\ graced' = TRUE
  /\ UNCHANGED <<status, mode, infra, copies, records, signal, api, torn>>

\* Mutant: a cancelled run returns without restoring the tenant.
CancelForgotten ==
  /\ act["delete"] = "grace"
  /\ signal
  /\ signal' = FALSE
  /\ Goto("delete", "completed")
  /\ UNCHANGED <<status, mode, infra, copies, records, api, history>>

CancelReceived ==
  /\ act["delete"] = "grace"
  /\ signal
  /\ signal' = FALSE
  /\ Goto("delete", "RestoreTenantAfterCancel")
  /\ UNCHANGED <<status, mode, infra, copies, records, api, history>>

-----------------------------------------------------------------------------
(* The API.  A handler reads the tenant first and acts on what it read in  *)
(* a second step; requests its checks refuse change nothing.               *)

\* ExecuteWorkflow: a new run replaces the closed one.
StartRun(w, a) ==
  /\ Goto(w, a)
  /\ row' = [row EXCEPT ![w] = "unseen"]
  /\ dlq' = IF row[w] = "failed" THEN dlq \cup {w} ELSE dlq

\* REJECT_DUPLICATE: no run of this workflow ID may exist, open or closed.
CreateTenant ==
  /\ act["provision"] = "none"
  /\ mode' \in Modes
  /\ StartRun("provision", "CreateTenantRecord")
  /\ UNCHANGED <<status, infra, copies, signal, api, history>>

Accept(c, request) ==
  /\ pending[c] = "idle"
  /\ requests < MaxRequests
  /\ requests' = requests + 1
  /\ pending' = [pending EXCEPT ![c] = request]
  /\ UNCHANGED <<status, mode, infra, copies, control, records, signal, history>>

Answer(c) ==
  /\ pending' = [pending EXCEPT ![c] = "idle"]
  /\ UNCHANGED <<status, mode, infra, copies, requests, history>>

DeleteTenant(c) == status \in {"active", "failed"} /\ Accept(c, "delete")

CancelTenantDelete(c) == status = "deleting" /\ Accept(c, "cancel")

RetryTenant(c) ==
  \/ status = "failed" /\ Accept(c, "retryProvision")
  \/ status = "deleting" /\ Accept(c, "findFailed")

\* ALLOW_DUPLICATE_FAILED_ONLY: refused while a run is open or completed.
startDelete(c) ==
  /\ pending[c] = "delete"
  /\ IF act["delete"] \in {"none", "failed"}
       THEN StartRun("delete", "MarkTenantDeleting") /\ signal' = FALSE
       ELSE UNCHANGED <<control, records, signal>>
  /\ Answer(c)

\* SignalWorkflow: refused unless a run is open, whatever it is doing.
signalCancel(c) ==
  /\ pending[c] = "cancel"
  /\ signal' = (signal \/ Open("delete"))
  /\ UNCHANGED <<control, records>>
  /\ Answer(c)

\* ALLOW_DUPLICATE: refused only while a run is open.
retryProvision(c) ==
  /\ pending[c] = "retryProvision"
  /\ IF ~Open("provision")
       THEN StartRun("provision", "CreateTenantRecord")
       ELSE UNCHANGED <<control, records>>
  /\ UNCHANGED signal
  /\ Answer(c)

\* FindLatestFailed asks for any failed row of the saga, of any run.
FindLatestFailed(c) ==
  /\ pending[c] = "findFailed"
  /\ pending' = [pending EXCEPT ![c] =
       IF row["delete"] = "failed" \/ "delete" \in dlq THEN "resumeDelete" ELSE "idle"]
  /\ UNCHANGED <<status, mode, infra, copies, control, records, signal, requests,
                 history>>

\* Mutant: a resumed run trusts the failed one to have taken the backup.
ResumesAfterBackup(c) ==
  /\ pending[c] = "resumeDelete"
  /\ IF ~Open("delete")
       THEN StartRun("delete", "DeprovisionTenant") /\ signal' = FALSE
       ELSE UNCHANGED <<control, records, signal>>
  /\ Answer(c)

\* The Resume flag: the new run begins with the teardown.
resumeDelete(c) ==
  /\ pending[c] = "resumeDelete"
  /\ IF ~Open("delete")
       THEN StartRun("delete", FirstTeardownStep) /\ signal' = FALSE
       ELSE UNCHANGED <<control, records, signal>>
  /\ Answer(c)

-----------------------------------------------------------------------------

Init ==
  /\ status = "none"
  /\ mode = "dedicated"
  /\ db = "absent" /\ user = "absent"
  /\ owned = FALSE /\ role = FALSE /\ temp = FALSE
  /\ backups = {} /\ dump = "empty"
  /\ act = [w \in Workflows |-> "none"]
  /\ step = [w \in Workflows |-> 0]
  /\ attempt = [w \in Workflows |-> 1]
  /\ row = [w \in Workflows |-> "unseen"]
  /\ dlq = {}
  /\ signal = FALSE
  /\ pending = [c \in Clients |-> "idle"]
  /\ requests = 0
  /\ torn = FALSE /\ graced = FALSE

ProvisionEffect ==
  \/ CreateTenantRecord \/ ProvisionTenant \/ ProvisionTenantIdentity
  \/ MarkTenantActive \/ DeleteTenantIdentity \/ DropTenantDatabase
  \/ MarkTenantFailed

DeleteEffect ==
  \/ MarkTenantDeleting \/ RestoreTenantAfterCancel \/ BackupTenantData
  \/ DeprovisionTenant \/ DeleteTenantIdentityByTenant \/ MarkTenantDeleted

Attempt(w) == ExecuteActivity(w) \/ Report(w) \/ ActivityError(w)

SagaStep(w) ==
  \/ Attempt(w)
  \/ w = "provision" /\ ProvisionEffect
  \/ w = "delete" /\ DeleteEffect

Request(c) == DeleteTenant(c) \/ CancelTenantDelete(c) \/ RetryTenant(c)

Response(c) ==
  \/ startDelete(c) \/ signalCancel(c) \/ retryProvision(c)
  \/ FindLatestFailed(c) \/ resumeDelete(c)

Next ==
  \/ CreateTenant
  \/ \E w \in Workflows : SagaStep(w)
  \/ WorkerCrash
  \/ GraceExpires \/ CancelReceived
  \/ \E c \in Clients : Request(c) \/ Response(c)
  \/ TenantWrites

Spec == Init /\ [][Next]_vars

\* Temporal keeps scheduling an open run and times out an attempt that does not
\* end, the grace timer is durable, and a handler that read the tenant goes on.
\* Nobody has to send a request, and nothing has to succeed.
Fairness ==
  /\ \A w \in Workflows : WF_vars(SagaStep(w))
  /\ WF_vars(GraceExpires)
  /\ \A c \in Clients : WF_vars(Response(c))

FairSpec == Spec /\ Fairness


-----------------------------------------------------------------------------
(* Properties.                                                             *)

TenantOK ==
  /\ status \in Statuses
  /\ mode \in Modes
  /\ db \in Contents \cup {"absent"}
  /\ owned \in BOOLEAN /\ role \in BOOLEAN /\ temp \in BOOLEAN
  /\ user \in {"absent", "created", "operator"}
  /\ backups \subseteq Contents /\ dump \in Contents
  /\ torn \in BOOLEAN /\ graced \in BOOLEAN

Places(w) ==
  IF w = "provision" THEN ProvisionActivities \cup {"none", "completed", "failed"}
                     ELSE DeleteActivities \cup {"none", "grace", "completed", "failed"}

ControlOK ==
  /\ act \in [Workflows -> Places("provision") \cup Places("delete")]
  /\ step \in [Workflows -> 0 .. 7]
  /\ attempt \in [Workflows -> 1 .. MaximumAttempts]
  /\ \A w \in Workflows :
       /\ act[w] \in Places(w)
       /\ step[w] # 0 => act[w] \in Activities /\ step[w] <= LastStep[act[w]]

RecordsOK ==
  /\ row \in [Workflows -> {"unseen", "missed", "running", "failed"}]
  /\ dlq \subseteq Workflows

ApiOK ==
  /\ signal \in BOOLEAN
  /\ pending \in [Clients -> {"idle", "delete", "cancel", "retryProvision",
                              "findFailed", "resumeDelete"}]
  /\ requests \in 0 .. MaxRequests

\* Every variable has its type, and an attempt executes only effects that its
\* activity has, of an activity of its own saga.
TypeOK == TenantOK /\ ControlOK /\ RecordsOK /\ ApiOK

\* The status column and the teardown follow the abstract life of a tenant: a
\* deletion is undone only before teardown, finished only after it, and deleted
\* is final, whatever runs, retries, crashes and requests interleave.
Promise == INSTANCE TenantStatus WITH status <- status, torn <- torn
StatusPromise == Promise!Spec

\* Once teardown of a deleting tenant has begun, no run brings it back.
NoReviveAfterTeardown == torn => status \in {"deleting", "deleted"}

AfterBackup == act["delete"] \in {"DeprovisionTenant",
                 "DeleteTenantIdentityByTenant", "MarkTenantDeleted"}

\* While the teardown of a deleting tenant can drop a database that holds data,
\* a verified backup of that data is on record.
BackupBeforeTeardown ==
  AfterBackup /\ status = "deleting" /\ db = "data" => "data" \in backups

Served ==
  /\ user = "operator"
  /\ mode = "dedicated" => db # "absent" /\ role /\ owned

\* A tenant whose last provision run succeeded and that was never deleted is
\* active and has everything it was promised.
ProvisionedIsServed ==
  act["provision"] = "completed" /\ act["delete"] = "none"
    => status = "active" /\ Served

\* A deleted tenant whose last provision run succeeded has left nothing behind.
DeletedIsClean ==
  status = "deleted" /\ act["provision"] = "completed"
    => db = "absent" /\ ~role /\ ~temp /\ user = "absent"

\* A run that failed is on record as failed, so that an operator can see and
\* resume it.
FailedRunIsListed == \A w \in Workflows : act[w] = "failed" => row[w] = "failed"

\* Every open run closes: retries are bounded and no saga waits for itself.
RunsClose == \A w \in Workflows : Open(w) ~> ~Open(w)

\* A deleting tenant does not stay so in silence: it becomes deleted, or active
\* again, or its run has failed with a row that the retry endpoint finds.
DeletionSettles ==
  status = "deleting" ~>
    \/ status # "deleting"
    \/ act["delete"] = "failed" /\ row["delete"] = "failed"

-----------------------------------------------------------------------------
(* The inductive strengthening of NoReviveAfterTeardown and of             *)
(* BackupBeforeTeardown: whether the delete saga may still revive the      *)
(* tenant, has dropped its database, or holds a dump of its data, is known *)
(* only from where the saga is.                                            *)

\* The delete saga is about to undo the deletion, or may still decide to.
MayRevive ==
  \/ act["delete"] \in {"grace", "RestoreTenantAfterCancel"}
  \/ act["delete"] = "MarkTenantDeleting" /\ step["delete"] = 2

\* The delete saga has dropped the tenant's database.
PastDrop ==
  \/ act["delete"] \in {"DeleteTenantIdentityByTenant", "MarkTenantDeleted"}
  \/ act["delete"] = "DeprovisionTenant" /\ step["delete"] >= 2

TeardownInv ==
  /\ NoReviveAfterTeardown
  /\ MayRevive => ~torn
  /\ PastDrop /\ status = "deleting" => torn

\* A data-bearing database of a deleting tenant is in the dump once the dump is
\* taken, and among the backups once the dump is blessed; a shared tenant, which
\* skips the backup, never has a database.
DumpInv ==
  status = "deleting" /\ db = "data" /\ act["delete"] = "BackupTenantData" =>
    /\ step["delete"] \in 3 .. 6 => dump = "data"
    /\ step["delete"] = 7 => "data" \in backups

SharedInv ==
  /\ act["provision"] = "none" => db = "absent"
  /\ mode = "shared" =>
       /\ db = "absent"
       /\ ~(act["provision"] = "ProvisionTenant" /\ step["provision"] \in 2 .. 4)

BackupInv == BackupBeforeTeardown /\ DumpInv /\ SharedInv

\* What every state knows about a teardown that has begun, may still be called
\* off, or is about to drop data: the invariant behind the theorems.
SafetyInv == TeardownInv /\ BackupInv

-----------------------------------------------------------------------------
(* What the documentation and the comments say and the code does not do.   *)

\* Retrying MarkTenantActive is safe: the saga never undoes a tenant that it has
\* made active.
ActivationConverges == act["provision"] = "DeleteTenantIdentity" => status # "active"

\* Cancelling a deletion in its grace period gives back a working tenant.
CancelRestoresService == [][status = "deleting" /\ status' = "active" => Served]_vars

\* An active tenant can be deleted: its last delete run is not one that the
\* reuse policy of DELETE refuses forever.
ActiveIsDeletable == status = "active" => act["delete"] # "completed"

\* Only a deleting tenant is torn down: a resumed run continues a deletion.
TeardownOnlyWhileDeleting == act["delete"] = "DeprovisionTenant" => status = "deleting"

\* A tenant is torn down only after it had a grace period to be cancelled in.
GraceBeforeTeardown ==
  act["delete"] \in {"BackupTenantData", "DeprovisionTenant"} /\ status = "deleting"
    => graced

\* The provision saga is not replayed on an active tenant.
RetryOnlyWhenNotActive ==
  [][act["provision"] # "CreateTenantRecord" /\ act'["provision"] = "CreateTenantRecord"
       => status # "active"]_vars

\* A run listed as failed has failed: a completed run has no failed row.
ListedRunFailed == \A w \in Workflows : act[w] = "completed" => row[w] # "failed"

\* A cancellation is accepted only before teardown.
CancelOnlyBeforeTeardown ==
  [][~signal /\ signal' => act["delete"] \in {"MarkTenantDeleting", "grace"}]_vars

=============================================================================
