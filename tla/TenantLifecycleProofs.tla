------------------------ MODULE TenantLifecycleProofs ------------------------
(***************************************************************************)
(* Theorems about TenantLifecycle, for every set of clients, every number  *)
(* of attempts and requests, with and without crashes and recorder faults. *)
(***************************************************************************)
EXTENDS TenantLifecycle, TLAPS

\* Where the provision saga goes from an activity it completed or gave up.
LEMMA ProvisionTable ==
  ASSUME NEW a \in ProvisionActivities
  PROVE  /\ ProvisionTenantWorkflow.onSuccess[a] \in ProvisionActivities \cup {"completed", "failed"}
         /\ ProvisionTenantWorkflow.onFailure[a] \in ProvisionActivities \cup {"failed"}
BY DEF ProvisionTenantWorkflow, ProvisionActivities

\* Where the delete saga goes from an activity it completed or gave up.
LEMMA DeleteTable ==
  ASSUME NEW a \in DeleteActivities
  PROVE  /\ DeleteTenantWorkflow.onSuccess[a] \in DeleteActivities \cup {"grace", "completed", "failed"}
         /\ DeleteTenantWorkflow.onFailure[a] \in {"MarkTenantDeleteFailed", "failed"}
BY DEF DeleteTenantWorkflow, DeleteFailure, DeleteActivities

LEMMA Steps ==
  ASSUME NEW a \in Activities
  PROVE  LastStep[a] \in 1 .. 7
BY DEF LastStep, Activities, ProvisionActivities, DeleteActivities

-----------------------------------------------------------------------------
(* The control state of the sagas stays well formed.                       *)

\* A run that moves on starts the first attempt of its next activity.
LEMMA GotoControl ==
  ASSUME ControlOK, NEW w \in Workflows, NEW a \in Places(w), Goto(w, a)
  PROVE  ControlOK'
BY ConstantsAssumption DEF ControlOK, Goto, Workflows, Places

\* An attempt that goes on with another effect of its activity.
LEMMA ThenControl ==
  ASSUME ControlOK, NEW w \in Workflows, act[w] \in Activities,
         NEW k \in 1 .. 7, k <= LastStep[act[w]], Then(w, k)
  PROVE  ControlOK'
BY DEF ControlOK, Then

\* Attempts that end badly are retried, or their activities given up.
LEMMA EndAttemptsControl ==
  ASSUME ControlOK, NEW lost \in SUBSET Workflows, NEW final \in SUBSET Workflows,
         \A w \in lost : act[w] \in Activities, EndAttempts(lost, final)
  PROVE  ControlOK'
<1>1. ASSUME NEW w \in lost
      PROVE  Saga(w).onFailure[act[w]] \in Places(w)
  <2>1. CASE w = "provision"
    <3>1. act[w] \in ProvisionActivities
      BY <2>1 DEF ControlOK, Places, Activities, DeleteActivities, Workflows
    <3>2. QED
      BY <2>1, <3>1, ProvisionTable DEF Saga, Places
  <2>2. CASE w = "delete"
    <3>1. act[w] \in DeleteActivities
      BY <2>2 DEF ControlOK, Places, Activities, ProvisionActivities, Workflows
    <3>2. QED
      BY <2>2, <3>1, DeleteTable DEF Saga, Places, DeleteActivities
  <2>3. QED
    BY <2>1, <2>2 DEF Workflows
<1>2. \A w \in Workflows : act'[w] \in Places(w)
  BY <1>1 DEF EndAttempts, ControlOK
<1>3. attempt' \in [Workflows -> 1 .. MaximumAttempts]
  BY ConstantsAssumption DEF EndAttempts, ControlOK
<1>4. step' \in [Workflows -> 0 .. 7]
  BY DEF EndAttempts, ControlOK
<1>5. \A w \in Workflows : step'[w] # 0 => act'[w] = act[w] /\ step'[w] = step[w]
  BY DEF EndAttempts, ControlOK
<1>6. act' \in [Workflows -> Places("provision") \cup Places("delete")]
  BY <1>2 DEF EndAttempts, Workflows
<1>7. QED
  BY <1>2, <1>3, <1>4, <1>5, <1>6 DEF ControlOK

-----------------------------------------------------------------------------
(* Type correctness.                                                       *)

\* What the recorder writes around an attempt.
LEMMA RecorderType ==
  ASSUME RecordsOK, NEW w \in Workflows, markRunning(w) \/ markFailed(w), UNCHANGED dlq
  PROVE  RecordsOK'
BY DEF RecordsOK, markRunning, markFailed

\* A new run replaces a closed one.
LEMMA StartRunType ==
  ASSUME ControlOK, RecordsOK, NEW w \in Workflows, NEW a \in Places(w), StartRun(w, a)
  PROVE  ControlOK' /\ RecordsOK'
<1>1. ControlOK'
  BY GotoControl DEF StartRun
<1>2. RecordsOK'
  BY DEF StartRun, RecordsOK
<1>3. QED
  BY <1>1, <1>2

\* A compare-and-set of the status column, won or lost.
LEMMA UpdateType ==
  ASSUME TypeOK, NEW w \in Workflows, NEW a \in Activities, LastStep[a] >= 2,
         NEW to \in Statuses, NEW from, UpdateTenantStatusFrom(w, a, to, from)
  PROVE  status' \in Statuses /\ ControlOK' /\ RecordsOK'
<1> USE DEF TypeOK
<1>1. act[w] \in Activities
  BY DEF UpdateTenantStatusFrom, At
<1>2. CASE status' = to /\ Then(w, 2)
  <2>1. ControlOK'
    BY <1>1, <1>2, ThenControl DEF UpdateTenantStatusFrom, At
  <2>2. QED
    BY <1>2, <2>1 DEF Then, records, RecordsOK
<1>3. CASE EndAttempts({w}, {w}) /\ markFailed(w) /\ UNCHANGED <<status, dlq>>
  <2>1. ControlOK'
    BY <1>1, <1>3, EndAttemptsControl
  <2>2. RecordsOK'
    BY <1>3, RecorderType
  <2>3. QED
    BY <1>3, <2>1, <2>2 DEF TenantOK
<1>4. QED
  BY <1>2, <1>3 DEF UpdateTenantStatusFrom

\* The effects of the provision saga keep the types.
LEMMA ProvisionType == TypeOK /\ ProvisionEffect => TypeOK'
<1> SUFFICES ASSUME TypeOK, ProvisionEffect PROVE TypeOK'
  OBVIOUS
<1> USE DEF TypeOK
<1>a. "provision" \in Workflows /\ ProvisionActivities \subseteq Activities
  BY DEF Workflows, Activities
<1>1. CASE CreateTenantRecord
  <2>1. ControlOK'
    BY <1>a, <1>1, ThenControl DEF CreateTenantRecord, At, LastStep, Activities, ProvisionActivities
  <2>2. QED
    BY <1>1, <2>1 DEF CreateTenantRecord, Then, TenantOK, RecordsOK, ApiOK, Statuses,
       infra, copies, api, history, records
<1>2. CASE ProvisionTenant
  <2>1. act["provision"] = "ProvisionTenant" /\ LastStep["ProvisionTenant"] = 5
    BY <1>2 DEF ProvisionTenant, At, LastStep
  <2>2. \E k \in {2, 3, 4, 5} : Then("provision", k)
    BY <1>2 DEF ProvisionTenant, AfterInspect
  <2>3. ControlOK'
    BY <1>a, <2>1, <2>2, ThenControl DEF ProvisionActivities
  <2>4. RecordsOK' /\ ApiOK'
    BY <1>2, <2>2 DEF ProvisionTenant, Then, RecordsOK, ApiOK, records, api
  <2>5. db' \in Contents \cup {"absent"}
    BY <1>2 DEF ProvisionTenant, TenantOK, Contents, infra
  <2>6. owned' \in BOOLEAN /\ role' \in BOOLEAN /\ temp' \in BOOLEAN
    BY <1>2 DEF ProvisionTenant, TenantOK, infra
  <2>7. TenantOK'
    BY <1>2, <2>5, <2>6 DEF ProvisionTenant, TenantOK, infra, copies, history
  <2>8. QED
    BY <2>3, <2>4, <2>7
<1>3. CASE ProvisionTenantIdentity
  <2>1. act["provision"] = "ProvisionTenantIdentity" /\ LastStep["ProvisionTenantIdentity"] = 3
    BY <1>3 DEF ProvisionTenantIdentity, At, LastStep
  <2>2. \E k \in {2, 3} : Then("provision", k)
    BY <1>3 DEF ProvisionTenantIdentity
  <2>3. ControlOK'
    BY <1>a, <2>1, <2>2, ThenControl DEF ProvisionActivities
  <2>4. QED
    BY <1>3, <2>3 DEF ProvisionTenantIdentity, Then, TenantOK, RecordsOK, ApiOK,
       infra, copies, api, history, records
<1>4. CASE MarkTenantActive
  <2>1. status' \in Statuses /\ ControlOK' /\ RecordsOK'
    BY <1>a, <1>4, UpdateType DEF MarkTenantActive, LastStep, Statuses, ProvisionActivities
  <2>2. QED
    BY <1>4, <2>1 DEF MarkTenantActive, TenantOK, ApiOK, infra, copies, api, history
<1>5. CASE DeleteTenantIdentity
  <2>1. ControlOK'
    BY <1>a, <1>5, ThenControl DEF DeleteTenantIdentity, DropUser, At, LastStep, ProvisionActivities
  <2>2. QED
    BY <1>5, <2>1 DEF DeleteTenantIdentity, DropUser, Then, TenantOK, RecordsOK, ApiOK,
       copies, api, history, records
<1>6. CASE DropTenantDatabase
  <2>1. ControlOK'
    BY <1>a, <1>6, ThenControl DEF DropTenantDatabase, DropDatabase, DropTenantRole,
       At, LastStep, ProvisionActivities
  <2>2. QED
    BY <1>6, <2>1 DEF DropTenantDatabase, DropDatabase, DropTenantRole, Then, TenantOK,
       RecordsOK, ApiOK, copies, api, history, records
<1>7. CASE MarkTenantFailed
  <2>1. status' \in Statuses /\ ControlOK' /\ RecordsOK'
    BY <1>a, <1>7, UpdateType DEF MarkTenantFailed, LastStep, Statuses, ProvisionActivities
  <2>2. QED
    BY <1>7, <2>1 DEF MarkTenantFailed, TenantOK, ApiOK, infra, copies, api, history
<1>8. QED
  BY <1>1, <1>2, <1>3, <1>4, <1>5, <1>6, <1>7 DEF ProvisionEffect

\* The effects of the delete saga keep the types.
LEMMA DeleteType == TypeOK /\ DeleteEffect => TypeOK'
<1> SUFFICES ASSUME TypeOK, DeleteEffect PROVE TypeOK'
  OBVIOUS
<1> USE DEF TypeOK
<1>a. "delete" \in Workflows /\ DeleteActivities \subseteq Activities
  BY DEF Workflows, Activities
<1>1. CASE MarkTenantDeleting
  <2>1. status' \in Statuses /\ ControlOK' /\ RecordsOK'
    BY <1>a, <1>1, UpdateType DEF MarkTenantDeleting, LastStep, Statuses, DeleteActivities
  <2>2. QED
    BY <1>1, <2>1 DEF MarkTenantDeleting, TenantOK, ApiOK, infra, copies, api
<1>2. CASE RestoreTenantAfterCancel
  <2>1. status' \in Statuses /\ ControlOK' /\ RecordsOK'
    BY <1>a, <1>2, UpdateType DEF RestoreTenantAfterCancel, LastStep, Statuses, DeleteActivities
  <2>2. QED
    BY <1>2, <2>1 DEF RestoreTenantAfterCancel, TenantOK, ApiOK, infra, copies, api, history
<1>3. CASE BackupTenantData
  <2>1. act["delete"] = "BackupTenantData" /\ LastStep["BackupTenantData"] = 7
    BY <1>3 DEF BackupTenantData, At, LastStep
  <2>2. \E k \in {2, 3, 4, 5, 6, 7} : Then("delete", k)
    BY <1>3 DEF BackupTenantData
  <2>3. ControlOK'
    BY <1>a, <2>1, <2>2, ThenControl DEF DeleteActivities
  <2>4. RecordsOK' /\ ApiOK'
    BY <1>3, <2>2 DEF BackupTenantData, Then, RecordsOK, ApiOK, records, api
  <2>5. role' \in BOOLEAN /\ temp' \in BOOLEAN
    BY <1>3 DEF BackupTenantData, TenantOK
  <2>6. backups' \subseteq Contents /\ dump' \in Contents
    BY <1>3 DEF BackupTenantData, TenantOK, copies
  <2>7. TenantOK'
    BY <1>3, <2>5, <2>6 DEF BackupTenantData, TenantOK, history
  <2>8. QED
    BY <2>3, <2>4, <2>7
<1>4. CASE DeprovisionTenant
  <2>1. ControlOK'
    BY <1>a, <1>4, ThenControl DEF DeprovisionTenant, DropDatabase, DropTenantRole,
       At, LastStep, DeleteActivities
  <2>2. QED
    BY <1>4, <2>1 DEF DeprovisionTenant, DropDatabase, DropTenantRole, Then, TenantOK,
       RecordsOK, ApiOK, copies, api, records
<1>5. CASE DeleteTenantIdentityByTenant
  <2>1. ControlOK'
    BY <1>a, <1>5, ThenControl DEF DeleteTenantIdentityByTenant, DropUser, At, LastStep,
       DeleteActivities
  <2>2. QED
    BY <1>5, <2>1 DEF DeleteTenantIdentityByTenant, DropUser, Then, TenantOK, RecordsOK,
       ApiOK, copies, api, history, records
<1>6. CASE MarkTenantDeleted
  <2>1. status' \in Statuses /\ ControlOK' /\ RecordsOK'
    BY <1>a, <1>6, UpdateType DEF MarkTenantDeleted, LastStep, Statuses, DeleteActivities
  <2>2. QED
    BY <1>6, <2>1 DEF MarkTenantDeleted, TenantOK, ApiOK, infra, copies, api, history
<1>7. QED
  BY <1>1, <1>2, <1>3, <1>4, <1>5, <1>6 DEF DeleteEffect


\* Scheduling, reporting and retrying an attempt keep the types.
LEMMA AttemptType ==
  ASSUME TypeOK, NEW w \in Workflows, Attempt(w)
  PROVE  TypeOK'
<1> USE DEF TypeOK
<1>1. CASE ExecuteActivity(w)
  <2>1. ControlOK'
    BY <1>1, Steps DEF ExecuteActivity, ControlOK
  <2>2. RecordsOK'
    BY <1>1, RecorderType DEF ExecuteActivity
  <2>3. QED
    BY <1>1, <2>1, <2>2 DEF ExecuteActivity, TenantOK, ApiOK, infra, copies, api, history
<1>2. CASE Report(w)
  <2>1. Saga(w).onSuccess[act[w]] \in Places(w)
    <3>1. CASE w = "provision"
      <4>1. act[w] \in ProvisionActivities
        BY <1>2, <3>1 DEF Report, ControlOK, Places, Activities, DeleteActivities
      <4>2. QED
        BY <3>1, <4>1, ProvisionTable DEF Saga, Places
    <3>2. CASE w = "delete"
      <4>1. act[w] \in DeleteActivities
        BY <1>2, <3>2 DEF Report, ControlOK, Places, Activities, ProvisionActivities
      <4>2. QED
        BY <3>2, <4>1, DeleteTable DEF Saga, Places
    <3>3. QED
      BY <3>1, <3>2 DEF Workflows
  <2>2. ControlOK'
    BY <1>2, <2>1, GotoControl DEF Report
  <2>3. QED
    BY <1>2, <2>2 DEF Report, TenantOK, RecordsOK, ApiOK, infra, copies, records, api, history
<1>3. CASE ActivityError(w)
  <2>1. ControlOK'
    BY <1>3, EndAttemptsControl DEF ActivityError
  <2>2. RecordsOK'
    BY <1>3, RecorderType DEF ActivityError
  <2>3. QED
    BY <1>3, <2>1, <2>2 DEF ActivityError, TempLeft, TenantOK, ApiOK, copies, api, history
<1>4. QED
  BY <1>1, <1>2, <1>3 DEF Attempt

\* A crash ends every executing attempt.
LEMMA CrashType == TypeOK /\ WorkerCrash => TypeOK'
<1> SUFFICES ASSUME TypeOK, WorkerCrash PROVE TypeOK'
  OBVIOUS
<1> USE DEF TypeOK
<1>1. ControlOK'
  <2> DEFINE lost == {w \in Workflows : step[w] > 0}
  <2>1. lost \in SUBSET Workflows /\ {} \in SUBSET Workflows
    OBVIOUS
  <2>2. \A w \in lost : act[w] \in Activities
    BY DEF ControlOK
  <2>3. EndAttempts(lost, {})
    BY DEF WorkerCrash
  <2> HIDE DEF lost
  <2>4. QED
    BY <2>1, <2>2, <2>3, EndAttemptsControl
<1>2. RecordsOK'
  BY DEF WorkerCrash, RecordsOK
<1>3. QED
  BY <1>1, <1>2 DEF WorkerCrash, TempLeft, TenantOK, ApiOK, copies, api, history

\* The end of the grace period, either way.
LEMMA GraceType == TypeOK /\ (GraceExpires \/ CancelReceived) => TypeOK'
<1> SUFFICES ASSUME TypeOK, GraceExpires \/ CancelReceived PROVE TypeOK'
  OBVIOUS
<1> USE DEF TypeOK
<1>1. /\ "delete" \in Workflows
      /\ FirstTeardownStep \in Places("delete")
      /\ "RestoreTenantAfterCancel" \in Places("delete")
  BY DEF Workflows, FirstTeardownStep, Places, DeleteActivities
<1>2. ControlOK'
  BY <1>1, GotoControl DEF GraceExpires, CancelReceived
<1>3. QED
  BY <1>2 DEF GraceExpires, CancelReceived, TenantOK, RecordsOK, ApiOK, infra, copies,
     records, api, history

\* The API handlers.
LEMMA RequestType ==
  ASSUME TypeOK, NEW c \in Clients, Request(c)
  PROVE  TypeOK'
<1> USE DEF TypeOK
<1>1. PICK r \in {"delete", "cancel", "retryProvision", "findFailed"} : Accept(c, r)
  BY DEF Request, DeleteTenant, CancelTenantDelete, RetryTenant
<1>2. ApiOK'
  BY <1>1, ConstantsAssumption DEF Accept, ApiOK
<1>3. QED
  BY <1>1, <1>2 DEF Accept, TenantOK, ControlOK, RecordsOK, infra, copies, control,
     records, history

\* The second half of a handler starts a run, signals one, or does nothing.
LEMMA ResponseType ==
  ASSUME TypeOK, NEW c \in Clients, Response(c)
  PROVE  TypeOK'
<1> USE DEF TypeOK
<1>a. /\ "delete" \in Workflows /\ "provision" \in Workflows
      /\ FirstTeardownStep \in Places("delete")
      /\ "MarkTenantDeleting" \in Places("delete")
      /\ "CreateTenantRecord" \in Places("provision")
  BY DEF Workflows, FirstTeardownStep, Places, DeleteActivities, ProvisionActivities
<1>1. ControlOK' /\ RecordsOK'
  <2>1. CASE UNCHANGED <<control, records>>
    BY <2>1 DEF ControlOK, RecordsOK, control, records
  <2>2. CASE StartRun("delete", "MarkTenantDeleting")
    BY <1>a, <2>2, StartRunType
  <2>3. CASE StartRun("delete", FirstTeardownStep)
    BY <1>a, <2>3, StartRunType
  <2>4. CASE StartRun("provision", "CreateTenantRecord")
    BY <1>a, <2>4, StartRunType
  <2>5. QED
    BY <2>1, <2>2, <2>3, <2>4
       DEF Response, startDelete, signalCancel, retryProvision, FindLatestFailed, resumeDelete
<1>2. UNCHANGED <<status, mode, infra, copies, requests, history>>
  BY DEF Response, startDelete, signalCancel, retryProvision, FindLatestFailed, resumeDelete,
         Answer
<1>3. TenantOK'
  BY <1>2 DEF TenantOK, infra, copies, history
<1>4. signal' \in BOOLEAN
  BY DEF Response, startDelete, signalCancel, retryProvision, FindLatestFailed, resumeDelete,
         ApiOK, Open
<1>5. \E r \in {"idle", "resumeDelete"} : pending' = [pending EXCEPT ![c] = r]
  BY DEF Response, startDelete, signalCancel, retryProvision, FindLatestFailed, resumeDelete,
         Answer
<1>6. ApiOK'
  BY <1>2, <1>4, <1>5 DEF ApiOK
<1>7. QED
  BY <1>1, <1>3, <1>6

\* Every step keeps the types.
LEMMA NextType == TypeOK /\ [Next]_vars => TypeOK'
<1> SUFFICES ASSUME TypeOK, [Next]_vars PROVE TypeOK'
  OBVIOUS
<1> USE DEF TypeOK
<1>1. CASE CreateTenant
  <2>1. "provision" \in Workflows /\ "CreateTenantRecord" \in Places("provision")
    BY DEF Workflows, Places, ProvisionActivities
  <2>2. ControlOK' /\ RecordsOK'
    BY <1>1, <2>1, StartRunType DEF CreateTenant
  <2>3. QED
    BY <1>1, <2>2 DEF CreateTenant, TenantOK, ApiOK, infra, copies, api, history
<1>2. ASSUME NEW w \in Workflows, SagaStep(w) PROVE TypeOK'
  BY <1>2, AttemptType, ProvisionType, DeleteType DEF SagaStep
<1>3. CASE WorkerCrash
  BY <1>3, CrashType
<1>4. CASE GraceExpires \/ CancelReceived
  BY <1>4, GraceType
<1>5. ASSUME NEW c \in Clients, Request(c) \/ Response(c) PROVE TypeOK'
  BY <1>5, RequestType, ResponseType
<1>6. CASE TenantWrites
  BY <1>6 DEF TenantWrites, TenantOK, ControlOK, RecordsOK, ApiOK, Contents, copies,
     control, records, api, history
<1>7. CASE UNCHANGED vars
  BY <1>7 DEF vars, TenantOK, ControlOK, RecordsOK, ApiOK, infra, copies, control, records,
     api, history
<1>8. QED
  BY <1>1, <1>2, <1>3, <1>4, <1>5, <1>6, <1>7 DEF Next

\* The initial state has the types.
LEMMA InitType == Init => TypeOK
<1> SUFFICES ASSUME Init PROVE TypeOK
  OBVIOUS
<1>1. TenantOK
  <2>1. status \in Statuses /\ mode \in Modes /\ dump \in Contents
    BY DEF Init, Statuses, Modes, Contents
  <2>2. QED
    BY <2>1 DEF Init, TenantOK
<1>2. ControlOK
  BY ConstantsAssumption DEF Init, ControlOK, Places
<1>3. RecordsOK
  BY DEF Init, RecordsOK
<1>4. ApiOK
  <2>1. requests \in 0 .. MaxRequests
    BY ConstantsAssumption DEF Init
  <2>2. signal \in BOOLEAN
    BY DEF Init
  <2>3. pending \in [Clients -> {"idle", "delete", "cancel", "retryProvision",
                                 "findFailed", "resumeDelete"}]
    BY DEF Init
  <2>4. QED
    BY <2>1, <2>2, <2>3 DEF ApiOK
<1>5. QED
  BY <1>1, <1>2, <1>3, <1>4 DEF TypeOK

\* Every reachable state of the tenant, its two sagas, the recorder and the API
\* is well typed: no attempt runs past its activity's last effect, and no saga
\* runs an activity of the other.
THEOREM TypeCorrect == Spec => []TypeOK
BY InitType, NextType, PTL DEF Spec


-----------------------------------------------------------------------------
(* Where the sagas can be after a step, as far as the safety invariant     *)
(* looks at them.                                                          *)

\* Attempts that end badly: the saga starts its activity again, or gives it up,
\* which the delete saga only does towards its failure.
LEMMA EndAttemptsMove ==
  ASSUME ControlOK, NEW lost \in SUBSET Workflows, NEW final \in SUBSET Workflows,
         \A w \in lost : act[w] \in Activities, EndAttempts(lost, final)
  PROVE  /\ \/ /\ act'["delete"] = act["delete"]
               /\ step'["delete"] \in {0, step["delete"]}
            \/ /\ act'["delete"] \in {"MarkTenantDeleteFailed", "failed"}
               /\ step'["delete"] = 0
         /\ \/ /\ act'["provision"] = act["provision"]
               /\ step'["provision"] \in {0, step["provision"]}
            \/ /\ act'["provision"] \in ProvisionActivities \cup {"failed"}
               /\ step'["provision"] = 0
<1>1. "delete" \in lost => act["delete"] \in DeleteActivities
  BY DEF ControlOK, Places, Activities, ProvisionActivities, Workflows
<1>2. "provision" \in lost => act["provision"] \in ProvisionActivities
  BY DEF ControlOK, Places, Activities, DeleteActivities, Workflows
<1>3. "delete" \in lost => Saga("delete").onFailure[act["delete"]] \in {"MarkTenantDeleteFailed", "failed"}
  BY <1>1, DeleteTable DEF Saga
<1>4. "provision" \in lost => Saga("provision").onFailure[act["provision"]] \in ProvisionActivities \cup {"failed"}
  BY <1>2, ProvisionTable DEF Saga
<1>5. "provision" \in Workflows /\ "delete" \in Workflows
  BY DEF Workflows
<1>6. QED
  BY <1>3, <1>4, <1>5 DEF EndAttempts

\* Ending an attempt of one saga leaves the other one where it is.
LEMMA EndAttemptsOther ==
  ASSUME ControlOK, NEW w \in Workflows, NEW v \in Workflows, v # w,
         EndAttempts({w}, {}) \/ EndAttempts({w}, {w})
  PROVE  act'[v] = act[v] /\ step'[v] = step[v]
BY DEF EndAttempts

\* The same for an attempt that goes on and for a run that moves on.
LEMMA MoveOther ==
  ASSUME ControlOK, NEW w \in Workflows, NEW v \in Workflows, v # w, NEW a, NEW k,
         Goto(w, a) \/ Then(w, k) \/ StartRun(w, a)
  PROVE  act'[v] = act[v] /\ step'[v] = step[v]
BY DEF ControlOK, Goto, Then, StartRun

\* Where a run goes when it moves on.
LEMMA GotoPlace ==
  ASSUME ControlOK, NEW w \in Workflows, NEW a, Goto(w, a) \/ StartRun(w, a)
  PROVE  act'[w] = a /\ step'[w] = 0
BY DEF ControlOK, Goto, StartRun

LEMMA ThenPlace ==
  ASSUME ControlOK, NEW w \in Workflows, NEW k, Then(w, k)
  PROVE  act' = act /\ step'[w] = k
BY DEF ControlOK, Then

\* A compare-and-set of one saga: it wins and goes on, or loses and ends.
LEMMA UpdateMove ==
  ASSUME TypeOK, NEW w \in Workflows, NEW v \in Workflows, v # w, NEW a, NEW to, NEW from,
         UpdateTenantStatusFrom(w, a, to, from)
  PROVE  /\ act'[v] = act[v] /\ step'[v] = step[v]
         /\ act[w] = a
         /\ \/ status \in from /\ status' = to /\ act' = act /\ step'[w] = 2
            \/ status' = status /\ EndAttempts({w}, {w})
<1> USE DEF TypeOK
<1>1. CASE status \in from /\ status' = to /\ Then(w, 2)
  BY <1>1, ThenPlace, MoveOther DEF UpdateTenantStatusFrom, At
<1>2. CASE EndAttempts({w}, {w}) /\ UNCHANGED status
  BY <1>2, EndAttemptsOther DEF UpdateTenantStatusFrom, At
<1>3. QED
  BY <1>1, <1>2 DEF UpdateTenantStatusFrom

\* Every effect of the provision saga leaves the delete saga where it is.
LEMMA ProvisionStays ==
  ASSUME TypeOK, ProvisionEffect
  PROVE  act'["delete"] = act["delete"] /\ step'["delete"] = step["delete"]
<1> USE DEF TypeOK
<1>1. "provision" \in Workflows /\ "delete" \in Workflows
  BY DEF Workflows
<1>2. CASE MarkTenantActive \/ MarkTenantFailed
  BY <1>1, <1>2, UpdateMove DEF MarkTenantActive, MarkTenantFailed
<1>3. CASE \E k : Then("provision", k)
  BY <1>1, <1>3, MoveOther
<1>4. QED
  BY <1>2, <1>3 DEF ProvisionEffect, CreateTenantRecord, ProvisionTenant,
     ProvisionTenantIdentity, DeleteTenantIdentity, DropUser, DropTenantDatabase,
     DropDatabase, DropTenantRole

\* Every effect of the delete saga leaves the provision saga where it is.
LEMMA DeleteStays ==
  ASSUME TypeOK, DeleteEffect
  PROVE  act'["provision"] = act["provision"] /\ step'["provision"] = step["provision"]
<1> USE DEF TypeOK
<1>1. "provision" \in Workflows /\ "delete" \in Workflows
  BY DEF Workflows
<1>2. CASE MarkTenantDeleting \/ RestoreTenantAfterCancel \/ MarkTenantDeleted
  BY <1>1, <1>2, UpdateMove DEF MarkTenantDeleting, RestoreTenantAfterCancel, MarkTenantDeleted
<1>3. CASE \E k : Then("delete", k)
  BY <1>1, <1>3, MoveOther
<1>4. QED
  BY <1>2, <1>3 DEF DeleteEffect, BackupTenantData, DeprovisionTenant,
     DeleteTenantIdentityByTenant, DropUser, DropDatabase, DropTenantRole


-----------------------------------------------------------------------------
(* The point of no return.                                                 *)

\* The provision saga writes the status column only of a tenant that is neither
\* deleting nor deleted.
LEMMA ProvisionStatus ==
  ASSUME TypeOK, ProvisionEffect
  PROVE  /\ torn' = torn
         /\ \/ status' = status
            \/ status = "none" /\ status' = "provisioning"
            \/ status \in {"provisioning", "failed"} /\ status' \in {"active", "failed"}
<1>1. "provision" \in Workflows /\ "delete" \in Workflows
  BY DEF Workflows
<1>2. CASE MarkTenantActive \/ MarkTenantFailed
  <2>1. torn' = torn
    BY <1>2 DEF MarkTenantActive, MarkTenantFailed, history
  <2>2. CASE MarkTenantActive
    BY <1>1, <2>1, <2>2, UpdateMove DEF MarkTenantActive
  <2>3. CASE MarkTenantFailed
    BY <1>1, <2>1, <2>3, UpdateMove DEF MarkTenantFailed
  <2> QED
    BY <1>2, <2>2, <2>3
<1>3. CASE ~(MarkTenantActive \/ MarkTenantFailed)
  BY <1>3 DEF ProvisionEffect, CreateTenantRecord, ProvisionTenant, ProvisionTenantIdentity,
     DeleteTenantIdentity, DropUser, DropTenantDatabase, history
<1>4. QED
  BY <1>2, <1>3

\* What the delete saga does to the status column and to the teardown.
LEMMA DeleteStatus ==
  ASSUME TypeOK, DeleteEffect
  PROVE  \/ status' = status /\ torn' = torn
         \/ /\ status \in {"active", "failed"} /\ status' = "deleting" /\ torn' = torn
            /\ act'["delete"] = "MarkTenantDeleting"
         \/ /\ act["delete"] = "RestoreTenantAfterCancel" /\ act' = act
            /\ status = "deleting" /\ status' = "active" /\ torn' = torn
         \/ /\ act["delete"] = "MarkTenantDeleted" /\ act' = act
            /\ status = "deleting" /\ status' = "deleted" /\ torn' = torn
         \/ /\ At("delete", "DeprovisionTenant", 1) /\ status = "deleting"
            /\ status' = status /\ torn' = TRUE
<1>1. "provision" \in Workflows /\ "delete" \in Workflows
  BY DEF Workflows
<1>2. CASE MarkTenantDeleting
  <2>1. torn' = torn
    BY <1>2 DEF MarkTenantDeleting
  <2>2. /\ act["delete"] = "MarkTenantDeleting"
        /\ \/ status \in {"active", "failed"} /\ status' = "deleting" /\ act' = act
           \/ status' = status
    BY <1>1, <1>2, UpdateMove DEF MarkTenantDeleting
  <2>3. QED
    BY <2>1, <2>2
<1>3. CASE RestoreTenantAfterCancel
  <2>1. torn' = torn
    BY <1>3 DEF RestoreTenantAfterCancel, history
  <2>2. /\ act["delete"] = "RestoreTenantAfterCancel"
        /\ \/ status \in {"deleting"} /\ status' = "active" /\ act' = act
           \/ status' = status
    BY <1>1, <1>3, UpdateMove DEF RestoreTenantAfterCancel
  <2>3. QED
    BY <2>1, <2>2
<1>4. CASE MarkTenantDeleted
  <2>1. torn' = torn
    BY <1>4 DEF MarkTenantDeleted, history
  <2>2. /\ act["delete"] = "MarkTenantDeleted"
        /\ \/ status \in {"deleting"} /\ status' = "deleted" /\ act' = act
           \/ status' = status
    BY <1>1, <1>4, UpdateMove DEF MarkTenantDeleted
  <2>3. QED
    BY <2>1, <2>2
<1>5. CASE DeprovisionTenant
  BY <1>5 DEF DeprovisionTenant, DropDatabase, TypeOK, TenantOK
<1>6. CASE BackupTenantData \/ DeleteTenantIdentityByTenant
  BY <1>6 DEF BackupTenantData, DeleteTenantIdentityByTenant, DropUser, history
<1>7. QED
  BY <1>2, <1>3, <1>4, <1>5, <1>6 DEF DeleteEffect

\* A step that touches neither the status nor the teardown, and after which the
\* delete saga has no new power over them.
LEMMA TeardownKept ==
  ASSUME TeardownInv, status' = status, torn' = torn,
         MayRevive' => MayRevive, PastDrop' => PastDrop
  PROVE  TeardownInv'
BY DEF TeardownInv, NoReviveAfterTeardown

\* The effects of the delete saga keep the teardown invariant.
LEMMA DeleteTeardown ==
  ASSUME TypeOK, TeardownInv, DeleteEffect
  PROVE  TeardownInv'
<1> USE DEF TypeOK
<1>1. "provision" \in Workflows /\ "delete" \in Workflows
  BY DEF Workflows
<1>2. CASE MarkTenantDeleting
  <2>1. torn' = torn
    BY <1>2 DEF MarkTenantDeleting
  <2>2. CASE status \in {"active", "failed"} /\ status' = "deleting" /\ act' = act
    <3>1. act["delete"] = "MarkTenantDeleting"
      BY <1>2 DEF MarkTenantDeleting, UpdateTenantStatusFrom, At
    <3>2. QED
      BY <2>1, <2>2, <3>1 DEF TeardownInv, NoReviveAfterTeardown, MayRevive, PastDrop
  <2>3. CASE status' = status /\ EndAttempts({"delete"}, {"delete"})
    <3>1. act["delete"] = "MarkTenantDeleting" /\ act["delete"] \in Activities
      BY <1>2 DEF MarkTenantDeleting, UpdateTenantStatusFrom, At, Activities, DeleteActivities
    <3>2. ~MayRevive' /\ ~PastDrop'
      <4>1. step["delete"] = 1
        BY <1>2 DEF MarkTenantDeleting, UpdateTenantStatusFrom, At
      <4>2. QED
        BY <1>1, <2>3, <3>1, <4>1, EndAttemptsMove DEF MayRevive, PastDrop
    <3>3. QED
      BY <2>1, <2>3, <3>2, TeardownKept
  <2>4. \/ status \in {"active", "failed"} /\ status' = "deleting" /\ act' = act
        \/ status' = status /\ EndAttempts({"delete"}, {"delete"})
    <3> HIDE DEF TypeOK
    <3> QED
      BY <1>1, <1>2, UpdateMove DEF MarkTenantDeleting
  <2>5. QED
    BY <2>2, <2>3, <2>4
<1>3. CASE RestoreTenantAfterCancel
  <2>1. torn' = torn /\ act["delete"] = "RestoreTenantAfterCancel"
    BY <1>3 DEF RestoreTenantAfterCancel, UpdateTenantStatusFrom, At, history
  <2>2. CASE status' = "active" /\ act' = act
    BY <2>1, <2>2 DEF TeardownInv, NoReviveAfterTeardown, MayRevive
  <2>3. CASE status' = status /\ EndAttempts({"delete"}, {"delete"})
    <3>1. ~PastDrop' /\ MayRevive
      BY <1>1, <2>1, <2>3, EndAttemptsMove DEF MayRevive, PastDrop, Activities, DeleteActivities
    <3>2. QED
      BY <2>1, <2>3, <3>1, TeardownKept
  <2>4. \/ status' = "active" /\ act' = act
        \/ status' = status /\ EndAttempts({"delete"}, {"delete"})
    <3> HIDE DEF TypeOK
    <3> QED
      BY <1>1, <1>3, UpdateMove DEF RestoreTenantAfterCancel
  <2>5. QED
    BY <2>2, <2>3, <2>4
<1>4. CASE MarkTenantDeleted
  <2>1. torn' = torn /\ act["delete"] = "MarkTenantDeleted"
    BY <1>4 DEF MarkTenantDeleted, UpdateTenantStatusFrom, At, history
  <2>2. CASE status' = "deleted" /\ act' = act
    BY <2>1, <2>2 DEF TeardownInv, NoReviveAfterTeardown, MayRevive
  <2>3. CASE status' = status /\ EndAttempts({"delete"}, {"delete"})
    <3>1. ~MayRevive' /\ PastDrop
      BY <1>1, <2>1, <2>3, EndAttemptsMove DEF MayRevive, PastDrop, Activities, DeleteActivities
    <3>2. QED
      BY <2>1, <2>3, <3>1, TeardownKept
  <2>4. \/ status' = "deleted" /\ act' = act
        \/ status' = status /\ EndAttempts({"delete"}, {"delete"})
    <3> HIDE DEF TypeOK
    <3> QED
      BY <1>1, <1>4, UpdateMove DEF MarkTenantDeleted
  <2>5. QED
    BY <2>2, <2>3, <2>4
<1>5. CASE DeprovisionTenant
  <2>1. act["delete"] = "DeprovisionTenant" /\ act' = act /\ status' = status
    BY <1>5 DEF DeprovisionTenant, DropDatabase, DropTenantRole, At, Then
  <2>2. CASE DropDatabase("delete", "DeprovisionTenant") /\ torn' = (torn \/ status = "deleting")
    BY <2>1, <2>2 DEF TeardownInv, NoReviveAfterTeardown, MayRevive
  <2>3. CASE DropTenantRole("delete", "DeprovisionTenant") /\ torn' = torn
    BY <2>1, <2>3 DEF TeardownInv, NoReviveAfterTeardown, MayRevive, PastDrop, DropTenantRole, At
  <2>4. QED
    BY <1>5, <2>2, <2>3 DEF DeprovisionTenant
<1>6. CASE BackupTenantData
  <2>1. act["delete"] = "BackupTenantData" /\ act' = act /\ status' = status /\ torn' = torn
    BY <1>6 DEF BackupTenantData, At, Then, history
  <2>2. QED
    BY <2>1, TeardownKept DEF MayRevive, PastDrop
<1>7. CASE DeleteTenantIdentityByTenant
  <2>1. /\ act["delete"] = "DeleteTenantIdentityByTenant"
        /\ act' = act /\ status' = status /\ torn' = torn
    BY <1>7 DEF DeleteTenantIdentityByTenant, DropUser, At, Then, history
  <2>2. QED
    BY <2>1, TeardownKept DEF MayRevive, PastDrop
<1>8. QED
  BY <1>2, <1>3, <1>4, <1>5, <1>6, <1>7 DEF DeleteEffect


\* Attempts that are scheduled, reported or ended keep it.
LEMMA AttemptTeardown ==
  ASSUME TypeOK, TeardownInv, NEW w \in Workflows, Attempt(w)
  PROVE  TeardownInv'
<1> USE DEF TypeOK
<1>1. "provision" \in Workflows /\ "delete" \in Workflows
  BY DEF Workflows
<1>2. status' = status /\ torn' = torn
  BY DEF Attempt, ExecuteActivity, Report, ActivityError, history
<1>3. CASE ExecuteActivity(w)
  <2>1. act' = act /\ step'["delete"] \in {1, step["delete"]}
    BY <1>1, <1>3 DEF ExecuteActivity, ControlOK
  <2>2. QED
    BY <1>2, <2>1, TeardownKept DEF MayRevive, PastDrop
<1>4. CASE Report(w) /\ w = "provision"
  <2>1. act'["delete"] = act["delete"] /\ step'["delete"] = step["delete"]
    BY <1>1, <1>4, MoveOther DEF Report
  <2>2. QED
    BY <1>2, <2>1, TeardownKept DEF MayRevive, PastDrop
<1>5. CASE Report(w) /\ w = "delete"
  <2>1. act["delete"] \in DeleteActivities /\ step["delete"] = LastStep[act["delete"]]
    BY <1>1, <1>5 DEF Report, ControlOK, Places, Activities, ProvisionActivities
  <2>2. act'["delete"] = DeleteTenantWorkflow.onSuccess[act["delete"]] /\ step'["delete"] = 0
    BY <1>1, <1>5, GotoPlace DEF Report, Saga
  <2>3. MayRevive' => MayRevive
    BY <2>1, <2>2 DEF MayRevive, DeleteTenantWorkflow, DeleteActivities, LastStep
  <2>4. PastDrop' => PastDrop
    BY <2>1, <2>2 DEF PastDrop, DeleteTenantWorkflow, DeleteActivities, LastStep
  <2>5. QED
    BY <1>2, <2>3, <2>4, TeardownKept
<1>6. CASE ActivityError(w)
  <2>1. \/ act'["delete"] = act["delete"] /\ step'["delete"] \in {0, step["delete"]}
        \/ act'["delete"] \in {"MarkTenantDeleteFailed", "failed"}
    BY <1>6, EndAttemptsMove DEF ActivityError
  <2>2. QED
    BY <1>2, <2>1, TeardownKept DEF MayRevive, PastDrop
<1>7. QED
  BY <1>3, <1>4, <1>5, <1>6 DEF Attempt, Workflows

\* A second half of a handler: the runs it starts begin before the deletion, or
\* before the first drop of the teardown.
LEMMA ResponseTeardown ==
  ASSUME TypeOK, TeardownInv, NEW c \in Clients, Response(c)
  PROVE  TeardownInv'
<1> USE DEF TypeOK
<1>1. "provision" \in Workflows /\ "delete" \in Workflows
  BY DEF Workflows
<1>2. status' = status /\ torn' = torn
  BY DEF Response, startDelete, signalCancel, retryProvision, FindLatestFailed, resumeDelete,
         Answer, history
<1>3. CASE UNCHANGED control
  BY <1>2, <1>3, TeardownKept DEF control, MayRevive, PastDrop
<1>4. CASE StartRun("provision", "CreateTenantRecord")
  <2>1. act'["delete"] = act["delete"] /\ step'["delete"] = step["delete"]
    BY <1>1, <1>4, MoveOther
  <2>2. QED
    BY <1>2, <2>1, TeardownKept DEF MayRevive, PastDrop
<1>5. CASE StartRun("delete", "MarkTenantDeleting") \/ StartRun("delete", FirstTeardownStep)
  <2>1. /\ act'["delete"] \in {"MarkTenantDeleting", "BackupTenantData", "DeprovisionTenant"}
        /\ step'["delete"] = 0
    BY <1>1, <1>5, GotoPlace DEF FirstTeardownStep
  <2>2. QED
    BY <1>2, <2>1, TeardownKept DEF MayRevive, PastDrop
<1>6. QED
  BY <1>3, <1>4, <1>5 DEF Response, startDelete, signalCancel, retryProvision,
     FindLatestFailed, resumeDelete, Answer

\* Every step keeps the teardown invariant.
LEMMA NextTeardown == TypeOK /\ TeardownInv /\ [Next]_vars => TeardownInv'
<1> SUFFICES ASSUME TypeOK, TeardownInv, [Next]_vars PROVE TeardownInv'
  OBVIOUS
<1> USE DEF TypeOK
<1>1. "provision" \in Workflows /\ "delete" \in Workflows
  BY DEF Workflows
<1>2. CASE CreateTenant
  <2>1. act'["delete"] = act["delete"] /\ step'["delete"] = step["delete"]
    BY <1>1, <1>2, MoveOther DEF CreateTenant
  <2>2. QED
    BY <1>2, <2>1, TeardownKept DEF CreateTenant, history, MayRevive, PastDrop
<1>3. CASE ProvisionEffect
  <2>1. (MayRevive' <=> MayRevive) /\ (PastDrop' <=> PastDrop)
    BY <1>3, ProvisionStays DEF MayRevive, PastDrop
  <2>2. QED
    BY <1>3, <2>1, ProvisionStatus DEF TeardownInv, NoReviveAfterTeardown
<1>4. CASE DeleteEffect
  BY <1>4, DeleteTeardown
<1>5. ASSUME NEW w \in Workflows, Attempt(w) PROVE TeardownInv'
  BY <1>5, AttemptTeardown
<1>6. CASE WorkerCrash
  <2> DEFINE lost == {w \in Workflows : step[w] > 0}
  <2>1. lost \in SUBSET Workflows /\ {} \in SUBSET Workflows
    OBVIOUS
  <2>2. \A w \in lost : act[w] \in Activities
    BY DEF ControlOK
  <2>3. EndAttempts(lost, {}) /\ status' = status /\ torn' = torn
    BY <1>6 DEF WorkerCrash, history
  <2> HIDE DEF lost
  <2>4. \/ act'["delete"] = act["delete"] /\ step'["delete"] \in {0, step["delete"]}
        \/ act'["delete"] \in {"MarkTenantDeleteFailed", "failed"}
    BY <2>1, <2>2, <2>3, EndAttemptsMove
  <2>5. QED
    BY <2>3, <2>4, TeardownKept DEF MayRevive, PastDrop
<1>7. CASE GraceExpires \/ CancelReceived
  <2>1. /\ status' = status /\ torn' = torn /\ MayRevive
        /\ act'["delete"] \in {"BackupTenantData", "DeprovisionTenant", "RestoreTenantAfterCancel"}
        /\ step'["delete"] = 0
    BY <1>1, <1>7, GotoPlace
       DEF GraceExpires, CancelReceived, FirstTeardownStep, history, MayRevive
  <2>2. QED
    BY <2>1, TeardownKept DEF PastDrop
<1>8. ASSUME NEW c \in Clients, Request(c) PROVE TeardownInv'
  <2>1. UNCHANGED <<status, control, history>>
    BY <1>8 DEF Request, DeleteTenant, CancelTenantDelete, RetryTenant, Accept
  <2>2. QED
    BY <2>1, TeardownKept DEF control, history, MayRevive, PastDrop
<1>9. ASSUME NEW c \in Clients, Response(c) PROVE TeardownInv'
  BY <1>9, ResponseTeardown
<1>10. CASE TenantWrites \/ UNCHANGED vars
  <2>1. UNCHANGED <<status, control, history>>
    BY <1>10 DEF TenantWrites, vars, control, history
  <2>2. QED
    BY <2>1, TeardownKept DEF control, history, MayRevive, PastDrop
<1>11. QED
  BY <1>2, <1>3, <1>4, <1>5, <1>6, <1>7, <1>8, <1>9, <1>10 DEF Next, SagaStep

LEMMA InitTeardown == Init => TeardownInv
BY DEF Init, TeardownInv, NoReviveAfterTeardown, MayRevive, PastDrop, Workflows

\* The teardown invariant holds in every reachable state.
THEOREM TeardownCorrect == Spec => []TeardownInv
<1>1. Init => TypeOK /\ TeardownInv
  BY InitType, InitTeardown
<1>2. TypeOK /\ TeardownInv /\ [Next]_vars => TypeOK' /\ TeardownInv'
  BY NextType, NextTeardown
<1>3. QED
  BY <1>1, <1>2, PTL DEF Spec

\* Whatever runs, retries, crashes and requests interleave, no cancellation and
\* no replay of provisioning revives a tenant whose teardown has begun.
THEOREM NeverRevived == Spec => []NoReviveAfterTeardown
<1>1. TeardownInv => NoReviveAfterTeardown
  BY DEF TeardownInv
<1>2. QED
  BY <1>1, TeardownCorrect, PTL


-----------------------------------------------------------------------------
(* Refinement: the abstract life of a tenant.                              *)

\* Every step of the platform is a step of TenantStatus, or leaves both of its
\* variables alone.
LEMMA StepPromise ==
  TypeOK /\ TeardownInv /\ [Next]_vars => [Promise!Next]_(Promise!vars)
<1> SUFFICES ASSUME TypeOK, TeardownInv, [Next]_vars
             PROVE  Promise!Next \/ (status' = status /\ torn' = torn)
  BY DEF Promise!vars
<1> USE DEF Promise!Next, Promise!Move, Promise!Create, Promise!Activate, Promise!Fail,
            Promise!Delete, Promise!Cancel, Promise!Finish, Promise!TearDown
<1>1. CASE ProvisionEffect
  BY <1>1, ProvisionStatus
<1>2. CASE DeleteEffect
  <2>1. act["delete"] = "RestoreTenantAfterCancel" => ~torn
    BY DEF TeardownInv, MayRevive
  <2>2. act["delete"] = "MarkTenantDeleted" /\ status = "deleting" => torn
    BY DEF TeardownInv, PastDrop
  <2>3. QED
    BY <1>2, <2>1, <2>2, DeleteStatus
<1>3. ASSUME NEW w \in Workflows, Attempt(w) PROVE status' = status /\ torn' = torn
  BY <1>3 DEF Attempt, ExecuteActivity, Report, ActivityError, history
<1>4. ASSUME NEW c \in Clients, Request(c) \/ Response(c) PROVE status' = status /\ torn' = torn
  BY <1>4 DEF Request, DeleteTenant, CancelTenantDelete, RetryTenant, Accept, Response,
     startDelete, signalCancel, retryProvision, FindLatestFailed, resumeDelete, Answer, history
<1>5. CASE \/ CreateTenant \/ WorkerCrash \/ GraceExpires \/ CancelReceived
           \/ TenantWrites \/ UNCHANGED vars
  BY <1>5 DEF CreateTenant, WorkerCrash, GraceExpires, CancelReceived, TenantWrites, vars, history
<1>6. QED
  BY <1>1, <1>2, <1>3, <1>4, <1>5 DEF Next, SagaStep

\* The platform implements TenantStatus: deletion is undone only before teardown
\* and finished only after it, and nothing follows deleted.
THEOREM KeepsPromise == Spec => StatusPromise
<1>1. Init => Promise!Init
  BY DEF Init, Promise!Init
<1>2. Init => TypeOK /\ TeardownInv
  BY InitType, InitTeardown
<1>3. TypeOK /\ TeardownInv /\ [Next]_vars => TypeOK' /\ TeardownInv'
  BY NextType, NextTeardown
<1>4. QED
  BY <1>1, <1>2, <1>3, StepPromise, PTL DEF Spec, StatusPromise, Promise!Spec

-----------------------------------------------------------------------------
(* No teardown without a backup.                                           *)

\* Only the tenant of an active row writes data, only ProvisionTenant creates
\* the database, and only the first run chooses the isolation mode.
LEMMA NextDatabase ==
  ASSUME TypeOK, [Next]_vars
  PROVE  /\ mode' = mode \/ act["provision"] = "none"
         /\ db' = "data" => db = "data" \/ (status = "active" /\ status' = "active")
         /\ \/ db' = "absent" \/ db' = db
            \/ db = "empty" /\ db' = "data"
            \/ At("provision", "ProvisionTenant", 2)
<1>1. CASE ProvisionEffect
  <2>1. CASE ProvisionTenant
    BY <2>1 DEF ProvisionTenant, infra, At
  <2>2. CASE ~ProvisionTenant
    BY <1>1, <2>2 DEF ProvisionEffect, CreateTenantRecord, ProvisionTenantIdentity,
       MarkTenantActive, DeleteTenantIdentity, DropUser, DropTenantDatabase, DropDatabase,
       DropTenantRole, MarkTenantFailed, infra
  <2>3. QED
    BY <2>1, <2>2
<1>2. CASE DeleteEffect
  BY <1>2 DEF DeleteEffect, MarkTenantDeleting, RestoreTenantAfterCancel, BackupTenantData,
     DeprovisionTenant, DropDatabase, DropTenantRole, DeleteTenantIdentityByTenant, DropUser,
     MarkTenantDeleted, infra
<1>3. ASSUME NEW w \in Workflows, Attempt(w) PROVE mode' = mode /\ db' = db
  BY <1>3 DEF Attempt, ExecuteActivity, Report, ActivityError, infra
<1>4. ASSUME NEW c \in Clients, Request(c) \/ Response(c) PROVE mode' = mode /\ db' = db
  BY <1>4 DEF Request, DeleteTenant, CancelTenantDelete, RetryTenant, Accept, Response,
     startDelete, signalCancel, retryProvision, FindLatestFailed, resumeDelete, Answer, infra
<1>5. CASE WorkerCrash \/ GraceExpires \/ CancelReceived \/ UNCHANGED vars
  BY <1>5 DEF WorkerCrash, GraceExpires, CancelReceived, vars, infra
<1>6. CASE CreateTenant
  BY <1>6 DEF CreateTenant, infra
<1>7. CASE TenantWrites
  BY <1>7 DEF TenantWrites
<1>8. QED
  BY <1>1, <1>2, <1>3, <1>4, <1>5, <1>6, <1>7 DEF Next, SagaStep


\* A tenant is deleting because it was, or because its saga has just said so.
LEMMA NextDeleting ==
  ASSUME TypeOK, [Next]_vars, status' = "deleting"
  PROVE  status = "deleting" \/ act'["delete"] = "MarkTenantDeleting"
<1>1. CASE ProvisionEffect
  BY <1>1, ProvisionStatus
<1>2. CASE DeleteEffect
  BY <1>2, DeleteStatus
<1>3. ASSUME NEW w \in Workflows, Attempt(w) PROVE status' = status
  BY <1>3 DEF Attempt, ExecuteActivity, Report, ActivityError
<1>4. ASSUME NEW c \in Clients, Request(c) \/ Response(c) PROVE status' = status
  BY <1>4 DEF Request, DeleteTenant, CancelTenantDelete, RetryTenant, Accept, Response,
     startDelete, signalCancel, retryProvision, FindLatestFailed, resumeDelete, Answer
<1>5. CASE \/ CreateTenant \/ WorkerCrash \/ GraceExpires \/ CancelReceived
           \/ TenantWrites \/ UNCHANGED vars
  BY <1>5 DEF CreateTenant, WorkerCrash, GraceExpires, CancelReceived, TenantWrites, vars
<1>6. QED
  BY <1>1, <1>2, <1>3, <1>4, <1>5 DEF Next, SagaStep

\* What a step does to the place of a saga, if it is no effect of that saga: it
\* stays, with its attempt picked up or ended, or it is at the start of an
\* activity.
Rests(w) ==
  \/ act'[w] = act[w] /\ step'[w] \in {0, 1, step[w]}
  \/ act'[w] # "none" /\ step'[w] = 0

LEMMA NextRests ==
  ASSUME TypeOK, [Next]_vars
  PROVE  /\ ProvisionEffect \/ Rests("provision")
         /\ DeleteEffect \/ Rests("delete")
<1> USE DEF TypeOK
<1>1. "provision" \in Workflows /\ "delete" \in Workflows
  BY DEF Workflows
<1>2. CASE ProvisionEffect
  BY <1>2, ProvisionStays DEF Rests
<1>3. CASE DeleteEffect
  BY <1>3, DeleteStays DEF Rests
<1>4. ASSUME NEW w \in Workflows, Attempt(w) PROVE Rests("provision") /\ Rests("delete")
  <2>1. CASE ExecuteActivity(w)
    BY <1>1, <2>1 DEF ExecuteActivity, ControlOK, Rests
  <2>2. CASE Report(w)
    <3>1. act'[w] = Saga(w).onSuccess[act[w]] /\ step'[w] = 0
      BY <2>2, GotoPlace DEF Report
    <3>2. act'[w] # "none"
      <4>1. CASE w = "provision"
        <5>1. act[w] \in ProvisionActivities
          BY <2>2, <4>1 DEF Report, ControlOK, Places, Activities, DeleteActivities
        <5>2. QED
          BY <3>1, <4>1, <5>1, ProvisionTable DEF Saga, ProvisionActivities
      <4>2. CASE w = "delete"
        <5>1. act[w] \in DeleteActivities
          BY <2>2, <4>2 DEF Report, ControlOK, Places, Activities, ProvisionActivities
        <5>2. QED
          BY <3>1, <4>2, <5>1, DeleteTable DEF Saga, DeleteActivities
      <4>3. QED
        BY <4>1, <4>2 DEF Workflows
    <3>3. \A v \in Workflows : v # w => act'[v] = act[v] /\ step'[v] = step[v]
      BY <2>2, MoveOther DEF Report
    <3>4. QED
      BY <1>1, <3>1, <3>2, <3>3 DEF Rests, Workflows
  <2>3. CASE ActivityError(w)
    BY <2>3, EndAttemptsMove DEF ActivityError, Rests, ProvisionActivities
  <2>4. QED
    BY <1>4, <2>1, <2>2, <2>3 DEF Attempt
<1>5. CASE WorkerCrash
  <2> DEFINE lost == {w \in Workflows : step[w] > 0}
  <2>1. lost \in SUBSET Workflows /\ {} \in SUBSET Workflows
    OBVIOUS
  <2>2. \A w \in lost : act[w] \in Activities
    BY DEF ControlOK
  <2>3. EndAttempts(lost, {})
    BY <1>5 DEF WorkerCrash
  <2> HIDE DEF lost
  <2>4. QED
    BY <2>1, <2>2, <2>3, EndAttemptsMove DEF Rests, ProvisionActivities
<1>6. ASSUME NEW w \in Workflows, NEW a \in Activities, Goto(w, a) \/ StartRun(w, a)
      PROVE  Rests("provision") /\ Rests("delete")
  <2>1. act'[w] = a /\ step'[w] = 0 /\ a # "none"
    BY <1>6, GotoPlace DEF Activities, ProvisionActivities, DeleteActivities
  <2>2. \A v \in Workflows : v # w => act'[v] = act[v] /\ step'[v] = step[v]
    BY <1>6, MoveOther
  <2>3. QED
    BY <1>1, <2>1, <2>2 DEF Rests, Workflows
<1>7. CASE CreateTenant \/ GraceExpires \/ CancelReceived
  <2>1. \E w \in Workflows, a \in Activities : Goto(w, a) \/ StartRun(w, a)
    BY <1>1, <1>7 DEF CreateTenant, GraceExpires, CancelReceived, FirstTeardownStep,
       Activities, ProvisionActivities, DeleteActivities
  <2>2. QED
    BY <1>6, <2>1
<1>8. ASSUME NEW c \in Clients, Response(c) PROVE Rests("provision") /\ Rests("delete")
  <2>1. \/ UNCHANGED control
        \/ \E w \in Workflows, a \in Activities : StartRun(w, a)
    <3>1. FirstTeardownStep \in Activities /\ "MarkTenantDeleting" \in Activities
          /\ "CreateTenantRecord" \in Activities
      BY DEF FirstTeardownStep, Activities, ProvisionActivities, DeleteActivities
    <3>2. QED
      BY <1>1, <1>8, <3>1 DEF Response, startDelete, signalCancel, retryProvision,
         FindLatestFailed, resumeDelete
  <2>2. QED
    BY <1>6, <2>1 DEF control, Rests
<1>9. ASSUME NEW c \in Clients, Request(c) PROVE UNCHANGED control
  BY <1>9 DEF Request, DeleteTenant, CancelTenantDelete, RetryTenant, Accept
<1>10. CASE TenantWrites \/ UNCHANGED vars
  BY <1>10 DEF TenantWrites, vars, control, Rests
<1>11. QED
  BY <1>2, <1>3, <1>4, <1>5, <1>7, <1>8, <1>9, <1>10 DEF Next, SagaStep, control, Rests


\* A shared tenant never gets a database.
LEMMA NextShared ==
  ASSUME TypeOK, SharedInv, [Next]_vars
  PROVE  SharedInv'
<1> USE DEF TypeOK
<1>1. "provision" \in Workflows /\ "delete" \in Workflows
  BY DEF Workflows
<1>2. act'["provision"] = "none" => act["provision"] = "none"
  <2>1. CASE ProvisionEffect
    <3>1. act["provision"] # "none"
      BY <2>1 DEF ProvisionEffect, CreateTenantRecord, ProvisionTenant, ProvisionTenantIdentity,
         MarkTenantActive, DeleteTenantIdentity, DropUser, DropTenantDatabase, DropDatabase,
         DropTenantRole, MarkTenantFailed, UpdateTenantStatusFrom, At
    <3>2. CASE MarkTenantActive \/ MarkTenantFailed
      <4>1. act["provision"] \in Activities
        BY <3>2 DEF MarkTenantActive, MarkTenantFailed, UpdateTenantStatusFrom, At, Activities,
           ProvisionActivities
      <4>2. act' = act \/ EndAttempts({"provision"}, {"provision"})
        BY <1>1, <3>2, UpdateMove DEF MarkTenantActive, MarkTenantFailed
      <4>3. QED
        BY <1>1, <3>1, <4>1, <4>2, EndAttemptsMove DEF ProvisionActivities
    <3>3. CASE ~(MarkTenantActive \/ MarkTenantFailed)
      BY <2>1, <3>1, <3>3 DEF ProvisionEffect, CreateTenantRecord, ProvisionTenant,
         ProvisionTenantIdentity, DeleteTenantIdentity, DropUser, DropTenantDatabase,
         DropDatabase, DropTenantRole, Then
    <3>4. QED
      BY <3>2, <3>3
  <2>2. CASE Rests("provision")
    BY <2>2 DEF Rests
  <2>3. QED
    BY <2>1, <2>2, NextRests
<1>3. act["provision"] = "none" => db' = "absent"
  BY NextDatabase DEF SharedInv, At
<1>4. mode' = "shared" => db' = "absent"
  BY <1>3, NextDatabase DEF SharedInv, At
<1>5. ASSUME mode' = "shared", act'["provision"] = "ProvisionTenant"
      PROVE  step'["provision"] \notin 2 .. 4
  <2>1. CASE ProvisionTenant
    <3>1. mode = "shared"
      BY <1>5, <2>1 DEF ProvisionTenant
    <3>2. At("provision", "ProvisionTenant", 1) /\ Then("provision", 5)
      BY <2>1, <3>1 DEF ProvisionTenant, AfterInspect, SharedInv, At
    <3>3. QED
      BY <1>1, <3>2, ThenPlace
  <2>2. CASE ProvisionEffect /\ ~ProvisionTenant
    <3>1. CASE MarkTenantActive \/ MarkTenantFailed
      <4>1. act["provision"] \in Activities /\ act["provision"] # "ProvisionTenant"
        BY <3>1 DEF MarkTenantActive, MarkTenantFailed, UpdateTenantStatusFrom, At, Activities,
           ProvisionActivities
      <4>2. act' = act \/ EndAttempts({"provision"}, {"provision"})
        BY <1>1, <3>1, UpdateMove DEF MarkTenantActive, MarkTenantFailed
      <4>3. QED
        BY <1>1, <1>5, <4>1, <4>2, EndAttemptsMove
    <3>2. CASE ~(MarkTenantActive \/ MarkTenantFailed)
      BY <1>5, <2>2, <3>2 DEF ProvisionEffect, CreateTenantRecord, ProvisionTenantIdentity,
         DeleteTenantIdentity, DropUser, DropTenantDatabase, DropDatabase, DropTenantRole,
         At, Then
    <3>3. QED
      BY <3>1, <3>2
  <2>3. CASE Rests("provision")
    <3>1. mode = "shared" \/ act["provision"] = "none"
      BY <1>5, NextDatabase
    <3>2. QED
      BY <1>5, <2>3, <3>1 DEF Rests, SharedInv
  <2>4. QED
    BY <2>1, <2>2, <2>3, NextRests
<1>6. QED
  BY <1>2, <1>3, <1>4, <1>5 DEF SharedInv

\* Only BackupTenantData writes dumps and backups, and none is forgotten.
LEMMA NextCopies ==
  ASSUME TypeOK, [Next]_vars
  PROVE  BackupTenantData \/ (backups' = backups /\ dump' = dump)
<1>1. ASSUME NEW w \in Workflows, SagaStep(w), ~BackupTenantData
      PROVE  UNCHANGED copies
  BY <1>1 DEF SagaStep, Attempt, ExecuteActivity, Report, ActivityError, ProvisionEffect,
     CreateTenantRecord, ProvisionTenant, ProvisionTenantIdentity, MarkTenantActive,
     DeleteTenantIdentity, DropUser, DropTenantDatabase, MarkTenantFailed, DeleteEffect,
     MarkTenantDeleting, RestoreTenantAfterCancel, DeprovisionTenant,
     DeleteTenantIdentityByTenant, MarkTenantDeleted
<1>2. ASSUME NEW c \in Clients, Request(c) \/ Response(c) PROVE UNCHANGED copies
  BY <1>2 DEF Request, DeleteTenant, CancelTenantDelete, RetryTenant, Accept, Response,
     startDelete, signalCancel, retryProvision, FindLatestFailed, resumeDelete, Answer
<1>3. CASE \/ CreateTenant \/ WorkerCrash \/ GraceExpires \/ CancelReceived
           \/ TenantWrites \/ UNCHANGED vars
  BY <1>3 DEF CreateTenant, WorkerCrash, GraceExpires, CancelReceived, TenantWrites, vars, copies
<1>4. QED
  BY <1>1, <1>2, <1>3 DEF Next, copies

\* The saga gets past the backup by completing it, or, for a shared tenant, by
\* starting behind it.
LEMMA NextAfterBackup ==
  ASSUME TypeOK, [Next]_vars, AfterBackup'
  PROVE  AfterBackup \/ mode = "shared" \/ At("delete", "BackupTenantData", 7)
<1> USE DEF TypeOK
<1>1. "provision" \in Workflows /\ "delete" \in Workflows
  BY DEF Workflows
<1>2. CASE ProvisionEffect
  BY <1>2, ProvisionStays DEF AfterBackup
<1>3. CASE MarkTenantDeleting \/ RestoreTenantAfterCancel \/ MarkTenantDeleted
  <2>1. act["delete"] \in Activities
    BY <1>3 DEF MarkTenantDeleting, RestoreTenantAfterCancel, MarkTenantDeleted,
       UpdateTenantStatusFrom, At, Activities, DeleteActivities
  <2>2. act' = act \/ EndAttempts({"delete"}, {"delete"})
    BY <1>1, <1>3, UpdateMove DEF MarkTenantDeleting, RestoreTenantAfterCancel, MarkTenantDeleted
  <2>3. QED
    BY <1>1, <2>1, <2>2, EndAttemptsMove DEF AfterBackup
<1>4. CASE BackupTenantData \/ DeprovisionTenant \/ DeleteTenantIdentityByTenant
  <2>1. act' = act
    BY <1>4 DEF BackupTenantData, DeprovisionTenant, DropDatabase, DropTenantRole,
       DeleteTenantIdentityByTenant, DropUser, Then
  <2>2. QED
    BY <2>1 DEF AfterBackup
<1>5. ASSUME NEW w \in Workflows, ExecuteActivity(w) PROVE AfterBackup
  BY <1>5 DEF ExecuteActivity, AfterBackup
<1>6. CASE Report("delete")
  <2>1. act["delete"] \in DeleteActivities /\ step["delete"] = LastStep[act["delete"]]
    BY <1>1, <1>6 DEF Report, ControlOK, Places, Activities, ProvisionActivities
  <2>2. act'["delete"] = DeleteTenantWorkflow.onSuccess[act["delete"]]
    BY <1>1, <1>6, GotoPlace DEF Report, Saga
  <2>3. QED
    BY <2>1, <2>2 DEF AfterBackup, At, DeleteTenantWorkflow, DeleteActivities, LastStep
<1>7. CASE Report("provision")
  BY <1>1, <1>7, MoveOther DEF Report, AfterBackup
<1>8. ASSUME NEW w \in Workflows, ActivityError(w) PROVE AfterBackup
  BY <1>8, EndAttemptsMove DEF ActivityError, AfterBackup
<1>9. CASE WorkerCrash
  <2> DEFINE lost == {w \in Workflows : step[w] > 0}
  <2>1. lost \in SUBSET Workflows /\ {} \in SUBSET Workflows
    OBVIOUS
  <2>2. \A w \in lost : act[w] \in Activities
    BY DEF ControlOK
  <2>3. EndAttempts(lost, {})
    BY <1>9 DEF WorkerCrash
  <2> HIDE DEF lost
  <2>4. QED
    BY <2>1, <2>2, <2>3, EndAttemptsMove DEF AfterBackup
<1>10. CASE GraceExpires \/ CancelReceived
  BY <1>1, <1>10, GotoPlace DEF GraceExpires, CancelReceived, FirstTeardownStep, AfterBackup
<1>11. CASE CreateTenant
  BY <1>1, <1>11, MoveOther DEF CreateTenant, AfterBackup
<1>12. ASSUME NEW c \in Clients, Response(c) PROVE AfterBackup \/ mode = "shared"
  <2>1. CASE UNCHANGED control
    BY <2>1 DEF control, AfterBackup
  <2>2. CASE StartRun("provision", "CreateTenantRecord")
    BY <1>1, <2>2, MoveOther DEF AfterBackup
  <2>3. CASE StartRun("delete", "MarkTenantDeleting") \/ StartRun("delete", FirstTeardownStep)
    BY <1>1, <2>3, GotoPlace DEF FirstTeardownStep, AfterBackup
  <2>4. QED
    BY <1>12, <2>1, <2>2, <2>3 DEF Response, startDelete, signalCancel, retryProvision,
       FindLatestFailed, resumeDelete
<1>13. ASSUME NEW c \in Clients, Request(c) PROVE AfterBackup
  BY <1>13 DEF Request, DeleteTenant, CancelTenantDelete, RetryTenant, Accept, control, AfterBackup
<1>14. CASE TenantWrites \/ UNCHANGED vars
  BY <1>14 DEF TenantWrites, vars, control, AfterBackup
<1>15. QED
  BY <1>2, <1>3, <1>4, <1>5, <1>6, <1>7, <1>8, <1>9, <1>10, <1>11, <1>12, <1>13, <1>14
     DEF Next, SagaStep, Attempt, DeleteEffect, Workflows


\* From the dump to the blessing, the backup of a deleting tenant holds its data.
LEMMA NextDump ==
  ASSUME TypeOK, DumpInv, [Next]_vars
  PROVE  DumpInv'
<1> USE DEF TypeOK
<1>1. "provision" \in Workflows /\ "delete" \in Workflows
  BY DEF Workflows
<1> SUFFICES ASSUME status' = "deleting", db' = "data", act'["delete"] = "BackupTenantData"
             PROVE  /\ step'["delete"] \in 3 .. 6 => dump' = "data"
                    /\ step'["delete"] = 7 => "data" \in backups'
  BY DEF DumpInv
<1>2. status = "deleting" /\ db = "data"
  BY NextDeleting, NextDatabase
<1>3. CASE BackupTenantData
  <2>1. /\ step["delete"] \in 3 .. 6 => dump = "data"
        /\ step["delete"] = 7 => "data" \in backups
    BY <1>2, <1>3 DEF DumpInv, BackupTenantData, At
  <2>2. CASE At("delete", "BackupTenantData", 1) /\ Then("delete", 2)
    BY <1>1, <2>2, ThenPlace
  <2>3. CASE At("delete", "BackupTenantData", 2) /\ dump' = db /\ Then("delete", 3)
    BY <1>1, <1>2, <2>3, ThenPlace
  <2>4. CASE /\ \E k \in {4, 5, 6} : Then("delete", k)
             /\ step["delete"] \in 3 .. 6 /\ UNCHANGED copies
    BY <1>1, <2>1, <2>4, ThenPlace DEF copies
  <2>5. CASE At("delete", "BackupTenantData", 6) /\ backups' = backups \cup {dump} /\ Then("delete", 7)
    BY <1>1, <2>1, <2>5, ThenPlace DEF At
  <2>6. QED
    BY <1>2, <1>3, <2>2, <2>3, <2>4, <2>5 DEF BackupTenantData, At
<1>4. CASE ~BackupTenantData
  <2>1. backups' = backups /\ dump' = dump
    BY <1>4, NextCopies
  <2>2. CASE DeleteEffect
    <3>1. act["delete"] \in Activities \ {"BackupTenantData"}
      BY <1>4, <2>2 DEF DeleteEffect, MarkTenantDeleting, RestoreTenantAfterCancel,
         MarkTenantDeleted, DeprovisionTenant, DropDatabase, DropTenantRole,
         DeleteTenantIdentityByTenant, DropUser, UpdateTenantStatusFrom, At, Activities,
         DeleteActivities
    <3>2. CASE MarkTenantDeleting \/ RestoreTenantAfterCancel \/ MarkTenantDeleted
      <4>1. act' = act \/ EndAttempts({"delete"}, {"delete"})
        BY <1>1, <3>2, UpdateMove DEF MarkTenantDeleting, RestoreTenantAfterCancel, MarkTenantDeleted
      <4>2. QED
        BY <1>1, <3>1, <4>1, EndAttemptsMove
    <3>3. CASE DeprovisionTenant \/ DeleteTenantIdentityByTenant
      BY <3>1, <3>3 DEF DeprovisionTenant, DropDatabase, DropTenantRole,
         DeleteTenantIdentityByTenant, DropUser, Then
    <3>4. QED
      BY <1>4, <2>2, <3>2, <3>3 DEF DeleteEffect
  <2>3. CASE Rests("delete")
    BY <1>2, <2>1, <2>3 DEF Rests, DumpInv
  <2>4. QED
    BY <2>2, <2>3, NextRests
<1>5. QED
  BY <1>3, <1>4

\* Every step keeps the backup invariant.
LEMMA NextBackup == TypeOK /\ BackupInv /\ [Next]_vars => BackupInv'
<1> SUFFICES ASSUME TypeOK, BackupInv, [Next]_vars PROVE BackupInv'
  OBVIOUS
<1>1. SharedInv' /\ DumpInv'
  BY NextShared, NextDump DEF BackupInv
<1>2. ASSUME AfterBackup', status' = "deleting", db' = "data" PROVE "data" \in backups'
  <2>1. status = "deleting" /\ db = "data"
    BY <1>2, NextDeleting, NextDatabase DEF AfterBackup
  <2>2. mode # "shared"
    BY <2>1 DEF BackupInv, SharedInv
  <2>3. "data" \in backups
    BY <1>2, <2>1, <2>2, NextAfterBackup
       DEF BackupInv, BackupBeforeTeardown, DumpInv, At
  <2>4. QED
    BY <2>3, NextCopies DEF BackupTenantData, copies
<1>3. QED
  BY <1>1, <1>2 DEF BackupInv, BackupBeforeTeardown

LEMMA InitBackup == Init => BackupInv
BY DEF Init, BackupInv, BackupBeforeTeardown, DumpInv, SharedInv, AfterBackup, Workflows

\* The invariant behind the safety theorems holds in every reachable state.
THEOREM SafetyCorrect == Spec => []SafetyInv
<1>1. Init => TypeOK /\ BackupInv
  BY InitType, InitBackup
<1>2. TypeOK /\ BackupInv /\ [Next]_vars => TypeOK' /\ BackupInv'
  BY NextType, NextBackup
<1>3. Spec => []BackupInv
  BY <1>1, <1>2, PTL DEF Spec
<1>4. TeardownInv /\ BackupInv => SafetyInv
  BY DEF SafetyInv
<1>5. QED
  BY <1>3, <1>4, TeardownCorrect, PTL

\* The teardown of a deleting tenant never reaches a database with data in it
\* before a verified backup of that data is on record, on a first run, after
\* retries and crashes, and on a resumed run.
THEOREM BackedUpBeforeTeardown == Spec => []BackupBeforeTeardown
<1>1. SafetyInv => BackupBeforeTeardown
  BY DEF SafetyInv, BackupInv
<1>2. QED
  BY <1>1, SafetyCorrect, PTL

=============================================================================
