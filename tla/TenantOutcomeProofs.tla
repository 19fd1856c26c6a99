------------------------ MODULE TenantOutcomeProofs -------------------------
(***************************************************************************)
(* Proofs of what the runs of TenantLifecycle leave behind: a provisioned  *)
(* tenant is served, a deleted one is clean, a failed run is listed.       *)
(***************************************************************************)
EXTENDS TenantLifecycleProofs

-----------------------------------------------------------------------------
(* The inductive invariants: what is known at every place of the sagas.    *)

\* A dedicated tenant has its database, and its role owns it.
Ready == mode = "dedicated" => db # "absent" /\ role /\ owned

\* While nobody has ever deleted the tenant, what the provision saga has built is
\* there as soon as the saga is past the effect that builds it.
ServedInv ==
  act["delete"] = "none" =>
    /\ At("provision", "ProvisionTenant", 3) => db # "absent"
    /\ At("provision", "ProvisionTenant", 4) => db # "absent" /\ role
    /\ \/ At("provision", "ProvisionTenant", 5)
       \/ act["provision"] \in {"ProvisionTenantIdentity", "MarkTenantActive", "completed"}
       => Ready
    /\ At("provision", "ProvisionTenantIdentity", 2) => user # "absent"
    /\ \/ At("provision", "ProvisionTenantIdentity", 3)
       \/ act["provision"] \in {"MarkTenantActive", "completed"}
       => user = "operator"
    /\ At("provision", "MarkTenantActive", 2) \/ act["provision"] = "completed"
       => status = "active"

\* The provision saga has activated the tenant and has no effect left.
Settled == act["provision"] = "completed" \/ At("provision", "MarkTenantActive", 2)

\* While a settled tenant is deleting, what the teardown has dropped stays dropped;
\* once it is deleted everything is gone, and no resumed run builds a _temp again.
CleanInv ==
  Settled =>
    /\ status = "deleting" =>
         /\ PastDrop => db = "absent" /\ ~owned
         /\ \/ At("delete", "DeprovisionTenant", 3)
            \/ act["delete"] \in {"DeleteTenantIdentityByTenant", "MarkTenantDeleted"}
            => ~role /\ ~temp
         /\ \/ At("delete", "DeleteTenantIdentityByTenant", 2)
            \/ act["delete"] = "MarkTenantDeleted"
            => user = "absent"
    /\ status = "deleted" =>
         /\ db = "absent" /\ ~owned /\ ~role /\ ~temp /\ user = "absent"
         /\ ~(act["delete"] = "BackupTenantData" /\ step["delete"] \in 3 .. 6)

\* The activities that follow a failure, and a run that has failed.
AfterFailure ==
  {"DeleteTenantIdentity", "DropTenantDatabase", "MarkTenantFailed",
   "MarkTenantDeleteFailed", "failed"}

\* Without faults of the recorder and its process, the row of a run is there once
\* an attempt executes, and says failed once an activity was given up.
ListedInv ==
  \A w \in Workflows :
    /\ row[w] # "missed"
    /\ step[w] > 0 => row[w] \in {"running", "failed"}
    /\ act[w] \in AfterFailure => row[w] = "failed"

-----------------------------------------------------------------------------
(* Steps of the sagas.                                                     *)

Starts(w) ==
  IF w = "provision" THEN {"CreateTenantRecord"}
  ELSE {"MarkTenantDeleting", "RestoreTenantAfterCancel", "BackupTenantData",
        "DeprovisionTenant"}

\* How a saga moves in a step that is no effect of it: it stays, its attempt is
\* picked up or repeated, an activity is given up or reported, or a run starts.
Moves(w) ==
  \/ /\ act'[w] = act[w]
     /\ step'[w] = step[w] \/ step'[w] = 0 \/ (step[w] = 0 /\ step'[w] = 1)
  \/ /\ step'[w] = 0
     /\ \/ act[w] \in Activities /\ act'[w] = Saga(w).onFailure[act[w]]
        \/ /\ act[w] \in Activities /\ step[w] = LastStep[act[w]]
           /\ act'[w] = Saga(w).onSuccess[act[w]]
        \/ act[w] \notin Activities /\ act'[w] \in Starts(w)

LEMMA EndAttemptsMoves ==
  ASSUME ControlOK, NEW lost \in SUBSET Workflows, NEW final \in SUBSET Workflows,
         \A w \in lost : act[w] \in Activities, EndAttempts(lost, final)
  PROVE  \A w \in Workflows : Moves(w)
BY DEF EndAttempts, Moves

\* A run that goes on or starts, of one saga; the other one stays.
LEMMA GotoMoves ==
  ASSUME ControlOK, NEW w \in Workflows, NEW a \in Starts(w), act[w] \notin Activities,
         Goto(w, a) \/ StartRun(w, a)
  PROVE  \A v \in Workflows : Moves(v)
<1>1. act'[w] = a /\ step'[w] = 0
  BY GotoPlace
<1>2. \A v \in Workflows : v # w => act'[v] = act[v] /\ step'[v] = step[v]
  BY MoveOther
<1>3. QED
  BY <1>1, <1>2 DEF Moves

LEMMA NextMoves ==
  ASSUME TypeOK, [Next]_vars
  PROVE  /\ ProvisionEffect \/ Moves("provision")
         /\ DeleteEffect \/ Moves("delete")
<1> USE DEF TypeOK
<1>1. "provision" \in Workflows /\ "delete" \in Workflows
  BY DEF Workflows
<1>2. CASE ProvisionEffect
  BY <1>2, ProvisionStays DEF Moves
<1>3. CASE DeleteEffect
  BY <1>3, DeleteStays DEF Moves
<1>4. ASSUME NEW w \in Workflows, Attempt(w) PROVE \A v \in Workflows : Moves(v)
  <2>1. CASE ExecuteActivity(w)
    BY <2>1 DEF ExecuteActivity, ControlOK, Moves
  <2>2. CASE Report(w)
    <3>1. act'[w] = Saga(w).onSuccess[act[w]] /\ step'[w] = 0
      BY <2>2, GotoPlace DEF Report
    <3>2. \A v \in Workflows : v # w => act'[v] = act[v] /\ step'[v] = step[v]
      BY <2>2, MoveOther DEF Report
    <3>3. QED
      BY <2>2, <3>1, <3>2 DEF Moves, Report
  <2>3. CASE ActivityError(w)
    BY <2>3, EndAttemptsMoves DEF ActivityError
  <2>4. QED
    BY <1>4, <2>1, <2>2, <2>3 DEF Attempt
<1>5. CASE WorkerCrash
  <2> DEFINE lost == {w \in Workflows : step[w] > 0}
  <2>1. lost \in SUBSET Workflows /\ {} \in SUBSET Workflows
    OBVIOUS
  <2>2. \A w \in lost : act[w] \in Activities
    BY DEF ControlOK
  <2>3. EndAttempts(lost, {})
    BY <1>5 DEF WorkerCrash
  <2> HIDE DEF lost
  <2>4. QED
    BY <1>1, <2>1, <2>2, <2>3, EndAttemptsMoves
<1>6. CASE CreateTenant \/ GraceExpires \/ CancelReceived
  <2>1. \E w \in Workflows : \E a \in Starts(w) :
          act[w] \notin Activities /\ (Goto(w, a) \/ StartRun(w, a))
    BY <1>1, <1>6 DEF CreateTenant, GraceExpires, CancelReceived, FirstTeardownStep, Starts,
       Activities, ProvisionActivities, DeleteActivities
  <2>2. QED
    BY <1>1, <2>1, GotoMoves
<1>7. ASSUME NEW c \in Clients, Response(c) PROVE \A v \in Workflows : Moves(v)
  <2>1. \/ UNCHANGED control
        \/ \E w \in Workflows : \E a \in Starts(w) :
             act[w] \notin Activities /\ StartRun(w, a)
    <3>1. FirstTeardownStep \in Starts("delete") /\ "MarkTenantDeleting" \in Starts("delete")
          /\ "CreateTenantRecord" \in Starts("provision")
      BY DEF FirstTeardownStep, Starts
    <3>2. \A w \in Workflows : act[w] \in {"none", "failed"} \/ ~Open(w) => act[w] \notin Activities
      BY DEF Open, Activities, ProvisionActivities, DeleteActivities
    <3>3. QED
      BY <1>1, <1>7, <3>1, <3>2 DEF Response, startDelete, signalCancel, retryProvision,
         FindLatestFailed, resumeDelete
  <2>2. CASE UNCHANGED control
    BY <2>2 DEF control, Moves
  <2>3. QED
    BY <2>1, <2>2, GotoMoves
<1>8. ASSUME NEW c \in Clients, Request(c) PROVE UNCHANGED control
  BY <1>8 DEF Request, DeleteTenant, CancelTenantDelete, RetryTenant, Accept
<1>9. CASE TenantWrites \/ UNCHANGED vars
  BY <1>9 DEF TenantWrites, vars, control, Moves
<1>10. QED
  BY <1>1, <1>2, <1>3, <1>4, <1>5, <1>6, <1>7, <1>8, <1>9 DEF Next, SagaStep, control, Moves

\* What a step that is no effect of a saga does to the tenant: a new tenant gets its
\* mode, a write fills its database, a failed verification drops _temp.
LEMMA NextTenant ==
  ASSUME TypeOK, [Next]_vars, ~ProvisionEffect, ~DeleteEffect
  PROVE  /\ UNCHANGED <<status, owned, role, user>>
         /\ mode' = mode \/ act["provision"] = "none"
         /\ db' = db \/ (status = "active" /\ db = "empty" /\ db' = "data")
         /\ temp' = temp \/ temp' = FALSE
<1>1. ASSUME NEW w \in Workflows, Attempt(w)
      PROVE  UNCHANGED <<status, mode, db, owned, role, user>> /\ temp' \in {temp, FALSE}
  BY <1>1 DEF Attempt, ExecuteActivity, Report, ActivityError, TempLeft, infra
<1>2. CASE WorkerCrash
  BY <1>2 DEF WorkerCrash, TempLeft
<1>3. ASSUME NEW c \in Clients, Request(c) \/ Response(c)
      PROVE  UNCHANGED <<status, mode, infra>>
  BY <1>3 DEF Request, DeleteTenant, CancelTenantDelete, RetryTenant, Accept, Response,
     startDelete, signalCancel, retryProvision, FindLatestFailed, resumeDelete, Answer
<1>4. CASE CreateTenant
  BY <1>4 DEF CreateTenant, infra
<1>5. CASE GraceExpires \/ CancelReceived \/ UNCHANGED vars
  BY <1>5 DEF GraceExpires, CancelReceived, vars, infra
<1>6. CASE TenantWrites
  BY <1>6 DEF TenantWrites
<1>7. QED
  BY <1>1, <1>2, <1>3, <1>4, <1>5, <1>6 DEF Next, SagaStep, infra

-----------------------------------------------------------------------------
(* A provisioned tenant is served.                                         *)

\* The delete saga never becomes one that was never started.
LEMMA NeverDeleted ==
  ASSUME TypeOK, [Next]_vars, act'["delete"] = "none"
  PROVE  act["delete"] = "none" /\ ~DeleteEffect
<1> USE DEF TypeOK
<1>1. "provision" \in Workflows /\ "delete" \in Workflows
  BY DEF Workflows
<1>2. CASE DeleteEffect
  <2>1. act["delete"] \in DeleteActivities
    BY <1>2 DEF DeleteEffect, MarkTenantDeleting, RestoreTenantAfterCancel, BackupTenantData,
       DeprovisionTenant, DeleteTenantIdentityByTenant, MarkTenantDeleted, DropUser,
       DropDatabase, DropTenantRole, UpdateTenantStatusFrom, At, DeleteActivities
  <2>2. act' = act \/ EndAttempts({"delete"}, {"delete"})
    BY <1>2 DEF DeleteEffect, MarkTenantDeleting, RestoreTenantAfterCancel, BackupTenantData,
       DeprovisionTenant, DeleteTenantIdentityByTenant, MarkTenantDeleted, DropUser,
       DropDatabase, DropTenantRole, UpdateTenantStatusFrom, Then
  <2>3. act["delete"] \in Activities
    BY <2>1 DEF Activities
  <2>4. act'["delete"] # "none"
    BY <1>1, <2>1, <2>2, <2>3, EndAttemptsMove DEF DeleteActivities
  <2>5. QED
    BY <2>4
<1>3. CASE ~DeleteEffect
  BY <1>3, NextRests DEF Rests
<1>4. QED
  BY <1>2, <1>3

\* Where the provision saga comes from when it is at a place of ServedInv.
LEMMA ProvisionPlaces ==
  ASSUME TypeOK, Moves("provision")
  PROVE  /\ act'["provision"] = "ProvisionTenantIdentity" =>
              \/ act["provision"] = "ProvisionTenantIdentity"
              \/ At("provision", "ProvisionTenant", 5)
         /\ act'["provision"] = "MarkTenantActive" =>
              \/ act["provision"] = "MarkTenantActive"
              \/ At("provision", "ProvisionTenantIdentity", 3)
         /\ act'["provision"] = "completed" =>
              \/ act["provision"] = "completed"
              \/ At("provision", "MarkTenantActive", 2)
         /\ \A a, k : At("provision", a, k)' /\ k > 1 => At("provision", a, k)
<1> USE DEF TypeOK
<1>1. step["provision"] \in 0 .. 7 /\ act["provision"] \in Places("provision")
  BY DEF ControlOK, Workflows
<1>2. CASE act'["provision"] = act["provision"]
  BY <1>1, <1>2 DEF Moves, At
<1>3. CASE /\ act["provision"] \in Activities
           /\ act'["provision"] = Saga("provision").onFailure[act["provision"]]
           /\ step'["provision"] = 0
  BY <1>1, <1>3 DEF Saga, ProvisionTenantWorkflow, Activities, Places, ProvisionActivities,
     DeleteActivities, At
<1>4. CASE /\ act["provision"] \in Activities
           /\ step["provision"] = LastStep[act["provision"]]
           /\ act'["provision"] = Saga("provision").onSuccess[act["provision"]]
           /\ step'["provision"] = 0
  BY <1>1, <1>4 DEF Saga, ProvisionTenantWorkflow, Activities, Places, ProvisionActivities,
     DeleteActivities, At, LastStep
<1>5. CASE act'["provision"] \in Starts("provision") /\ step'["provision"] = 0
  BY <1>5 DEF Starts, At
<1>6. QED
  BY <1>2, <1>3, <1>4, <1>5 DEF Moves

\* The effects of the provision saga build what ServedInv says.
LEMMA ProvisionServed ==
  ASSUME TypeOK, ServedInv, ProvisionEffect, act["delete"] = "none"
  PROVE  ServedInv'
<1> USE DEF TypeOK
<1>1. "provision" \in Workflows /\ "delete" \in Workflows
  BY DEF Workflows
<1>2. CASE CreateTenantRecord
  BY <1>1, <1>2, ThenPlace DEF CreateTenantRecord, ServedInv, At, Ready, infra
<1>3. CASE ProvisionTenant
  <2>1. mode' = mode /\ status' = status
    BY <1>3 DEF ProvisionTenant
  <2>2. CASE At("provision", "ProvisionTenant", 1) /\ Then("provision", AfterInspect) /\ UNCHANGED infra
    BY <1>1, <2>1, <2>2, ThenPlace DEF ServedInv, At, Ready, infra, AfterInspect, TenantOK, Modes
  <2>3. CASE /\ At("provision", "ProvisionTenant", 2) /\ db' = "empty" /\ Then("provision", 3)
             /\ UNCHANGED <<owned, role, temp, user>>
    BY <1>1, <2>1, <2>3, ThenPlace DEF ServedInv, At, Ready
  <2>4. CASE /\ At("provision", "ProvisionTenant", 3) /\ role' = TRUE /\ Then("provision", 4)
             /\ UNCHANGED <<db, owned, temp, user>>
    BY <1>1, <2>1, <2>4, ThenPlace DEF ServedInv, At, Ready
  <2>5. CASE /\ At("provision", "ProvisionTenant", 4) /\ db # "absent" /\ role /\ owned' = TRUE
             /\ Then("provision", 5) /\ UNCHANGED <<db, role, temp, user>>
    BY <1>1, <2>1, <2>5, ThenPlace DEF ServedInv, At, Ready
  <2>6. QED
    BY <1>3, <2>2, <2>3, <2>4, <2>5 DEF ProvisionTenant
<1>4. CASE ProvisionTenantIdentity
  BY <1>1, <1>4, ThenPlace DEF ProvisionTenantIdentity, ServedInv, At, Ready
<1>5. CASE DeleteTenantIdentity
  BY <1>1, <1>5, ThenPlace DEF DeleteTenantIdentity, DropUser, ServedInv, At, Ready
<1>6. CASE DropTenantDatabase
  BY <1>1, <1>6, ThenPlace DEF DropTenantDatabase, DropDatabase, DropTenantRole, ServedInv, At, Ready
<1>7. CASE MarkTenantActive \/ MarkTenantFailed
  <2>1. UNCHANGED <<mode, db, owned, role, user>>
    BY <1>7 DEF MarkTenantActive, MarkTenantFailed, infra
  <2>2. CASE Then("provision", 2) /\ act["provision"] = "MarkTenantActive" /\ status' = "active"
    BY <1>1, <2>1, <2>2, ThenPlace DEF ServedInv, At, Ready
  <2>3. CASE Then("provision", 2) /\ act["provision"] = "MarkTenantFailed"
    BY <1>1, <2>1, <2>3, ThenPlace DEF ServedInv, At, Ready
  <2>4. CASE /\ EndAttempts({"provision"}, {"provision"}) /\ status' = status
             /\ act["provision"] \in {"MarkTenantActive", "MarkTenantFailed"}
    <3>1. act["provision"] \in Activities
      BY <2>4 DEF Activities, ProvisionActivities
    <3>2. Moves("provision")
      BY <1>1, <2>4, <3>1, EndAttemptsMoves
    <3>3. QED
      BY <1>1, <2>1, <2>4, <3>2, ProvisionPlaces DEF ServedInv, At, Ready
  <2>5. QED
    BY <1>7, <2>2, <2>3, <2>4 DEF MarkTenantActive, MarkTenantFailed, UpdateTenantStatusFrom, At
<1>8. QED
  BY <1>2, <1>3, <1>4, <1>5, <1>6, <1>7 DEF ProvisionEffect

LEMMA NextServed == TypeOK /\ ServedInv /\ [Next]_vars => ServedInv'
<1> SUFFICES ASSUME TypeOK, ServedInv, [Next]_vars, act'["delete"] = "none"
             PROVE  ServedInv'
  BY DEF ServedInv
<1>1. act["delete"] = "none" /\ ~DeleteEffect
  BY NeverDeleted
<1>2. CASE ProvisionEffect
  BY <1>1, <1>2, ProvisionServed
<1>3. CASE ~ProvisionEffect
  <2>1. Moves("provision")
    BY <1>3, NextMoves
  <2>2. UNCHANGED <<status, owned, role, user>> /\ (db # "absent" => db' # "absent")
    BY <1>1, <1>3, NextTenant
  <2>3. mode' = mode \/ act["provision"] = "none"
    BY <1>1, <1>3, NextTenant
  <2>4. QED
    BY <1>1, <2>1, <2>2, <2>3, ProvisionPlaces DEF ServedInv, Ready, At
<1>4. QED
  BY <1>2, <1>3

\* ProvisionTenantWorkflow: a tenant whose last provision run succeeded and that was
\* never deleted is active, with its user, its database and its role, however many
\* runs, retries and worker deaths it took.
THEOREM ProvisionedServed == Spec => []ProvisionedIsServed
<1>1. Init => TypeOK /\ ServedInv
  BY InitType DEF Init, ServedInv, At, Workflows
<1>2. TypeOK /\ ServedInv /\ [Next]_vars => TypeOK' /\ ServedInv'
  BY NextType, NextServed
<1>3. ServedInv => ProvisionedIsServed
  BY DEF ServedInv, ProvisionedIsServed, Served, Ready
<1>4. QED
  BY <1>1, <1>2, <1>3, PTL DEF Spec

-----------------------------------------------------------------------------
(* A deleted tenant is clean.                                              *)

\* The teardown has dropped the role, and the user.
PastRole ==
  \/ At("delete", "DeprovisionTenant", 3)
  \/ act["delete"] \in {"DeleteTenantIdentityByTenant", "MarkTenantDeleted"}

PastUser ==
  At("delete", "DeleteTenantIdentityByTenant", 2) \/ act["delete"] = "MarkTenantDeleted"

\* The delete saga is building a _temp database.
Verifying == act["delete"] = "BackupTenantData" /\ step["delete"] \in 3 .. 6

\* The delete saga gets past an effect only by performing it.
LEMMA DeletePlaces ==
  ASSUME TypeOK, Moves("delete")
  PROVE  /\ PastDrop' => PastDrop
         /\ PastRole' => PastRole
         /\ PastUser' => PastUser
         /\ Verifying' => Verifying
<1> USE DEF TypeOK, PastDrop, PastRole, PastUser, Verifying
<1>1. step["delete"] \in 0 .. 7 /\ act["delete"] \in Places("delete")
  BY DEF ControlOK, Workflows
<1>2. CASE act'["delete"] = act["delete"]
  BY <1>1, <1>2 DEF Moves, At
<1>3. CASE /\ act["delete"] \in Activities
           /\ act'["delete"] = Saga("delete").onFailure[act["delete"]]
           /\ step'["delete"] = 0
  <2>1. act'["delete"] \in {"MarkTenantDeleteFailed", "failed"}
    BY <1>1, <1>3, DeleteTable DEF Saga, Activities, Places, ProvisionActivities, DeleteActivities
  <2>2. QED
    BY <1>3, <2>1 DEF At
<1>4. CASE /\ act["delete"] \in Activities
           /\ step["delete"] = LastStep[act["delete"]]
           /\ act'["delete"] = Saga("delete").onSuccess[act["delete"]]
           /\ step'["delete"] = 0
  BY <1>1, <1>4 DEF Saga, DeleteTenantWorkflow, Activities, Places, ProvisionActivities,
     DeleteActivities, At, LastStep
<1>5. CASE act'["delete"] \in Starts("delete") /\ step'["delete"] = 0
  BY <1>5 DEF Starts, At
<1>6. QED
  BY <1>2, <1>3, <1>4, <1>5 DEF Moves

\* A step that drops nothing and builds nothing, in which the sagas get past nothing.
LEMMA CleanKept ==
  ASSUME CleanInv, Settled' => Settled, status' \in {"deleting", "deleted"} => status' = status,
         status \in {"deleting", "deleted"} =>
           UNCHANGED <<db, owned, role, user>> /\ (temp' => temp),
         PastDrop' => PastDrop, PastRole' => PastRole, PastUser' => PastUser,
         Verifying' => Verifying
  PROVE  CleanInv'
BY DEF CleanInv, PastRole, PastUser, Verifying

\* An effect of the provision saga is none of a settled one; it settles the saga only
\* with a tenant that is active.
LEMMA ProvisionSettles ==
  ASSUME TypeOK, ProvisionEffect
  PROVE  Settled' => status' = "active"
<1> USE DEF TypeOK
<1>1. "provision" \in Workflows /\ "delete" \in Workflows
  BY DEF Workflows
<1>2. CASE MarkTenantActive
  <2>1. CASE EndAttempts({"provision"}, {"provision"}) /\ act["provision"] = "MarkTenantActive"
             /\ step["provision"] = 1
    <3>1. act["provision"] \in Activities
      BY <2>1 DEF Activities, ProvisionActivities
    <3>2. Moves("provision")
      BY <1>1, <2>1, <3>1, EndAttemptsMoves
    <3>3. QED
      BY <2>1, <3>2, ProvisionPlaces DEF Settled, At
  <2>2. QED
    BY <1>2, <2>1 DEF MarkTenantActive, UpdateTenantStatusFrom, At
<1>3. CASE MarkTenantFailed
  <2>1. act["provision"] = "MarkTenantFailed"
    BY <1>3 DEF MarkTenantFailed, UpdateTenantStatusFrom, At
  <2>2. CASE EndAttempts({"provision"}, {"provision"})
    <3>1. act["provision"] \in Activities
      BY <2>1 DEF Activities, ProvisionActivities
    <3>2. Moves("provision")
      BY <1>1, <2>2, <3>1, EndAttemptsMoves
    <3>3. QED
      BY <2>1, <3>2, ProvisionPlaces DEF Settled, At
  <2>3. CASE Then("provision", 2)
    BY <1>1, <2>1, <2>3, ThenPlace DEF Settled, At
  <2>4. QED
    BY <1>3, <2>2, <2>3 DEF MarkTenantFailed, UpdateTenantStatusFrom
<1>4. CASE \/ CreateTenantRecord \/ ProvisionTenant \/ ProvisionTenantIdentity
           \/ DeleteTenantIdentity \/ DropTenantDatabase
  <2>1. act' = act
    BY <1>4 DEF CreateTenantRecord, ProvisionTenant, ProvisionTenantIdentity,
       DeleteTenantIdentity, DropUser, DropTenantDatabase, DropDatabase, DropTenantRole, Then
  <2>2. act["provision"] \in ProvisionActivities \ {"MarkTenantActive"}
    BY <1>4 DEF CreateTenantRecord, ProvisionTenant, ProvisionTenantIdentity,
       DeleteTenantIdentity, DropUser, DropTenantDatabase, DropDatabase, DropTenantRole, At,
       ProvisionActivities
  <2>3. QED
    BY <2>1, <2>2 DEF Settled, At, ProvisionActivities
<1>5. QED
  BY <1>2, <1>3, <1>4 DEF ProvisionEffect

\* A lost compare-and-set of the delete saga changes nothing.
LEMMA LostUpdate ==
  ASSUME TypeOK, CleanInv, EndAttempts({"delete"}, {"delete"}), act["delete"] \in Activities,
         status' = status, UNCHANGED infra, Settled' => Settled
  PROVE  CleanInv'
<1>1. "delete" \in Workflows /\ ControlOK
  BY DEF Workflows, TypeOK
<1>2. Moves("delete")
  BY <1>1, EndAttemptsMoves
<1>3. QED
  BY <1>2, DeletePlaces, CleanKept DEF infra

\* The effects of the delete saga keep a clean tenant clean.
LEMMA DeleteClean ==
  ASSUME TypeOK, CleanInv, DeleteEffect
  PROVE  CleanInv'
<1> USE DEF TypeOK
<1>1. "provision" \in Workflows /\ "delete" \in Workflows
  BY DEF Workflows
<1>2. Settled' => Settled
  BY DeleteStays DEF Settled, At
<1> DEFINE Updates(a, to, from) ==
      UpdateTenantStatusFrom("delete", a, to, from) /\ UNCHANGED infra
<1>3. ASSUME NEW a \in Activities, NEW to, NEW from, Updates(a, to, from)
      PROVE  \/ CleanInv'
             \/ At("delete", a, 1) /\ status \in from /\ status' = to /\ Then("delete", 2)
  BY <1>2, <1>3, LostUpdate DEF UpdateTenantStatusFrom, At
<1>4. CASE MarkTenantDeleting
  <2>1. Updates("MarkTenantDeleting", "deleting", {"active", "failed"})
        /\ "MarkTenantDeleting" \in Activities
    BY <1>4 DEF MarkTenantDeleting, Activities, DeleteActivities
  <2>2. CASE At("delete", "MarkTenantDeleting", 1) /\ status' = "deleting" /\ Then("delete", 2)
    BY <1>1, <2>2, ThenPlace DEF CleanInv, PastDrop, At
  <2>3. QED
    BY <1>3, <2>1, <2>2
<1>5. CASE RestoreTenantAfterCancel
  <2>1. Updates("RestoreTenantAfterCancel", "active", {"deleting"})
        /\ "RestoreTenantAfterCancel" \in Activities
    BY <1>5 DEF RestoreTenantAfterCancel, Activities, DeleteActivities
  <2>2. CASE status' = "active"
    BY <2>2 DEF CleanInv
  <2>3. QED
    BY <1>3, <2>1, <2>2
<1>6. CASE MarkTenantDeleted
  <2>1. Updates("MarkTenantDeleted", "deleted", {"deleting"}) /\ "MarkTenantDeleted" \in Activities
    BY <1>6 DEF MarkTenantDeleted, Activities, DeleteActivities
  <2>2. CASE /\ At("delete", "MarkTenantDeleted", 1) /\ status = "deleting"
             /\ status' = "deleted" /\ Then("delete", 2)
    <3>1. Settled => db = "absent" /\ ~owned /\ ~role /\ ~temp /\ user = "absent"
      BY <2>2 DEF CleanInv, PastDrop, At
    <3>2. act'["delete"] = "MarkTenantDeleted"
      BY <1>1, <2>2, ThenPlace DEF At
    <3>3. QED
      BY <1>2, <2>1, <2>2, <3>1, <3>2 DEF CleanInv, infra
  <2>3. QED
    BY <1>3, <2>1, <2>2
<1>7. CASE BackupTenantData
  <2>1. status' = status /\ UNCHANGED <<db, owned, user>> /\ act' = act
        /\ act["delete"] = "BackupTenantData"
    BY <1>7 DEF BackupTenantData, Then, At
  <2>2. ASSUME Settled, status = "deleted"
        PROVE  UNCHANGED <<role, temp>> /\ ~Verifying'
    <3>1. db = "absent" /\ step["delete"] \notin 3 .. 6
      BY <2>1, <2>2 DEF CleanInv
    <3>2. At("delete", "BackupTenantData", 1) /\ Then("delete", 7) /\ UNCHANGED <<role, temp>>
      BY <1>7, <3>1 DEF BackupTenantData, At
    <3>3. QED
      BY <1>1, <3>2, ThenPlace DEF Verifying
  <2>3. QED
    BY <1>2, <2>1, <2>2 DEF CleanInv, PastDrop, At, Verifying
<1>8. CASE DeprovisionTenant
  <2>1. status' = status /\ act' = act /\ act["delete"] = "DeprovisionTenant" /\ user' = user
    BY <1>8 DEF DeprovisionTenant, DropDatabase, DropTenantRole, Then, At
  <2>2. CASE DropDatabase("delete", "DeprovisionTenant")
    BY <1>1, <1>2, <2>1, <2>2, ThenPlace DEF DropDatabase, CleanInv, PastDrop, At
  <2>3. CASE DropTenantRole("delete", "DeprovisionTenant")
    BY <1>1, <1>2, <2>1, <2>3, ThenPlace DEF DropTenantRole, CleanInv, PastDrop, At
  <2>4. QED
    BY <1>8, <2>2, <2>3 DEF DeprovisionTenant
<1>9. CASE DeleteTenantIdentityByTenant
  BY <1>1, <1>2, <1>9, ThenPlace DEF DeleteTenantIdentityByTenant, DropUser, CleanInv, PastDrop, At
<1>10. QED
  BY <1>4, <1>5, <1>6, <1>7, <1>8, <1>9 DEF DeleteEffect

LEMMA NextClean == TypeOK /\ CleanInv /\ [Next]_vars => CleanInv'
<1> SUFFICES ASSUME TypeOK, CleanInv, [Next]_vars PROVE CleanInv'
  OBVIOUS
<1>1. CASE ProvisionEffect
  BY <1>1, ProvisionSettles DEF CleanInv
<1>2. CASE DeleteEffect
  BY <1>2, DeleteClean
<1>3. CASE ~ProvisionEffect /\ ~DeleteEffect
  <2>1. Moves("provision") /\ Moves("delete")
    BY <1>3, NextMoves
  <2>2. Settled' => Settled
    BY <2>1, ProvisionPlaces DEF Settled, At
  <2>3. /\ UNCHANGED <<status, owned, role, user>>
        /\ status \in {"deleting", "deleted"} => db' = db
    BY <1>3, NextTenant
  <2>4. temp' => temp
    BY <1>3, NextTenant, Zenon
  <2>5. QED
    BY <2>1, <2>2, <2>3, <2>4, DeletePlaces, CleanKept
<1>4. QED
  BY <1>1, <1>2, <1>3

\* DeleteTenantWorkflow: nothing of a deleted tenant is left behind if its last
\* provision run succeeded, whatever resumed and stale runs came in between.
THEOREM DeletedClean == Spec => []DeletedIsClean
<1>1. Init => TypeOK /\ CleanInv
  BY InitType DEF Init, CleanInv
<1>2. TypeOK /\ CleanInv /\ [Next]_vars => TypeOK' /\ CleanInv'
  BY NextType, NextClean
<1>3. CleanInv => DeletedIsClean
  BY DEF CleanInv, DeletedIsClean, Settled
<1>4. QED
  BY <1>1, <1>2, <1>3, PTL DEF Spec

-----------------------------------------------------------------------------
(* A failed run is listed.                                                 *)

\* No saga turns to a compensation after a success.
LEMMA SuccessTable ==
  ASSUME TypeOK, NEW w \in Workflows, act[w] \in Activities,
         Saga(w).onSuccess[act[w]] \in AfterFailure
  PROVE  act[w] \in AfterFailure
<1>1. CASE w = "provision"
  <2>1. act[w] \in ProvisionActivities
    BY <1>1 DEF TypeOK, ControlOK, Places, Activities, DeleteActivities
  <2>2. QED
    BY <1>1, <2>1 DEF Saga, ProvisionTenantWorkflow, ProvisionActivities, AfterFailure
<1>2. CASE w = "delete"
  <2>1. act[w] \in DeleteActivities
    BY <1>2 DEF TypeOK, ControlOK, Places, Activities, ProvisionActivities
  <2>2. QED
    BY <1>2, <2>1 DEF Saga, DeleteTenantWorkflow, DeleteActivities, AfterFailure
<1>3. QED
  BY <1>1, <1>2 DEF Workflows

\* An effect is one of an attempt that executes: the attempt goes on, or it ends and
\* the recorder marks its row.
LEMMA EffectRecords ==
  /\ ProvisionEffect =>
       /\ step["provision"] > 0
       /\ \/ \E k \in 1 .. 7 : Then("provision", k)
          \/ EndAttempts({"provision"}, {"provision"}) /\ markFailed("provision")
  /\ DeleteEffect =>
       /\ step["delete"] > 0
       /\ \/ \E k \in 1 .. 7 : Then("delete", k)
          \/ EndAttempts({"delete"}, {"delete"}) /\ markFailed("delete")
<1>1. ASSUME ProvisionEffect
      PROVE  /\ step["provision"] > 0
             /\ \/ \E k \in 1 .. 7 : Then("provision", k)
                \/ EndAttempts({"provision"}, {"provision"}) /\ markFailed("provision")
  <2>1. CASE MarkTenantActive \/ MarkTenantFailed
    BY <2>1 DEF MarkTenantActive, MarkTenantFailed, UpdateTenantStatusFrom, At
  <2>2. CASE ProvisionTenant
    BY <2>2 DEF ProvisionTenant, AfterInspect, At
  <2>3. CASE \/ CreateTenantRecord \/ ProvisionTenantIdentity \/ DeleteTenantIdentity
             \/ DropTenantDatabase
    BY <2>3 DEF CreateTenantRecord, ProvisionTenantIdentity, DeleteTenantIdentity, DropUser,
       DropTenantDatabase, DropDatabase, DropTenantRole, At
  <2>4. QED
    BY <1>1, <2>1, <2>2, <2>3 DEF ProvisionEffect
<1>2. ASSUME DeleteEffect
      PROVE  /\ step["delete"] > 0
             /\ \/ \E k \in 1 .. 7 : Then("delete", k)
                \/ EndAttempts({"delete"}, {"delete"}) /\ markFailed("delete")
  <2>1. CASE MarkTenantDeleting \/ RestoreTenantAfterCancel \/ MarkTenantDeleted
    BY <2>1 DEF MarkTenantDeleting, RestoreTenantAfterCancel, MarkTenantDeleted,
       UpdateTenantStatusFrom, At
  <2>2. CASE BackupTenantData
    BY <2>2 DEF BackupTenantData, At
  <2>3. CASE DeprovisionTenant \/ DeleteTenantIdentityByTenant
    BY <2>3 DEF DeprovisionTenant, DeleteTenantIdentityByTenant, DropUser, DropDatabase,
       DropTenantRole, At
  <2>4. QED
    BY <1>2, <2>1, <2>2, <2>3 DEF DeleteEffect
<1>3. QED
  BY <1>1, <1>2

\* An attempt that ends badly has a row, which now says failed.
LEMMA EndListed ==
  ASSUME TypeOK, ListedInv, RecorderFaults = {}, NEW w \in Workflows, step[w] > 0,
         NEW final \in SUBSET Workflows, EndAttempts({w}, final), markFailed(w)
  PROVE  ListedInv'
<1>1. row' = [row EXCEPT ![w] = "failed"]
  BY DEF ListedInv, markFailed
<1>2. row \in [Workflows -> {"unseen", "missed", "running", "failed"}]
  BY DEF TypeOK, RecordsOK
<1>3. \A v \in Workflows \ {w} : act'[v] = act[v] /\ step'[v] = step[v]
  BY DEF EndAttempts
<1>4. QED
  BY <1>1, <1>2, <1>3 DEF ListedInv

LEMMA NextListed ==
  ASSUME TypeOK, ListedInv, [Next]_vars, ~WorkerCrashes, RecorderFaults = {}
  PROVE  ListedInv'
<1>1. /\ "provision" \in Workflows /\ "delete" \in Workflows
      /\ row \in [Workflows -> {"unseen", "missed", "running", "failed"}] /\ ControlOK
  BY DEF Workflows, TypeOK, RecordsOK
<1>2. ASSUME NEW w \in Workflows, step[w] > 0, NEW k \in 1 .. 7, Then(w, k) PROVE ListedInv'
  BY <1>1, <1>2 DEF Then, records, ListedInv, ControlOK
<1>3. CASE ProvisionEffect \/ DeleteEffect
  BY <1>1, <1>2, <1>3, EffectRecords, EndListed
<1>4. ASSUME NEW w \in Workflows, Attempt(w) PROVE ListedInv'
  <2>1. CASE ExecuteActivity(w)
    <3>1. \/ row[w] # "unseen" /\ row' = row
          \/ row[w] = "unseen" /\ row' = [row EXCEPT ![w] = "running"]
      BY <2>1 DEF ExecuteActivity, markRunning
    <3>2. act' = act /\ step' = [step EXCEPT ![w] = 1]
      BY <2>1 DEF ExecuteActivity
    <3>3. QED
      BY <1>1, <3>1, <3>2 DEF ListedInv, ControlOK
  <2>2. CASE Report(w)
    <3>1. act'[w] = Saga(w).onSuccess[act[w]] /\ step'[w] = 0 /\ act[w] \in Activities
      BY <1>1, <2>2, GotoPlace DEF Report
    <3>2. \A v \in Workflows : v # w => act'[v] = act[v] /\ step'[v] = step[v]
      BY <1>1, <2>2, MoveOther DEF Report
    <3>3. row' = row
      BY <2>2 DEF Report, records
    <3>4. QED
      BY <3>1, <3>2, <3>3, SuccessTable DEF ListedInv
  <2>3. CASE ActivityError(w)
    BY <2>3, EndListed DEF ActivityError
  <2>4. QED
    BY <1>4, <2>1, <2>2, <2>3 DEF Attempt
<1>5. ASSUME NEW w \in Workflows, NEW a \in Starts(w),
             StartRun(w, a) \/ (Goto(w, a) /\ UNCHANGED row)
      PROVE  ListedInv'
  <2>1. act'[w] = a /\ step'[w] = 0 /\ a \notin AfterFailure
    BY <1>1, <1>5, GotoPlace DEF Starts, AfterFailure
  <2>2. \A v \in Workflows : v # w => act'[v] = act[v] /\ step'[v] = step[v]
    BY <1>1, <1>5, MoveOther
  <2>3. row' = row \/ row' = [row EXCEPT ![w] = "unseen"]
    BY <1>5 DEF StartRun
  <2>4. QED
    BY <1>1, <2>1, <2>2, <2>3 DEF ListedInv
<1>6. CASE CreateTenant \/ GraceExpires \/ CancelReceived
  BY <1>1, <1>5, <1>6 DEF CreateTenant, GraceExpires, CancelReceived, FirstTeardownStep,
     Starts, records
<1>7. ASSUME NEW c \in Clients, Response(c) PROVE ListedInv'
  <2>1. \/ UNCHANGED <<act, step, row>>
        \/ \E w \in Workflows : \E a \in Starts(w) : StartRun(w, a)
    <3>1. FirstTeardownStep \in Starts("delete") /\ "MarkTenantDeleting" \in Starts("delete")
          /\ "CreateTenantRecord" \in Starts("provision")
      BY DEF FirstTeardownStep, Starts
    <3>2. QED
      BY <1>1, <1>7, <3>1 DEF Response, startDelete, signalCancel, retryProvision,
         FindLatestFailed, resumeDelete, control, records
  <2>2. QED
    BY <1>5, <2>1 DEF ListedInv
<1>8. ASSUME NEW c \in Clients, Request(c) PROVE UNCHANGED <<act, step, row>>
  BY <1>8 DEF Request, DeleteTenant, CancelTenantDelete, RetryTenant, Accept, control, records
<1>9. CASE TenantWrites \/ UNCHANGED vars
  BY <1>9 DEF TenantWrites, vars, control, records, ListedInv
<1>10. ~WorkerCrash
  BY DEF WorkerCrash
<1>11. QED
  BY <1>3, <1>4, <1>6, <1>7, <1>8, <1>9, <1>10 DEF Next, SagaStep, ListedInv

\* Recorder: a run that failed has a row that says so, if no worker dies and no write
\* of the recorder is lost.  With either, TLC finds a failed run without one.
THEOREM FailedListed ==
  ASSUME ~WorkerCrashes, RecorderFaults = {}
  PROVE  Spec => []FailedRunIsListed
<1>1. Init => TypeOK /\ ListedInv
  BY InitType DEF Init, ListedInv, AfterFailure
<1>2. TypeOK /\ ListedInv /\ [Next]_vars => TypeOK' /\ ListedInv'
  BY NextType, NextListed
<1>3. ListedInv => FailedRunIsListed
  BY DEF ListedInv, FailedRunIsListed, AfterFailure
<1>4. QED
  BY <1>1, <1>2, <1>3, PTL DEF Spec

=============================================================================
