------------------------------ MODULE Upgrade -------------------------------
(***************************************************************************)
(* The upgrade saga of one tenant and the row of its quota, next to the    *)
(* delete saga that may take the tenant out of the active status (external *)
(* here: TenantLifecycle has it).                                          *)
(***************************************************************************)
EXTENDS SagaRuns

CONSTANT DefaultQuota   \* the plan of a tenant without a row

Quotas == [users : Nat, storage : Nat, seats : Nat]

\* The zero value of the type: no row, no quota read yet.
NoQuota == [users |-> 0, storage |-> 0, seats |-> 0]

\* billing.DefaultQuota is a plan that is worth raising.
ASSUME QuotaAssumption ==
  /\ Sagas = {"upgrade"}
  /\ DefaultQuota \in Quotas /\ DefaultQuota.users > 0

VARIABLES
  row,      \* the tenant's row of tenant_quotas, or NoQuota
  old,      \* the workflow's oldQuota, NoQuota (billing.Quota{}) at first
  status,   \* tenants.status
  asked     \* the endpoint has checked the status and not yet started the workflow

vars == <<control, row, old, status, asked>>

\* QuotaStore.Get: a tenant without a row is on the default plan.
Get == IF row = NoQuota THEN DefaultQuota ELSE row

Raised(q) == [users |-> q.users * 2, storage |-> q.storage * 4, seats |-> q.seats * 2]

-----------------------------------------------------------------------------
(* The saga.                                                               *)

\* What follows an activity that was given up; the flag is quotaRaised.
OnFailure ==
  [MarkTenantUpgrading     |-> "MarkTenantUpgradeFailed",
   VerifyTenantActive      |-> "MarkTenantUpgradeFailed",
   RaiseQuotas             |-> "MarkTenantUpgradeFailed",
   EnableFeatures          |-> "RollbackQuotas",
   UpdateBilling           |-> "RollbackQuotas",
   MarkTenantUpgraded      |-> "RollbackQuotas",
   RollbackQuotas          |-> "MarkTenantUpgradeFailed",
   MarkTenantUpgradeFailed |-> "failed"]

OnSuccess ==
  [MarkTenantUpgrading     |-> "VerifyTenantActive",
   VerifyTenantActive      |-> "RaiseQuotas",
   RaiseQuotas             |-> "EnableFeatures",
   EnableFeatures          |-> "UpdateBilling",
   UpdateBilling           |-> "MarkTenantUpgraded",
   MarkTenantUpgraded      |-> "completed",
   RollbackQuotas          |-> "MarkTenantUpgradeFailed",
   MarkTenantUpgradeFailed |-> "failed"]

Executing == act["upgrade"] \in DOMAIN OnSuccess

\* The activities that do more than write an audit event or nothing at all.
LastStep(a) == IF a \in {"VerifyTenantActive", "RaiseQuotas", "RollbackQuotas"} THEN 2 ELSE 1

\* A tenant that is not active is an error, which is retried.
VerifyTenantActive ==
  /\ At("upgrade", "VerifyTenantActive", 1)
  /\ status = "active"
  /\ old' = Get
  /\ Then("upgrade", 2)
  /\ UNCHANGED <<row, status, asked>>

\* Mutant: the quota that is raised is the current one.
RaisesCurrent ==
  /\ At("upgrade", "RaiseQuotas", 1)
  /\ row' = Raised(Get)
  /\ Then("upgrade", 2)
  /\ UNCHANGED <<old, status, asked>>

RaiseQuotas ==
  /\ At("upgrade", "RaiseQuotas", 1)
  /\ row' = Raised(old)
  /\ Then("upgrade", 2)
  /\ UNCHANGED <<old, status, asked>>

\* Mutant: the rollback writes what is there.
RollsBackToCurrent ==
  /\ At("upgrade", "RollbackQuotas", 1)
  /\ row' = Get
  /\ Then("upgrade", 2)
  /\ UNCHANGED <<old, status, asked>>

RollbackQuotas ==
  /\ At("upgrade", "RollbackQuotas", 1)
  /\ row' = old
  /\ Then("upgrade", 2)
  /\ UNCHANGED <<old, status, asked>>

Report ==
  /\ Executing
  /\ step["upgrade"] = LastStep(act["upgrade"])
  /\ Goto("upgrade", OnSuccess[act["upgrade"]])
  /\ UNCHANGED <<row, old, status, asked>>

ActivityError ==
  /\ Executing
  /\ EndAttempt("upgrade", OnFailure[act["upgrade"]])
  /\ UNCHANGED <<row, old, status, asked>>

-----------------------------------------------------------------------------
(* The endpoint and the delete saga.                                       *)

\* Only active tenants.
UpgradeTenant ==
  /\ status = "active" /\ ~asked
  /\ asked' = TRUE
  /\ UNCHANGED <<control, row, old, status>>

\* REJECT_DUPLICATE: one run per tenant, ever.  A second request is answered 409.
ExecuteWorkflow ==
  /\ asked
  /\ asked' = FALSE
  /\ IF act["upgrade"] = "none" THEN Goto("upgrade", "MarkTenantUpgrading")
                                ELSE UNCHANGED control
  /\ UNCHANGED <<row, old, status>>

\* A deletion begins, is cancelled, or ends.
StatusChanges ==
  /\ \/ status = "active" /\ status' = "deleting"
     \/ status = "deleting" /\ status' \in {"active", "deleted"}
  /\ UNCHANGED <<control, row, old, asked>>

Init ==
  /\ NoRuns
  /\ row = NoQuota /\ old = NoQuota
  /\ status = "active" /\ asked = FALSE

Activity == VerifyTenantActive \/ RaiseQuotas \/ RollbackQuotas

Next ==
  \/ Activity \/ Report \/ ActivityError
  \/ UpgradeTenant \/ ExecuteWorkflow \/ StatusChanges

Spec == Init /\ [][Next]_vars

\* Temporal dispatches every activity and retries it; the handler that has
\* checked the status starts the workflow.
FairSpec ==
  /\ Spec
  /\ WF_vars(Activity \/ Report \/ ActivityError)
  /\ WF_vars(ExecuteWorkflow)

-----------------------------------------------------------------------------

Activities == DOMAIN OnSuccess

\* Every variable has its type, and attempts stay within their limit.
UpgradeTypeOK ==
  /\ act \in [Sagas -> Activities \cup {"none", "completed", "failed"}]
  /\ step \in [Sagas -> {1, 2}] /\ attempt \in [Sagas -> 1 .. MaximumAttempts]
  /\ row \in Quotas /\ old \in Quotas
  /\ status \in {"active", "deleting", "deleted"} /\ asked \in BOOLEAN

\* An upgrade that completed has raised the plan exactly once, however often
\* RaiseQuotas was repeated after an attempt whose write had committed.
CompletedIsRaisedOnce == act["upgrade"] = "completed" => Get = Raised(DefaultQuota)

\* A rollback that has written brought the old plan back, whatever the attempts of
\* RaiseQuotas and of the rollback before it did.
RollbackRestoresPlan == At("upgrade", "RollbackQuotas", 2) => Get = DefaultQuota

\* A saga that gives up RaiseQuotas, and therefore does not roll back, has not
\* raised the quota.
GivenUpRaiseIsUndone ==
  [][act["upgrade"] = "RaiseQuotas" /\ act'["upgrade"] = "MarkTenantUpgradeFailed"
       => Get' = DefaultQuota]_vars

\* A request that the endpoint accepted comes to an end, also when the tenant is
\* deleted under it.
UpgradeEnds == asked ~> act["upgrade"] \in {"completed", "failed"}

=============================================================================
