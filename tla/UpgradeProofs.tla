--------------------------- MODULE UpgradeProofs ----------------------------
(***************************************************************************)
(* Proofs about Upgrade, for every default plan and retry limit.           *)
(***************************************************************************)
EXTENDS Upgrade, TLAPS

upgrade == act["upgrade"]

\* The activities that run with the quota that VerifyTenantActive read.
WithOld == {"RaiseQuotas", "EnableFeatures", "UpdateBilling", "MarkTenantUpgraded",
            "RollbackQuotas"}

\* The workflow carries the plan that the tenant had before the upgrade.
OldInv ==
  upgrade \in WithOld \/ At("upgrade", "VerifyTenantActive", 2) => old = DefaultQuota

\* What the row of the quota is at every place of the saga.
RowInv ==
  /\ row \in {NoQuota, DefaultQuota, Raised(DefaultQuota)}
  /\ upgrade \in {"none", "MarkTenantUpgrading", "VerifyTenantActive"} => row = NoQuota
  /\ \/ At("upgrade", "RaiseQuotas", 2)
     \/ upgrade \in {"EnableFeatures", "UpdateBilling", "MarkTenantUpgraded", "completed"}
     => row = Raised(DefaultQuota)
  /\ At("upgrade", "RollbackQuotas", 2) => row = DefaultQuota

UpgradeInv == UpgradeTypeOK /\ OldInv /\ RowInv

-----------------------------------------------------------------------------
(* Facts about the plan and the tables.                                    *)

LEMMA Plans ==
  /\ NoQuota \in Quotas /\ DefaultQuota \in Quotas
  /\ \A q \in Quotas : Raised(q) \in Quotas
  /\ Raised(DefaultQuota) # NoQuota /\ DefaultQuota # NoQuota
BY QuotaAssumption DEF Quotas, NoQuota, Raised

LEMMA Tables ==
  /\ DOMAIN OnSuccess = {"MarkTenantUpgrading", "VerifyTenantActive", "RaiseQuotas",
       "EnableFeatures", "UpdateBilling", "MarkTenantUpgraded", "RollbackQuotas",
       "MarkTenantUpgradeFailed"}
  /\ OnSuccess["MarkTenantUpgrading"] = "VerifyTenantActive"
  /\ OnSuccess["VerifyTenantActive"] = "RaiseQuotas"
  /\ OnSuccess["RaiseQuotas"] = "EnableFeatures"
  /\ OnSuccess["EnableFeatures"] = "UpdateBilling"
  /\ OnSuccess["UpdateBilling"] = "MarkTenantUpgraded"
  /\ OnSuccess["MarkTenantUpgraded"] = "completed"
  /\ OnSuccess["RollbackQuotas"] = "MarkTenantUpgradeFailed"
  /\ OnSuccess["MarkTenantUpgradeFailed"] = "failed"
  /\ \A a \in DOMAIN OnSuccess :
       OnFailure[a] = IF a \in {"EnableFeatures", "UpdateBilling", "MarkTenantUpgraded"}
                        THEN "RollbackQuotas"
                      ELSE IF a = "MarkTenantUpgradeFailed" THEN "failed"
                      ELSE "MarkTenantUpgradeFailed"
BY DEF OnSuccess, OnFailure

\* How a step of the saga moves it.
LEMMA Moves ==
  ASSUME UpgradeTypeOK
  PROVE  /\ \A a : Goto("upgrade", a) =>
                act'["upgrade"] = a /\ step'["upgrade"] = 1 /\ attempt'["upgrade"] = 1
         /\ \A k : Then("upgrade", k) =>
                act' = act /\ step'["upgrade"] = k /\ attempt' = attempt
BY QuotaAssumption DEF UpgradeTypeOK, Goto, Then

LEMMA Ends ==
  ASSUME UpgradeTypeOK, NEW a, EndAttempt("upgrade", a)
  PROVE  /\ step'["upgrade"] = 1
         /\ act' = act \/ act'["upgrade"] = a
BY QuotaAssumption DEF UpgradeTypeOK, EndAttempt, Goto

-----------------------------------------------------------------------------
(* Steps.                                                                  *)

LEMMA UpgradeTypeStep == UpgradeTypeOK /\ [Next]_vars => UpgradeTypeOK'
<1> SUFFICES ASSUME UpgradeTypeOK, [Next]_vars
             PROVE  UpgradeTypeOK'
  OBVIOUS
<1> DEFINE ControlOK ==
      /\ act \in [Sagas -> Activities \cup {"none", "completed", "failed"}]
      /\ step \in [Sagas -> {1, 2}] /\ attempt \in [Sagas -> 1 .. MaximumAttempts]
<1>1. ControlOK
  BY DEF UpgradeTypeOK
<1>2. ASSUME NEW a \in Activities \cup {"none", "completed", "failed"}, Goto("upgrade", a)
      PROVE  ControlOK'
  <2>1. 1 \in 1 .. MaximumAttempts
    BY AttemptsAssumption
  <2>2. attempt' \in [Sagas -> 1 .. MaximumAttempts] /\ step' \in [Sagas -> {1, 2}]
    BY <1>1, <1>2, <2>1 DEF Goto
  <2>3. act' \in [Sagas -> Activities \cup {"none", "completed", "failed"}]
    BY <1>1, <1>2 DEF Goto
  <2> QED BY <2>2, <2>3 DEF Activities
<1>3. ASSUME NEW k \in {1, 2}, Then("upgrade", k) PROVE ControlOK'
  BY <1>1, <1>3 DEF Then, Activities
<1>4. ASSUME UNCHANGED control PROVE ControlOK'
  BY <1>1, <1>4 DEF control, Activities
<1>5. asked' \in BOOLEAN
  <2>1. asked' = asked \/ asked' = TRUE \/ asked' = FALSE
    BY Zenon DEF Next, Activity, VerifyTenantActive, RaiseQuotas, RollbackQuotas, Report,
       ActivityError, UpgradeTenant, ExecuteWorkflow, StatusChanges, vars
  <2> QED BY <2>1, Zenon DEF UpgradeTypeOK
<1>6. status' \in {"active", "deleting", "deleted"}
  BY DEF UpgradeTypeOK, Next, Activity, VerifyTenantActive, RaiseQuotas, RollbackQuotas, Report,
     ActivityError, UpgradeTenant, ExecuteWorkflow, StatusChanges, vars
<1>7. row' \in Quotas /\ old' \in Quotas
  BY Plans DEF UpgradeTypeOK, Get, Next, Activity, VerifyTenantActive, RaiseQuotas,
     RollbackQuotas, Report, ActivityError, UpgradeTenant, ExecuteWorkflow, StatusChanges, vars
<1>8. ControlOK'
  <2>1. CASE Activity
    BY <1>3, <2>1 DEF Activity, VerifyTenantActive, RaiseQuotas, RollbackQuotas
  <2>2. CASE Report
    <3>1. OnSuccess[upgrade] \in Activities \cup {"none", "completed", "failed"}
      BY <2>2, Tables DEF Report, Executing, Activities, upgrade
    <3> QED BY <1>2, <2>2, <3>1 DEF Report, upgrade
  <2>3. CASE ActivityError
    <3>1. OnFailure[upgrade] \in Activities \cup {"none", "completed", "failed"}
      BY <2>3, Tables DEF ActivityError, Executing, Activities, upgrade
    <3>2. CASE attempt["upgrade"] < MaximumAttempts
      BY <1>1, <2>3, <3>2, AttemptsAssumption DEF ActivityError, EndAttempt, Activities
    <3>3. CASE ~(attempt["upgrade"] < MaximumAttempts)
      BY <1>2, <2>3, <3>1, <3>3 DEF ActivityError, EndAttempt, upgrade
    <3> QED BY <3>2, <3>3
  <2>4. CASE ExecuteWorkflow
    BY <1>2, <1>4, <2>4, Tables DEF ExecuteWorkflow, Activities
  <2>5. CASE UpgradeTenant \/ StatusChanges \/ UNCHANGED vars
    BY <1>4, <2>5 DEF UpgradeTenant, StatusChanges, vars
  <2> QED BY <2>1, <2>2, <2>3, <2>4, <2>5 DEF Next
<1> QED
  BY <1>5, <1>6, <1>7, <1>8 DEF UpgradeTypeOK

LEMMA UpgradePlanStep == UpgradeInv /\ [Next]_vars => OldInv' /\ RowInv'
<1> SUFFICES ASSUME UpgradeTypeOK, OldInv, RowInv, [Next]_vars
             PROVE  OldInv' /\ RowInv'
  BY DEF UpgradeInv
<1> USE DEF OldInv, RowInv, At, WithOld, upgrade
<1>1. CASE VerifyTenantActive
  BY <1>1, Moves, Plans DEF VerifyTenantActive, Get
<1>2. CASE RaiseQuotas
  BY <1>2, Moves, Plans DEF RaiseQuotas
<1>3. CASE RollbackQuotas
  BY <1>3, Moves, Plans DEF RollbackQuotas
<1>4. CASE Report
  BY <1>4, Moves, Tables DEF Report, Executing, LastStep
<1>5. CASE ActivityError
  BY <1>5, Ends, Tables DEF ActivityError, Executing
<1>6. CASE ExecuteWorkflow
  BY <1>6, Moves DEF ExecuteWorkflow, control
<1>7. CASE UpgradeTenant \/ StatusChanges \/ UNCHANGED vars
  BY <1>7 DEF UpgradeTenant, StatusChanges, vars, control
<1> QED
  BY <1>1, <1>2, <1>3, <1>4, <1>5, <1>6, <1>7 DEF Next, Activity

\* The inductive invariant: types, and where the old plan and the raised one are.
THEOREM UpgradeInvariant == Spec => []UpgradeInv
<1>1. Init => UpgradeInv
  <2> SUFFICES ASSUME Init PROVE UpgradeInv
    OBVIOUS
  <2>1. asked \in BOOLEAN
    BY Zenon DEF Init
  <2>2. UpgradeTypeOK
    BY <2>1, Plans, AttemptsAssumption DEF Init, NoRuns, UpgradeTypeOK
  <2>3. OldInv /\ RowInv
    BY QuotaAssumption DEF Init, NoRuns, OldInv, RowInv, At, WithOld, upgrade
  <2> QED BY <2>2, <2>3 DEF UpgradeInv
<1>2. UpgradeInv /\ [Next]_vars => UpgradeInv'
  BY UpgradeTypeStep, UpgradePlanStep DEF UpgradeInv
<1> QED
  BY <1>1, <1>2, PTL DEF Spec

\* UpgradeTenantWorkflow and its activities keep every variable in its type: no attempt
\* is numbered beyond MaximumAttempts and no quota is one that the code cannot compute.
THEOREM UpgradeTypes == Spec => []UpgradeTypeOK
<1>1. UpgradeInv => UpgradeTypeOK
  BY DEF UpgradeInv
<1> QED
  BY <1>1, UpgradeInvariant, PTL

\* RaiseQuotas: an upgrade that completed has raised the plan exactly once, although
\* the activity may be repeated after its write has committed.
THEOREM RaisedOnce == Spec => []CompletedIsRaisedOnce
<1>1. UpgradeInv => CompletedIsRaisedOnce
  BY Plans DEF UpgradeInv, RowInv, CompletedIsRaisedOnce, Get, upgrade
<1> QED
  BY <1>1, UpgradeInvariant, PTL

\* RollbackQuotas: the plan of before the upgrade is back once the compensation has
\* written.
THEOREM RolledBack == Spec => []RollbackRestoresPlan
<1>1. UpgradeInv => RollbackRestoresPlan
  BY Plans DEF UpgradeInv, RowInv, RollbackRestoresPlan, Get
<1> QED
  BY <1>1, UpgradeInvariant, PTL

=============================================================================
