SPECIFICATION FairSpec
CONSTANTS
  Sagas = {"upgrade"}
  MaximumAttempts = 3
  DefaultQuota <- BasicPlan
INVARIANTS UpgradeTypeOK CompletedIsRaisedOnce RollbackRestoresPlan
PROPERTIES UpgradeEnds
CHECK_DEADLOCK FALSE
