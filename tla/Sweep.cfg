SPECIFICATION FairSpec
CONSTANTS
  Tenants = {t1, t2}
  Limits = {0, 2}
  ContinueAfter = 3
  MaxTicks = 1
INVARIANTS SweepTypeOK FinishedBatchIsDone
PROPERTIES KeepsReconciling
