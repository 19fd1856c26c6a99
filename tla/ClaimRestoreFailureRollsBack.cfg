SPECIFICATION Spec
CONSTANTS
  Sagas <- AllSagas
  Scenarios <- RestoreAlone
  MaximumAttempts = 2
  MaxDumps = 3
  MaxPending = 1
  MaxReconciles = 0
INVARIANTS RestoreFailureRollsBack
CHECK_DEADLOCK FALSE
