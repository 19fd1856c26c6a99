SPECIFICATION Spec
CONSTANTS
  Sagas <- AllSagas
  Scenarios <- MigrationAlone
  MaximumAttempts = 2
  MaxDumps = 3
  MaxPending = 1
  MaxReconciles = 0
INVARIANTS MigrateFailureKeepsTenant
CHECK_DEADLOCK FALSE
