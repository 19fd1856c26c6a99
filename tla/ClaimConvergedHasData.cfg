SPECIFICATION Spec
CONSTANTS
  Sagas <- AllSagas
  Scenarios <- ReconcileAlone
  MaximumAttempts = 2
  MaxDumps = 2
  MaxPending = 1
  MaxReconciles = 2
INVARIANTS ConvergedHasData
CHECK_DEADLOCK FALSE
