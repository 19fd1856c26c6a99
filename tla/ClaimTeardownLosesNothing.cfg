SPECIFICATION Spec
CONSTANTS
  Sagas <- AllSagas
  Scenarios <- DeleteAlone
  MaximumAttempts = 2
  MaxDumps = 2
  MaxPending = 1
  MaxReconciles = 0
PROPERTIES TeardownLosesNothing
CHECK_DEADLOCK FALSE
