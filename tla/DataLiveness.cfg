SPECIFICATION FairSpec
CONSTANTS
  Sagas <- AllSagas
  Scenarios <- Overlapping
  MaximumAttempts = 2
  MaxDumps = 2
  MaxPending = 1
  MaxReconciles = 1
PROPERTIES SagasClose
CHECK_DEADLOCK FALSE
