SPECIFICATION Spec
CONSTANTS
  Sagas <- AllSagas
  Scenarios <- Supported
  MaximumAttempts = 2
  MaxDumps = 2
  MaxPending = 1
  MaxReconciles = 2
INVARIANTS DataTypeOK SwitchKeepsCopy MigratedIsServed RestoredIsWhole
  ConvergedHasNoDrift RepairIsFromBackup RestoreDropsResidue DeletedIsGone
PROPERTIES DropIsBackedUp
CHECK_DEADLOCK FALSE
