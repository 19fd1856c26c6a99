SPECIFICATION Spec
CONSTANTS
  Clients = {c1, c2}
  MaximumAttempts = 2
  MaxRequests = 2
  WorkerCrashes = TRUE
  RecorderFaults = {"delete"}
SYMMETRY ClientSymmetry
INVARIANTS TypeOK NoReviveAfterTeardown BackupBeforeTeardown ProvisionedIsServed DeletedIsClean
PROPERTIES StatusPromise
CHECK_DEADLOCK FALSE
