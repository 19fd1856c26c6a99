SPECIFICATION FairSpec
CONSTANTS
  Clients = {c1}
  MaximumAttempts = 2
  MaxRequests = 2
  WorkerCrashes = FALSE
  RecorderFaults = {}
INVARIANTS FailedRunIsListed
PROPERTIES RunsClose DeletionSettles
CHECK_DEADLOCK FALSE
