SPECIFICATION Spec
CONSTANTS
  Requested <- MixedIDs
  Characters <- Lengths
INVARIANTS CollisionIsContained  AcceptedIsProvisionable
CHECK_DEADLOCK FALSE
