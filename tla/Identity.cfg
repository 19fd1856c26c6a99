SPECIFICATION FairSpec
CONSTANTS
  Sagas <- BothSagas
  Callers <- BothSagas
  MaximumAttempts = 2
  MaxTokens = 2
  MaxCrashes = 1
INVARIANTS IdentityTypeOK ProvisionedHasRole ProbePreventsConflict DeletedHasNoUser
  RetryIsFresh
PROPERTIES GrantsAreShared IdentitySagasClose
CHECK_DEADLOCK FALSE
