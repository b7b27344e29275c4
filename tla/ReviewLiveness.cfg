SPECIFICATION FairSpec
CONSTANTS
  Keys = {"a"}
  Capacity = 1
  PendingSoftLimit = 1
  RetryLimit = 2
  ParkedRecoveryLimit = 1
  Markers = {}
  MaxEvents = 2
  UpdateSteps = {0, 1}
  Budgets <- LivenessScenarios
  MaxLeases = 4
  MaxAttempts = 2
INVARIANTS
  AcknowledgesOnlyFenced
PROPERTIES
  LiveHeadReviewed
CHECK_DEADLOCK FALSE
