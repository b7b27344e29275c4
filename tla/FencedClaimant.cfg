SPECIFICATION Spec
CONSTANTS
  Keys = {"a"}
  Capacity = 1
  PendingSoftLimit = 1
  RetryLimit = 2
  ParkedRecoveryLimit = 1
  Markers = {}
  MaxEvents = 3
  UpdateSteps = {1}
  Budgets <- Faultless
  MaxLeases = 4
  MaxAttempts = 2
INVARIANTS FencedIsAcknowledged
CHECK_DEADLOCK FALSE
