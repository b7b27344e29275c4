SPECIFICATION Spec
CONSTANTS
  Keys = {"a", "b"}
  Capacity = 1
  PendingSoftLimit = 1
  RetryLimit = 2
  ParkedRecoveryLimit = 1
  Markers = {1}
  MaxEvents = 3
  UpdateSteps = {0, 1}
  Budgets <- Scenarios
  MaxLeases = 7
  MaxAttempts = 2
INVARIANTS
  NoLostWork
  LeaseIsCurrent
  RetryBudget
  LeasesConsistent
  CapacityRespected
PROPERTIES
  HealthyHolderKeepsLease
  DispatchesProbedHead
  LeaseKeepsHands
CHECK_DEADLOCK FALSE
