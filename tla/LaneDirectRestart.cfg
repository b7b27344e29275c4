SPECIFICATION LaneSpec
CONSTANTS
  BatchIds = {b1}
  Keys = {k1, k2}
  Owners = {publisher}
  Revisions = {1}
  LeaseTicks = 1
  RetentionTicks = 1
  BatchSize = 2
  MaxConcurrentBatches = 2
  MaxGeneration = 2
  Targets = {t1}
  RetryLimit = 2
  DeadLetterLimit = 1
  DirectPublication = TRUE
  LateProducers = FALSE
  OperatorActs = FALSE
  MaxRevision = 2
  MaxDeliveries = 1
  FaultBudgets <- OneFailure
SYMMETRY MCSymmetry
INVARIANTS
  SupersededByNewer
CHECK_DEADLOCK FALSE
