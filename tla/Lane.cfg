SPECIFICATION ScenarioSpec
CONSTANTS
  BatchIds = {b1, b2}
  Keys = {k1, k2}
  Owners = {publisher}
  Revisions = {1, 2}
  LeaseTicks = 1
  RetentionTicks = 1
  BatchSize = 2
  MaxConcurrentBatches = 2
  MaxGeneration = 2
  Targets = {t1}
  RetryLimit = 1
  DeadLetterLimit = 1
  DirectPublication = TRUE
  LateProducers = TRUE
  OperatorActs = TRUE
  MaxRevision = 2
  MaxDeliveries = 2
  FaultBudgets <- ScenarioBudgets
SYMMETRY MCSymmetry
INVARIANTS
  NoResultIsLost
  PublishedIsPublished
  GivenUpForNewer
PROPERTIES
  DeadLettersBounded
  OwnedItemsAreNotTaken
  CanonicalAdvances
CHECK_DEADLOCK FALSE
