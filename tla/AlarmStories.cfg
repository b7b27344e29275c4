SPECIFICATION StoriesSpec
CONSTANTS
  Environments <- MCEnvironments
  QueueCapacity = 16
  Samples <- MCSamples
  Budgets = {0, 5, 16}
  Reports = {r1}
  Step = 2
  RecoverySuccesses = 2
  ScaleUpTicks = 2
  ScaleDownTicks = 3
  RateLimitCooldown = 3
  TransientCooldown = 1
  HalfHour = 1
  MaxEdits = 2
  MaxRetries = 2
INVARIANTS
  ReportedOnce
  LiveCommandIsKept
PROPERTIES
  DemandSettles
  CleanRunsRecover
  ImplementsInbox
  CommandsEnd
CHECK_DEADLOCK FALSE
