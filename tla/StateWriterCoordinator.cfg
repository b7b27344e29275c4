SPECIFICATION Spec
CONSTANTS
  o = o
  b = b
  i = i
  Tickets = {o, b, i}
  ClassOf <- MCClassOf
  LeaseMs = 2
  QueuedStaleMs = 2
  MaxLeaseAgeMs = 3
  RetentionMs = 1
  PruneLimit = 4
  MaxSeq = 6
INVARIANTS
  LeaseDiscipline
  TotalsBalance
  OrdinaryBypassBounded
  PriorityBypassBounded
  WaitersHaveAHead
PROPERTIES
  ImplementsLock
