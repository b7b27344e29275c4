SPECIFICATION FairPublisherSpec
CONSTANTS
  Tickets = {"o1", "o2"}
  ClassOf <- MCClassOf
  LeaseMs = 2
  QueuedStaleMs = 2
  MaxLeaseAgeMs = 3
  RetentionMs = 2
  PruneLimit = 2
  MaxSeq = 2
  MaxFaults = 1
INVARIANTS
  OwnersSeeTheTip
  WatchdogKeepsLease
PROPERTIES
  WaitersAreServed
  WatchdogsEnd
