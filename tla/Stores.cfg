SPECIFICATION StoresSpec
CONSTANTS
  BatchIds = {b1, b2}
  Keys = {k1, k2}
  Owners = {o1, o2}
  Revisions = {1}
  LeaseTicks = 2
  RetentionTicks = 1
  BatchSize = 2
  MaxConcurrentBatches = 2
  MaxGeneration = 2
  c1 = c1
  c2 = c2
  r1 = r1
  r2 = r2
  p1 = p1
  p2 = p2
  Comments = {c1, c2}
  Runs = {r1, r2}
  Polls = {p1, p2}
  Ttl = 1
  MaxTime = 6
  MaxEvents = 3
SYMMETRY MCSymmetry
INVARIANTS
  LeasedWhileUnfinished
  FencesAreUnique
  CensusIsComplete
PROPERTIES
  SettledOnce
  ImplementsOwnership
  KnownRunsStay
  NoResurrection
CHECK_DEADLOCK FALSE
