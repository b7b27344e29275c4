SPECIFICATION ReadSpec
CONSTANTS
  Comments = {c1}
  Runs = {}
  Polls = {p1}
  Ttl = 1
  MaxTime = 4
  MaxEvents = 2
PROPERTY RepairHeals
CHECK_DEADLOCK FALSE
