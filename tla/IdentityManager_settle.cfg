SPECIFICATION FairSpec
CONSTANTS
  Callers = {c1, c2}
  MaxOps = 2
  MaxTime = 0
  TTLs = {0, 1}
  Interval = 0
  Budget = 1
  Timeouts = {2}
  RevokeTimes = {}
  PeerChoices = {"pass"}
INVARIANTS
  FreshPerCall
PROPERTIES
  CallsSettle
CHECK_DEADLOCK FALSE
