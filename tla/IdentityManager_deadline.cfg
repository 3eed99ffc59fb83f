SPECIFICATION Spec
CONSTANTS
  Callers = {c1, c2}
  MaxOps = 2
  MaxTime = 0
  TTLs = {1}
  Interval = 0
  Budget = 1
  Timeouts = {2}
  RevokeTimes = {}
  PeerChoices = {"pass"}
SYMMETRY Symmetry
PROPERTIES
  CallerRetainsDeadline
CHECK_DEADLOCK FALSE
