SPECIFICATION Spec
CONSTANTS
  Callers = {c1, c2}
  MaxOps = 3
  MaxTime = 0
  TTLs = {1}
  Interval = 0
  Budget = 1
  Timeouts = {2}
  RevokeTimes = {0}
  PeerChoices = {"pass"}
SYMMETRY Symmetry
PROPERTIES
  NotActiveEvicts
CHECK_DEADLOCK FALSE
