SPECIFICATION Spec
CONSTANTS
  Callers = {c1, c2}
  MaxOps = 2
  MaxTime = 2
  TTLs = {0, 1, 3}
  Interval = 1
  Budget = 1
  Timeouts = {2}
  RevokeTimes = {0}
  PeerChoices = {"pass"}
SYMMETRY Symmetry
INVARIANTS
  SupersededStaysOut
  RevocationBound
CHECK_DEADLOCK FALSE
