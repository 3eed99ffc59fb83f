SPECIFICATION MCSpec
CONSTANTS
  FirstCall = c1
  Calls = {c1, c2}
  ReaderKeys = {k1, k2}
  Logs = {h, p, q, r}
  ThisLog = h
  MaxAge = 1
  Lifetime = 2
  Budget = 1
  MaxDepth = 2
  MaxHistoryEvents = 4
  MaxTime = 3
  MaxLogSize = 2
INVARIANTS
  HistoryIsSound
  ActiveIsFresh
PROPERTY
  SlotClearedByItsLoad
SYMMETRY Symmetry
CHECK_DEADLOCK FALSE
