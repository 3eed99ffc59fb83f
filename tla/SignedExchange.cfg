SPECIFICATION Spec
CONSTANTS
  Calls = {c1, c2}
  MaxAge = 1
  Lifetime = 1
  Skew = 0
  Budget = 2
  IdentityTTL = 1
  ServerBudget = 1
  MaxNow = 2
  MaxRotations = 1
INVARIANTS
  ResponseIsForThisCall
  NothingUnsignedLeaves
  AcceptedRequestIsRecent
  FailedIsReleased
CHECK_DEADLOCK FALSE
SYMMETRY CallSymmetry
