SPECIFICATION KeySpec
CONSTANTS
  Signers = {s1, s2}
  MaxStoreKeys = 2
  MaxQueue = 2
  Vendors = {"aws", "gcp"}
  KmsSigners = {s1, s2}
  Purgers = {p1}
  MaxKmsKeys = 4
  CrossProvider = FALSE
  Retains = TRUE
  MaxKeys = 5
  MaxFaults = 5
  Procs = {p1}
  MaxSigned = 5
  MaxInterruptions = 4
  Callers = {c1, c2}
  PreparedEntries = {e1, e2}
  Contents = {n1, n2}
  Timeout = 2
  MaxIds = 2
  MaxAttempts = 2
  MaxEntityKeys = 2
INVARIANTS
  KeyStoreIsSafe
  SupersededIsGone
  RotationIsSafe
  SetupIsSafe
  RegistrationIsOurs
  OutcomeIsTrue
PROPERTIES
  PromotionDrains
  ActivationEnds
  RotationCompletes
  SetupEnds
CHECK_DEADLOCK FALSE
