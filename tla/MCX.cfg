SPECIFICATION FairSpec
CONSTANTS CrossProvider = TRUE Retains = FALSE MaxKeys = 5 MaxFaults = 4
INVARIANTS TypeOK RotationIsSafe
PROPERTIES RotationCompletes ActivationIsAuthorized
CHECK_DEADLOCK FALSE
