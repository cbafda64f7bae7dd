CONSTANTS
    FactorRequests = {r1, r2, r3}
    MaxSecrets = 3
    MaxClock = 4
SPECIFICATION EnrolmentSpec
SYMMETRY Symmetry
INVARIANTS
    HolderHasSecret
    FactorHolds
    CodesOnce
CHECK_DEADLOCK FALSE
