CONSTANTS
    Verifications = {r1, r2, r3, r4}
    MaxAttempts = 2
    BackoffBase = 1
    BackoffMax = 2
    ReplayTTL = 3
    Horizon = 6
SPECIFICATION LockoutSpec
SYMMETRY RequestSymmetry
INVARIANTS
    AttemptBound
    NoReplay
CHECK_DEADLOCK FALSE
