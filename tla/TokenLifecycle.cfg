CONSTANTS
    Requests = {r1, r2, r3, r4}
    MaxVersion = 1
SPECIFICATION TokenSpec
SYMMETRY RequestSymmetry
INVARIANTS
    OneHolder
    RevocationHolds
    LogoutHolds
CHECK_DEADLOCK FALSE
