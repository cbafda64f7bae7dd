CONSTANTS
    Accounts = {u1, u2}
    Thing = t
    Calls = {c1, c2}
    LegacyRows = {legacy}
    BareRows = {bare}
    None = None
    MaxFaults = 1
    MaxEdits = 2
SYMMETRY Symmetry
SPECIFICATION AuditSpec
INVARIANTS
    LogMatchesChanges
    
    VerdictTells
CHECK_DEADLOCK FALSE
