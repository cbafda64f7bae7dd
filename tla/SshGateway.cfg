CONSTANTS
    Clients = {c1, c2}
    u1 = u1
    c1 = c1
    Users = {u1}
    Owner <- OneOwner
    Sessions = {s1, s2}
    MaxSessions = 1
    NoSession = none
    Environment = {"early_disconnect", "audit_failure"}
SPECIFICATION BusySpec
INVARIANTS
    TypeOK
    SlotsExact
    StreamsReachable
    EndsAccounted
PROPERTY ImplementsBroker
CHECK_DEADLOCK FALSE
