CONSTANTS
    Clients = {c1, c2}
    u1 = u1
    Users = {u1}
    Owner <- OneOwner
    Sessions = {s1}
    MaxSessions = 1
    NoSession = none
    Environment = {"early_disconnect", "audit_failure"}
SPECIFICATION FairSpec
INVARIANTS
    StreamsReachable
    EndsAudited
PROPERTY ImplementsBroker
CHECK_DEADLOCK FALSE
