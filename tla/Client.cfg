CONSTANTS
    MaxCalls = 2
    t1 = t1
    t2 = t2
    Sessions = {t1, t2, r1}
    RdpSessions = {r1}
    GroupIds = {id1, id2, id3, id4}
    NoGroup = NoGroup
    Events <- Recording
    CastSpeeds <- TwoSpeeds
    Short = 1
    MaxLate = 1
    GuacLength = 5
    GuacSpeeds <- TwoSpeeds
    SeekStep = 2
    Frame = 2
    Users = {u1, x1}
    ExternalUsers = {x1}
    UserGroups = {g1, g2}
    Machines = {m1}
    MachineGroups = {mg}
    Providers = {p1, p2}
    None = None
    MaxPending = 2
SPECIFICATION ClientSpec
SYMMETRY Symmetry
INVARIANTS
    PagesGuarded
    WellPlaced
    TerminalReportsKept
    ReplayIsFaithful
    OneDriver
    SavesGoHome
PROPERTIES
    SessionsKept
    LayoutShowsFocus
CHECK_DEADLOCK FALSE
