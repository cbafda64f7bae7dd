CONSTANTS
    Sessions = {1}
    Archived = {1}
    Admins = {}
    Policies <- OneHourTwoDays
    UnitLength <- Units
    BatchSize = 1
    MaxChunks = 1
    MaxTime = 0
    MaxFaults = 2
    MaxRequests = 3
SPECIFICATION Spec
INVARIANTS
    SettingsDurable
CHECK_DEADLOCK FALSE
