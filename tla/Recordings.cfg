CONSTANTS
    Sessions = {1, 2}
    Archived = {1}
    Admins = {a1}
    Policies <- OneHour
    UnitLength <- Units
    BatchSize = 1
    MaxChunks = 2
    MaxTime = 2
    MaxFaults = 1
    MaxRequests = 1
SPECIFICATION FairSpec
PROPERTIES
    ImplementsArchive
    PinsOutlastSweeps
    ExpiredGo
CHECK_DEADLOCK FALSE
