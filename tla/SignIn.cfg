CONSTANTS
    Flows = {f1, f2}
    root = root
    ann = ann
    People = {root, ann}
    Handle <- OwnHandle
    Ids = {1, 2, 3}
    Root = root
    Issuers = {i1, i2}
    None = None
    MaxEdits = 2
    MaxFaults = 1
SPECIFICATION Spec
SYMMETRY Symmetry
INVARIANTS
    SessionIsProven
    AdminModeIsFresh
    OneAccountEach
    MetadataOfIssuer
CHECK_DEADLOCK FALSE
