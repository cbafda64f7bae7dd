CONSTANTS
    Users = {u}
    Admins = {admin}
    Groups = {g}
    Machines = {m1, m2}
    MachineGroups = {x}
    Requests = {r1}
    NoGroup = none
    NoRequest = free
SPECIFICATION Spec
SYMMETRY RbacSymmetry
PROPERTIES
    OwnWritesKeepOwnAccess
    VerdictSound
CHECK_DEADLOCK FALSE
