SPECIFICATION Spec
CONSTANTS
    Users      = {ann, bob}
    Requests   = {r1, r2}
    ForkIds    = {f1, f2, f3}
    NoFork     = NoFork
    NoUser     = NoUser
    Operations <- AllOperations
    MaxSeq     = 4
    MaxSlots   = 2
    MaxForks   = 2
SYMMETRY Interchangeable
INVARIANTS
    TypeOK
    ChainsDescend
    RegenerationSparesOthers
PROPERTIES
    TurnsStayOnFork
CHECK_DEADLOCK FALSE
