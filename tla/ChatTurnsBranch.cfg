SPECIFICATION Spec
CONSTANTS
    Users      = {ann, bob}
    Requests   = {r1, r2}
    ForkIds    = {f1, f2}
    NoFork     = NoFork
    NoUser     = NoUser
    Operations <- AllOperations
    MaxSeq     = 4
    MaxSlots   = 2
    MaxForks   = 2
SYMMETRY Interchangeable
INVARIANT BranchesKept
CHECK_DEADLOCK FALSE
