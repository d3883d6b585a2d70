SPECIFICATION FairSpec
CONSTANTS
    Conversations = {c1}
    Users   = {ann}
    Owner   <- OneOwner
    Turns   = {w1, w2}
    LastKey = 2
    MaxModels = 2
    MaxEpoch  = 2
    PageSize  = 1
    PagesPerRun = 1
    MaxDeletes  = 1
    MaxFaults   = 1
INVARIANTS
    TypeOK
    NoDanglingRow
PROPERTIES
    OrphansCollected
