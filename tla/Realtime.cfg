SPECIFICATION Scenarios
CONSTANTS
    t1 = t1
    t2 = t2
    ann = ann
    bob = bob
    Clients = {t1, t2}
    Users = {ann, bob}
    UserOf <- OneTabEach
    MaxMessages = 2
    MaxCommits = 3
    MaxDrops = 1
    MaxFlaps = 1
    MaxFailures = 1
INVARIANTS
    TypeOK
    OneSocket
    NothingMissed
PROPERTIES
    WatchedConverges
CHECK_DEADLOCK FALSE
