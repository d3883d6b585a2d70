SPECIFICATION Scenarios
CONSTANTS
    Users = {owner, ann, bob}
    Links = {l1, l2}
    Owner = owner
    Requests = {r1, r2}
    Grantable <- ReadAndAdmin
    Handlers <- AllHandlers
    MaxEpoch = 3
    MaxRows = 1
    MaxMembers = 2
    None = None
SYMMETRY Interchangeable
INVARIANTS
    TypeOK
    MembersHoldCurrentKey
    ForwardSecrecy
    HistoryFloor
    OwnerStays
    MemberLimitOvershoot
PROPERTY
    AccessKept
CHECK_DEADLOCK FALSE
