CONSTANTS
    Users = {owner, ann, bob}
    Links = {}
    Owner = owner
    Requests = {r1, r2}
    Grantable <- ReadOnly
    Handlers <- AllHandlers
    MaxEpoch = 2
    MaxRows = 1
    MaxMembers = 3
    None = None
SPECIFICATION Scenarios
PROPERTY
    RotationKeepsMembers
CHECK_DEADLOCK FALSE
