SPECIFICATION FairSpec
CONSTANTS
    Workers = {w1, w2}
    Users   = {owner, ann}
    Owner   = owner
    Costs   = {2, 3}
    Allowance = 2
    Cushion = 1
    ConversationBudget = 1
    MemberBudget = 1
    Savings <- OwnerSavings
    TopUp = 2
    MaxBalance = 2
    MaxTurns = 2
    MaxExpiries = 1
INVARIANTS
    TypeOK
    CountersMatch
    NoTurnOverdraws
    FreshTurnsFit
    OvershootBound
PROPERTIES
    LeaksExpire
CHECK_DEADLOCK FALSE
