SPECIFICATION Spec
CONSTANTS
    Workers = {w1, w2}
    Users   = {owner, ann}
    Owner   = owner
    Costs   = {2, 3}
    Allowance = 2
    Cushion = 1
    ConversationBudget = 1
    MemberBudget = 1
    Savings <- OwnerSavings
    TopUp = 2
    MaxBalance = 2
    MaxTurns = 2
    MaxExpiries = 1
INVARIANT AdmittedTurnsPaid
CHECK_DEADLOCK FALSE
