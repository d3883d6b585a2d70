SPECIFICATION FairSpec
CONSTANTS
    PaymentIds = {p1}
    Calls = {c1, c2}
    Hooks = {h1}
    MaxRetries = 1
    None = None
PROPERTY
    ChargedIsCredited
\* A declined deposit of a deleted account leaves nothing to do.
CHECK_DEADLOCK FALSE
