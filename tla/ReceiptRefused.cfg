CONSTANTS
    Requests = {r1}
    Branches = {b1, b2}
    NoBranch = NoBranch
    MaxRetries = 5
    Limit <- MCNoLimit
    Mixes <- MCReceipts
    MaxDay = 0
SPECIFICATION Spec
INVARIANT RetryAvoidsCollision
CHECK_DEADLOCK FALSE
