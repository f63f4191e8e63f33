CONSTANTS
    Requests = {r1, r2}
    Tables = {t1, t2}
    NoTable = NoTable
    Sessions = {s1, s2}
    NoSession = NoSession
    MaxOrders = 2
    MaxEvents = 0
SPECIFICATION Spec
INVARIANT LockedTableHasOpenOrder
CHECK_DEADLOCK FALSE
