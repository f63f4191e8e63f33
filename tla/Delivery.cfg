CONSTANTS
    Requests = {r1, r2}
    Loads <- MCLoads
    Orders = {o1, o2}
    Targets = {"CANCELLED", "DELIVERED"}
    MaxEvents = 3
    Endpoints = {w1}
    Wants <- MCWants
    MaxAttempts = 3
    Transactions = {t1, t2}
SPECIFICATION FairSpec
INVARIANTS TypeOK AnnouncementsFollowOrder EventLoggedOnce RowTellsTheOutcome CompletionAnnounced
PROPERTIES QueuedIsSettled WantedIsLogged ForgottenStaysPending GatewayIsCharge
CHECK_DEADLOCK FALSE
