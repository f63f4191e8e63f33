CONSTANTS
    Requests = {r1, r2}
    Loads <- MCLoads
    Users = {"ann", "bob", "cat"}
    Pins = {"1111", "2222"}
    Places = {"A1", "X1"}
    Branchless = {"X1"}
    Number <- MCNumber
    Team <- MCTeam
    Accounts = {"acme", "best"}
    Names = {"A", "B"}
    SignUps <- MCSignUps
    MaxLinks = 2
    Dishes = {"soup"}
    Groups = {"extras"}
    AddOns = {"egg", "ham"}
    Later = {"ham"}
    Requested <- MCRequested
    PrinterIds = {"kitchen", "bar"}
    Tickets = {"t1", "t2"}
    Kind = "table"
SPECIFICATION Spec
INVARIANTS TypeOK CheckInsHold AccountWhole ResetLinkOnce PartsWhole PrintersHeard CountsAddUp
CHECK_DEADLOCK FALSE
