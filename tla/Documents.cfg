CONSTANTS
    Requests = {r1, r2}
    Branches = {b1, b2}
    NoBranch = NoBranch
    MaxRetries = 2
    Limit <- MCLimit
    Mixes <- MCMixes
    MaxDay = 1
SPECIFICATION Spec
INVARIANTS TypeOK ReceiptsInOrder ChecksExclude InvoicesInSeries ClosedShiftAdds
SYMMETRY DocumentSymmetry
CHECK_DEADLOCK FALSE
