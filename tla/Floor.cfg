CONSTANTS
    Requests = {r1, r2}
    Tables = {t1, t2}
    NoTable = NoTable
    Dishes = {d1, d2}
    Budgets <- MCBudgets
SPECIFICATION Spec
INVARIANTS TypeOK SeatedTablesHold OrdersFollowGuests LastDishCompletes CancelledStays
SYMMETRY FloorSymmetry
CHECK_DEADLOCK FALSE
