CONSTANTS
    egg = egg  rice = rice  omelette = omelette  friedRice = friedRice
    Ingredients = {egg, rice}
    Menu = {omelette, friedRice}
    Requests = {r1, r2}
    NoIngredient = NoIngredient
    NoDish = NoDish
    InitialRecipe <- MCRecipe
    InitialStock <- Plenty
    Baskets <- BothDishes
    Adjustments <- Withdrawal
    Edits = {}
    NewRecipes <- NoAdjustments
    StatusTargets = {"CANCELLED"}
    MaxOrders = 3
    MaxRows = 5
    MaxFaults = 1
SPECIFICATION Spec
SYMMETRY SlotSymmetry
INVARIANTS TypeOK LedgerTellsStock StockAccounted
CHECK_DEADLOCK FALSE
