CONSTANTS
    egg = egg  rice = rice  omelette = omelette  friedRice = friedRice
    Ingredients = {egg, rice}
    Menu = {omelette, friedRice}
    Requests = {r1, r2}
    NoIngredient = NoIngredient
    NoDish = NoDish
    InitialRecipe <- MCRecipe
    InitialStock <- Plenty
    Baskets <- MixedBaskets
    Adjustments <- NoAdjustments
    Edits = {0}
    NewRecipes <- SetRecipes
    StatusTargets = {"COMPLETED"}
    MaxOrders = 1
    MaxRows = 3
    MaxFaults = 1
SPECIFICATION FairSpec
INVARIANT RecipeWhole
PROPERTY OrderDeducted
CHECK_DEADLOCK FALSE
