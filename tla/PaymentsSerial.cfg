CONSTANTS
    soup = soup  rice = rice  ann = ann  p1 = p1
    Items = {soup, rice}
    Requests = {r1}
    Members = {ann}
    Promos = {p1}
    NoMember = NoMember
    NoPromo = NoPromo
    NoLimit = NoLimit
    Value <- MCValue
    InitialOrders <- OneOrder
    InitialPoints <- OnePoint
    PromoOf <- MCPromoOf
    RequestedPoints = {3}
    StatusTargets = {}
    MaxOrders = 3
    MaxPayments = 3
    MaxFaults = 1
SPECIFICATION Spec
INVARIANT BalancesAccounted
CHECK_DEADLOCK FALSE
