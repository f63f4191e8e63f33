CONSTANTS
    soup = soup  rice = rice  ann = ann  p1 = p1
    Items = {soup, rice}
    Requests = {r1, r2}
    Members = {}
    Promos = {}
    NoMember = NoMember
    NoPromo = NoPromo
    NoLimit = NoLimit
    Value <- MCValue
    InitialOrders <- OneOrder
    InitialPoints <- MCPoints
    PromoOf <- MCPromoOf
    RequestedPoints = {50}
    StatusTargets = {}
    MaxOrders = 1
    MaxPayments = 2
    MaxFaults = 0
SPECIFICATION Spec
INVARIANT NoDoublePayment
CHECK_DEADLOCK FALSE
