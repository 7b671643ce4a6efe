CONSTANTS
    p1 = p1
    p2 = p2
    Orders = {o1}
    Customers = {alice}
    Products = {p1}
    Payments = {r1, r2}
    Completions = {}
    Bodies <- MCTwoUnits
    Prices = {3}
    Stocks = {2}
    MaxFaults = 0
    MaxUpdates = 0
    Null = Null
SPECIFICATION Spec
CHECK_DEADLOCK FALSE
INVARIANTS
    PaidOnce
