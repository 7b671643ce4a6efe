CONSTANTS
    p1 = p1
    p2 = p2
    Orders = {o1, o2}
    Customers = {alice}
    Products = {p1}
    Payments = {r1, r2}
    Completions = {c1}
    Bodies <- MCTwoUnits
    Prices = {3}
    Stocks = {2}
    MaxFaults = 1
    MaxUpdates = 0
    Null = Null
SPECIFICATION FairSpec
CHECK_DEADLOCK FALSE
PROPERTIES
    ProcessedAtLeastOnce
    ProcessingSettles
    RequestsSettle
