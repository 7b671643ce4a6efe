CONSTANTS
    p1 = p1
    p2 = p2
    Orders = {o1}
    Customers = {alice}
    Products = {p1, p2}
    Payments = {r1, r2}
    Completions = {c1}
    Bodies <- MCBodies
    Prices = {3, 5}
    Stocks = {2}
    MaxFaults = 1
    MaxUpdates = 2
    Null = Null
SPECIFICATION Spec
CHECK_DEADLOCK FALSE
INVARIANTS
    TypeOK
    ItemsMatchBody
    TotalMatchesItems
    ItemsRefer
    PayableOnlyWhenCreated
    PaymentLinesCurrent
    PaidMeansDeducted
    StockLedger
PROPERTIES
    NoUnpayWithoutFault
