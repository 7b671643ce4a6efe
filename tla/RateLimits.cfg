CONSTANTS
    list = list
    item = item
    Tenants = {}
    Methods = {list}
    Users = {u1}
    Addresses = {a1}
    DefaultOptions <- MCDefault
    ControllerOptions <- MCController
    HandlerOptions <- MCHandler
    Second = 2
    MaxTime = 6
    MaxCount = 3
    MaxRestarts = 1
    Null = Null
SPECIFICATION Spec
CHECK_DEADLOCK FALSE
INVARIANTS
    TypeOK
    BoundedBurst
PROPERTIES
    ResetHonoured
