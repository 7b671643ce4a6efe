CONSTANTS
    acme = acme
    beta = beta
    db_acme = db_acme
    db_beta = db_beta
    p1 = p1
    p2 = p2
    u1 = u1
    u2 = u2
    r1 = r1
    r2 = r2
    Codes = {acme}
    Databases = {db_acme}
    DbName <- MCDbName
    Ids = {p1}
    Users = {}
    Queries = {}
    Requests = {r1, r2}
    Existing <- MCExisting
    MaxItems = 1
    MaxWrites = 2
    MaxFaults = 0
    Null = Null
SPECIFICATION Spec
CHECK_DEADLOCK FALSE
INVARIANTS
    ListInvalidated
