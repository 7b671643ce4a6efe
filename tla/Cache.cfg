CONSTANTS
    acme = acme
    beta = beta
    db_acme = db_acme
    db_beta = db_beta
    p1 = p1
    p2 = p2
    u1 = u1
    u2 = u2
    r1 = r1
    r2 = r2
    Codes = {acme, beta}
    Databases = {db_acme, db_beta}
    DbName <- MCDbName
    Ids = {p1, p2}
    Users = {u1, u2}
    Queries <- MCQueries
    Requests = {r1, r2}
    Existing <- MCExisting
    MaxItems = 1
    MaxWrites = 3
    MaxFaults = 1
    Null = Null
SPECIFICATION FairSpec
CHECK_DEADLOCK FALSE
CONSTRAINT InOrder
INVARIANTS
    TypeOK
    AnswerIsOwn
    NamedEntryFresh
PROPERTIES
    StalenessEnds
