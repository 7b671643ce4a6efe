CONSTANTS
    missing = missing
    acme = acme
    ACME = ACME
    beta = beta
    db_acme = db_acme
    db_beta = db_beta
    Tenants = {acme, ACME, beta}
    Databases = {db_acme, db_beta}
    DbName <- MCDbName
    RawPages <- MCRawPages
    RawSizes <- MCRawSizes
    NaN = missing
    DefaultSize = 1
    MaxSize = 2
    MaxRows = 3
    MaxFaults = 1
    Null = Null
SPECIFICATION Spec
SYMMETRY Spellings
CONSTRAINT Bound
CHECK_DEADLOCK FALSE
INVARIANTS
    TypeOK
    PageFitsTotal
    NothingSkipped
