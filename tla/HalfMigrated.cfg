CONSTANTS
    acme = acme
    ACME = ACME
    beta = beta
    db_acme = db_acme
    db_beta = db_beta
    Users = {u1}
    Emails = {e1}
    Codes = {acme}
    Databases = {db_acme, db_beta}
    DbName <- MCDbName
    Migrations = 3
    MaxFaults = 1
    MaxUpdates = 0
    Null = Null
SPECIFICATION Spec
CHECK_DEADLOCK FALSE
INVARIANTS
    ReadyMeansMigrated
