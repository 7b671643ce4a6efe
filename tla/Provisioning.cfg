CONSTANTS
    acme = acme
    ACME = ACME
    beta = beta
    db_acme = db_acme
    db_beta = db_beta
    Users = {u1, u2}
    Emails = {e1, e2}
    Codes = {acme, ACME, beta}
    Databases = {db_acme, db_beta}
    DbName <- MCDbName
    Migrations = 2
    MaxFaults = 1
    MaxUpdates = 1
    Null = Null
SPECIFICATION FairSpec
CHECK_DEADLOCK FALSE
INVARIANTS
    TypeOK
    UniqueIdentities
    SingleMigrator
    MigrationsInOrder
    ReadyDatabaseExists
    CleanProvisioning
PROPERTIES
    ProvisioningSettles
