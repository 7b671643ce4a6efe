CONSTANTS
    Tenants = {t1, t2}
    Jobs = {j1, j2}
    Scripts <- MCScripts
    Requires <- MCRequires
    MaxFaults = 1
    Null = Null
SPECIFICATION Spec
SYMMETRY Symmetry
CHECK_DEADLOCK FALSE
INVARIANTS
    TypeOK
    SingleRunner
    AppliedOnce
    UpgradeComplete
PROPERTIES
    NothingResumes
