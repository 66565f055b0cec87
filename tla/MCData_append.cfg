SPECIFICATION Spec
CONSTANTS
    Modes = {"append"}
    RefreshSql = FALSE
    Overlap = 2
    Retention = FALSE
    RetentionPeriod = 1
    DeleteFails = FALSE
    Ids = {1, 2}
    MaxTime = 4
    Lateness = 1
    MaxCopies = 2
INVARIANTS
    NoDuplicates
    NothingPassedOver
PROPERTIES
    EveryRowArrives
