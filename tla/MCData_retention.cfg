\* Full and append refreshes beside the retention check, which may fail.
SPECIFICATION Spec
CONSTANTS
    Modes = {"full", "append"}
    RefreshSql = FALSE
    Overlap = 1
    Retention = TRUE
    RetentionPeriod = 1
    DeleteFails = TRUE
    Ids = {1}
    MaxTime = 3
    Lateness = 0
    MaxCopies = 2
INVARIANTS
    UnexpiredRowsSurvive
PROPERTIES
    ExpiredRowsLeave
