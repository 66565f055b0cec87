CONSTANTS
    d1 = d1
    d2 = d2
    None = None
    Datasets <- MCDatasets
    Definitions <- MCDefinitions
    Limits <- MCLimits
    Starts <- MCStarts
    Decls <- MCDecls
    MaxChanges = 1
    MaxRestarts = 1
SPECIFICATION Spec
CHECK_DEADLOCK FALSE
INVARIANTS
    ConfigErrorsArePermanent
    ConflictTargetsAreKeys
    FileIsTheOneOpened
    ScanIsTheCollection
PROPERTY
    EveryDatasetLoads
