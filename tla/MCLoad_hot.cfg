SPECIFICATION Spec
CONSTANTS
    Datasets = {"d1", "d2"}
    Catalogs = {"c"}
    Models = {"m", "e"}
    Views = {"v"}
    DependsOn <- MCDependsOn
    Apps <- MCApps
    Starts <- MCStarts
    NoApp = NoApp
    None = None
    Readers = {r}
    MaxEdits = 1
    MaxOutages = 1
INVARIANTS
    AppIsApplied
    ReadyMeansLoaded

    
    
CHECK_DEADLOCK FALSE
