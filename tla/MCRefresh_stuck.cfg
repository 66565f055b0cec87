SPECIFICATION Spec
CONSTANTS
    Intervals = {"Some"}
    RetryForever = FALSE
    MaxRetries = 0
    MaxTriggers = 3
    MaxVersion = 1
PROPERTIES
    KeepsRefreshing
