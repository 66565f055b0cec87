SPECIFICATION SinkSpec
CONSTANTS
    Requests = {w1, w2, w3}
    Datasets = {d1, d2}
    w1 = w1
    w2 = w2
    w3 = w3
    d1 = d1
    d2 = d2
    NoTable = NoTable
    Serial = TRUE
    ReconfigureParked = FALSE
    MaxConfigs = 4
\* Each request writes once: when all are answered and the configuration has
\* changed as often as the bound allows, nothing is left to do.
CHECK_DEADLOCK FALSE

    
    
PROPERTIES
    EveryWriteEnds
