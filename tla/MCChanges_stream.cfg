\* A file accelerator and one in memory, two keys, changes of every kind.
SPECIFICATION Spec
CONSTANTS
    Keys = {1, 2}
    Engines = {"file", "memory"}
    WritesFail = TRUE
    MaxLength = 3
    MaxCrashes = 2
\* The topic is bounded: once it is read, and the crashes are spent, the
\* stream waits for a message that does not come.
CHECK_DEADLOCK FALSE
INVARIANTS
    
    CaughtUpAgrees
PROPERTIES
    EveryChangeArrives
