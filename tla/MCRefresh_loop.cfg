\* With and without a check interval; as many triggers as the loop is sure to
\* absorb, which preempt runs and fill the channels; a transient error is
\* retried once.
SPECIFICATION Spec
CONSTANTS
    Intervals = {"Some", "None"}
    RetryForever = FALSE
    MaxRetries = 1
    MaxTriggers = 2
    MaxVersion = 2

    
PROPERTIES
    KeepsRefreshing
    
    Converges
    Materializes
