SPECIFICATION FairSpec
CONSTANTS
    Workers = {w1}
    Callers = {cron}
    MaxAttempt = 2
    MaxRetry = 0
    MaxCancels = 1
    MaxDeletes = 1
    ReparseFrom = {"processing"}
    CancelFrom = {"pending", "cancelled"}
    DeleteFrom = {"processing", "finalizing"}
    Images = 1
    Summary = TRUE
    Questions = 0
    Graphs = 0
    Lite = FALSE
    Faults = {"retry", "fatal", "model", "spawn", "enqueue", "db", "crash"}
INVARIANTS TypeOK
PROPERTIES EventuallySettles
CHECK_DEADLOCK FALSE
