SPECIFICATION Spec
CONSTANTS
    Workers = {w1}
    Callers = {user}
    MaxAttempt = 1
    MaxRetry = 1
    MaxCancels = 1
    MaxDeletes = 0
    ReparseFrom = {}
    CancelFrom = {"finalizing"}
    DeleteFrom = {}
    Images = 0
    Summary = TRUE
    Questions = 0
    Graphs = 0
    Lite = FALSE
    Faults = {}
PROPERTIES CancelHolds
CHECK_DEADLOCK FALSE
