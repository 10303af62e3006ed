SPECIFICATION Spec
CONSTANTS
    Workers = {w1, w2}
    Callers = {user}
    MaxAttempt = 1
    MaxRetry = 1
    MaxCancels = 2
    MaxDeletes = 1
    ReparseFrom = {}
    CancelFrom = {"finalizing", "cancelled"}
    DeleteFrom = {"finalizing", "completed"}
    Images = 2
    Summary = FALSE
    Questions = 1
    Graphs = 1
    Lite = TRUE
    Faults = {"retry", "spawn"}
INVARIANTS FannedOutOnce
PROPERTIES CancelHolds DeleteHolds KeepsCounterContract
CHECK_DEADLOCK FALSE
