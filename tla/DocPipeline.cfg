SPECIFICATION Spec
CONSTANTS
    Workers = {w1, w2}
    Callers = {user}
    MaxAttempt = 2
    MaxRetry = 1
    MaxCancels = 0
    MaxDeletes = 1
    ReparseFrom = {"completed", "failed"}
    CancelFrom = {}
    DeleteFrom = {"completed", "failed"}
    Images = 2
    Summary = TRUE
    Questions = 1
    Graphs = 1
    Lite = FALSE
    Faults = {"retry", "spawn"}
INVARIANTS CompletedMeansDrained ImagesComeFirst NothingStranded CompletedIsIndexed NothingLeftBehind
PROPERTIES CompletedHolds KeepsCounterContract
CHECK_DEADLOCK FALSE
