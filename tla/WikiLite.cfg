SPECIFICATION Spec
CONSTANTS
    Docs = {d1, d2}
    Batches = {w1}
    NoBatch = NoBatch
    MaxRows = 3
    Lite = TRUE
    BatchSize = 2
    MaxFail = 1
    Enriched = {d2}
    Cancellable = {d1}
    Deletable = {d1}
    Faults = {"fail", "llm", "read", "db", "crash"}
    MaxFaults = 1
INVARIANTS GhostFree
PROPERTIES QueueDrains
CHECK_DEADLOCK FALSE
