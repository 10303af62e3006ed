SPECIFICATION Spec
CONSTANTS
    Docs = {d1, d2}
    Batches = {w1, w2}
    NoBatch = NoBatch
    MaxRows = 2
    Lite = FALSE
    BatchSize = 1
    MaxFail = 1
    Enriched = {d1, d2}
    Cancellable = {}
    Deletable = {}
    Faults = {"fail", "llm", "read", "redis", "crash"}
    MaxFaults = 1
INVARIANTS TypeOK RowHeldOnce NothingLost CompletedIsWritten
SYMMETRY Symmetry
CHECK_DEADLOCK FALSE
