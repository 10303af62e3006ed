SPECIFICATION Spec
CONSTANTS
    Docs = {d1, d2}
    Batches = {w1, w2}
    NoBatch = NoBatch
    MaxRows = 2
    Lite = FALSE
    BatchSize = 1
    MaxFail = 1
    Enriched = {}
    Cancellable = {}
    Deletable = {}
    Faults = {"crash"}
    MaxFaults = 1
PROPERTIES QueueDrains
CHECK_DEADLOCK FALSE
