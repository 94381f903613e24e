CONSTANTS
    e1 = e1
    e2 = e2
    w1 = w1
    Events = {e1, e2}
    Writes = {w1}
    Batch <- MCBatch
    Polls = {p1}
    BatchSize = 1
    MaxRetries = 1
    StoreRetryCap = 2
    Retention = 0
    MaxTime = 1
    MaxCrashes = 0

SPECIFICATION FairSpec

PROPERTIES
    EventuallyHandled

CHECK_DEADLOCK FALSE
