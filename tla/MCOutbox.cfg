CONSTANTS
    e1 = e1
    e2 = e2
    w1 = w1
    Events = {e1, e2}
    Writes = {w1}
    Batch <- MCBatch
    Polls = {p1, p2}
    BatchSize = 2
    MaxRetries = 2
    StoreRetryCap = 2
    Retention = 0
    MaxTime = 2
    MaxCrashes = 1

SPECIFICATION FairSpec

INVARIANTS
    Safe
    RetryBudget

PROPERTIES
    EventuallyHandled
    ImplementsDelivery

CHECK_DEADLOCK FALSE
