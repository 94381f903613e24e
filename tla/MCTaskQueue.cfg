CONSTANTS
    t1 = t1
    t2 = t2
    t3 = t3
    t4 = t4
    Tasks = {t1, t2, t3, t4}
    Workers = {w1}
    Buffer = 1
    MaxRetry <- MCMaxRetry
    MaxCounted = 1
    NoTask = NoTask

SPECIFICATION FairSpec

INVARIANTS
    Safe

PROPERTIES
    EveryTaskEnds

CHECK_DEADLOCK FALSE
