CONSTANTS
    t1 = t1
    t2 = t2
    t3 = t3
    t4 = t4
    Tasks = {t1}
    Workers = {w1, w2}
    Buffer = 1
    MaxRetry <- MCNoRetry
    MaxCounted = 0
    NoTask = NoTask

SPECIFICATION CloseSpec

PROPERTIES
    CloseIsGraceful

CHECK_DEADLOCK FALSE
