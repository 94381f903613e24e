CONSTANTS
    t1 = t1
    t2 = t2
    t3 = t3
    i1 = i1
    i2 = i2
    Tasks = {t1, t2, t3}
    Ids = {i1, i2}
    Id <- MCId
    Delay <- MCDelay
    Interval <- MCInterval
    Buffer = 1
    MaxCancels = 1
    MaxTime = 2
    NoTask = NoTask

SPECIFICATION FairSpec

INVARIANTS
    Safe

PROPERTIES
    DueTaskRuns
    StopCompletes

CHECK_DEADLOCK FALSE
