CONSTANTS
    N = 4
    MaxCompensationRetries = 2
    TimeoutMs = 1

SPECIFICATION FairSagaSpec

INVARIANTS
    SagaIsSafe

PROPERTIES
    UndoneInReverse
    SagaEnds

CHECK_DEADLOCK FALSE
