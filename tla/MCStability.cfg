CONSTANTS
    Calls = {c1, c2, c3, c4}
    FailureThreshold = 1
    ResetTimeout = 1
    MaxAttempts = 2
    MaxTime = 2
    NoCall = NoCall

SPECIFICATION FairSpec

INVARIANTS
    Safe

PROPERTIES
    AdmittedCallReturns

CHECK_DEADLOCK FALSE
