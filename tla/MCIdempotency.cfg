CONSTANTS
    Calls = {c1, c2, c3}
    Keys = {k1, k2}
    Ttl = 1
    MaxTime = 3
    NoCall = NoCall

SPECIFICATION FairSpec

INVARIANTS
    Safe

PROPERTIES
    CachedAnswerStable
    WaitersAreAnswered

CHECK_DEADLOCK FALSE
