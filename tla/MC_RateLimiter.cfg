SPECIFICATION FairSpec
CONSTANTS
    Keys = {k1, k2}
    Callers = {a1, a2}
    NoKey = NoKey
    Limit = 2
    Window = 1
    MaxDelay = 1
INVARIANTS
    TypeOK
    BurstBound
PROPERTIES
    RefusalJustified
    SweptInTime
    RefusalEnds
