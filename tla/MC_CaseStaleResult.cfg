SPECIFICATION Spec
CONSTANTS
    c1 = c1  c2 = c2  w1 = w1  w2 = w2  w3 = w3
    Cases = {c1}
    Actors = {w1, w2}
    Role <- PairRole
    NoCase = NoCase
    NoActor = NoActor
    LeaseTimeout = 1
    MaxVersion = 4
    MaxFaults = 0
INVARIANTS
    ResultFromCurrentRun
