SPECIFICATION Spec
CONSTANTS
    MaxEvents = 3
    Distances = {0, 1, 2}
    Losses = {0, 1}
    Confidences = {1, 2}
    toleranceM = 1
    lossIncreaseDB = 1
INVARIANTS
    OneToOne
    NoMatchMissed
    SameIsSame
    PrimaryIsBest
CHECK_DEADLOCK FALSE
