SPECIFICATION Spec
CONSTANTS
    MaxEvents = 2
    Distances = {0, 1, 2, 3}
    Losses = {0}
    Confidences = {1}
    toleranceM = 2
    lossIncreaseDB = 1
INVARIANTS
    NearestMatched
CHECK_DEADLOCK FALSE
