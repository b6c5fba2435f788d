SPECIFICATION Spec
CONSTANTS
    Size = 16
    Stretches <- SomeStretches
    Levels = {0, 2, 4, 8}
    Windows = {1, 2, 3, 4}
    threshold = 2
    mergeWindow = 2
    StepNumerator = 3
    StepDenominator = 2
    routeLength = 15
    NoPeak = NoPeak
INVARIANTS
    MergedWell
    StepsFound
    SpikesIgnored
CHECK_DEADLOCK FALSE
