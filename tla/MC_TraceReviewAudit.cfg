SPECIFICATION Spec
CONSTANTS
    t1 = t1  t2 = t2  w1 = w1  w2 = w2  w3 = w3
    Traces = {t1}
    Actors = {w1, w2, w3}
    Analysts = {w1, w2}
    Reviewers = {w2, w3}
    Nobody = Nobody
    NoTrace = NoTrace
    NoEvent = NoEvent
    Distances = {1, 2}
    MaxRuns = 1
    MaxReviews = 2
    MaxFaults = 0
INVARIANTS
    RevisionsChain
