SPECIFICATION Spec
CONSTANTS
    r1 = r1  r2 = r2  k1 = k1  k2 = k2  t1 = t1  t2 = t2  w1 = w1  w2 = w2
    Routes = {r1, r2}
    Codes = {k1, k2}
    Traces = {t1, t2}
    Values = {1, 2}
    Actors = {w1, w2}
    Analysts = {w1, w2}
    Reviewers = {w1, w2}
    Nothing = Nothing
    MaxWrites = 2
INVARIANTS
    TypeOK
    CodesUnique
    BaselineBelongs
    BaselineAudited
