SPECIFICATION FairSpec
CONSTANTS
    c1 = c1  c2 = c2  w1 = w1  w2 = w2  w3 = w3
    Cases = {c1}
    Actors = {w1, w2, w3}
    Role <- TeamRole
    NoCase = NoCase
    NoActor = NoActor
    LeaseTimeout = 1
    MaxVersion = 4
    MaxFaults = 1
INVARIANTS
    TypeOK
    RowConsistent
    AuditReplay
    ConfirmedWhatWasSeen
    ReadsAreOld
PROPERTIES
    ConclusionsKept
    Implements
    LeaseReleased
