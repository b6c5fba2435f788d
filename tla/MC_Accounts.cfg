SPECIFICATION FairSpec
CONSTANTS
    Clients = {c1}
    ShutdownTimeout = 1
    MaxChanges = 2
    MaxStops = 3
INVARIANTS
    TypeOK
    ActsWithHeldRole
    SeedingSound
PROPERTIES
    ServesAgain
