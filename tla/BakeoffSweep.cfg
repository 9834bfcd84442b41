SPECIFICATION FairSpec
CONSTANTS
    NumConfigs = 2
    Incidents = {i1, i2, i3}
    InitialGold = {i1, i2}
    MaxWorkers = 2
    MaxRetries = 2
    Ceiling = 3
INVARIANTS
    TypeOK
    OverspendBounded
    SkippedIsComplete
    WinnerReproducible
PROPERTIES
    PersistedNotRepeated
    SweepEnds
