SPECIFICATION Spec
CONSTANTS
    Pods = {p1, p2, p3}
    FleetSize = 2
    None = None
SYMMETRY Symmetry
INVARIANTS
    TypeOK
    RecordedUntilGone
    PoolCoversFleet
    ReturnedMeansGone
    OneFleetAtATime
    WinnerStaysUp
PROPERTIES
    ImplementsLedger
