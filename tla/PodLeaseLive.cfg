SPECIFICATION FairSpec
CONSTANTS
    Pods = {p1, p2}
    FleetSize = 2
    None = None
PROPERTIES
    BreachEndsRun
    RecordedPodsReclaimed
