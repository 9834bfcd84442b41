SPECIFICATION Spec
CONSTANTS
    Pods = {p1, p2, p3}
    FleetSize = 3
    None = None
SYMMETRY Symmetry
INVARIANT WinnerPassedGate
