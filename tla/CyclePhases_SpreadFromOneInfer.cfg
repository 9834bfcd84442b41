SPECIFICATION Spec
CONSTANTS
    a = a
    b = b
    g1 = g1
    g2 = g2
    NumSnapshots = 2
    Incidents = {a, b}
    Universe <- Grown
    Scopes <- SomeScopes
    NumSpecs = 1
    Golds = {g1, g2}
    Manifests <- SomeManifests
    Absent = Absent
    Torn = Torn
    MaxEdits = 2
    MaxDeaths = 1
INVARIANTS
    SpreadFromOneInfer
CHECK_DEADLOCK FALSE
