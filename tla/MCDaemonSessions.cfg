SPECIFICATION Spec
CONSTANTS
    Projects = {p1}
    Sessions = {s1, s2}
    NoOne = NoOne
    MaxLoads = 2
SYMMETRY Symmetric
INVARIANTS
    BoundStaysLoaded
    NeverBlind
    FailureIsRetried
    WaitersAreLed
PROPERTIES
    FailedLoadRetiresNothing
CHECK_DEADLOCK FALSE
