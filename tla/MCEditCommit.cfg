SPECIFICATION Spec
CONSTANTS
    b1 = b1
    b2 = b2
    g = g
    u = u
    d = d
    Writers = {b1, b2, u}
    Kind <- LockingKind
    Targets <- LockingTargets
    Paths = {1, 2}
    Missing = {2}
    NoFile = NoFile
    NoOne = NoOne
    Outside = Outside
    MaxOutside = 1
PROPERTIES
    ReportIsHonest
    NothingClobbered
