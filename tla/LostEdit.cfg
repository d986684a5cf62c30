SPECIFICATION Spec
CONSTANTS
    b1 = b1
    b2 = b2
    g = g
    u = u
    d = d
    Writers = {g, d}
    Kind <- DirectKind
    Targets <- DirectTargets
    Paths = {1}
    Missing = {}
    NoFile = NoFile
    NoOne = NoOne
    Outside = Outside
    MaxOutside = 1
PROPERTIES
    NothingClobbered
