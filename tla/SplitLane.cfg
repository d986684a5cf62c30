CONSTANTS
    w1 = w1
    w2 = w2
    w3 = w3
    a1 = a1
    a2 = a2
    d1 = d1
    d2 = d2
    Writers = {w1, w2, w3}
    Authorities = {a1, a2}
    Dirs = {d1, d2}
    None = None
    NoDir = NoDir
    MaxAttempts = 2
    MaxIdentity = 7
    MaxMoves = 1
SPECIFICATION Spec
SYMMETRY Symmetry
INVARIANT
    OneWriterPerDirectory
