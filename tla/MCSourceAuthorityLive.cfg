CONSTANTS
    w1 = w1
    w2 = w2
    a1 = a1
    a2 = a2
    d1 = d1
    Writers = {w1, w2}
    Authorities = {a1, a2}
    Dirs = {d1}
    None = None
    NoDir = NoDir
    MaxAttempts = 1
    MaxIdentity = 4
    MaxMoves = 1
SPECIFICATION FairSpec
PROPERTIES
    HolderReturns
    CachedAuthorityRecovers
