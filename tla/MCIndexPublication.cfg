CONSTANTS
    r1 = r1
    r2 = r2
    p1 = p1
    p2 = p2
    t1 = t1
    t2 = t2
    e1 = e1
    l1 = l1
    l2 = l2
    Roots = {r1}
    Paths = {p1, p2}
    Events = {t1}
    Requests = {}
    Edits = {}
    Loaders = {l1}
    ColdLoads = {l1}
    NoRoot = NoRoot
    Faults = {"Unreadable", "Aborted", "Replaced"}
    MaxVersion = 1
    MaxReloads = 1
    Attempts = 1
    Misses = 0
    FillAttempts = 1
SPECIFICATION Spec
CHECK_DEADLOCK FALSE
INVARIANTS
    BridgeDescribesContent
    CurrentIsHonest
    PlaceholderIsOwned
PROPERTIES
    AbortsAreReported
    GapStays
