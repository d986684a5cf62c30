CONSTANTS
    r1 = r1
    r2 = r2
    p1 = p1
    p2 = p2
    t1 = t1
    t2 = t2
    e1 = e1
    l1 = l1
    l2 = l2
    Roots = {r1}
    Paths = {p1}
    Events = {}
    Requests = {t2}
    Edits = {e1}
    Loaders = {l1, l2}
    ColdLoads = {l1}
    NoRoot = NoRoot
    Faults = {}
    MaxVersion = 2
    MaxReloads = 1
    Attempts = 2
    Misses = 1
    FillAttempts = 0
SPECIFICATION Spec
CHECK_DEADLOCK FALSE
PROPERTIES
    RowsNeverGoBack
    AdmissionsSurviveReload
    BaselineIsPredecessor
