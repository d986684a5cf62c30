CONSTANTS
    t1 = t1
    t2 = t2
    s1 = s1
    s2 = s2
    Tasks = {t1, t2}
    Sources = {s1, s2}
    Absent = Absent
    MaxRecords = 1
    Bound = 1
    Budget = 1
    MaxAuthorities = 2
    MaxObservers = 3
    MaxStamp = 2
    MaxCuts = 1
SPECIFICATION Spec
SYMMETRY Symmetry
CHECK_DEADLOCK FALSE
INVARIANTS
    NothingLost
    AdmissionsCommit
PROPERTIES
    CutsAreComplete
    SupersededStaysSilent
