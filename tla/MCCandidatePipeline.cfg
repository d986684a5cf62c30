CONSTANTS
    s1 = s1
    s2 = s2
    Sources = {s1, s2}
    Builders = {b1, b2}
    Absent = Absent
    MaxRecords = 1
    Observable = {"none", "Content", "Failed"}
    Limit = 2
    MaxAttempts <- Attempts
    MaxStamp = 3
SYMMETRY Symmetry
SPECIFICATION Spec
CHECK_DEADLOCK FALSE
INVARIANTS
    PublishesOnce
    LedgersAgree
    ChargesConserved
PROPERTIES
    RetryFencesOldBuilds
    SiblingsSurvive
    DeltaReplacesWhatItLoaded
