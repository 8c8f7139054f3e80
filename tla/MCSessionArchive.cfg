SPECIFICATION Spec
CONSTANTS
    Sessions = {s1, s2}
    Results = {r1, r2}
    Admitted = Admitted
    ReleaseTime = 2
    MaxDelay = 1
    MaxTime = 12
INVARIANTS
    RetainedForReleaseTime
PROPERTIES
    NotReopenedEarly
CHECK_DEADLOCK FALSE
