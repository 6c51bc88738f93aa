SPECIFICATION Spec
CONSTANTS
    Keys = {k1, k2}
    Vals = {v1, v2}
    NoVal = NoVal
    NoPair = NoPair
    Usecs = 2
    StartTime = 4
    MaxTime = 8
SYMMETRY KeySymmetry
INVARIANTS
    Durable
    LoggedOnceRecovered
CHECK_DEADLOCK FALSE
