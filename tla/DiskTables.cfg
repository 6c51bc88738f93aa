SPECIFICATION Spec
CONSTANTS
    Keys = {k1, k2}
    MinRecords = 1
    MaxRecords = 4
    MaxMerge = 2
    MaxFlushes = 3
    MaxName = 5
    Spread = 2
    NoKey = NoKey
SYMMETRY KeySymmetry
INVARIANTS
    DirectoryKeepsNewest
    QuietRefreshKeepsNewest
    GenerationLookupNewest
CHECK_DEADLOCK FALSE
