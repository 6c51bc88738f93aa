SPECIFICATION FairSpec
CONSTANTS
    Keys = {key1, key2}
    Vals = {val1, val2}
    Bytes <- MCBytes
    TSBytes = 1
    ArenaSize = 3
    Margin = 1
    MaxTime = 3
    NoVal = NoVal
    NoPair = NoPair
    NoReq = NoReq
    Missing = Missing
INVARIANTS
    ReadsLatest
    UnloadedInMemory
    GenerationsDisjoint
PROPERTIES
    SavedListFrozen
    RefinesKVStore
    RequestEnds
CHECK_DEADLOCK FALSE
