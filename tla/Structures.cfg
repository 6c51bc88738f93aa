SPECIFICATION Spec
CHECK_DEADLOCK FALSE
CONSTANTS
  Modes = {"queue", "limit", "estimate", "latency", "scan"}
  MaxId = 4
  ITERATIONS_IDLE = 0
  ITERATIONS_LOOPS_MAX = 1
  MaxMishaps = 2
  MaxTokens = 3
  MaxSeconds = 2
  Prices = {0, 1, 2, 4}
  TBUsecs = 2
  TBEnd = 9
  Keys = {1, 2}
  Elements = {1, 2, 3, 4}
  HLL_M = 2
  calcAdd <- TwoRegisters
  Capacities = {1, 3}
  Deltas = {2}
  Values = {0, 4}
  Weights = {1, 9}
  MIN_SIZE = 2
  MAX_SIZE_TD = 70
  MIN_WEIGHT = 1
  MAX_WEIGHT = 3
  Quarters = {0, 1, 2, 4}
  AddLists <- SmallAdds
  KeyLists <- SmallKeys
  NumberLists <- SmallNumbers
  MaxSeen = 4
  Percents = {0, 30, 50, 100}
  Timers = {1}
  Unknown = 9
  Durations = {0, 1, 2, 3, 5, 9}
  NUM_BUCKETS = 4
  MaxCalls = 3
  Key = {1, 2, 3, 4}
  Prefix = {{1, 2, 3, 4}, {3, 4}}
  Value = {1, 2}
  Edges = {1, 4}
  CountMin = 1
  CountMax = 2
  LoopsMax = 2
  BatchMax = 3
  MemRoom = 2
  Now = 1
  Expirations = {2}
  MaxWrites = 1
INVARIANTS PopOnce RateBound EstimatesSound PagesExact SweepSound
PROPERTIES Delivered SweepEnds
