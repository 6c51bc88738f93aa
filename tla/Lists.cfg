SPECIFICATION Spec
CHECK_DEADLOCK FALSE
CONSTANTS
  Kinds <- MCKinds
  Keys <- MCKeys
  Versions <- MCVersions
  Plans <- MCPlans
  MaxErases = 2
  Texts <- MCTexts
  MaxUnsorted = 5
  MaxTime = 4
  EraseTypes = {"NORMAL", "TOMBSTONE", "SMART_TOMBSTONE"}
  TableKeys <- MCTableKeys
  LongKeys <- MCLongKeys
  LongStart = 20
  Probes <- MCProbes
  Replays <- MCReplays
  Capacities = {2, 99}
  MAX_HEIGHT = 2
  UnrollingCapacity = 3
  PaddedHKeys = {0}
  InsertionMax = 4
  CutoffDeep = 1
  CharBase = 4
  HPairN = 2
  ALIGN = 4
  PairHead = 3
  MinimumDistance = 1
  OpenAddresses = 2
  MinHashNodes = 4
  SMALL_PRIMES = {3}
  murmur_hash64a <- MCHash
INVARIANTS ListsAgree IterationMerged SearchExact
