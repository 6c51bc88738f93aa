SPECIFICATION Spec
CHECK_DEADLOCK FALSE
CONSTANTS
  Empty = 99999
  ITERATIONS_LOOPS_MAX = 8
  MaxCommands <- MCMax
  MaxCrashes <- MCCrashes
  hashKeySort <- MCHash
  MaxX32 = 3
  MaxX64 = 9
  Bits <- MCBits
  UnsignedBits <- MCUnsigned
  ShiftedOut = 1
  MAX_SKIPS = 1
  MAX_RETRIES = 2
  MAX_SIZE = 2
  FAN = 8
  LatUnit = 2
  LonUnit = 1
  cells <- MCCells
  MH_SIZE = 4
  mhHash <- MCmhHash
  MH_COUNT = 2
  MH_RESULTS = 1
  MH_SCORE = 4
  V_PLANES <- MCPlanes
  V_RANDOM <- MCRandom
  V_BITS_MIN = 1
  V_GRAIN <- MCGrain
  V_RESULTS = 1
  V_LOOPS = 2
  V_COUNT = 3
  AC_TEXTS <- MCACTexts
  AC_BYTES = 5
  AC_LEADS = {5}
  AC_MAX = 2
  Kinds <- MCKinds
  Members = {1, 2, 3}
  IXTuples <- MCTuples
  MCPoints <- MCPointsOf
  MCBoxes <- MCBoxesOf
  Places <- MCPlaces
  Radii = {1, 3, 6, 8}
  TokenLists <- MCTokens
  Sorts = {99999, 2}
  BandSize = 2
  VectorSet <- MCVectors
  VDim = 2
  VTypes = {"f", "i", "b"}
  PageSizes = {1, 3}
INVARIANTS IndexesAgree FindsExact
