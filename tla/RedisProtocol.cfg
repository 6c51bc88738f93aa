\* Two clients, one buffer for answers, three blocks.
SPECIFICATION Spec
CONSTANTS
  Client = {c1, c2}
  system_buffer = system
  Buffer = {c1, c2, system}
  SIZES <- TwoSizes
  DIVISORS <- TwoDivisors
  MIN_COUNT = 1
  counts <- TwoAndOne
  maxClients = 2
  MAX_PARAMS = 4
  MAX_PARAM_SIZE = 20
  INT_BUFFER_SIZE = 3
  INT_RANGE = 1024
  to_string_buffer_size = 4
  UINT64_RANGE = 256
  NUMBER_LIMIT = 15
  STANDARD_READ_SIZE = 5
  conf_maxRequestSize = 28
  murmur <- ManyChars
  mixer <- Shuffled
  Wishes <- OneAsksMuch
  Lumps = {11}
INVARIANTS
  BlocksOwned
  AnswersExact
  ParserExact
  AnswersFit
CHECK_DEADLOCK FALSE
