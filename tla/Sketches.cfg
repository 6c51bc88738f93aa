SPECIFICATION Spec
CHECK_DEADLOCK FALSE
CONSTANTS
  Kinds = {"BF", "CBF", "CMS", "CF", "HHINCR", "HHDECR", "MG", "RS", "RB", "SL", "BITSET", "ISAM",
           "STATICVECTOR", "SMALLVECTOR", "HASHTABLE",
           "PAIR", "HANDLES", "NUMBER", "WORD", "BITS", "BYTES"}
  MaxAdds = 5
  MaxCounted = 3
  Items <- MCItems
  ItemLists <- MCItemLists
  BFShapes <- MCBFShapes
  BIT_MIN = 3
  BIT_MAX = 6
  HASH_MAX = 2
  ByteBits = 2
  CBFShapes <- MCCBFShapes
  CMSShapes <- MCCMSShapes
  CellBits = 2
  Incs = {0, 2, 4}
  MAX_SIZE = 12
  CFSizes <- MCCFSizes
  FPBits = 3
  Slots = 1
  MaxKicks = 3
  murmur_hash64a <- MCHash
  hashFP <- MCHashFP
  mixer <- MCMixer
  Things = {1, 2, 3}
  ThingLists <- MCThingLists
  SlotCounts = {2, 3, 9}
  MAX_SLOTS = 3
  Scores <- MCScores
  ScoreMin = 1
  ScoreMax = 4
  MGMax = 9
  Bytes <- MCBytes
  SLMax = 9
  ContainerSize = 4
  SEARCH_NAIVE = 4
  SEARCH_MINI = 3
  BitNumbers = {0, 1, 3, 4}
  BitMax = 4
  BitsInByte = 2
  Schemas <- MCSchemas
  FieldVals <- MCFieldVals
  ElementTypes = {"trivial", "nothrow", "throwing"}
  Elements = {1, 2}
  Capacity = 2
  BufferSize = 1
  MaxLength = 2
  HeapBlocks = 3
  TableKeys = {1, 2, 3, 4, 5}
  TableVals = {1, 2}
  TableKinds <- MCTableKinds
  TableSize = 8
  MaxItems = 3
  TokenBits = 8
  tableHash <- MCTableHash
  PairKeys <- MCPairKeys
  PairVals <- MCPairVals
  Lifetimes = {0, 1}
  MAX_KEY_SIZE = 3
  MAX_VAL_SIZE = 3
  MaxPairNow = 3
  FileSize <- MCFileSize
  Least = 2
  SmallSize = 3
  SlabBlocks = 3
  IdLists <- MCIdLists
  TableFates <- MCTableFates
  MaxServers = 1
  WriteRoom = 2
  MaxWritten = 5
  HexBase = 4
  ByteBitsOf = 2
  WordBytes = 2
  Numbers <- MCNumbers
  Words <- MCWords
  BitVectors <- MCBitVectors
  ByteTexts <- MCByteTexts
INVARIANTS FiltersSound SelectionsSound ContainersFaithful
