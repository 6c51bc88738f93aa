SPECIFICATION FairRingSpec
CONSTANTS
  Peer = {p1, p2}
  Patient = {p1}
  MaxClients = 1
  MaxFD = 2
  MaxRequest = 2
  Pieces <- PatientSendHalves
  Asks <- AskOnce
  Ahead = 1
  SmallCapacity = 1
  LargeBlocks = 2
  SocketRoom = 1
  Engines = {"select", "uring"}
  MaxEvents = 2
  Reserved = 1
INVARIANT CompletionsOwned
PROPERTY RequestAnswered
CHECK_DEADLOCK FALSE
