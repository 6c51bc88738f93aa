SPECIFICATION Spec
CONSTANTS
  Peer = {p1, p2}
  Patient = {p1}
  MaxClients = 2
  MaxFD = 3
  MaxRequest = 2
  Pieces <- PatientSendHalves
  Asks <- PatientAskOnce
  Ahead = 2
  SmallCapacity = 2
  LargeBlocks = 1
  SocketRoom = 1
INVARIANTS BlocksConserved EventsFresh BufferMatchesInterest
PROPERTY AnswersInOrder
CHECK_DEADLOCK FALSE
