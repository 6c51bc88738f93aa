SPECIFICATION Spec
CONSTANTS
  Names = {1}
  Subs = {1, 2}
  Vals <- FewVals
  Numbers <- FewNumbers
  Seconds = {0, 1, 2}
  MaxLen = 3
  IntMin <- SmallestInt
  IntMax = 12
  to_string_buffer_t_size = 2
  Usecs = 2
  MaxTime = 6
  Clients = {1, 2}
  Low <- LowestLimit
  High = 3
  MaxCommands = 2
VIEW KeysView
INVARIANTS ReadsConsistent LockExclusive CountersHold
CHECK_DEADLOCK FALSE
