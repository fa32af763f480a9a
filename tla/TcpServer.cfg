CONSTANTS
  IoThreads = 2
  Client = {a, b, c, d}
  FdLimit = 3
  MaxCounts = 4
  NoClient = NoClient
SPECIFICATION FairSpec
INVARIANTS TypeOK LoopExists OneGroup HandedOnce Balanced OwnPool
PROPERTY ClientServed
CHECK_DEADLOCK FALSE
