CONSTANTS
  Proc = {p1, p2}
  Block = {b1, b2, b3}
  Value = {0, 1}
  None = None
  MAXOPBLOCKS = 2
  LOGSIZE = 4
  LogBlocks = 4
  OpBlocks = 1
SPECIFICATION FairSpec
INVARIANTS LogSafe
PROPERTIES LogImplementsAtomicDisk SleeperWoken
