CONSTANTS
  Proc = {p1, p2, p3}
  Block = {b1, b2, b3, b4, b5, b6}
  Value = {0}
  None = None
  MAXOPBLOCKS = 2
  LOGSIZE = 6
  LogBlocks = 6
  OpBlocks = 2
SPECIFICATION Spec
SYMMETRY Symmetric
INVARIANTS LogHoldsOps
