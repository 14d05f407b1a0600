CONSTANTS
  Proc = {p1, p2}
  Buffer = {b1, b2}
  Block = {n1, n2, n3}
  Value = {0, 1}
  None = None
  MaxPins = 1
  WRAP = 5
  FirstTick = 3
  Sleeps <- SleepFor
  Late = 1
  NINODES = 3
  NINODE = 3
  Name = {"a", "b"}
  Path <- Paths
  MaxLink = 2
  File = {f1, f2}
  NBLOCK = 8
  BPB = 1
  BSIZE = 2
  NDIRECT = 1
  MAXOPBLOCKS = 6
  UINT = 10
  MaxCalls = 4
SPECIFICATION MCSpec
VIEW Relevant
SYMMETRY Symmetric
INVARIANTS OneUser RefsExact PutNeverBlocks LinksCover BlocksOwned ReadsBack PieceFits
PROPERTIES Coherent SleepExact
