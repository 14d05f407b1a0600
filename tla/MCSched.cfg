CONSTANTS
  NPROC = 3
  Hart = {h0, h1}
  Hart0 = h0
  Hart1 = h1
  Build <- Builds
  Requests = {0}
  Mortal = {2}
  None = None
  MaxTicks = 1
  MaxRuns = 1
  MemProc = {p1, p2}
  initproc = p1
  MemSize = {10, 15, 21}
  PGSIZE = 2
  PTES = 2
  MAXVA = 8
  Program <- Programs
  Delta <- Deltas
  MaxSize = 6
  MaxArgs = 1
  CopyPages = 3
  ADDR = 12
  MaxLen = 6
  Morecore = 4
  Limit = 14
  HSIZE = 16
  Bytes = {16, 17, 64}
SPECIFICATION MCSpec
INVARIANTS OneHart ScanBest AccountingBound FramesExact ImageExact CopyExact HeapExact
PROPERTIES FifoWithErase
VIEW Relevant
