CONSTANTS
  PIPESIZE = 2
  WRAP = 4
  Writer = {w1, w2}
  Reader = {r1}
  Byte = {0, 1}
  None = None
  Count = {1, 3}
SPECIFICATION FairSpec
INVARIANTS NoLostWakeup
PROPERTIES PipeIsFifo ReaderReturns
