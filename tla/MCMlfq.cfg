CONSTANTS
  NPROC = 3
  NMLFQ = 2
  AGETICK = 4
  Mortal = {2}
SPECIFICATION FairSpec
INVARIANTS QueuesExact
PROPERTIES QueueCalls BestLevelFirst NoStarvation
