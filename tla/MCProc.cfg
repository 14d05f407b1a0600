CONSTANTS
  NPROC = 3
  Hart = {h1, h2}
  None = None
  NTASK = 5
  NFILE = 5
  NOFILE = 5
  NPIPE = 2
  Room = 2
  Length = 3
  MAXARGS = 3
  Letter = {"e", "c", "g", "f"}
  Command <- MCCommand
  Output <- MCOutput
SPECIFICATION MCSpec
INVARIANTS OneHart NoLostExit FilesExact OutputExact
PROPERTIES PipelineEnds
