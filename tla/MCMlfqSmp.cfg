CONSTANTS
  Hart = {h1, h2}
  NPROC = 2
  None = None
SPECIFICATION Spec
INVARIANT NoEmptyPop
