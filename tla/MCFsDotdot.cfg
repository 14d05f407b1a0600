CONSTANTS
  Proc = {p1, p2}
  NINODES = 3
  NINODE = 3
  Name = {"a", "b"}
  None = None
  Path <- Paths
  MaxLink = 2
SPECIFICATION MCSpec
VIEW Relevant
SYMMETRY Symmetric
INVARIANTS DotDotLives
