SPECIFICATION Spec
CONSTANTS
  g1 = g1
  g2 = g2
  g3 = g3
  Callers <- MCCallers
  NoCaller = NoCaller
  Verdicts = {"ok", "error"}
  MaxSeq = 3
  StdinCap = 1
  StdoutCap = 1
  Concurrency = 2
SYMMETRY MCSymmetry
CHECK_DEADLOCK FALSE
INVARIANTS
  SendNeverBlocks
  RightAnswer
  NoOrphanEntry
PROPERTY CallSpec
