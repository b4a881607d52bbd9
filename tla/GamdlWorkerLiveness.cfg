SPECIFICATION FairSpec
CONSTANTS
  g1 = g1
  g2 = g2
  g3 = g3
  Callers <- MCTwoCallers
  NoCaller = NoCaller
  Verdicts = {"ok"}
  MaxSeq = 3
  StdinCap = 1
  StdoutCap = 1
  Concurrency = 1
CHECK_DEADLOCK FALSE
PROPERTIES
  EveryDownloadReturns
  DeadWorkerCleared
