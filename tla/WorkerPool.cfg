SPECIFICATION FairSpec
CONSTANTS
  g1 = g1
  g2 = g2
  w1 = w1
  w2 = w2
  alice = alice
  bob = bob
  k1 = k1
  k2 = k2
  Callers <- MCCallers
  Workers <- MCWorkers
  Users <- MCUsers
  Cookies <- MCCookies
  NoWorker = NoWorker
  NoCaller = NoCaller
  NoKey = NoKey
  ColonPrefix <- MCPrefix
INVARIANTS
  TypeOK
  NoOrphanProcess
  OneWorkerPerUser
  OwnSession
PROPERTIES
  WorkerForReturns
  DeadLeavePool
