SPECIFICATION Spec
CONSTANTS
  r1 = r1
  r2 = r2
  Requests <- MCRequests
  PoolSize <- MCPoolSize
  Grace <- MCGrace
  Loads <- MCLoads
  MaxRows <- MCMaxRows
  MaxFaults <- MCMaxFaults
INVARIANT TypeOK
PROPERTY ExitsEarned
PROPERTY EveryWaitEnds
PROPERTY LostWorkersReturn
