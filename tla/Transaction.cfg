CONSTANTS
  w1 = w1
  w2 = w2
  w3 = w3
  Workers <- MCWorkers
  Foreign <- MCForeign
  MaxDepth <- MCMaxDepth
  MaxOpenConn = 3
  MaxStatements <- MCMaxStatements
  MayPanic <- MCNested
  MayCancel <- MCNested
SPECIFICATION FairSpec
INVARIANTS TypeOK AllOrNothing ConnectionReturned PoolServes
PROPERTIES ConnectionsComeBack CallsReturn
CHECK_DEADLOCK FALSE
