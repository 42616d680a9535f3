\* The threaded pools: more threads than connections, two attempts per operation.
\* The loops: two tasks, one pooled connection, two rounds, three sessions on the
\* server and a restart.  The tester: three nodes, two troubles, one Ctrl-C.
CONSTANTS
  t1 = t1
  t2 = t2
  t3 = t3
  Threads = {t1, t2, t3}
  MaxConn = 2
  MaxAttempts = 2
  Programs = {"retry", "plain"}
  LoopTasks = {t1, t2}
  PoolSize = 1
  Iterations = 2
  MaxTries = 2
  MaxSessions = 3
  MaxRestarts = 1
  Nodes = {1, 2, 3}
  MasterNode = 3
  MaxTroubles = 2
  MaxInterrupts = 1
  NoNode = 0
SPECIFICATION AllSpec
INVARIANTS
  TypeOK
  SlotsAndConnectionsAgree
  ClosedAfterWorkers
  LoopsTypeOK
  ReportIsFinal
  PermitsBalance
  HATypeOK
  PromotionCostsOneInsert
PROPERTIES
  ShutdownEnds
  LoopsEnd
  VipFindsLeader
  AddressStays
  TesterWritesAgain
