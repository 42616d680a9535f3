\* The startup check against the standby of another primary.
CONSTANTS
  NTasks = 1
  PoolSize <- Sizes
  Options <- WaitForOnly
  NoTxns = NoTxns
  Servers <- ServerPairs
  PoolStatuses <- Answers
  MaxWal = 3
  MaxAttempts = 1
  MaxSamples = 0
SPECIFICATION Spec
INVARIANTS
  StandbyIsOwn
