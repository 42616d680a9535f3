\* Ctrl-C at any time of a run with --duration.
CONSTANTS
  NTasks = 1
  PoolSize <- Sizes
  Options <- WaitForOnly
  NoTxns = NoTxns
  Servers <- OwnOrWrongRole
  PoolStatuses <- Answers
  MaxWal = 3
  MaxAttempts = 1
  MaxSamples = 0
SPECIFICATION Spec
INVARIANTS
  InterruptedRunReports
