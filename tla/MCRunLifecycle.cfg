\* Right and wrong servers, every kind of limit; progress lines, sampler and Ctrl-C.
CONSTANTS
  NTasks = 2
  PoolSize <- Sizes
  Options <- Mixed
  NoTxns = NoTxns
  Servers <- OwnOrWrongRole
  PoolStatuses <- Answers
  MaxWal = 3
  MaxAttempts = 2
  MaxSamples = 2
SPECIFICATION FairSpec
INVARIANTS
  TypeOK
  NoWaitOnItself
  PoolsAreWarm
  PairIsChecked
  SamplesReportedOnce
  ProgressAddsUp
  ReportIsComplete
PROPERTIES
  RunEnds
