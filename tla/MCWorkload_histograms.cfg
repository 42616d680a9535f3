\* The worker of T2 against what DESIGN.md says of its histograms.
CONSTANTS
  t1 = t1
  Tasks = {t1}
  Mode = "waitfor"
  Verify = TRUE
  FetchLsn = FALSE
  PrimaryPool = 1
  StandbyPool = 1
  MaxTxns = 2
  NoTxns = NoTxns
  HasDeadline = TRUE
  WaitTimeoutMs = 5000
  PoolWaitSecs = 30
  AttemptBound = 0
SPECIFICATION Spec
INVARIANTS
  StepsIncludeFailures
