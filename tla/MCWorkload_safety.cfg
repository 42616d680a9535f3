\* T2 with --verify, three tasks racing for three attempts over pools of one, and a
\* --duration that may end the run first.
CONSTANTS
  t1 = t1
  t2 = t2
  t3 = t3
  Tasks = {t1, t2, t3}
  Mode = "waitfor"
  Verify = TRUE
  FetchLsn = FALSE
  PrimaryPool = 1
  StandbyPool = 1
  MaxTxns = 3
  NoTxns = NoTxns
  HasDeadline = TRUE
  WaitTimeoutMs = 5000
  PoolWaitSecs = 30
  AttemptBound = 0
SPECIFICATION Spec
SYMMETRY Symmetry
INVARIANTS
  TypeOK
  AttemptsSettledOnce
  LiveMatchesStats
  ConnectionsReturned
  BudgetExact
