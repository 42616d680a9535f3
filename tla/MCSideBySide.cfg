\* Two tasks under three command lines.  WAL pages of 8 with headers of 2, and of 3
\* at a segment's start every 16: from 6 on it ends at a page boundary, at a segment
\* boundary and in between.  The link checker on pairs of files of every kind.
CONSTANTS
  t1 = t1
  t2 = t2
  Tasks = {t1, t2}
  NoTxns = NoTxns
  WaitTimeoutMs = 5000
  PoolWaitSecs = 30
  ShortPageHeader = 2
  LongPageHeader = 3
  WalBlockSize = 8
  WalSegmentSize = 16
  HexBase = 4
  HalfDigits = 2
  WalStart = 6
  RecordLens = {2, 3}
  MaxRecords = 4
  NoRow = NoRow
  MaxRows = 2
  Options <- WaitForEver
  MaxCrashes = 0
  CanPromote = TRUE
  i1 = i1
  i2 = i2
  i3 = i3
  Absent = Absent
  Symlink = Symlink
  NoNumber = NoNumber
  NoPath = NoPath
  NoReason = NoReason
  Paths <- AllPaths
  File <- AllFiles
  Inodes <- AllInodes
  Situations <- AllSituations
  MaxChanges = 2
SPECIFICATION AllSpec
INVARIANTS
  CheckTypeOK
  UserRelationsLinked
  UntouchedJudgedRight
PROPERTIES
  RefinesLedger
  Termination
  NoStall
