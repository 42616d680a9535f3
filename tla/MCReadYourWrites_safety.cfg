\* Pages of 8 with headers of 2, and of 3 at a segment's start every 16: WAL from
\* 6 on ends at a page boundary, at a segment boundary and in between.
CONSTANTS
  ShortPageHeader = 2
  LongPageHeader = 3
  WalBlockSize = 8
  WalSegmentSize = 16
  WalStart = 6
  HexBase = 4
  HalfDigits = 2
  RecordLens = {2, 3}
  NoRow = NoRow
  Tasks = {t1, t2}
  Options <- AllModes
  MaxRecords = 4
  MaxRows = 2
  MaxCrashes = 1
  CanPromote = TRUE
SYMMETRY Symmetry
SPECIFICATION Spec
INVARIANTS
  TypeOK
  TargetCoversCommit
  ConfirmedIsSecured
  NothingMissing
PROPERTIES
  RefinesContract
