\* The exit status of a check that met an error.
CONSTANTS
  i1 = i1
  i2 = i2
  i3 = i3
  Paths <- AllPaths
  File <- AllFiles
  Inodes <- AllInodes
  Absent = Absent
  Symlink = Symlink
  NoNumber = NoNumber
  NoPath = NoPath
  NoReason = NoReason
  Situations <- AllSituations
  MaxChanges = 1
SPECIFICATION CheckSpec
INVARIANTS
  ErrorsAreReported
