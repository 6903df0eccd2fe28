CONSTANTS
  Row = {r1, r2}
  Reader = {p1}
  Checker = {}
  MaxRows = 1
  PieceRows = 1
  BatchSize = 2
  MaxWrites = 1
  MaxGen = 4
SPECIFICATION FairSpec
CHECK_DEADLOCK FALSE
INVARIANTS
  ReadersCounted
  ClosedOnlyWhilePreserving
PROPERTIES
  RefusalKeepsFrontier
  ForegroundEnds
