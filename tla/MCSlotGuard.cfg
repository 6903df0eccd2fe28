CONSTANTS
  Row = {r1}
  Reader = {p1, p2}
  Checker = {c1}
  MaxRows = 2
  PieceRows = 1
  BatchSize = 1
  MaxWrites = 2
  MaxGen = 4
SPECIFICATION Spec
SYMMETRY Symmetric
CHECK_DEADLOCK FALSE
INVARIANTS
  NoFalseRejection
  SourceIntact
  PinnedReadsExact
  BackingExact
PROPERTIES
  NoWriteUnderReader
