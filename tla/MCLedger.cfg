CONSTANTS
  Blk = {b1, b2}
  Tok = {t1, t2, t3}
  PinId = {p1, p2}
  Sizes = {1, 2}
  InitLimits <- SmallLimits
  LaterLimits <- Lowered
  Watched = {}
  FaultSteps = {"reserve", "convert", "pin"}
  MaxFault = 0
SPECIFICATION Spec
SYMMETRY Symmetric
CHECK_DEADLOCK FALSE
VIEW WithoutPeaks
INVARIANTS
  Conservation
  WithinLimits
  ExclusiveBacking
  PinnedStaysOwned
  LedgerDrains
PROPERTIES
  PinnedBlockStable
