CONSTANTS
  Job = {"a", "b", "c", "d"}
  Submitter = {t1}
  Depth = 3
  MaxBytes = 3
  Size <- MCSize
  Prior <- MCPrior
  Learned = {"d"}
  Payload <- MCPayload
  Manifest <- MCManifest
  DiskBudget = 3
  PinFaults = {"bad_alloc"}
SPECIFICATION Spec
INVARIANTS CountsExact NoStrandedHandle
PROPERTIES FirstBoundaryKept JobsSettle DrainReturns
