CONSTANTS
  Job = {"a", "d"}
  Submitter = {t1}
  Depth = 2
  MaxBytes = 3
  Size <- MCSize
  Prior <- MCPrior
  Learned = {}
  Payload <- MCPayload
  Manifest <- MCManifest
  DiskBudget = 5
  PinFaults = {}
SPECIFICATION Spec
PROPERTIES EvictionsServe
