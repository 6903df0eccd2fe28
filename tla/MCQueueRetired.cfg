CONSTANTS
  Job = {"a", "b", "d"}
  Submitter = {t1}
  Depth = 2
  MaxBytes = 3
  Size <- MCSize
  Prior <- MCPrior
  Learned = {}
  Payload <- MCPayload
  Manifest <- MCManifest
  DiskBudget = 3
  PinFaults = {"bad_alloc", "retired"}
SPECIFICATION Spec
PROPERTIES SupersededReported
