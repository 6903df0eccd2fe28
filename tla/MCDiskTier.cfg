CONSTANTS
  Ckpt = {1,2}
  Deps <- MCDeps
  Request = {r1}
  Capacity = 3
  MaxEpoch = 3
  MaxFaults = 1
  Reuse = TRUE
SPECIFICATION Spec
INVARIANTS RestoredExact NoFalseQuarantine IndexTracked WriteNeverBusy
PROPERTIES EvictionSparesRam
