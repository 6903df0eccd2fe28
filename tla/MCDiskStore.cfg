CONSTANTS
  m1 = m1
  m2 = m2
  m3 = m3
  c1 = c1
  p1 = p1
  Manifest = {m1, m2, m3}
  Payload = {c1, p1}
  Private = {p1}
  Deps <- SharedDeps
  CheckpointOf <- Ids
  Size <- Lengths
  Budgets = {2, 6}
  Reader = {r1}
SPECIFICATION Spec
INVARIANTS
  PinnedFilesStay
  ManagedBytesExact
  PublishedSurvives
  EntriesComplete
  RetiredStaysGone
PROPERTIES
  ImplementsCheckpointStore
  GrowthWithinBudget
