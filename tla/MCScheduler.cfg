SPECIFICATION Spec
CONSTANTS
  r1 = r1
  r2 = r2
  Req <- MCReq
  Clients <- MCClients
  Prompt <- MCPrompt
  Common <- MCCommon
  TokenLimit <- MCTwo
  EosChoices <- MCEos
  Modes <- MCModes
  Streamed = {r1, r2}
  CachePrompt = {}
  Deadlined = {}
  Impatient = {r1}
  MaxPending = 2
  MaxPerClient = 2
  MaxBuffered = 2
  MaxTotal = 3
  MaxDraft = 2
  WaitTicks = 1
  Faults = {"error", "lost"}
INVARIANTS BudgetExact StreamExact RunnerContract DecodersGetTurns
PROPERTIES LossKeepsLeases
CHECK_DEADLOCK FALSE
