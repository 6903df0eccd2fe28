SPECIFICATION Spec
CONSTANTS
  r1 = r1
  r2 = r2
  Req <- MCReq
  Clients <- MCClients
  Prompt <- MCPrompt
  Common <- MCCommon
  TokenLimit <- MCTwo
  EosChoices <- MCEos
  Modes <- MCFiltering
  Streamed = {r1, r2}
  CachePrompt = {}
  Deadlined = {}
  Impatient = {}
  MaxPending = 2
  MaxPerClient = 2
  MaxBuffered = 2
  MaxTotal = 2
  MaxDraft = 2
  WaitTicks = 1
  Faults = {}
INVARIANTS WorkerSurvives
CHECK_DEADLOCK FALSE
