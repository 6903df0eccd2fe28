SPECIFICATION Spec
CONSTANTS
  r1 = r1
  r2 = r2
  Req <- MCReq
  Clients <- MCClients
  Prompt <- MCPrompt
  Common <- MCCommon
  TokenLimit <- MCOne
  EosChoices <- MCEos
  Modes <- MCMonitored
  Streamed = {r1}
  CachePrompt = {r2}
  Deadlined = {r2}
  Impatient = {}
  MaxPending = 2
  MaxPerClient = 2
  MaxBuffered = 2
  MaxTotal = 1
  MaxDraft = 2
  WaitTicks = 1
  Faults = {"hang"}
INVARIANTS SessionsExact NoRequestLost
PROPERTIES EveryRequestEnds
CHECK_DEADLOCK FALSE
