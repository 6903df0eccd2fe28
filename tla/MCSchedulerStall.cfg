SPECIFICATION Spec
CONSTANTS
  r1 = r1
  r2 = r2
  Req <- MCReq
  Clients <- MCClients
  Prompt <- MCPrompt
  Common <- MCCommon
  TokenLimit <- MCOne
  EosChoices <- MCEos
  Modes <- MCPlain
  Streamed = {r1, r2}
  CachePrompt = {r1}
  Deadlined = {}
  Impatient = {}
  MaxPending = 2
  MaxPerClient = 2
  MaxBuffered = 2
  MaxTotal = 3
  MaxDraft = 2
  WaitTicks = 2
  Faults = {}
PROPERTIES QueuedNeverStalls
CHECK_DEADLOCK FALSE
