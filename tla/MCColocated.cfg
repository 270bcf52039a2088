SPECIFICATION FairSpec
CONSTANTS
  NumGPUs = 2
  KVBlockSize = 32
  KVCapacity = 3
  PrefillChunkTokens = 32
  ChunkedPrefill = TRUE
  PromptTokens <- MCPrompts
  OutputTokens <- MCOutputs
  MaxRequests = 3
  RealClock = FALSE
  AllowStop = TRUE
PROPERTIES
  ImplementsServing
  EveryRequestSettles
  RunTerminates
