SPECIFICATION Spec
CONSTANTS
  NumGPUs = 2
  KVBlockSize = 32
  KVCapacity = 3
  PrefillChunkTokens = 32
  ChunkedPrefill = TRUE
  PromptTokens <- MCPrompts
  OutputTokens <- MCOutputs
  MaxRequests = 2
  RealClock = TRUE
  AllowStop = FALSE
INVARIANTS
  NoneLeftBehind
