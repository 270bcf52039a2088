SPECIFICATION WFairSpec
CONSTANTS
  NumGPUs = 2
  PrefillPercent = 50
  KVBlockSize = 32
  KVCapacity = 2
  PromptTokens <- MCPrompts
  OutputTokens <- MCOutputs
  MaxRequests = 2
  MaxFlips = 1
  MinPrefillGPUs = 0
  MinDecodeGPUs = 0
  SpacedFlips = FALSE
  AllowStop = TRUE
  MaxStops = 2
  MaxBusy = 0
INVARIANTS
  EachRequestOnce
  WallAccounts
  OnlyHandsMissed
  PanicNeedsRace
PROPERTIES
  WStopTerminates
