SPECIFICATION FairSpec
CONSTANTS
  NumGPUs = 2
  PrefillPercent = 50
  KVBlockSize = 32
  KVCapacity = 2
  PromptTokens <- MCPrompts
  OutputTokens <- MCOutputs
  MaxRequests = 2
  MaxFlips = 2
  MinPrefillGPUs = 0
  MinDecodeGPUs = 0
  SpacedFlips = FALSE
  AllowStop = TRUE
INVARIANTS
  TypeOK
  EachRequestOnce
  InFlightExact
  AccountsExact
  RetirementFinal
  OutputExact
PROPERTIES
  ImplementsServing
  StopTerminates
