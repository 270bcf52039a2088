SPECIFICATION TSpec
CONSTANTS
  NumGPUs = 3
  PrefillPercent = 34
  KVBlockSize = 32
  KVCapacity = 4
  PromptTokens <- MCPrompts
  OutputTokens <- MCOutputs
  MaxRequests = 3
  MaxFlips = 2
  MinPrefillGPUs = 1
  MinDecodeGPUs = 1
  SpacedFlips = TRUE
  AllowStop = FALSE
  Shape <- MCShape
  MaxRecent = 2
  IdlePoll = 1
  MaxIdle = 5
  DrainTime = 3
  PrefillSpeed = 16
  DecodeSpeed = 33
  BlockTransfer = 1
  Second = 8
  Rate = 1
  Duration = 20
  BurstAt <- MCBurstAt
  BurstLen = 8
  BurstFactor = 8
  Draws <- MCDraws
  Never = 1000
  ResizeTimes <- MCResizeTimes
  Windows <- MCWindows
INVARIANTS
  OneServingChain
