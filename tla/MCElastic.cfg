SPECIFICATION EFairSpec
CONSTANTS
  NumGPUs = 3
  PrefillPercent = 34
  KVBlockSize = 32
  KVCapacity = 2
  PromptTokens <- MCPrompts
  OutputTokens <- MCOutputs
  MaxRequests = 2
  MaxFlips = 2
  MinPrefillGPUs = 0
  MinDecodeGPUs = 0
  SpacedFlips = FALSE
  AllowStop = TRUE
  Hysteresis = 1
  Cooldown = 1
  Latencies <- MCLatencies
  MinCompleted = 1
INVARIANTS
  MonitorSeesTheEnd
  PoolsKept
PROPERTIES
  ElasticRunTerminates
