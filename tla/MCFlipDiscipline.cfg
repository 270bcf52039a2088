SPECIFICATION SpecH
CONSTANTS
  Hysteresis = 2
  Cooldown = 3
  NumGPUs = 4
  MinPrefill = 1
  MinDecode = 2
  Gaps <- MCGaps
  Signals <- MCSignals
INVARIANTS
  FlipsSpaced
PROPERTIES
  FloorsKept
  FlipsSustained
  BacklogIsServed
