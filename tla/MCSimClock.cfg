SPECIFICATION FairSpec
CONSTANTS
  Delays <- MCDelays
  Horizons <- MCHorizons
  MaxEvents = 4
INVARIANTS
  FiringOrder
  NeverLate
PROPERTIES
  CancelPrevents
  EveryTimerFires
