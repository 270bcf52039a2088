SPECIFICATION Spec
CONSTANTS
  r1 = r1
  r2 = r2
  r3 = r3
  Request <- MCRequest
  Capacity = 3
  Sizes <- MCSizes
  MaxBlocks = 6
  MaxPins = 2
SYMMETRY MCSymmetry
INVARIANTS
  TypeOK
  PoolExact
PROPERTIES
  PinnedKeepsBlocks
  ImplementsPromise
  SkipsAtMostEvicted
