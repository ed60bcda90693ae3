SPECIFICATION Spec
CONSTANTS
  Depth = 4
  Slots = 5
  ResyncDelta = 6
  Half = 8
  Lag = 5
  MaxBlocks = 20
INVARIANTS
  HoldInv
PROPERTIES
  ConcealOnlyLost
  IsPlayout
