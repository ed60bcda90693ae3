SPECIFICATION FairSpec
CONSTANTS
  MaxSlices = 3
  GraceBeats = 1
  MaxQueue = 2
  MaxLost = 1
INVARIANTS
  SliceInv
  SettledAgrees
PROPERTIES
  HandoffDropsMox
  RadioFollows
