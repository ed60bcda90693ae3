SPECIFICATION FairSpec
CONSTANTS
  MaxSettles = 3
  Points = 3
  AbortSwrRun = 2
  AbortDeadRun = 3
INVARIANTS
  SweepInv
  SweepIsUndone
PROPERTIES
  SweepEnds
