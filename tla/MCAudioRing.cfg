SPECIFICATION FairSpec
CONSTANTS
  Byte <- MCByte
  Capacity = 8
  Wrap = 16
  Payloads <- MCPayloads
  Lengths <- MCLengths
  Frame = 2
INVARIANTS
  RingInv
  FramesStayWhole
PROPERTIES
  IsFifo
  WaitEnds
