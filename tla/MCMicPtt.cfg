SPECIFICATION FairSpec
CONSTANTS
  FrameTicks = 1
  TailTicks = 3
INVARIANT TypeOK
PROPERTIES
  IdleStreamIsHarmless
  HeldKeyTransmits
