SPECIFICATION FairSpec
CONSTANTS
  Amps <- NoAmps
  MaxShots = 2
  MaxFailsafes = 2
PROPERTY KeyedGetsRf
