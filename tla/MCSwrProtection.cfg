SPECIFICATION Spec
CONSTANTS
  Readings <- CouplerReadings
  Limit = 3
  AlexLimit = 5
  TuneIgnore = 35
  OpenFwdMin = 10
  OpenDelta = 1
  LowFloor = 2
  Ceiling = 15
  Debounce = 4
INVARIANTS
  ProtectionInv
  ExposureIsBounded
PROPERTY WindBackStands
