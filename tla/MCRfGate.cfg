SPECIFICATION FairSpec
CONSTANTS
  Amps <- OneAmp
  MaxShots = 2
  MaxFailsafes = 2
INVARIANTS
  GateInv
  SilenceIsTimed
PROPERTIES
  PromptStopGetsRf
  CarrierStops
