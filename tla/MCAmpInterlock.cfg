SPECIFICATION FairSpec
CONSTANTS
  pgxl = pgxl
  tgxl = tgxl
  Amps <- MCAmps
  MaxShots = 3
INVARIANTS
  TypeOK
  RequestNotLost
  TimerMeansWaiting
PROPERTY RequestIsAnswered
