SPECIFICATION FairSpec
CONSTANT MaxSettles = 3
INVARIANTS
  TuneInv
  TuneUndone
PROPERTY TuneOffCompletes
