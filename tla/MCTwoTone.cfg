SPECIFICATION FairSpec
INVARIANTS
  TestInv
  PowerGivenBack
PROPERTIES
  BothTones
  OffEndsTest
