SPECIFICATION FairSpec
CONSTANT PttKeys <- MCPttKeys
INVARIANTS
  MoxInv
  LatchMeansUnkeyed
PROPERTIES
  KeyingIsAnnounced
  IsTxPhases
  RequestIsHonoured
