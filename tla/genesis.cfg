CONSTANTS
  Nodes = {n1, n2, n3}
  FirstNode = n1
  MaxRequests = 2
SPECIFICATION FairSpec
INVARIANTS
  TypeOK
  SameGenesis
  AskedOnceDoneOnce
  NobodyStartsBare
PROPERTIES
  GenerateAndStartWorks
CHECK_DEADLOCK FALSE
