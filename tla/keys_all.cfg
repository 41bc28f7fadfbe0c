CONSTANTS
  Nodes = {1, 2, 3}
  Requester = 1
  MaxRequests = 1
  Size = 4
  Depth = 2
  EpochRounds = {0, 1}
  MinVariant = 1
  MaxVariant = 2
SPECIFICATION FairSpec
INVARIANTS
  SameTree
  TypeOK
  KeySentOnce
  PathLeadsToRoot
  AcceptedInItsRound

  
CHECK_DEADLOCK FALSE
