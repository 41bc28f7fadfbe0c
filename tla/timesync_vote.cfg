CONSTANTS
  Nodes = {n1, n2, n3}
  Begin <- TwoMinutes
  MaxClock = 13
  Prompt = FALSE
SPECIFICATION FairSpec
INVARIANTS
  TypeOK
  MajorityWins
  NoneLeftBehind
PROPERTIES
  AgreedStart
CHECK_DEADLOCK FALSE
