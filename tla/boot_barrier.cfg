CONSTANTS
  Nodes = {n1, n2, n3}
  MaxDials = 2
SPECIFICATION FairSpec
INVARIANTS
  TypeOK
PROPERTIES
  ImplementsBarrier
  EverybodyFinishes
CHECK_DEADLOCK FALSE
