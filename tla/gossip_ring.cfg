CONSTANTS
  Nodes = {1, 2, 3, 4}
  Peers <- RingAndTail
  a = a
  Messages = {a}
  Origin <- FromOne
  None = None
SPECIFICATION FairSpec
INVARIANTS
  TypeOK
  ProcessedOnce
  OneCopyPerLink
PROPERTIES
  ImplementsChannel
CHECK_DEADLOCK FALSE
