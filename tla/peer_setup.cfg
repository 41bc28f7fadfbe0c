CONSTANTS
  Nodes = {1, 2, 3}
  Peers <- Mesh
  Assignments <- RightOrSwapped
SPECIFICATION FairSpec
INVARIANTS
  TypeOK
  AllReadyMeansDialled
  MixedUpNeverReady
PROPERTIES
  EveryoneConnects
CHECK_DEADLOCK FALSE
