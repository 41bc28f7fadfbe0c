CONSTANTS
  n1 = n1
  n2 = n2
  Nodes = {n1, n2}
  Leader <- Alternating
  ParallelLen = 8
  dagMaxDepth = 3
  TxPerBlock = 1
  MinTxToSplit = 2
  MinTxToMerge = 2
  GenesisTxs = 2
  Packs <- DeepPacks
  MaxLate = 0
  PacksInTime = TRUE
  Preemptive = TRUE
  LastPack = 1
  MaxCol = 7
SPECIFICATION Spec
VIEW UpToOrder
INVARIANTS
  TypeOK
  BranchesPartition
  TxOnce
  EveryTxIncluded
CHECK_DEADLOCK FALSE
