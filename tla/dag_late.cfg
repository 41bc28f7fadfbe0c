CONSTANTS
  n1 = n1
  n2 = n2
  Nodes = {n1, n2}
  Leader <- Halves
  ParallelLen = 8
  dagMaxDepth = 3
  TxPerBlock = 1
  MinTxToSplit = 2
  MinTxToMerge = 2
  GenesisTxs = 2
  Packs <- OnePack
  MaxLate = 1
  PacksInTime = FALSE
  Preemptive = FALSE
  LastPack = 0
  MaxCol = 4
SPECIFICATION Spec
VIEW UpToOrder
INVARIANTS
  RowsAligned
  ParentsCover
CHECK_DEADLOCK FALSE
