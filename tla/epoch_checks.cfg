CONSTANTS
  Nodes = {1, 2, 3}
  Starter = 1
  MaxVar = 1
  ParallelLen = 1
  EpochRounds = 3
  Preemptive = TRUE
  Timely = FALSE
  Arrange <- MCArrange
  MaxStarts = 1
  MaxRound = 1
  MaxCopies = 1
  MaxChecks = 4
  MaxTicks = 0
SPECIFICATION CollectedSpec
INVARIANTS
  OnePassPerList
CHECK_DEADLOCK FALSE
