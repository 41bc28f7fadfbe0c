CONSTANTS
  Nodes = {1, 2, 3}
  Starter = 1
  MaxVar = 1
  ParallelLen = 1
  EpochRounds = 3
  Preemptive = TRUE
  Timely = FALSE
  Arrange <- MCArrange
  MaxStarts = 1
  MaxRound = 1
  MaxCopies = 2
  MaxChecks = 0
  MaxTicks = 0
SPECIFICATION Spec
INVARIANTS
  GeneratedOnce
CHECK_DEADLOCK FALSE
