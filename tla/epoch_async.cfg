CONSTANTS
  Nodes = {1, 2}
  Starter = 1
  MaxVar = 1
  ParallelLen = 1
  EpochRounds = 3
  Preemptive = TRUE
  Timely = FALSE
  Arrange <- MCArrange
  MaxStarts = 1
  MaxRound = 3
  MaxCopies = 1
  MaxChecks = 5
  MaxTicks = 3
SPECIFICATION Spec
INVARIANTS
  TypeOK
  StagesInStep
CHECK_DEADLOCK FALSE
