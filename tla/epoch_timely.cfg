CONSTANTS
  Nodes = {1, 2, 3}
  Starter = 1
  MaxVar = 1
  ParallelLen = 2
  EpochRounds = 3
  Preemptive = FALSE
  Timely = TRUE
  Arrange <- MCArrange
  MaxStarts = 1
  MaxRound = 4
  MaxCopies = 1
  MaxChecks = 20
  MaxTicks = 8
SPECIFICATION FairSpec
INVARIANTS
  ScheduleAgreed
  BlocksRecognised
  OneLeaderOneSecret
  EveryRowLed
PROPERTIES
  EveryEpochRuns
CHECK_DEADLOCK FALSE
