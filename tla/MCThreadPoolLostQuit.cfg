SPECIFICATION TimedSpec
CONSTANTS
  NumThreads = 2
  MaxCalls = 1
CHECK_DEADLOCK FALSE
PROPERTY JoinReturns
