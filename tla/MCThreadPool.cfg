SPECIFICATION FairSpec
CONSTANTS
  NumThreads = 3
  MaxCalls = 4
CHECK_DEADLOCK FALSE
INVARIANTS
  TypeOK
  LoopsExist
  NoLoopLeft
  SpreadEvenly
PROPERTIES
  LoopsAreStarted
  LateQuitJoins
