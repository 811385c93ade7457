SPECIFICATION FairSpec
CONSTANTS
  c1 = c1
  c2 = c2
  f1 = f1
  f2 = f2
  f3 = f3
  none = none
  Callers <- TwoCallers
  Functors <- ThreeFunctors
  NoFunctor <- none
  EventfdMax = 2
INVARIANTS
  TypeOK
  FunctorsWake
  QuitWakes
  QueueOrder
PROPERTIES
  ImplementsTaskQueue
  PromptlyRun
  QuitStops
  ImplementsLiveTaskQueue
