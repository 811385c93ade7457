SPECIFICATION FairSpec
CONSTANTS
  c1 = c1
  c2 = c2
  s1 = s1
  Main = Main
  MaxThreads = 1
  Clients <- TwoClients
  Starters <- OneStarter
  MaxFds = 2
CHECK_DEADLOCK FALSE
INVARIANTS
  TypeOK
  RegisteredIsOwned
  BaseLoopOnlyAccepts
  NobodyForgotten
PROPERTIES
  ImplementsConnectionEvents
  ClientsAreServed
  LeavingIsReported
  DownIsReleased
  DestructionEnds
