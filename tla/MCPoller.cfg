SPECIFICATION Spec
CONSTANTS
  c1 = c1
  c2 = c2
  c3 = c3
  d1 = d1
  d2 = d2
  none = none
  Channels <- ThreeChannels
  Fds <- TwoFds
  None <- none
  InitEventListSize = 1
SYMMETRY Symmetry
INVARIANTS
  TypeOK
  EpollAgrees
  MapAgrees
  CtlNeverFails
  ActiveExist
