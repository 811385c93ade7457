SPECIFICATION Spec
CONSTANTS
  CheapPrepend = 2
  InitialSize = 2
  ExtraSize = 3
  MaxBytes = 8
  MaxReserve = 3
CHECK_DEADLOCK FALSE
INVARIANT ReadsAreKept
