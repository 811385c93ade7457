SPECIFICATION FairSpec
CONSTANTS
  u1 = u1
  u2 = u2
  m1 = m1
  m2 = m2
  f1 = f1
  Senders <- NoUser
  Closers <- OneUser
  Messages <- TwoMessages
  Size <- MessageSize
  Files <- NoFile
  Count <- NoBytes
  FileSize <- NoBytes
  SndBuf = 1
  HighWaterMark = 2
  KeepsPointer = TRUE
CHECK_DEADLOCK FALSE
PROPERTIES
  OutputCompletes
  CloseIsCleanedUp
