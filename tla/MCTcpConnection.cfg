SPECIFICATION Spec
CONSTANTS
  u1 = u1
  u2 = u2
  m1 = m1
  m2 = m2
  f1 = f1
  Senders <- OneUser
  Closers <- NoUser
  Messages <- TwoMessages
  Size <- MessageSize
  Files <- OneFile
  Count <- FileCount
  FileSize <- FileBytes
  SndBuf = 1
  HighWaterMark = 2
  KeepsPointer = TRUE
CHECK_DEADLOCK FALSE
INVARIANTS
  TypeOK
  FileBytesInOrder
  OutputInOrder
  WritingIffBuffered
  NoStaleChannel
  DestroyedMeansUnwatched
PROPERTY ImplementsByteStream
