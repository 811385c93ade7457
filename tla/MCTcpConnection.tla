--------------------------- MODULE MCTcpConnection ---------------------------
\* Small instances of TcpConnection for TLC.
EXTENDS TcpConnection

CONSTANTS u1, u2, m1, m2, f1

OneUser == {u1}
OtherUser == {u2}
NoUser == {}
TwoMessages == {m1, m2}
OneFile == {f1}
NoFile == {}
NoBytes == [f \in NoFile |-> 1]

\* A message longer than the send buffer, and one that fits.
MessageSize == [m \in TwoMessages |-> IF m = m1 THEN 2 ELSE 1]

\* A file longer than the send buffer, all of it asked for: once its last byte has left
\* in a later round, sendFileInLoop() still asks for more and finds the end of the file.
FileCount == [f \in OneFile |-> 2]
FileBytes == [f \in OneFile |-> 2]

\* A file of which a part is asked for.
LongFileBytes == [f \in OneFile |-> 3]
==============================================================================
