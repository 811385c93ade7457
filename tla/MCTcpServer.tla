----------------------------- MODULE MCTcpServer -----------------------------
\* Small instances of TcpServer for TLC.
EXTENDS TcpServer

CONSTANTS c1, c2, s1

TwoClients == {c1, c2}
OneStarter == {s1}
==============================================================================
