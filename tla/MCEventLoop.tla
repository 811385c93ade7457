----------------------------- MODULE MCEventLoop -----------------------------
\* Small instances of EventLoop for TLC.
EXTENDS EventLoop

CONSTANTS c1, c2, f1, f2, f3, none

TwoCallers    == {c1, c2}
ThreeFunctors == {f1, f2, f3}
==============================================================================
