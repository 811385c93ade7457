------------------------------ MODULE MCPoller ------------------------------
\* Small instances of Poller for TLC.
EXTENDS Poller, TLC

CONSTANTS c1, c2, c3, d1, d2, none

ThreeChannels == {c1, c2, c3}
TwoFds == {d1, d2}
Symmetry == Permutations(ThreeChannels) \cup Permutations(TwoFds)
==============================================================================
