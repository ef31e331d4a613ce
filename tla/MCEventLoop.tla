----------------------------- MODULE MCEventLoop -----------------------------
EXTENDS EventLoop, TLC
CONSTANTS h1, t1, t2
MCHandle == {h1}
MCTimer == {t1, t2}
MCInterval == {1, 2}
NoFd == {}
Symmetry == Permutations(MCTimer)
=============================================================================
