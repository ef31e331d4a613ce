------------------------------ MODULE MCChannel ------------------------------
EXTENDS Channel
CONSTANTS g1, g2, g3
MCGreenlet == {g1, g2, g3}
=============================================================================
