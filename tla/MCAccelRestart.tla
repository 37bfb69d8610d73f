--------------------------- MODULE MCAccelRestart ---------------------------
EXTENDS AccelRestart, TLC

Symmetric == Permutations(Proc)
=============================================================================
