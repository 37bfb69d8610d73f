---------------------------- MODULE MCAccelHash ----------------------------
EXTENDS AccelHash, TLC

\* All names in one slot: the longest chains.
OneChain == [n \in Name |-> 0]

Symmetric == Permutations(Proc) \cup Permutations(Script)
=============================================================================
