--------------------------- MODULE MCIncludePaths ---------------------------
EXTENDS IncludePaths, TLC

\* Include paths that are letters are not alike.
Symmetric ==
    Permutations(Proc) \cup Permutations(IncludePath \ ({Default} \cup Letter))
=============================================================================
