--------------------------- MODULE MCBranchManager ---------------------------
EXTENDS BranchManager, TLC
Symmetry == Permutations(Threads)
=============================================================================
