---------------------------- MODULE MCPageStore ----------------------------
EXTENDS PageStore, TLC
Symmetry == Permutations(Writers)
=============================================================================
