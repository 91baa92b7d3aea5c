----------------------------- MODULE MCIndirection -----------------------------
EXTENDS StoreCheck, TLC
MCPages == 1 .. 32
Symmetry == Permutations(Allocators) \cup Permutations(Branches)
=============================================================================
