----------------------------- MODULE MCCallTree -----------------------------
EXTENDS CallTree, TLC
Symmetry == Permutations(Kids)
=============================================================================
