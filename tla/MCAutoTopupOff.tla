-------------------------- MODULE MCAutoTopupOff --------------------------
EXTENDS AutoTopupOwner, TLC
Symmetry == Permutations(Procs) \cup Permutations(Cards)
=============================================================================
