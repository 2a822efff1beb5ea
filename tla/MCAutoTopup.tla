---------------------------- MODULE MCAutoTopup ----------------------------
EXTENDS AutoTopupProperties, TLC
Symmetry == Permutations(Procs) \cup Permutations(Cards)
=============================================================================
