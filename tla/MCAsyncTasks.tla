---------------------------- MODULE MCAsyncTasks ----------------------------
EXTENDS AsyncTasks, TLC
Symmetry == Permutations(Workers) \cup Permutations(Callers)
=============================================================================
