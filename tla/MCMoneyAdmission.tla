------------------------- MODULE MCMoneyAdmission -------------------------
EXTENDS MoneyAdmission, TLC
Symmetry == Permutations(Gates) \cup Permutations(Procs)
=============================================================================
