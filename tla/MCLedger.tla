------------------------------ MODULE MCLedger ------------------------------
EXTENDS LedgerProperties, TLC
Symmetry == Permutations(Orgs) \cup Permutations(Calls)
=============================================================================
