----------------------------- MODULE MCLedgerTx -----------------------------
EXTENDS LedgerTx, TLC
Symmetry == Permutations(Txs)
=============================================================================
