----------------------------- MODULE MCRewards -----------------------------
EXTENDS Rewards, TLC
CONSTANTS m1, m2, o1, o2, c1
OnePayer == m1 :> o1 @@ m2 :> o2
OneCard == m1 :> c1 @@ m2 :> c1
FirstInTwo == m1 :> 2 @@ m2 :> 0
Symmetry == Permutations(Handlers) \cup Permutations(Users)
=============================================================================
