------------------------------ MODULE MoneyOps ------------------------------
(***************************************************************************)
(* The arithmetic of src/src/treg/domain/money: integer micro-USD amounts, *)
(* totals over the rows of a table, and the order in which credit blocks   *)
(* are drawn.                                                              *)
(*                                                                         *)
(* A total is defined by counting: the micro-USD of a table are the pairs  *)
(* <<row, k>> with k in 1..amount, and their sum is how many there are.    *)
(* Facts about totals then follow from facts about cardinalities of finite *)
(* sets (see LedgerProofs).                                                *)
(***************************************************************************)
EXTENDS Integers, FiniteSets

Lesser(a, b) == IF a <= b THEN a ELSE b
NonNeg(a) == IF a >= 0 THEN a ELSE 0

(* The micro-USD of a function from rows to amounts, and how many they are. *)
Units(f) == UNION {{x} \X (1 .. f[x]) : x \in DOMAIN f}
Sum(f) == Cardinality(Units(f))

(* The part of f whose rows come before x in the order of rank. *)
Before(f, rank, x) == [y \in {z \in DOMAIN f : rank[z] < rank[x]} |-> f[y]]

(***************************************************************************)
(* What each row gives when n is drawn from rows that can give cap[x] at   *)
(* most, in increasing order of rank: a row gives what is still missing    *)
(* after the rows before it, up to its cap.  This is the loop of           *)
(* _consume_blocks (take = min(remaining, left)) and, with the unheld      *)
(* balance as n, the loop of revoke_in_transaction.                        *)
(***************************************************************************)
Spread(cap, rank, n) ==
  [x \in DOMAIN cap |-> Lesser(cap[x], NonNeg(n - Sum(Before(cap, rank, x))))]

(* with_margin: the provider's cost plus a percentage, rounded up. *)
WithMargin(cost, margin) == (cost * (100 + margin) + 99) \div 100

=============================================================================
