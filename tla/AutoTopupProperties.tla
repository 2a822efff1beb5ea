------------------------ MODULE AutoTopupProperties ------------------------
(***************************************************************************)
(* What automatic top-up promises about the card it charges.               *)
(***************************************************************************)
EXTENDS AutoTopup

(* As long as no attempt outlives its wait, at most one automatic invoice can still charge the card
   or has charged it without the ledger knowing: after a lost reply, a late webhook, a crash, a void
   that was not confirmed, or with another card, no attempt starts a second charge before the first
   is accounted for. *)
Unaccounted == {i \in Ids : invoices[i].status \in {"draft", "open", "paid"}} \ credited
OneLiveInvoice == ~overlapped => Cardinality(Unaccounted) <= 1

(* However attempts overlap, one crossing of the threshold is charged once to one card: its key
   finds the same invoice, and a next generation begins only when that one is void for good. *)
OneChargePerKey == \A i, j \in Paid : Key(i) = Key(j) => i = j
=============================================================================
