------------------------------ MODULE Rewards ------------------------------
(***************************************************************************)
(* What a paid top-up earns beside its credit: the bonus of the payment    *)
(* (application/billing.py) and the referral of the team that paid         *)
(* (domain/referrals.py).  Stripe delivers the two events of a payment and *)
(* its refunds at least once and in any order; every delivery, and every   *)
(* visit of the Referrals page, is a handler that may die between two of   *)
(* its transactions.                                                       *)
(*                                                                         *)
(* A bonus is in halves of its payment's refund, and credit is unspent:    *)
(* what a revocation can take is the ledger's part.                        *)
(***************************************************************************)
EXTENDS Integers, FiniteSets

CONSTANTS
  Handlers,    \* deliveries and page visits under way
  Teams,       \* referred organizations
  Payments,
  Payer,       \* the organization that made a payment
  Card,        \* the fingerprint of the card it was made with
  Users,       \* referrers
  None,        \* no fingerprint
  Partials,    \* into how many parts a payment's refund may fall, at most two
  Bonused,     \* payments large enough to earn a bonus
  Need,        \* payments that make up the minimum
  ReferralCap  \* qualified and paid referrals that one user may have

ASSUME RewardsAssumption ==
  /\ Payer \in [Payments -> Teams] /\ None \notin {Card[m] : m \in Payments}
  /\ Bonused \subseteq Payments
  /\ Partials \in [Payments -> 0..2] /\ Need \in Nat \ {0} /\ ReferralCap \in Nat

VARIABLES
  credited,   \* payments with a purchased block
  refunds,    \* what Stripe has refunded of a payment, in halves
  block,      \* per payment: refund recorded on it, bonuses granted, what was revoked of them
  referral,   \* the Referral row of each team
  suspended,  \* referrers that may not earn; settled beforehand
  h           \* what each handler does

vars == <<credited, refunds, block, referral, suspended, h>>

Halves == 0..2
Idle == [pc |-> "idle", pay |-> None, card |-> None, fresh |-> FALSE, amount |-> 0,
         verdict |-> "", team |-> None, owed |-> FALSE]
Sweeping == [Idle EXCEPT !.pc = "sweep"]
Earning == {"qualified", "paid"}
Statuses == Earning \cup {"pending", "rejected", "capped"}
Fingerprints == {Card[m] : m \in Payments} \cup {None}

TypeOK ==
  /\ credited \subseteq Payments /\ suspended \subseteq Users
  /\ refunds \in [Payments -> Halves]
  /\ block \in [Payments -> [refunded : Halves, bonuses : Nat, revoked : Halves]]
  /\ \A m \in Payments : /\ block[m].refunded <= refunds[m]
                         /\ m \notin credited => block[m] = [refunded |-> 0, bonuses |-> 0, revoked |-> 0]
  /\ referral \in [Teams -> [by : Users, status : Statuses, due : BOOLEAN, pay : Payments \cup {None},
                             card : Fingerprints, stamped : BOOLEAN, referee : Nat, referrer : Nat]]
  /\ \A d \in Handlers : h[d].pay \in Payments \cup {None} /\ h[d].amount \in Halves

Init ==
  /\ credited = {}
  /\ refunds = [m \in Payments |-> 0]
  /\ block = [m \in Payments |-> [refunded |-> 0, bonuses |-> 0, revoked |-> 0]]
  /\ referral \in [Teams -> [by : Users, status : {"pending"}, due : {FALSE}, pay : {None},
                             card : {None}, stamped : {FALSE}, referee : {0}, referrer : {0}]]
  /\ suspended \in SUBSET {referral[t].by : t \in Teams}
  /\ h = [d \in Handlers |-> Idle]

-----------------------------------------------------------------------------
(* Row locks are held to the end of the transaction: here, while a handler stands between the
   statement that takes the lock and its commit. *)

(* _lock_purchased_block *)
BlockFree(d, m) == \A e \in Handlers \ {d} : ~(h[e].pc = "grant" /\ h[e].pay = m)

(* lock_referrer, and the advisory lock of a card. *)
JudgeFreeUnlocked(d, user, card) == TRUE
JudgeFree(d, user, card) ==
  \A e \in Handlers \ {d} : h[e].pc = "enter" =>
    referral[h[e].team].by # user /\ (card = None \/ h[e].card # card)

Goto(d, pc) == h' = [h EXCEPT ![d].pc = pc]
MaxOf(x, y) == IF x > y THEN x ELSE y

-----------------------------------------------------------------------------
(* _credit, for both events of a payment: only checkout.session.completed knows the card.  Whether
   the payment is new is asked before it is credited. *)

Deliver(d, m, card) ==
  /\ h[d].pc = "idle"
  /\ h' = [h EXCEPT ![d] = [Idle EXCEPT !.pc = "credit", !.pay = m, !.card = card,
                                        !.team = Payer[m], !.fresh = m \notin credited]]
  /\ UNCHANGED <<credited, refunds, block, referral, suspended>>

AfterBonus(d) == IF h[d].fresh THEN [h[d] EXCEPT !.pc = "judge", !.fresh = FALSE] ELSE Sweeping

Credit(d) ==
  /\ h[d].pc = "credit"
  /\ credited' = credited \cup {h[d].pay}
  /\ IF h[d].pay \in Bonused THEN Goto(d, "bonus") ELSE h' = [h EXCEPT ![d] = AfterBonus(d)]
  /\ UNCHANGED <<refunds, block, referral, suspended>>

(* _grant_topup_bonus: the lock and the question whether the payment has its bonus. *)
LockBonus(d) ==
  /\ h[d].pc = "bonus" /\ BlockFree(d, h[d].pay)
  /\ IF block[h[d].pay].bonuses > 0 THEN h' = [h EXCEPT ![d] = AfterBonus(d)] ELSE Goto(d, "grant")
  /\ UNCHANGED <<credited, refunds, block, referral, suspended>>

(* The bonus, less what a refund recorded before took of it. *)
HealedGross(b) == 0
Healed(b) == b.refunded

GrantBonus(d) ==
  /\ h[d].pc = "grant"
  /\ block' = [block EXCEPT ![h[d].pay].bonuses = @ + 1,
                            ![h[d].pay].revoked = Healed(block[h[d].pay])]
  /\ h' = [h EXCEPT ![d] = AfterBonus(d)]
  /\ UNCHANGED <<credited, refunds, referral, suspended>>

(* Rolled back: the delivery will fail in the end, and Stripe redelivers it. *)
BonusFails(d) ==
  /\ h[d].pc \in {"bonus", "grant"}
  /\ h' = [h EXCEPT ![d] = AfterBonus(d)]
  /\ UNCHANGED <<credited, refunds, block, referral, suspended>>

-----------------------------------------------------------------------------
(* qualify: under the locks of the referrer and of the card, decide what the payment earns.  The cap
   is for a referrer who is no affiliate: affiliates, who have none, are left out. *)

Rivals(t) == {o \in Teams \ {t} : referral[o].status \in Earning}

Verdict(t, card) ==
  LET by == referral[t].by
      purchases == {m \in credited : Payer[m] = t}
      clash == card # None /\ \E o \in Rivals(t) : referral[o].card = card
      earned == {o \in Rivals(t) : referral[o].by = by}
  IN CASE Cardinality(purchases) < Need -> "pending"
       [] Cardinality(purchases) >= Need /\ (by \in suspended \/ clash) -> "rejected"
       [] Cardinality(purchases) >= Need /\ by \notin suspended /\ ~clash ->
            IF Cardinality(earned) >= ReferralCap THEN "capped" ELSE "qualified"

Judge(d) ==
  LET t == h[d].team IN
  /\ h[d].pc = "judge"
  /\ IF referral[t].status # "pending"
       THEN h' = [h EXCEPT ![d] = Sweeping]
       ELSE /\ JudgeFree(d, referral[t].by, h[d].card)
            /\ h' = [h EXCEPT ![d].pc = "enter", ![d].verdict = Verdict(t, h[d].card)]
  /\ UNCHANGED <<credited, refunds, block, referral, suspended>>

Enter(d) ==
  LET t == h[d].team IN
  /\ h[d].pc = "enter"
  /\ referral' = IF h[d].verdict = "pending" THEN referral
                 ELSE [referral EXCEPT ![t].status = h[d].verdict, ![t].pay = h[d].pay,
                                       ![t].card = h[d].card]
  /\ h' = [h EXCEPT ![d] = IF @.verdict = "qualified"
                              THEN [Idle EXCEPT !.pc = "referee", !.team = t] ELSE Sweeping]
  /\ UNCHANGED <<credited, refunds, block, suspended>>

(* What the referee's side still waits for. *)
OwesRefereeUnstamped(row) == row.status \in Earning
OwesReferee(row) == row.status = "qualified" /\ ~row.stamped

(* _grant_referee: check, grant and stamp under the lock of the row; it may fail, and the sweep pays. *)
GrantReferee(d) ==
  LET t == h[d].team IN
  /\ h[d].pc = "referee"
  /\ referral' \in {referral} \cup
       (IF OwesReferee(referral[t])
          THEN {[referral EXCEPT ![t].stamped = TRUE, ![t].referee = @ + 1]} ELSE {})
  /\ h' = [h EXCEPT ![d] = Sweeping]
  /\ UNCHANGED <<credited, refunds, block, suspended>>

-----------------------------------------------------------------------------
(* sweep: at the end of a delivery, or from the Referrals page. *)

OpenPage(d) ==
  /\ h[d].pc = "idle"
  /\ h' = [h EXCEPT ![d] = Sweeping]
  /\ UNCHANGED <<credited, refunds, block, referral, suspended>>

(* The hold against chargebacks is over. *)
HoldEnds(t) ==
  /\ referral[t].status = "qualified" /\ ~referral[t].due
  /\ referral' = [referral EXCEPT ![t].due = TRUE]
  /\ UNCHANGED <<credited, refunds, block, suspended, h>>

Payable(row) == row.due /\ row.status = "qualified"

(* _pay: the claim is committed before any credit moves. *)
ClaimPayout(d, t) ==
  /\ h[d].pc = "sweep" /\ Payable(referral[t])
  /\ referral' = [referral EXCEPT ![t].status = "paid", ![t].due = FALSE]
  /\ h' = [h EXCEPT ![d].pc = "award", ![d].team = t, ![d].owed = ~referral[t].stamped]
  /\ UNCHANGED <<credited, refunds, block, suspended>>

Award(d) ==
  LET t == h[d].team IN
  /\ h[d].pc = "award"
  /\ referral' = [referral EXCEPT ![t].referrer = @ + 1,
                                  ![t].referee = IF h[d].owed THEN @ + 1 ELSE @,
                                  ![t].stamped = @ \/ h[d].owed]
  /\ h' = [h EXCEPT ![d] = Sweeping]
  /\ UNCHANGED <<credited, refunds, block, suspended>>

(* No more rows are due, or the handler dies: what it had not committed is lost. *)
Leave(d) ==
  /\ h[d].pc # "idle"
  /\ h' = [h EXCEPT ![d] = Idle]
  /\ UNCHANGED <<credited, refunds, block, referral, suspended>>

-----------------------------------------------------------------------------
(* Refunds and disputes: _on_payment_reversed. *)

RefundAtStripe(m) ==
  /\ refunds[m] < Partials[m]
  /\ refunds' = [refunds EXCEPT ![m] = @ + 1]
  /\ UNCHANGED <<credited, block, referral, suspended, h>>

(* A refund event carries the total at its time; a dispute (amount 0) takes no credit back. *)
DeliverReversal(d, m, amount) ==
  /\ h[d].pc = "idle"
  /\ amount <= refunds[m]
  /\ h' = [h EXCEPT ![d] = [Idle EXCEPT !.pc = "reject", !.pay = m, !.amount = amount]]
  /\ UNCHANGED <<credited, refunds, block, referral, suspended>>

(* reject_for_payment *)
Rejectable(row, m) == row.pay = m /\ row.status = "qualified"

Reject(d) ==
  /\ h[d].pc = "reject"
  /\ referral' = [t \in Teams |-> IF Rejectable(referral[t], h[d].pay)
                                    THEN [referral[t] EXCEPT !.status = "rejected", !.due = FALSE] ELSE referral[t]]
  /\ h' = [h EXCEPT ![d] = IF @.amount = 0 THEN Idle ELSE [@ EXCEPT !.pc = "revoke"]]
  /\ UNCHANGED <<credited, refunds, block, suspended>>

(* A refund of a payment that has no purchased block finds nothing to revoke. *)
KnownUnchecked(m) == TRUE
Known(m) == m \in credited

(* revoke_refunded: of the payment's block and in proportion of its bonus, up to the total. *)
Revoke(d) ==
  LET m == h[d].pay IN
  /\ h[d].pc = "revoke" /\ BlockFree(d, m)
  /\ block' = IF ~Known(m) THEN block
              ELSE [block EXCEPT ![m].refunded = MaxOf(@, h[d].amount),
                      ![m].revoked = IF block[m].bonuses = 0 THEN 0 ELSE MaxOf(@, h[d].amount)]
  /\ h' = [h EXCEPT ![d] = Idle]
  /\ UNCHANGED <<credited, refunds, referral, suspended>>

Handle(d) ==
  \/ \E m \in Payments : Deliver(d, m, Card[m]) \/ Deliver(d, m, None)
  \/ Credit(d) \/ LockBonus(d) \/ GrantBonus(d) \/ BonusFails(d)
  \/ Judge(d) \/ Enter(d) \/ GrantReferee(d)
  \/ OpenPage(d) \/ (\E t \in Teams : ClaimPayout(d, t)) \/ Award(d) \/ Leave(d)
  \/ (\E m \in Payments, amount \in Halves : DeliverReversal(d, m, amount))
  \/ Reject(d) \/ Revoke(d)

Next ==
  \/ \E d \in Handlers : Handle(d)
  \/ \E t \in Teams : HoldEnds(t)
  \/ \E m \in Payments : RefundAtStripe(m)

Spec == Init /\ [][Next]_vars

-----------------------------------------------------------------------------
(* A payment earns its bonus once, and in whatever order its credit, its refunds and their
   redeliveries arrive, the bonus stands revoked in the proportion of the refund on record. *)
BonusNetOfRefunds ==
  \A m \in Payments : /\ block[m].bonuses <= 1
                      /\ block[m].bonuses = 1 => block[m].revoked = block[m].refunded

(* Each side of a referral is paid at most once, by the instant grant or by one of several sweeps,
   and a referral that was cancelled has paid its referrer nothing. *)
EachSideOnce ==
  \A t \in Teams : /\ referral[t].referee <= 1 /\ referral[t].referrer <= 1
                   /\ referral[t].referrer = 1 => referral[t].status = "paid"

(* One known card funds one referral, and no referrer earns beyond the cap. *)
(* (An affiliate's referrals have no cap in the code; the referrers here    *)
(* are not affiliates.)                                                     *)
OneCardOneReferral ==
  LET earning == {t \in Teams : referral[t].status \in Earning} IN
  /\ \A t, o \in earning : referral[t].card = referral[o].card /\ referral[t].card # None => t = o
  /\ \A user \in Users : Cardinality({t \in earning : referral[t].by = user}) <= ReferralCap
=============================================================================
