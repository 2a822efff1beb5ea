---------------------------- MODULE RewardsProofs ----------------------------
(***************************************************************************)
(* That no order of deliveries, redeliveries, refunds and page visits pays *)
(* a bonus or a side of a referral twice, for any number of handlers,      *)
(* payments, teams and referrers.                                          *)
(*                                                                         *)
(* What carries it is what a handler may rely on between two of its        *)
(* transactions: that a payment it is about to grant a bonus for has none  *)
(* (the block's lock), that a team it has judged is still pending and its  *)
(* verdict still true (the locks of the referrer and of the card), and     *)
(* that a payout it has claimed is its own (the claim is committed first). *)
(***************************************************************************)
EXTENDS Rewards, FiniteSetTheorems, TLAPS

Verdicts == {"pending", "rejected", "capped", "qualified"}
WithPayment == {"credit", "bonus", "grant", "judge", "enter", "reject", "revoke"}
WithTeam == {"credit", "bonus", "grant", "judge", "enter", "referee", "award"}

HandlerRow ==
  [pc : WithPayment \cup WithTeam \cup {"idle", "sweep"}, pay : Payments \cup {None},
   card : Fingerprints, fresh : BOOLEAN, amount : Halves, verdict : Verdicts \cup {""},
   team : Teams \cup {None}, owed : BOOLEAN]
BlockRow == [refunded : Halves, bonuses : Nat, revoked : Halves]
ReferralRow ==
  [by : Users, status : Statuses, due : BOOLEAN, pay : Payments \cup {None},
   card : Fingerprints, stamped : BOOLEAN, referee : Nat, referrer : Nat]

(* A handler has what its next transaction asks for.                       *)
Equipped(r) ==
  /\ r.pc \in WithPayment => r.pay \in Payments
  /\ r.pc \in WithTeam => r.team \in Teams
  /\ r.pc = "enter" => r.verdict \in Verdicts

TypeInv ==
  /\ credited \subseteq Payments /\ IsFiniteSet(credited) /\ suspended \subseteq Users
  /\ refunds \in [Payments -> Halves]
  /\ block \in [Payments -> BlockRow]
  /\ referral \in [Teams -> ReferralRow]
  /\ h \in [Handlers -> HandlerRow]
  /\ \A d \in Handlers : Equipped(h[d])

(* The bonus: granted once, under the block's lock, for a payment that has *)
(* its purchased block, and revoked as far as the payment was refunded.    *)
Granting(d) == h[d].pc = "grant"
Reversing(d) == h[d].pc \in {"reject", "revoke"}

BlockWithin(m) ==
  /\ block[m].refunded <= refunds[m]
  /\ m \notin credited => block[m] = [refunded |-> 0, bonuses |-> 0, revoked |-> 0]
BonusOnce(m) ==
  /\ block[m].bonuses <= 1
  /\ block[m].bonuses = 1 => block[m].revoked = block[m].refunded

BonusInv ==
  /\ \A m \in Payments : BlockWithin(m) /\ BonusOnce(m)
  /\ \A d \in Handlers : h[d].pc \in {"bonus", "grant"} => h[d].pay \in credited
  /\ \A d \in Handlers : Reversing(d) => h[d].amount <= refunds[h[d].pay]
  /\ \A d \in Handlers : Granting(d) => block[h[d].pay].bonuses = 0
  /\ \A d, e \in Handlers : Granting(d) /\ Granting(e) /\ h[d].pay = h[e].pay => d = e

(* The referral: a side is paid with the stamp or the claim that allows it.*)
Unpaid(t) ==
  /\ referral[t].status # "paid" => referral[t].referrer = 0
  /\ ~referral[t].stamped => referral[t].referee = 0
  /\ referral[t].referee <= 1 /\ referral[t].referrer <= 1

(* A payout that was claimed and not yet paid.                             *)
Claimed(d) ==
  h[d].pc = "award" =>
    /\ referral[h[d].team].status = "paid" /\ referral[h[d].team].referrer = 0
    /\ h[d].owed <=> ~referral[h[d].team].stamped

PayoutInv ==
  /\ \A t \in Teams : Unpaid(t)
  /\ \A d \in Handlers : Claimed(d)
  /\ \A d, e \in Handlers : h[d].pc = "award" /\ h[e].pc = "award" /\ h[d].team = h[e].team => d = e

(* The verdict: what was judged under the locks still holds at its entry.  *)
Judging(d) == h[d].pc = "enter"
Earns(t) == referral[t].status \in Earning
EarnedBy(user) == {t \in Teams : Earns(t) /\ referral[t].by = user}

WithinCap(user) == IsFiniteSet(EarnedBy(user)) /\ Cardinality(EarnedBy(user)) <= ReferralCap
Standing(d) ==
  Judging(d) =>
    /\ referral[h[d].team].status = "pending"
    /\ h[d].verdict = "qualified" =>
         /\ h[d].card # None => \A o \in Teams : Earns(o) => referral[o].card # h[d].card
         /\ Cardinality(EarnedBy(referral[h[d].team].by)) < ReferralCap

JudgedApart(d, e) ==
  /\ referral[h[d].team].by # referral[h[e].team].by
  /\ h[d].card = None \/ h[d].card # h[e].card

VerdictInv ==
  /\ \A t, o \in Teams : Earns(t) /\ Earns(o) /\ referral[t].card = referral[o].card
                           /\ referral[t].card # None => t = o
  /\ \A user \in Users : WithinCap(user)
  /\ \A d \in Handlers : Standing(d)
  /\ \A d, e \in Handlers : Judging(d) /\ Judging(e) /\ d # e => JudgedApart(d, e)

Invariant == TypeInv /\ BonusInv /\ PayoutInv /\ VerdictInv

-----------------------------------------------------------------------------
(* Types. *)

LEMMA IdleTyped == Idle \in HandlerRow /\ Equipped(Idle) /\ Sweeping \in HandlerRow /\ Equipped(Sweeping)
<1>1. Idle \in HandlerRow /\ Equipped(Idle)
  BY DEF Idle, HandlerRow, Equipped, WithPayment, WithTeam, Halves, Fingerprints
<1>2. Sweeping \in HandlerRow
  BY <1>1 DEF Sweeping, HandlerRow
<1>3. Sweeping.pc = "sweep"
  BY <1>1 DEF Sweeping, HandlerRow
<1>4. Equipped(Sweeping)
  BY <1>3 DEF Equipped, WithPayment, WithTeam
<1> QED BY <1>1, <1>2, <1>4

(* A step of one handler leaves the rows of the others alone.              *)
Steps(d, row) == h' = [h EXCEPT ![d] = row]

LEMMA StepsOthers ==
  ASSUME TypeInv, NEW d \in Handlers, NEW row, Steps(d, row)
  PROVE  h'[d] = row /\ \A e \in Handlers : e # d => h'[e] = h[e]
BY DEF Steps, TypeInv

LEMMA StepsTyped ==
  ASSUME TypeInv, NEW d \in Handlers, NEW row \in HandlerRow, Equipped(row), Steps(d, row)
  PROVE  h' \in [Handlers -> HandlerRow] /\ \A e \in Handlers : Equipped(h'[e])
<1>1. h' \in [Handlers -> HandlerRow]
  BY DEF Steps, TypeInv
<1>2. \A e \in Handlers : Equipped(h'[e])
  BY StepsOthers DEF TypeInv
<1> QED BY <1>1, <1>2

(* A handler that goes on to another statement keeps what it has.          *)
LEMMA GotoTyped ==
  ASSUME TypeInv, NEW d \in Handlers, NEW pc \in WithPayment \cup WithTeam \cup {"idle", "sweep"},
         pc \in WithPayment => h[d].pay \in Payments,
         pc \in WithTeam => h[d].team \in Teams,
         pc = "enter" => h[d].verdict \in Verdicts
  PROVE  /\ [h[d] EXCEPT !.pc = pc] \in HandlerRow
         /\ Equipped([h[d] EXCEPT !.pc = pc])
BY DEF TypeInv, HandlerRow, Equipped

LEMMA AfterBonusTyped ==
  ASSUME TypeInv, NEW d \in Handlers, h[d].pay \in Payments, h[d].team \in Teams
  PROVE  AfterBonus(d) \in HandlerRow /\ Equipped(AfterBonus(d))
<1>1. CASE h[d].fresh
  BY ZenonT(60), <1>1 DEF AfterBonus, TypeInv, HandlerRow, Equipped, WithPayment, WithTeam
<1>2. CASE ~h[d].fresh
  BY <1>2, IdleTyped DEF AfterBonus
<1> QED BY <1>1, <1>2

LEMMA VerdictTyped == ASSUME TypeInv, NEW t, NEW card PROVE Verdict(t, card) \in Verdicts
<1> DEFINE by == referral[t].by
           purchases == {m \in credited : Payer[m] = t}
           clash == card # None /\ \E o \in Rivals(t) : referral[o].card = card
<1>1. IsFiniteSet(purchases)
  BY FS_Subset DEF TypeInv
<1>2. Cardinality(purchases) \in Nat
  BY <1>1, FS_CardinalityType
<1>3. Need \in Nat
  BY RewardsAssumption
<1> HIDE DEF purchases, clash
<1>4. CASE Cardinality(purchases) < Need
  BY <1>2, <1>3, <1>4 DEF Verdict, Verdicts, purchases, clash
<1>5. CASE ~(Cardinality(purchases) < Need) /\ (by \in suspended \/ clash)
  <2>1. Cardinality(purchases) >= Need
    BY <1>2, <1>3, <1>5
  <2> QED BY <2>1, <1>5 DEF Verdict, Verdicts, purchases, clash
<1>6. CASE ~(Cardinality(purchases) < Need) /\ ~(by \in suspended \/ clash)
  <2>1. Cardinality(purchases) >= Need
    BY <1>2, <1>3, <1>6
  <2> QED BY <2>1, <1>6 DEF Verdict, Verdicts, purchases, clash
<1> QED BY <1>4, <1>5, <1>6

(* Every step of a handler is a step of its row, to a row it may have.     *)
Moved(d) == \E row \in HandlerRow : Equipped(row) /\ Steps(d, row)

LEMMA BonusMoves ==
  ASSUME TypeInv, NEW d \in Handlers,
         \/ \E m \in Payments : Deliver(d, m, Card[m]) \/ Deliver(d, m, None)
         \/ Credit(d) \/ LockBonus(d) \/ GrantBonus(d) \/ BonusFails(d)
  PROVE  Moved(d)
<1> USE DEF Moved, Steps
<1>0. h[d] \in HandlerRow /\ Equipped(h[d])
  BY DEF TypeInv
<1>1. ASSUME NEW m \in Payments, NEW card \in Fingerprints, Deliver(d, m, card) PROVE Moved(d)
  <2> DEFINE row == [Idle EXCEPT !.pc = "credit", !.pay = m, !.card = card,
                                 !.team = Payer[m], !.fresh = m \notin credited]
  <2>1. row \in HandlerRow
    BY ZenonT(60), RewardsAssumption, IdleTyped DEF HandlerRow, WithPayment
  <2>2. row.pc = "credit" /\ row.pay = m /\ row.team = Payer[m]
    BY IdleTyped DEF HandlerRow
  <2>3. Equipped(row)
    BY <2>2, RewardsAssumption DEF Equipped
  <2>4. Steps(d, row)
    BY <1>1 DEF Deliver
  <2> QED BY <2>1, <2>3, <2>4
<1>2. ASSUME h[d].pc \in {"credit", "bonus", "grant"}
      PROVE  h[d].pay \in Payments /\ h[d].team \in Teams
  BY <1>0, <1>2 DEF Equipped, WithPayment, WithTeam
<1>3. CASE Credit(d)
  <2>1. h[d].pay \in Payments /\ h[d].team \in Teams
    BY <1>2, <1>3 DEF Credit
  <2>2. CASE h[d].pay \in Bonused
    BY <2>1, <2>2, <1>3, GotoTyped DEF Credit, Goto, WithPayment
  <2>3. CASE h[d].pay \notin Bonused
    BY <2>1, <2>3, <1>3, AfterBonusTyped DEF Credit
  <2> QED BY <2>2, <2>3
<1>4. CASE LockBonus(d)
  <2>1. h[d].pay \in Payments /\ h[d].team \in Teams
    BY <1>2, <1>4 DEF LockBonus
  <2>2. CASE block[h[d].pay].bonuses > 0
    BY <2>1, <2>2, <1>4, AfterBonusTyped DEF LockBonus
  <2>3. CASE ~(block[h[d].pay].bonuses > 0)
    BY <2>1, <2>3, <1>4, GotoTyped DEF LockBonus, Goto, WithPayment
  <2> QED BY <2>2, <2>3
<1>5. CASE GrantBonus(d)
  BY <1>2, <1>5, AfterBonusTyped DEF GrantBonus
<1>6. CASE BonusFails(d)
  BY <1>2, <1>6, AfterBonusTyped DEF BonusFails
<1>7. \A m \in Payments : Card[m] \in Fingerprints /\ None \in Fingerprints
  BY DEF Fingerprints
<1> QED BY <1>1, <1>3, <1>4, <1>5, <1>6, <1>7

LEMMA ReferralMoves ==
  ASSUME TypeInv, NEW d \in Handlers,
         \/ Judge(d) \/ Enter(d) \/ GrantReferee(d) \/ OpenPage(d)
         \/ (\E t \in Teams : ClaimPayout(d, t)) \/ Award(d) \/ Leave(d)
  PROVE  Moved(d)
<1> USE DEF Moved, Steps
<1>0. h[d] \in HandlerRow /\ Equipped(h[d])
  BY DEF TypeInv
<1>1. CASE Judge(d)
  <2>1. h[d].pay \in Payments /\ h[d].team \in Teams
    BY <1>0, <1>1 DEF Judge, Equipped, WithPayment, WithTeam
  <2>2. CASE referral[h[d].team].status # "pending"
    BY <1>1, <2>2, IdleTyped DEF Judge
  <2>3. CASE referral[h[d].team].status = "pending"
    <3> DEFINE verdict == Verdict(h[d].team, h[d].card)
               row == [h[d] EXCEPT !.pc = "enter", !.verdict = verdict]
    <3>1. verdict \in Verdicts
      BY VerdictTyped
    <3>2. Steps(d, row)
      BY <1>1, <2>3 DEF Judge
    <3> HIDE DEF verdict
    <3>3. row \in HandlerRow
      BY <1>0, <3>1 DEF HandlerRow, WithPayment
    <3>4. row.pc = "enter" /\ row.verdict = verdict /\ row.pay = h[d].pay /\ row.team = h[d].team
      BY <1>0 DEF HandlerRow
    <3>5. Equipped(row)
      BY <3>4, <3>1, <2>1 DEF Equipped
    <3> QED BY <3>2, <3>3, <3>5
  <2> QED BY <2>2, <2>3
<1>2. CASE Enter(d)
  <2>1. h[d].team \in Teams
    BY <1>0, <1>2 DEF Enter, Equipped, WithTeam
  <2>2. CASE h[d].verdict = "qualified"
    <3> DEFINE row == [Idle EXCEPT !.pc = "referee", !.team = h[d].team]
    <3>1. row \in HandlerRow
      BY <2>1, IdleTyped DEF HandlerRow, WithTeam
    <3>2. row.pc = "referee" /\ row.team = h[d].team
      BY IdleTyped DEF HandlerRow
    <3>3. Equipped(row)
      BY <3>2, <2>1 DEF Equipped, WithPayment
    <3>4. Steps(d, row)
      BY <1>2, <2>2 DEF Enter, TypeInv
    <3> QED BY <3>1, <3>3, <3>4
  <2>3. CASE h[d].verdict # "qualified"
    BY <1>2, <2>3, IdleTyped DEF Enter, TypeInv
  <2> QED BY <2>2, <2>3
<1>3. CASE GrantReferee(d)
  BY <1>3, IdleTyped DEF GrantReferee
<1>4. CASE OpenPage(d)
  BY <1>4, IdleTyped DEF OpenPage
<1>5. ASSUME NEW t \in Teams, ClaimPayout(d, t) PROVE Moved(d)
  <2> DEFINE row == [h[d] EXCEPT !.pc = "award", !.team = t, !.owed = ~referral[t].stamped]
  <2>1. row \in HandlerRow
    BY <1>0 DEF HandlerRow, WithTeam
  <2>2. row.pc = "award" /\ row.team = t
    BY <1>0 DEF HandlerRow
  <2>3. Equipped(row)
    BY <2>2 DEF Equipped, WithPayment
  <2>4. Steps(d, row)
    BY <1>5 DEF ClaimPayout
  <2> QED BY <2>1, <2>3, <2>4
<1>6. CASE Award(d)
  BY <1>6, IdleTyped DEF Award
<1>7. CASE Leave(d)
  BY <1>7, IdleTyped DEF Leave
<1> QED BY <1>1, <1>2, <1>3, <1>4, <1>5, <1>6, <1>7

LEMMA ReversalMoves ==
  ASSUME TypeInv, NEW d \in Handlers,
         (\E m \in Payments, amount \in Halves : DeliverReversal(d, m, amount)) \/ Reject(d) \/ Revoke(d)
  PROVE  Moved(d)
<1> USE DEF Moved, Steps
<1>0. h[d] \in HandlerRow /\ Equipped(h[d])
  BY DEF TypeInv
<1>1. ASSUME NEW m \in Payments, NEW amount \in Halves, DeliverReversal(d, m, amount) PROVE Moved(d)
  <2> DEFINE row == [Idle EXCEPT !.pc = "reject", !.pay = m, !.amount = amount]
  <2>1. row \in HandlerRow
    BY IdleTyped DEF HandlerRow, WithPayment
  <2>2. row.pc = "reject" /\ row.pay = m
    BY IdleTyped DEF HandlerRow
  <2>3. Equipped(row)
    BY <2>2 DEF Equipped, WithTeam
  <2>4. Steps(d, row)
    BY <1>1 DEF DeliverReversal
  <2> QED BY <2>1, <2>3, <2>4
<1>2. CASE Reject(d)
  <2>1. h[d].pay \in Payments
    BY <1>0, <1>2 DEF Reject, Equipped, WithPayment
  <2>2. CASE h[d].amount = 0
    BY <1>2, <2>2, IdleTyped DEF Reject, TypeInv
  <2>3. CASE h[d].amount # 0
    <3>1. Steps(d, [h[d] EXCEPT !.pc = "revoke"])
      BY <1>2, <2>3 DEF Reject, TypeInv
    <3> QED BY <3>1, <2>1, GotoTyped DEF WithPayment, WithTeam
  <2> QED BY <2>2, <2>3
<1>3. CASE Revoke(d)
  BY <1>3, IdleTyped DEF Revoke
<1> QED BY <1>1, <1>2, <1>3

-----------------------------------------------------------------------------
(* What a step does to the rows of the database.                           *)

OthersKept(t) == \A o \in Teams : o # t => referral'[o] = referral[o]
SameSides(t) ==
  /\ referral'[t].by = referral[t].by /\ referral'[t].stamped = referral[t].stamped
  /\ referral'[t].referee = referral[t].referee /\ referral'[t].referrer = referral[t].referrer

LEMMA RowReplaced ==
  ASSUME TypeInv, NEW t \in Teams, NEW row \in ReferralRow, referral' = [referral EXCEPT ![t] = row]
  PROVE  referral' \in [Teams -> ReferralRow] /\ OthersKept(t) /\ referral'[t] = row
BY DEF TypeInv, OthersKept

LEMMA EnterRows ==
  ASSUME TypeInv, NEW d \in Handlers, Enter(d)
  PROVE  /\ h[d].team \in Teams /\ h[d].verdict \in Verdicts
         /\ referral' \in [Teams -> ReferralRow]
         /\ OthersKept(h[d].team) /\ SameSides(h[d].team)
         /\ h[d].verdict = "pending" => referral' = referral
         /\ h[d].verdict # "pending" =>
              /\ referral'[h[d].team].status = h[d].verdict
              /\ referral'[h[d].team].card = h[d].card
<1> DEFINE t == h[d].team
           row == [referral[t] EXCEPT !.status = h[d].verdict, !.pay = h[d].pay, !.card = h[d].card]
<1>1. t \in Teams /\ h[d].verdict \in Verdicts /\ h[d] \in HandlerRow
  BY DEF TypeInv, Equipped, Enter, WithTeam
<1>2. referral[t] \in ReferralRow
  BY <1>1 DEF TypeInv
<1>3. CASE h[d].verdict = "pending"
  BY <1>1, <1>3 DEF Enter, TypeInv, OthersKept, SameSides
<1>4. CASE h[d].verdict # "pending"
  <2>1. row \in ReferralRow
    BY <1>1, <1>2 DEF HandlerRow, ReferralRow, Verdicts, Statuses, Earning
  <2>2. /\ row.status = h[d].verdict /\ row.card = h[d].card /\ row.by = referral[t].by
        /\ row.stamped = referral[t].stamped /\ row.referee = referral[t].referee
        /\ row.referrer = referral[t].referrer
    BY <1>2 DEF ReferralRow
  <2>3. referral' = [referral EXCEPT ![t] = row]
    BY <1>4 DEF Enter
  <2> HIDE DEF row
  <2>4. referral' \in [Teams -> ReferralRow] /\ OthersKept(t) /\ referral'[t] = row
    BY <2>1, <2>3, <1>1, RowReplaced
  <2> QED BY <2>2, <2>4, <1>1, <1>4 DEF SameSides
<1> QED BY <1>3, <1>4

LEMMA GrantRefereeRows ==
  ASSUME TypeInv, NEW d \in Handlers, GrantReferee(d)
  PROVE  /\ h[d].team \in Teams
         /\ referral' \in [Teams -> ReferralRow]
         /\ \/ referral' = referral
            \/ LET t == h[d].team IN
               /\ OthersKept(t)
               /\ OwesReferee(referral[t]) /\ referral'[t].stamped
               /\ referral'[t].referee = referral[t].referee + 1
               /\ referral'[t].by = referral[t].by /\ referral'[t].referrer = referral[t].referrer
               /\ referral'[t].status = referral[t].status /\ referral'[t].card = referral[t].card
<1> DEFINE t == h[d].team
           referee == referral[t].referee + 1
           row == [referral[t] EXCEPT !.stamped = TRUE, !.referee = referee]
<1>1. t \in Teams /\ referral[t] \in ReferralRow
  BY DEF TypeInv, Equipped, GrantReferee, WithTeam
<1>0. referee \in Nat
  BY <1>1 DEF ReferralRow
<1>2. CASE referral' = referral
  BY <1>1, <1>2 DEF TypeInv
<1>3. CASE referral' # referral
  <2>1. OwesReferee(referral[t]) /\ referral' = [referral EXCEPT ![t] = row]
    BY <1>3 DEF GrantReferee
  <2> HIDE DEF referee
  <2>2. row \in ReferralRow
    BY <1>0, <1>1 DEF ReferralRow
  <2>3. /\ row.stamped /\ row.referee = referee /\ row.by = referral[t].by
        /\ row.referrer = referral[t].referrer /\ row.status = referral[t].status
        /\ row.card = referral[t].card
    BY <1>1 DEF ReferralRow
  <2> HIDE DEF row
  <2>4. referral' \in [Teams -> ReferralRow] /\ OthersKept(t) /\ referral'[t] = row
    BY <2>1, <2>2, <1>1, RowReplaced
  <2> QED BY <2>1, <2>3, <2>4, <1>1 DEF referee
<1> QED BY <1>2, <1>3

LEMMA ClaimRows ==
  ASSUME TypeInv, NEW d \in Handlers, NEW t \in Teams, ClaimPayout(d, t)
  PROVE  /\ referral' \in [Teams -> ReferralRow] /\ OthersKept(t) /\ SameSides(t)
         /\ referral[t].status = "qualified" /\ referral'[t].status = "paid"
         /\ referral'[t].card = referral[t].card
<1> DEFINE row == [referral[t] EXCEPT !.status = "paid", !.due = FALSE]
<1>1. referral[t] \in ReferralRow
  BY DEF TypeInv
<1>2. referral' = [referral EXCEPT ![t] = row] /\ referral[t].status = "qualified"
  BY DEF ClaimPayout, Payable
<1>3. row \in ReferralRow
  BY <1>1 DEF ReferralRow, Statuses, Earning
<1>4. /\ row.status = "paid" /\ row.card = referral[t].card /\ row.by = referral[t].by
      /\ row.stamped = referral[t].stamped /\ row.referee = referral[t].referee
      /\ row.referrer = referral[t].referrer
  BY <1>1 DEF ReferralRow
<1> HIDE DEF row
<1>5. referral' \in [Teams -> ReferralRow] /\ OthersKept(t) /\ referral'[t] = row
  BY <1>2, <1>3, RowReplaced
<1> QED BY <1>2, <1>4, <1>5 DEF SameSides

LEMMA AwardRows ==
  ASSUME TypeInv, NEW d \in Handlers, Award(d)
  PROVE  LET t == h[d].team IN
         /\ t \in Teams /\ referral' \in [Teams -> ReferralRow] /\ OthersKept(t)
         /\ referral'[t].referrer = referral[t].referrer + 1
         /\ referral'[t].referee = IF h[d].owed THEN referral[t].referee + 1 ELSE referral[t].referee
         /\ referral'[t].stamped = (referral[t].stamped \/ h[d].owed)
         /\ referral'[t].by = referral[t].by /\ referral'[t].status = referral[t].status
         /\ referral'[t].card = referral[t].card
<1> DEFINE t == h[d].team
           referee == IF h[d].owed THEN referral[t].referee + 1 ELSE referral[t].referee
           referrer == referral[t].referrer + 1
           stamped == referral[t].stamped \/ h[d].owed
           row == [referral[t] EXCEPT !.referrer = referrer, !.referee = referee, !.stamped = stamped]
<1>1. t \in Teams /\ referral[t] \in ReferralRow
  BY DEF TypeInv, Equipped, Award, WithTeam
<1>2. referee \in Nat /\ referrer \in Nat /\ stamped \in BOOLEAN
  BY <1>1 DEF ReferralRow
<1>3. referral' = [referral EXCEPT ![t] = row]
  BY DEF Award
<1> HIDE DEF referee, referrer, stamped
<1>4. row \in ReferralRow
  BY <1>1, <1>2 DEF ReferralRow
<1>5. /\ row.status = referral[t].status /\ row.card = referral[t].card /\ row.by = referral[t].by
      /\ row.stamped = stamped /\ row.referee = referee /\ row.referrer = referrer
  BY <1>1 DEF ReferralRow
<1> HIDE DEF row
<1>6. referral' \in [Teams -> ReferralRow] /\ OthersKept(t) /\ referral'[t] = row
  BY <1>1, <1>3, <1>4, RowReplaced
<1> QED BY <1>1, <1>5, <1>6 DEF referee, referrer, stamped

LEMMA HoldRows ==
  ASSUME TypeInv, NEW t \in Teams, HoldEnds(t)
  PROVE  /\ referral' \in [Teams -> ReferralRow] /\ OthersKept(t) /\ SameSides(t)
         /\ referral'[t].status = referral[t].status /\ referral'[t].card = referral[t].card
<1> DEFINE row == [referral[t] EXCEPT !.due = TRUE]
<1>1. referral[t] \in ReferralRow
  BY DEF TypeInv
<1>2. referral' = [referral EXCEPT ![t] = row]
  BY DEF HoldEnds
<1>3. row \in ReferralRow
  BY <1>1 DEF ReferralRow
<1>4. /\ row.status = referral[t].status /\ row.card = referral[t].card /\ row.by = referral[t].by
      /\ row.stamped = referral[t].stamped /\ row.referee = referral[t].referee
      /\ row.referrer = referral[t].referrer
  BY <1>1 DEF ReferralRow
<1> HIDE DEF row
<1>5. referral' \in [Teams -> ReferralRow] /\ OthersKept(t) /\ referral'[t] = row
  BY <1>2, <1>3, RowReplaced
<1> QED BY <1>4, <1>5 DEF SameSides

LEMMA RejectRows ==
  ASSUME TypeInv, NEW d \in Handlers, Reject(d)
  PROVE  /\ referral' \in [Teams -> ReferralRow]
         /\ \A t \in Teams : /\ SameSides(t) /\ referral'[t].card = referral[t].card
                             /\ \/ referral'[t].status = referral[t].status
                                \/ referral[t].status = "qualified" /\ referral'[t].status = "rejected"
<1> DEFINE new(t) == [referral[t] EXCEPT !.status = "rejected", !.due = FALSE]
<1>1. \A t \in Teams : referral[t] \in ReferralRow
  BY DEF TypeInv
<1>2. ASSUME NEW t \in Teams
      PROVE  /\ new(t) \in ReferralRow
             /\ new(t).status = "rejected" /\ new(t).card = referral[t].card
             /\ new(t).by = referral[t].by /\ new(t).stamped = referral[t].stamped
             /\ new(t).referee = referral[t].referee /\ new(t).referrer = referral[t].referrer
  <2>0. referral[t] \in ReferralRow
    BY <1>1
  <2>1. new(t) \in ReferralRow
    BY <2>0 DEF ReferralRow, Statuses
  <2>2. /\ new(t).status = "rejected" /\ new(t).card = referral[t].card
        /\ new(t).by = referral[t].by /\ new(t).stamped = referral[t].stamped
        /\ new(t).referee = referral[t].referee /\ new(t).referrer = referral[t].referrer
    BY <2>0 DEF ReferralRow
  <2> QED BY <2>1, <2>2
<1>3. referral' = [t \in Teams |-> IF Rejectable(referral[t], h[d].pay) THEN new(t) ELSE referral[t]]
  BY DEF Reject
<1> HIDE DEF new
<1>4. referral' \in [Teams -> ReferralRow]
  BY <1>1, <1>2, <1>3
<1>5. \A t \in Teams : referral'[t] = IF Rejectable(referral[t], h[d].pay) THEN new(t) ELSE referral[t]
  BY <1>3
<1> QED BY <1>2, <1>4, <1>5 DEF SameSides, Rejectable

LEMMA GrantBlock ==
  ASSUME TypeInv, NEW d \in Handlers, GrantBonus(d)
  PROVE  /\ h[d].pay \in Payments /\ block' \in [Payments -> BlockRow]
         /\ \A m \in Payments : m # h[d].pay => block'[m] = block[m]
         /\ block'[h[d].pay].refunded = block[h[d].pay].refunded
         /\ block'[h[d].pay].bonuses = block[h[d].pay].bonuses + 1
         /\ block'[h[d].pay].revoked = block[h[d].pay].refunded
<1> DEFINE m == h[d].pay
           bonuses == block[m].bonuses + 1
           row == [block[m] EXCEPT !.bonuses = bonuses, !.revoked = block[m].refunded]
<1>1. m \in Payments /\ block[m] \in BlockRow
  BY DEF TypeInv, Equipped, GrantBonus, WithPayment
<1>2. block' = [block EXCEPT ![m] = row]
  BY DEF GrantBonus, Healed
<1>3. bonuses \in Nat /\ block[m].refunded \in Halves
  BY <1>1 DEF BlockRow
<1> HIDE DEF bonuses
<1>4. row \in BlockRow
  BY <1>1, <1>3 DEF BlockRow
<1>5. row.refunded = block[m].refunded /\ row.bonuses = bonuses /\ row.revoked = block[m].refunded
  BY <1>1 DEF BlockRow
<1> HIDE DEF row
<1>6. block' \in [Payments -> BlockRow] /\ block'[m] = row /\ \A o \in Payments : o # m => block'[o] = block[o]
  BY <1>1, <1>2, <1>4 DEF TypeInv
<1> QED BY <1>1, <1>5, <1>6 DEF bonuses

LEMMA RevokeBlock ==
  ASSUME TypeInv, NEW d \in Handlers, Revoke(d)
  PROVE  /\ h[d].pay \in Payments /\ block' \in [Payments -> BlockRow]
         /\ \A m \in Payments : m # h[d].pay => block'[m] = block[m]
         /\ \/ block' = block
            \/ LET m == h[d].pay IN
               /\ m \in credited
               /\ block'[m].bonuses = block[m].bonuses
               /\ block'[m].refunded = MaxOf(block[m].refunded, h[d].amount)
               /\ block'[m].revoked = IF block[m].bonuses = 0 THEN 0
                                      ELSE MaxOf(block[m].revoked, h[d].amount)
<1> DEFINE m == h[d].pay
           refunded == MaxOf(block[m].refunded, h[d].amount)
           revoked == IF block[m].bonuses = 0 THEN 0 ELSE MaxOf(block[m].revoked, h[d].amount)
           row == [block[m] EXCEPT !.refunded = refunded, !.revoked = revoked]
<1>1. m \in Payments /\ block[m] \in BlockRow /\ h[d] \in HandlerRow
  BY DEF TypeInv, Equipped, Revoke, WithPayment
<1>2. refunded \in Halves /\ revoked \in Halves
  <2>1. block[m].refunded \in 0..2 /\ block[m].revoked \in 0..2 /\ h[d].amount \in 0..2
    BY <1>1 DEF BlockRow, HandlerRow, Halves
  <2>2. \A x, y \in 0..2 : MaxOf(x, y) \in 0..2
    BY DEF MaxOf
  <2> QED BY <2>1, <2>2 DEF Halves
<1>3. CASE m \notin credited
  BY <1>1, <1>3 DEF Revoke, Known, TypeInv
<1>4. CASE m \in credited
  <2>1. block' = [block EXCEPT ![m] = row]
    BY <1>4 DEF Revoke, Known
  <2> HIDE DEF refunded, revoked
  <2>2. row \in BlockRow
    BY <1>1, <1>2 DEF BlockRow
  <2>3. row.refunded = refunded /\ row.bonuses = block[m].bonuses /\ row.revoked = revoked
    BY <1>1 DEF BlockRow
  <2> HIDE DEF row
  <2>4. block' \in [Payments -> BlockRow] /\ block'[m] = row /\ \A o \in Payments : o # m => block'[o] = block[o]
    BY <1>1, <2>1, <2>2 DEF TypeInv
  <2> QED BY <1>1, <1>4, <2>3, <2>4 DEF refunded, revoked
<1> QED BY <1>3, <1>4

LEMMA TypeInit == Init => TypeInv
<1> SUFFICES ASSUME Init PROVE TypeInv
  OBVIOUS
<1>1. credited \subseteq Payments /\ IsFiniteSet(credited)
  BY FS_EmptySet DEF Init
<1>3. refunds \in [Payments -> Halves]
  BY DEF Init, Halves
<1>4. [refunded |-> 0, bonuses |-> 0, revoked |-> 0] \in BlockRow
  BY DEF BlockRow, Halves
<1>5. block \in [Payments -> BlockRow]
  BY <1>4 DEF Init
<1> DEFINE Fresh == [by : Users, status : {"pending"}, due : {FALSE}, pay : {None},
                     card : {None}, stamped : {FALSE}, referee : {0}, referrer : {0}]
<1>6. ASSUME NEW r \in Fresh PROVE r \in ReferralRow
  <2>1. "pending" \in Statuses /\ None \in Fingerprints
    BY DEF Statuses, Fingerprints
  <2>2. r = [by |-> r.by, status |-> "pending", due |-> FALSE, pay |-> None, card |-> None,
             stamped |-> FALSE, referee |-> 0, referrer |-> 0] /\ r.by \in Users
    BY <1>6
  <2>3. [by |-> r.by, status |-> "pending", due |-> FALSE, pay |-> None, card |-> None,
         stamped |-> FALSE, referee |-> 0, referrer |-> 0] \in ReferralRow
    BY <2>1, <2>2 DEF ReferralRow
  <2> QED BY <2>2, <2>3
<1>7. referral \in [Teams -> ReferralRow]
  <2>1. referral \in [Teams -> Fresh]
    BY DEF Init
  <2> HIDE DEF Fresh
  <2> QED BY <2>1, <1>6
<1>2. suspended \subseteq Users
  <2>1. \A t \in Teams : referral[t].by \in Users
    BY <1>7 DEF ReferralRow
  <2> QED BY <2>1 DEF Init
<1>8. h \in [Handlers -> HandlerRow] /\ \A d \in Handlers : Equipped(h[d])
  BY IdleTyped DEF Init
<1> QED BY <1>1, <1>2, <1>3, <1>5, <1>7, <1>8 DEF TypeInv

LEMMA HandlersTyped ==
  ASSUME TypeInv, NEW d \in Handlers, Moved(d)
  PROVE  h' \in [Handlers -> HandlerRow] /\ (\A e \in Handlers : Equipped(h'[e]))
BY StepsTyped DEF Moved

LEMMA TypeHandle ==
  ASSUME TypeInv, NEW d \in Handlers, Handle(d)
  PROVE  TypeInv'
<1> DEFINE Rest == /\ credited' \subseteq Payments /\ IsFiniteSet(credited') /\ suspended' \subseteq Users
                   /\ refunds' \in [Payments -> Halves]
                   /\ block' \in [Payments -> BlockRow]
                   /\ referral' \in [Teams -> ReferralRow]
<1>1. Moved(d)
  BY BonusMoves, ReferralMoves, ReversalMoves DEF Handle
<1>2. Rest
  <2>1. ASSUME UNCHANGED <<credited, refunds, block, referral, suspended>> PROVE Rest
    BY <2>1 DEF TypeInv
  <2>2. CASE Credit(d)
    <3>1. h[d].pay \in Payments
      BY <2>2 DEF Credit, TypeInv, Equipped, WithPayment
    <3>2. credited' = credited \cup {h[d].pay} /\ UNCHANGED <<refunds, block, referral, suspended>>
      BY <2>2 DEF Credit
    <3>3. IsFiniteSet(credited')
      BY <3>2, FS_AddElement DEF TypeInv
    <3> QED BY <3>1, <3>2, <3>3 DEF TypeInv
  <2>3. CASE GrantBonus(d)
    <3>1. UNCHANGED <<credited, refunds, referral, suspended>>
      BY <2>3 DEF GrantBonus
    <3> QED BY <2>3, <3>1, GrantBlock DEF TypeInv
  <2>4. CASE Enter(d)
    <3>1. UNCHANGED <<credited, refunds, block, suspended>>
      BY <2>4 DEF Enter
    <3> QED BY <2>4, <3>1, EnterRows DEF TypeInv
  <2>5. CASE GrantReferee(d)
    <3>1. UNCHANGED <<credited, refunds, block, suspended>>
      BY <2>5 DEF GrantReferee
    <3> QED BY <2>5, <3>1, GrantRefereeRows DEF TypeInv
  <2>6. ASSUME NEW t \in Teams, ClaimPayout(d, t) PROVE Rest
    <3>1. UNCHANGED <<credited, refunds, block, suspended>>
      BY <2>6 DEF ClaimPayout
    <3> QED BY <2>6, <3>1, ClaimRows DEF TypeInv
  <2>7. CASE Award(d)
    <3>1. UNCHANGED <<credited, refunds, block, suspended>>
      BY <2>7 DEF Award
    <3> QED BY <2>7, <3>1, AwardRows DEF TypeInv
  <2>8. CASE Reject(d)
    <3>1. UNCHANGED <<credited, refunds, block, suspended>>
      BY <2>8 DEF Reject
    <3> QED BY <2>8, <3>1, RejectRows DEF TypeInv
  <2>9. CASE Revoke(d)
    <3>1. UNCHANGED <<credited, refunds, referral, suspended>>
      BY <2>9 DEF Revoke
    <3> QED BY <2>9, <3>1, RevokeBlock DEF TypeInv
  <2>10. CASE \E m \in Payments : Deliver(d, m, Card[m]) \/ Deliver(d, m, None)
    BY <2>10, <2>1 DEF Deliver
  <2>11. CASE LockBonus(d) \/ BonusFails(d) \/ Judge(d) \/ OpenPage(d) \/ Leave(d)
    BY <2>11, <2>1 DEF LockBonus, BonusFails, Judge, OpenPage, Leave
  <2>12. CASE \E m \in Payments, amount \in Halves : DeliverReversal(d, m, amount)
    BY <2>12, <2>1 DEF DeliverReversal
  <2> HIDE DEF Rest
  <2> QED BY <2>2, <2>3, <2>4, <2>5, <2>6, <2>7, <2>8, <2>9, <2>10, <2>11, <2>12 DEF Handle
<1>3. h' \in [Handlers -> HandlerRow] /\ (\A e \in Handlers : Equipped(h'[e]))
  BY <1>1, HandlersTyped
<1>4. (\A e \in Handlers : Equipped(h[e]))' <=> \A e \in Handlers : Equipped(h'[e])
  BY DEF Equipped
<1> QED BY <1>2, <1>3, <1>4 DEF TypeInv

LEMMA TypeStep == TypeInv /\ [Next]_vars => TypeInv'
<1> SUFFICES ASSUME TypeInv, [Next]_vars PROVE TypeInv'
  OBVIOUS
<1>1. ASSUME UNCHANGED h PROVE (\A e \in Handlers : Equipped(h[e]))'
  BY <1>1 DEF TypeInv, Equipped
<1>2. ASSUME NEW d \in Handlers, Handle(d) PROVE TypeInv'
  BY <1>2, TypeHandle
<1>3. ASSUME NEW t \in Teams, HoldEnds(t) PROVE TypeInv'
  <2>1. UNCHANGED <<credited, refunds, block, suspended, h>>
    BY <1>3 DEF HoldEnds
  <2> QED BY <1>1, <1>3, <2>1, HoldRows DEF TypeInv
<1>4. ASSUME NEW m \in Payments, RefundAtStripe(m) PROVE TypeInv'
  <2>1. refunds[m] + 1 \in Halves
    <3>1. refunds[m] \in 0..2 /\ Partials[m] \in 0..2 /\ refunds[m] < Partials[m]
      BY <1>4, RewardsAssumption DEF RefundAtStripe, TypeInv, Halves
    <3> QED BY <3>1 DEF Halves
  <2>2. UNCHANGED <<credited, block, referral, suspended, h>> /\ refunds' = [refunds EXCEPT ![m] = @ + 1]
    BY <1>4 DEF RefundAtStripe
  <2>3. refunds' \in [Payments -> Halves]
    BY <2>1, <2>2 DEF TypeInv
  <2> QED BY <1>1, <2>2, <2>3 DEF TypeInv
<1>5. CASE UNCHANGED vars
  BY <1>5, <1>1 DEF vars, TypeInv
<1> QED BY <1>2, <1>3, <1>4, <1>5 DEF Next

-----------------------------------------------------------------------------
(* The bonus. *)

LEMMA BonusInit == Init => BonusInv
<1> SUFFICES ASSUME Init PROVE BonusInv
  OBVIOUS
<1>1. \A m \in Payments : BlockWithin(m) /\ BonusOnce(m)
  BY DEF Init, BlockWithin, BonusOnce
<1>2. \A d \in Handlers : h[d].pc = "idle"
  BY DEF Init, Idle
<1> QED BY <1>1, <1>2 DEF BonusInv, Granting, Reversing

(* Where a step of one handler leaves the bonus and the refunds alone,     *)
(* only what is said of that handler is left to show.                      *)
LEMMA BonusAside ==
  ASSUME TypeInv, BonusInv, NEW d \in Handlers, NEW row, Steps(d, row),
         UNCHANGED <<refunds, block>>, credited \subseteq credited',
         row.pc \notin {"grant", "reject", "revoke"},
         row.pc = "bonus" => row.pay \in credited'
  PROVE  BonusInv'
<1>1. h'[d] = row /\ \A e \in Handlers : e # d => h'[e] = h[e]
  BY StepsOthers
<1>2. (\A m \in Payments : BlockWithin(m) /\ BonusOnce(m))'
  BY DEF BonusInv, BlockWithin, BonusOnce
<1>3. \A e \in Handlers : h'[e].pc \in {"bonus", "grant"} => h'[e].pay \in credited'
  BY <1>1 DEF BonusInv
<1>4. \A e \in Handlers : h'[e].pc \in {"grant", "reject", "revoke"} => e # d
  BY <1>1
<1>5. (\A e \in Handlers : Reversing(e) => h[e].amount <= refunds[h[e].pay])'
  BY <1>1, <1>4 DEF BonusInv, Reversing
<1>6. (\A e \in Handlers : Granting(e) => block[h[e].pay].bonuses = 0)'
  BY <1>1, <1>4 DEF BonusInv, Granting
<1>7. (\A e, f \in Handlers : Granting(e) /\ Granting(f) /\ h[e].pay = h[f].pay => e = f)'
  BY <1>1, <1>4 DEF BonusInv, Granting
<1> QED BY <1>2, <1>3, <1>5, <1>6, <1>7 DEF BonusInv

LEMMA AfterBonusAside == ASSUME TypeInv, NEW d \in Handlers PROVE AfterBonus(d).pc \in {"judge", "sweep"}
<1>1. h[d] \in HandlerRow
  BY DEF TypeInv
<1>2. Sweeping.pc = "sweep"
  BY DEF Sweeping, Idle
<1> QED BY <1>1, <1>2 DEF AfterBonus, HandlerRow

(* The lock of the block: nobody else is between its question and its      *)
(* grant.                                                                  *)
LEMMA BonusLock == ASSUME TypeInv, BonusInv, NEW d \in Handlers, LockBonus(d) PROVE BonusInv'
<1>0. h[d] \in HandlerRow /\ h[d].pay \in Payments /\ h[d].pay \in credited /\ block[h[d].pay] \in BlockRow
  BY DEF TypeInv, BonusInv, LockBonus, Equipped, WithPayment
<1>1. UNCHANGED <<credited, refunds, block>>
  BY DEF LockBonus
<1>2. CASE block[h[d].pay].bonuses > 0
  <2>1. Steps(d, AfterBonus(d))
    BY <1>2 DEF LockBonus, Steps
  <2> QED BY <2>1, <1>1, AfterBonusAside, BonusAside
<1>3. CASE ~(block[h[d].pay].bonuses > 0)
  <2> DEFINE row == [h[d] EXCEPT !.pc = "grant"]
  <2>1. Steps(d, row)
    BY <1>3 DEF LockBonus, Steps, Goto
  <2>2. row.pc = "grant" /\ row.pay = h[d].pay
    BY <1>0 DEF HandlerRow
  <2> HIDE DEF row
  <2>3. h'[d] = row /\ \A e \in Handlers : e # d => h'[e] = h[e]
    BY <2>1, StepsOthers
  <2>4. block[h[d].pay].bonuses = 0
    BY <1>0, <1>3 DEF BlockRow
  <2>5. \A e \in Handlers : e # d => ~(h[e].pc = "grant" /\ h[e].pay = h[d].pay)
    BY DEF LockBonus, BlockFree
  <2>6. (\A m \in Payments : BlockWithin(m) /\ BonusOnce(m))'
    BY <1>1 DEF BonusInv, BlockWithin, BonusOnce
  <2>7. (\A e \in Handlers : h[e].pc \in {"bonus", "grant"} => h[e].pay \in credited)'
    BY <1>0, <1>1, <2>2, <2>3 DEF BonusInv
  <2>8. (\A e \in Handlers : Reversing(e) => h[e].amount <= refunds[h[e].pay])'
    BY <1>1, <2>2, <2>3 DEF BonusInv, Reversing
  <2>9. (\A e \in Handlers : Granting(e) => block[h[e].pay].bonuses = 0)'
    BY <1>1, <2>2, <2>3, <2>4 DEF BonusInv, Granting
  <2>10. (\A e, f \in Handlers : Granting(e) /\ Granting(f) /\ h[e].pay = h[f].pay => e = f)'
    BY <2>2, <2>3, <2>5 DEF BonusInv, Granting
  <2> QED BY <2>6, <2>7, <2>8, <2>9, <2>10 DEF BonusInv
<1> QED BY <1>2, <1>3

(* Granted under the lock: the payment had no bonus, and gets one that is  *)
(* revoked as far as it was refunded.                                      *)
LEMMA BonusGrant == ASSUME TypeInv, BonusInv, NEW d \in Handlers, GrantBonus(d) PROVE BonusInv'
<1> DEFINE m == h[d].pay
<1>1. UNCHANGED <<credited, refunds>> /\ Steps(d, AfterBonus(d)) /\ Granting(d)
  BY DEF GrantBonus, Steps, Granting
<1>2. /\ m \in Payments /\ m \in credited /\ block[m].bonuses = 0
      /\ \A o \in Payments : o # m => block'[o] = block[o]
      /\ block'[m].refunded = block[m].refunded /\ block'[m].bonuses = 1
      /\ block'[m].revoked = block[m].refunded
  BY <1>1, GrantBlock DEF BonusInv, Granting
<1>3. h'[d] = AfterBonus(d) /\ \A e \in Handlers : e # d => h'[e] = h[e]
  BY <1>1, StepsOthers
<1>4. h'[d].pc \in {"judge", "sweep"}
  BY <1>3, AfterBonusAside
<1>5. \A e \in Handlers : h'[e].pc \in {"bonus", "grant", "reject", "revoke"} => h'[e] = h[e] /\ e # d
  BY <1>3, <1>4
<1>6. (\A o \in Payments : BlockWithin(o) /\ BonusOnce(o))'
  <2> SUFFICES ASSUME NEW o \in Payments PROVE (BlockWithin(o) /\ BonusOnce(o))'
    OBVIOUS
  <2>1. CASE o = m
    BY <1>1, <1>2, <2>1 DEF BonusInv, BlockWithin, BonusOnce
  <2>2. CASE o # m
    BY <1>1, <1>2, <2>2 DEF BonusInv, BlockWithin, BonusOnce
  <2> QED BY <2>1, <2>2
<1>7. (\A e \in Handlers : h[e].pc \in {"bonus", "grant"} => h[e].pay \in credited)'
  BY <1>1, <1>5 DEF BonusInv
<1>8. (\A e \in Handlers : Reversing(e) => h[e].amount <= refunds[h[e].pay])'
  BY <1>1, <1>5 DEF BonusInv, Reversing
<1>9. (\A e \in Handlers : Granting(e) => block[h[e].pay].bonuses = 0)'
  <2> SUFFICES ASSUME NEW e \in Handlers, h'[e].pc = "grant" PROVE block'[h'[e].pay].bonuses = 0
    BY DEF Granting
  <2>1. h'[e] = h[e] /\ e # d /\ Granting(e)
    BY <1>5 DEF Granting
  <2>2. h[e].pay # m
    BY <1>1, <2>1 DEF BonusInv
  <2>3. h[e].pay \in Payments
    BY <2>1 DEF TypeInv, Equipped, Granting, WithPayment
  <2> QED BY <1>2, <2>1, <2>2, <2>3 DEF BonusInv
<1>10. (\A e, f \in Handlers : Granting(e) /\ Granting(f) /\ h[e].pay = h[f].pay => e = f)'
  BY <1>5 DEF BonusInv, Granting
<1> QED BY <1>6, <1>7, <1>8, <1>9, <1>10 DEF BonusInv

(* A refund event lowers nothing: it records a total that Stripe has, and  *)
(* the bonus follows it.                                                   *)
LEMMA BonusRevoke == ASSUME TypeInv, BonusInv, NEW d \in Handlers, Revoke(d) PROVE BonusInv'
<1> DEFINE m == h[d].pay
<1>1. UNCHANGED <<credited, refunds>> /\ Steps(d, Idle) /\ Reversing(d)
  BY DEF Revoke, Steps, Reversing
<1>0. h'[d] = Idle /\ \A e \in Handlers : e # d => h'[e] = h[e]
  BY <1>1, StepsOthers
<1> DEFINE idle == Idle
<1>2. h'[d].pc = "idle" /\ \A e \in Handlers : e # d => h'[e] = h[e]
  <2>1. idle.pc = "idle"
    BY DEF Idle
  <2>2. h'[d] = idle
    BY <1>0
  <2> HIDE DEF idle
  <2> QED BY <1>0, <2>1, <2>2
<1>3. m \in Payments /\ h[d].amount <= refunds[m] /\ h[d].amount \in Halves /\ refunds[m] \in Halves
  BY <1>1, RevokeBlock DEF BonusInv, TypeInv, HandlerRow
<1>4. \A o \in Payments : block'[o].bonuses = block[o].bonuses
  BY RevokeBlock
<1>5. (\A o \in Payments : BlockWithin(o) /\ BonusOnce(o))'
  <2> SUFFICES ASSUME NEW o \in Payments PROVE (BlockWithin(o) /\ BonusOnce(o))'
    OBVIOUS
  <2>1. CASE o # m \/ block' = block
    <3>1. block'[o] = block[o]
      BY <2>1, RevokeBlock
    <3> QED BY <1>1, <3>1 DEF BonusInv, BlockWithin, BonusOnce
  <2>2. CASE o = m /\ block' # block
    <3>1. /\ m \in credited
          /\ block'[m].bonuses = block[m].bonuses
          /\ block'[m].refunded = MaxOf(block[m].refunded, h[d].amount)
          /\ block'[m].revoked = IF block[m].bonuses = 0 THEN 0 ELSE MaxOf(block[m].revoked, h[d].amount)
      BY <2>2, RevokeBlock
    <3>2. /\ block[m].refunded <= refunds[m] /\ block[m].bonuses <= 1
          /\ block[m].bonuses = 1 => block[m].revoked = block[m].refunded
      BY <1>3 DEF BonusInv, BlockWithin, BonusOnce
    <3>3. block[m].refunded \in Int /\ refunds[m] \in Int /\ h[d].amount \in Int /\ block[m].bonuses \in Nat
      BY <1>3 DEF TypeInv, BlockRow, Halves
    <3>4. block'[m].refunded <= refunds[m]
      BY <1>3, <3>1, <3>2, <3>3 DEF MaxOf
    <3>5. block'[m].bonuses = 1 => block'[m].revoked = block'[m].refunded
      BY <3>1, <3>2
    <3> QED BY <1>1, <2>2, <3>1, <3>2, <3>4, <3>5 DEF BlockWithin, BonusOnce
  <2> QED BY <2>1, <2>2
<1>6. (\A e \in Handlers : h[e].pc \in {"bonus", "grant"} => h[e].pay \in credited)'
  BY <1>1, <1>2 DEF BonusInv
<1>7. (\A e \in Handlers : Reversing(e) => h[e].amount <= refunds[h[e].pay])'
  BY <1>1, <1>2 DEF BonusInv, Reversing
<1>8. (\A e \in Handlers : Granting(e) => block[h[e].pay].bonuses = 0)'
  <2> SUFFICES ASSUME NEW e \in Handlers, h'[e].pc = "grant" PROVE block'[h'[e].pay].bonuses = 0
    BY DEF Granting
  <2>1. h'[e] = h[e] /\ Granting(e) /\ h[e].pay \in Payments
    BY <1>2 DEF Granting, TypeInv, Equipped, WithPayment
  <2> QED BY <1>4, <2>1 DEF BonusInv
<1>9. (\A e, f \in Handlers : Granting(e) /\ Granting(f) /\ h[e].pay = h[f].pay => e = f)'
  BY <1>2 DEF BonusInv, Granting
<1> QED BY <1>5, <1>6, <1>7, <1>8, <1>9 DEF BonusInv

LEMMA BonusReversal ==
  ASSUME TypeInv, BonusInv, NEW d \in Handlers,
         (\E m \in Payments, amount \in Halves : DeliverReversal(d, m, amount)) \/ Reject(d)
  PROVE  BonusInv'
<1>1. UNCHANGED <<credited, refunds, block>>
  BY DEF DeliverReversal, Reject
<1>2. PICK row : /\ Steps(d, row) /\ row.pc \notin {"bonus", "grant"}
                 /\ row.pc \in {"reject", "revoke"} => row.amount <= refunds[row.pay]
  <2>1. ASSUME NEW m \in Payments, NEW amount \in Halves, DeliverReversal(d, m, amount)
        PROVE  \E row : /\ Steps(d, row) /\ row.pc \notin {"bonus", "grant"}
                        /\ row.pc \in {"reject", "revoke"} => row.amount <= refunds[row.pay]
    <3> DEFINE new == [Idle EXCEPT !.pc = "reject", !.pay = m, !.amount = amount]
    <3>1. Steps(d, new) /\ amount <= refunds[m]
      BY <2>1 DEF DeliverReversal, Steps
    <3>2. new.pc = "reject" /\ new.pay = m /\ new.amount = amount
      BY DEF Idle
    <3> HIDE DEF new
    <3> QED BY <3>1, <3>2
  <2>2. CASE Reject(d)
    <3>1. h[d] \in HandlerRow /\ h[d].amount <= refunds[h[d].pay]
      BY <2>2 DEF TypeInv, BonusInv, Reject, Reversing
    <3>2. CASE h[d].amount = 0
      BY ZenonT(60), <2>2, <3>1, <3>2 DEF Reject, Steps, TypeInv, Idle
    <3>3. CASE h[d].amount # 0
      <4> DEFINE new == [h[d] EXCEPT !.pc = "revoke"]
      <4>1. Steps(d, new)
        BY <2>2, <3>3 DEF Reject, Steps, TypeInv
      <4>2. new.pc = "revoke" /\ new.pay = h[d].pay /\ new.amount = h[d].amount
        BY <3>1 DEF HandlerRow
      <4> HIDE DEF new
      <4> QED BY <3>1, <4>1, <4>2
    <3> QED BY <3>2, <3>3
  <2> QED BY <2>1, <2>2
<1>3. h'[d] = row /\ \A e \in Handlers : e # d => h'[e] = h[e]
  BY <1>2, StepsOthers
<1>4. (\A m \in Payments : BlockWithin(m) /\ BonusOnce(m))'
  BY <1>1 DEF BonusInv, BlockWithin, BonusOnce
<1>5. (\A e \in Handlers : h[e].pc \in {"bonus", "grant"} => h[e].pay \in credited)'
  BY <1>1, <1>2, <1>3 DEF BonusInv
<1>6. (\A e \in Handlers : Reversing(e) => h[e].amount <= refunds[h[e].pay])'
  BY <1>1, <1>2, <1>3 DEF BonusInv, Reversing
<1>7. (\A e \in Handlers : Granting(e) => block[h[e].pay].bonuses = 0)'
  BY <1>1, <1>2, <1>3 DEF BonusInv, Granting
<1>8. (\A e, f \in Handlers : Granting(e) /\ Granting(f) /\ h[e].pay = h[f].pay => e = f)'
  BY <1>2, <1>3 DEF BonusInv, Granting
<1> QED BY <1>4, <1>5, <1>6, <1>7, <1>8 DEF BonusInv

(* Every other step of a handler.                                          *)
LEMMA BonusElsewhere ==
  ASSUME TypeInv, BonusInv, NEW d \in Handlers,
         \/ \E m \in Payments : Deliver(d, m, Card[m]) \/ Deliver(d, m, None)
         \/ Credit(d) \/ BonusFails(d) \/ Judge(d) \/ Enter(d) \/ GrantReferee(d)
         \/ OpenPage(d) \/ (\E t \in Teams : ClaimPayout(d, t)) \/ Award(d) \/ Leave(d)
  PROVE  BonusInv'
<1>0. h[d] \in HandlerRow /\ Sweeping.pc = "sweep" /\ Idle.pc = "idle"
  BY DEF TypeInv, Sweeping, Idle
<1>1. UNCHANGED <<refunds, block>> /\ credited \subseteq credited'
  BY DEF Deliver, Credit, BonusFails, Judge, Enter, GrantReferee, OpenPage, ClaimPayout, Award, Leave
<1> DEFINE Aside == \E row : /\ Steps(d, row) /\ row.pc \notin {"grant", "reject", "revoke"}
                             /\ row.pc = "bonus" => row.pay \in credited'
<1>2. ASSUME NEW m, NEW card, Deliver(d, m, card) PROVE Aside
  <2> DEFINE new == [Idle EXCEPT !.pc = "credit", !.pay = m, !.card = card,
                                 !.team = Payer[m], !.fresh = m \notin credited]
  <2>1. Steps(d, new)
    BY <1>2 DEF Deliver, Steps
  <2>2. new.pc = "credit"
    BY DEF Idle
  <2> HIDE DEF new
  <2> QED BY <2>1, <2>2
<1>3. ASSUME Credit(d) PROVE Aside
  <2>1. CASE h[d].pay \in Bonused
    <3>1. Steps(d, [h[d] EXCEPT !.pc = "bonus"]) /\ h[d].pay \in credited'
      BY <1>3, <2>1 DEF Credit, Goto, Steps
    <3>2. [h[d] EXCEPT !.pc = "bonus"].pc = "bonus" /\ [h[d] EXCEPT !.pc = "bonus"].pay = h[d].pay
      BY <1>0 DEF HandlerRow
    <3> QED BY <3>1, <3>2
  <2>2. CASE h[d].pay \notin Bonused
    <3>1. Steps(d, AfterBonus(d))
      BY <1>3, <2>2 DEF Credit, Steps
    <3> QED BY <3>1, AfterBonusAside
  <2> QED BY <2>1, <2>2
<1>4. ASSUME BonusFails(d) PROVE Aside
  <2>1. Steps(d, AfterBonus(d))
    BY <1>4 DEF BonusFails, Steps
  <2> QED BY <2>1, AfterBonusAside
<1>5. ASSUME Judge(d) PROVE Aside
  <2>1. CASE referral[h[d].team].status # "pending"
    <3>1. Steps(d, Sweeping)
      BY <1>5, <2>1 DEF Judge, Steps
    <3> QED BY <1>0, <3>1
  <2>2. CASE referral[h[d].team].status = "pending"
    <3> DEFINE verdict == Verdict(h[d].team, h[d].card)
               new == [h[d] EXCEPT !.pc = "enter", !.verdict = verdict]
    <3>1. Steps(d, new)
      BY <1>5, <2>2 DEF Judge, Steps
    <3> HIDE DEF verdict
    <3>2. new.pc = "enter"
      BY <1>0 DEF HandlerRow
    <3> HIDE DEF new
    <3> QED BY <3>1, <3>2
  <2> QED BY <2>1, <2>2
<1>6. ASSUME Enter(d) PROVE Aside
  <2>1. CASE h[d].verdict = "qualified"
    <3> DEFINE new == [Idle EXCEPT !.pc = "referee", !.team = h[d].team]
    <3>1. Steps(d, new)
      BY <1>6, <2>1 DEF Enter, Steps, TypeInv
    <3>2. new.pc = "referee"
      BY DEF Idle
    <3> HIDE DEF new
    <3> QED BY <3>1, <3>2
  <2>2. CASE h[d].verdict # "qualified"
    <3>1. Steps(d, Sweeping)
      BY <1>6, <2>2 DEF Enter, Steps, TypeInv
    <3> QED BY <1>0, <3>1
  <2> QED BY <2>1, <2>2
<1>7. ASSUME GrantReferee(d) \/ OpenPage(d) \/ Award(d) PROVE Aside
  <2>1. Steps(d, Sweeping)
    BY <1>7 DEF GrantReferee, OpenPage, Award, Steps
  <2> QED BY <1>0, <2>1
<1>8. ASSUME NEW t, ClaimPayout(d, t) PROVE Aside
  <2> DEFINE new == [h[d] EXCEPT !.pc = "award", !.team = t, !.owed = ~referral[t].stamped]
  <2>1. Steps(d, new)
    BY <1>8 DEF ClaimPayout, Steps
  <2>2. new.pc = "award"
    BY <1>0 DEF HandlerRow
  <2> HIDE DEF new
  <2> QED BY <2>1, <2>2
<1>9. ASSUME Leave(d) PROVE Aside
  <2>1. Steps(d, Idle)
    BY <1>9 DEF Leave, Steps
  <2> QED BY <1>0, <2>1
<1>10. Aside
  <2> HIDE DEF Aside
  <2> QED BY <1>2, <1>3, <1>4, <1>5, <1>6, <1>7, <1>8, <1>9
<1> QED BY <1>1, <1>10, BonusAside

LEMMA BonusStep == TypeInv /\ BonusInv /\ [Next]_vars => BonusInv'
<1> SUFFICES ASSUME TypeInv, BonusInv, [Next]_vars PROVE BonusInv'
  OBVIOUS
<1>1. ASSUME NEW d \in Handlers, Handle(d) PROVE BonusInv'
  BY <1>1, BonusLock, BonusGrant, BonusRevoke, BonusReversal, BonusElsewhere DEF Handle
<1>2. ASSUME UNCHANGED <<credited, refunds, block, h>> PROVE BonusInv'
  BY <1>2 DEF BonusInv, BlockWithin, BonusOnce, Granting, Reversing
<1>3. ASSUME NEW t \in Teams, HoldEnds(t) PROVE BonusInv'
  BY <1>3, <1>2 DEF HoldEnds
<1>4. ASSUME NEW m \in Payments, RefundAtStripe(m) PROVE BonusInv'
  <2>1. UNCHANGED <<credited, block, h>> /\ refunds' = [refunds EXCEPT ![m] = @ + 1]
    BY <1>4 DEF RefundAtStripe
  <2>2. \A o \in Payments : refunds[o] \in Nat /\ refunds'[o] \in Nat /\ refunds[o] <= refunds'[o]
    BY <2>1 DEF TypeInv, Halves
  <2>3. \A o \in Payments : block[o].refunded \in Nat
    BY DEF TypeInv, BlockRow, Halves
  <2>4. (\A o \in Payments : BlockWithin(o) /\ BonusOnce(o))'
    BY <2>1, <2>2, <2>3 DEF BonusInv, BlockWithin, BonusOnce
  <2>5. (\A e \in Handlers : Reversing(e) => h[e].amount <= refunds[h[e].pay])'
    <3> SUFFICES ASSUME NEW e \in Handlers, Reversing(e)
                 PROVE  h[e].amount <= refunds'[h[e].pay]
      BY <2>1 DEF Reversing
    <3>1. h[e].pay \in Payments /\ h[e].amount \in Nat
      <4>1. h[e] \in HandlerRow /\ Equipped(h[e])
        BY DEF TypeInv
      <4>2. h[e].amount \in 0..2
        BY <4>1 DEF HandlerRow, Halves
      <4> QED BY <4>1, <4>2 DEF Equipped, Reversing, WithPayment
    <3> QED BY <2>2, <3>1 DEF BonusInv
  <2> QED BY <2>1, <2>4, <2>5 DEF BonusInv, Granting
<1>5. CASE UNCHANGED vars
  BY <1>5, <1>2 DEF vars
<1> QED BY <1>1, <1>3, <1>4, <1>5 DEF Next

-----------------------------------------------------------------------------
(* Which steps lead to a judged referral or to a claimed payout. *)

LEMMA PlainRow ==
  ASSUME TypeInv, NEW d \in Handlers,
         \/ \E m \in Payments : Deliver(d, m, Card[m]) \/ Deliver(d, m, None)
         \/ Credit(d) \/ LockBonus(d) \/ GrantBonus(d) \/ BonusFails(d)
         \/ Enter(d) \/ GrantReferee(d) \/ OpenPage(d) \/ Award(d) \/ Leave(d)
         \/ (\E m \in Payments, amount \in Halves : DeliverReversal(d, m, amount))
         \/ Reject(d) \/ Revoke(d)
  PROVE  h'[d].pc \notin {"enter", "award"} /\ \A e \in Handlers : e # d => h'[e] = h[e]
<1> DEFINE Plain == \E row : Steps(d, row) /\ row.pc \notin {"enter", "award"}
<1>0. h[d] \in HandlerRow /\ Sweeping.pc = "sweep" /\ Idle.pc = "idle"
  BY DEF TypeInv, Sweeping, Idle
<1>1. ASSUME NEW m, NEW card, Deliver(d, m, card) PROVE Plain
  <2> DEFINE new == [Idle EXCEPT !.pc = "credit", !.pay = m, !.card = card,
                                 !.team = Payer[m], !.fresh = m \notin credited]
  <2>1. Steps(d, new)
    BY <1>1 DEF Deliver, Steps
  <2>2. new.pc = "credit"
    BY DEF Idle
  <2> HIDE DEF new
  <2> QED BY <2>1, <2>2
<1>2. ASSUME Credit(d) PROVE Plain
  <2>1. CASE h[d].pay \in Bonused
    <3>1. Steps(d, [h[d] EXCEPT !.pc = "bonus"])
      BY <1>2, <2>1 DEF Credit, Goto, Steps
    <3>2. [h[d] EXCEPT !.pc = "bonus"].pc = "bonus"
      BY <1>0 DEF HandlerRow
    <3> QED BY <3>1, <3>2
  <2>2. CASE h[d].pay \notin Bonused
    <3>1. Steps(d, AfterBonus(d))
      BY <1>2, <2>2 DEF Credit, Steps
    <3> QED BY <3>1, AfterBonusAside
  <2> QED BY <2>1, <2>2
<1>3. ASSUME LockBonus(d) PROVE Plain
  <2>1. CASE block[h[d].pay].bonuses > 0
    <3>1. Steps(d, AfterBonus(d))
      BY <1>3, <2>1 DEF LockBonus, Steps
    <3> QED BY <3>1, AfterBonusAside
  <2>2. CASE ~(block[h[d].pay].bonuses > 0)
    <3>1. Steps(d, [h[d] EXCEPT !.pc = "grant"])
      BY <1>3, <2>2 DEF LockBonus, Goto, Steps
    <3>2. [h[d] EXCEPT !.pc = "grant"].pc = "grant"
      BY <1>0 DEF HandlerRow
    <3> QED BY <3>1, <3>2
  <2> QED BY <2>1, <2>2
<1>4. ASSUME GrantBonus(d) \/ BonusFails(d) PROVE Plain
  <2>1. Steps(d, AfterBonus(d))
    BY <1>4 DEF GrantBonus, BonusFails, Steps
  <2> QED BY <2>1, AfterBonusAside
<1>5. ASSUME Enter(d) PROVE Plain
  <2>1. CASE h[d].verdict = "qualified"
    <3> DEFINE new == [Idle EXCEPT !.pc = "referee", !.team = h[d].team]
    <3>1. Steps(d, new)
      BY <1>5, <2>1 DEF Enter, Steps, TypeInv
    <3>2. new.pc = "referee"
      BY DEF Idle
    <3> HIDE DEF new
    <3> QED BY <3>1, <3>2
  <2>2. CASE h[d].verdict # "qualified"
    <3>1. Steps(d, Sweeping)
      BY <1>5, <2>2 DEF Enter, Steps, TypeInv
    <3> QED BY <1>0, <3>1
  <2> QED BY <2>1, <2>2
<1>6. ASSUME GrantReferee(d) \/ OpenPage(d) \/ Award(d) PROVE Plain
  <2>1. Steps(d, Sweeping)
    BY <1>6 DEF GrantReferee, OpenPage, Award, Steps
  <2> QED BY <1>0, <2>1
<1>7. ASSUME Leave(d) \/ Revoke(d) PROVE Plain
  <2>1. Steps(d, Idle)
    BY <1>7 DEF Leave, Revoke, Steps
  <2> QED BY <1>0, <2>1
<1>8. ASSUME NEW m, NEW amount, DeliverReversal(d, m, amount) PROVE Plain
  <2> DEFINE new == [Idle EXCEPT !.pc = "reject", !.pay = m, !.amount = amount]
  <2>1. Steps(d, new)
    BY <1>8 DEF DeliverReversal, Steps
  <2>2. new.pc = "reject"
    BY DEF Idle
  <2> HIDE DEF new
  <2> QED BY <2>1, <2>2
<1>9. ASSUME Reject(d) PROVE Plain
  <2>1. CASE h[d].amount = 0
    <3>1. Steps(d, Idle)
      BY <1>9, <2>1 DEF Reject, Steps, TypeInv
    <3> QED BY <1>0, <3>1
  <2>2. CASE h[d].amount # 0
    <3>1. Steps(d, [h[d] EXCEPT !.pc = "revoke"])
      BY <1>9, <2>2 DEF Reject, Steps, TypeInv
    <3>2. [h[d] EXCEPT !.pc = "revoke"].pc = "revoke"
      BY <1>0 DEF HandlerRow
    <3> QED BY <3>1, <3>2
  <2> QED BY <2>1, <2>2
<1>10. Plain
  <2> HIDE DEF Plain
  <2> QED BY <1>1, <1>2, <1>3, <1>4, <1>5, <1>6, <1>7, <1>8, <1>9
<1> QED BY <1>10, StepsOthers

LEMMA JudgeRow ==
  ASSUME TypeInv, NEW d \in Handlers, Judge(d), referral[h[d].team].status = "pending"
  PROVE  /\ h'[d].pc = "enter" /\ h'[d].team = h[d].team /\ h'[d].card = h[d].card
         /\ h'[d].verdict = Verdict(h[d].team, h[d].card)
         /\ h[d].team \in Teams /\ h[d].card \in Fingerprints
         /\ \A e \in Handlers : e # d => h'[e] = h[e]
<1> DEFINE verdict == Verdict(h[d].team, h[d].card)
           new == [h[d] EXCEPT !.pc = "enter", !.verdict = verdict]
<1>1. h[d] \in HandlerRow /\ h[d].team \in Teams
  BY DEF TypeInv, Equipped, Judge, WithTeam
<1>2. Steps(d, new)
  BY DEF Judge, Steps
<1> HIDE DEF verdict
<1>3. new.pc = "enter" /\ new.team = h[d].team /\ new.card = h[d].card /\ new.verdict = verdict
  BY <1>1 DEF HandlerRow
<1> HIDE DEF new
<1>4. h'[d] = new /\ \A e \in Handlers : e # d => h'[e] = h[e]
  BY <1>2, StepsOthers
<1>5. h[d].card \in Fingerprints
  BY <1>1 DEF HandlerRow
<1> QED BY <1>1, <1>3, <1>4, <1>5 DEF verdict

LEMMA SettledRow ==
  ASSUME TypeInv, NEW d \in Handlers, Judge(d), referral[h[d].team].status # "pending"
  PROVE  h'[d].pc = "sweep" /\ \A e \in Handlers : e # d => h'[e] = h[e]
<1>1. Steps(d, Sweeping)
  BY DEF Judge, Steps
<1>2. Sweeping.pc = "sweep"
  BY DEF Sweeping, Idle
<1> QED BY <1>1, <1>2, StepsOthers

LEMMA ClaimRow ==
  ASSUME TypeInv, NEW d \in Handlers, NEW t \in Teams, ClaimPayout(d, t)
  PROVE  /\ h'[d].pc = "award" /\ h'[d].team = t /\ h'[d].owed = ~referral[t].stamped
         /\ \A e \in Handlers : e # d => h'[e] = h[e]
<1> DEFINE owed == ~referral[t].stamped
           new == [h[d] EXCEPT !.pc = "award", !.team = t, !.owed = owed]
<1>1. h[d] \in HandlerRow
  BY DEF TypeInv
<1>2. Steps(d, new)
  BY DEF ClaimPayout, Steps
<1> HIDE DEF owed
<1>3. new.pc = "award" /\ new.team = t /\ new.owed = owed
  BY <1>1 DEF HandlerRow
<1> HIDE DEF new
<1>4. h'[d] = new /\ \A e \in Handlers : e # d => h'[e] = h[e]
  BY <1>2, StepsOthers
<1> QED BY <1>3, <1>4 DEF owed

-----------------------------------------------------------------------------
(* The payouts. *)

LEMMA PayoutInit == Init => PayoutInv
<1> SUFFICES ASSUME Init PROVE PayoutInv
  OBVIOUS
<1>1. \A t \in Teams : Unpaid(t)
  <2> SUFFICES ASSUME NEW t \in Teams PROVE Unpaid(t)
    OBVIOUS
  <2>1. referral[t] \in [by : Users, status : {"pending"}, due : {FALSE}, pay : {None}, card : {None},
                          stamped : {FALSE}, referee : {0}, referrer : {0}]
    BY DEF Init
  <2>2. referral[t].referee = 0 /\ referral[t].referrer = 0
    BY <2>1
  <2> QED BY <2>2 DEF Unpaid
<1>2. \A d \in Handlers : h[d].pc = "idle"
  BY DEF Init, Idle
<1> QED BY <1>1, <1>2 DEF PayoutInv, Claimed

(* A step that pays nobody and claims nothing.                             *)
PaidAlike(t) ==
  /\ referral'[t].stamped = referral[t].stamped
  /\ referral'[t].referee = referral[t].referee /\ referral'[t].referrer = referral[t].referrer
  /\ (referral'[t].status = "paid") <=> (referral[t].status = "paid")

LEMMA PayoutAside ==
  ASSUME TypeInv, PayoutInv, NEW d \in Handlers, h'[d].pc # "award",
         \A e \in Handlers : e # d => h'[e] = h[e],
         \A t \in Teams : PaidAlike(t)
  PROVE  PayoutInv'
<1>1. (\A t \in Teams : Unpaid(t))'
  BY DEF PayoutInv, Unpaid, PaidAlike
<1>2. (\A e \in Handlers : Claimed(e))'
  <2> SUFFICES ASSUME NEW e \in Handlers, h'[e].pc = "award" PROVE Claimed(e)'
    BY DEF Claimed
  <2>1. h'[e] = h[e] /\ Claimed(e)
    BY DEF PayoutInv
  <2>2. h[e].team \in Teams
    BY <2>1 DEF TypeInv, Equipped, WithTeam
  <2>3. PaidAlike(h[e].team)
    BY <2>2
  <2> QED BY <2>1, <2>3 DEF Claimed, PaidAlike
<1>3. (\A e, f \in Handlers : h[e].pc = "award" /\ h[f].pc = "award" /\ h[e].team = h[f].team => e = f)'
  BY DEF PayoutInv
<1> QED BY <1>1, <1>2, <1>3 DEF PayoutInv

(* The referee's instant grant: only with the stamp, and not while a       *)
(* payout of the same referral is claimed.                                 *)
LEMMA PayoutGrant == ASSUME TypeInv, PayoutInv, NEW d \in Handlers, GrantReferee(d) PROVE PayoutInv'
<1> DEFINE t == h[d].team
<1>1. h'[d].pc # "award" /\ \A e \in Handlers : e # d => h'[e] = h[e]
  BY PlainRow
<1>2. CASE referral' = referral
  BY <1>1, <1>2, PayoutAside DEF PaidAlike
<1>3. CASE referral' # referral
  <2>1. /\ t \in Teams /\ OthersKept(t)
        /\ OwesReferee(referral[t]) /\ referral'[t].stamped
        /\ referral'[t].referee = referral[t].referee + 1
        /\ referral'[t].referrer = referral[t].referrer /\ referral'[t].status = referral[t].status
    BY <1>3, GrantRefereeRows
  <2>2. (\A o \in Teams : Unpaid(o))'
    <3> SUFFICES ASSUME NEW o \in Teams PROVE Unpaid(o)'
      OBVIOUS
    <3>1. Unpaid(o)
      BY DEF PayoutInv
    <3>2. CASE o = t
      BY <2>1, <3>1, <3>2 DEF Unpaid, OwesReferee
    <3>3. CASE o # t
      BY <2>1, <3>1, <3>3 DEF Unpaid, OthersKept
    <3> QED BY <3>2, <3>3
  <2>3. (\A e \in Handlers : Claimed(e))'
    <3> SUFFICES ASSUME NEW e \in Handlers, h'[e].pc = "award" PROVE Claimed(e)'
      BY DEF Claimed
    <3>1. h'[e] = h[e] /\ Claimed(e) /\ h[e].team \in Teams
      BY <1>1 DEF PayoutInv, TypeInv, Equipped, WithTeam
    <3>2. h[e].team # t
      BY <2>1, <3>1 DEF Claimed, OwesReferee
    <3> QED BY <2>1, <3>1, <3>2 DEF Claimed, OthersKept
  <2>4. (\A e, f \in Handlers : h[e].pc = "award" /\ h[f].pc = "award" /\ h[e].team = h[f].team => e = f)'
    BY <1>1 DEF PayoutInv
  <2> QED BY <2>2, <2>3, <2>4 DEF PayoutInv
<1> QED BY <1>2, <1>3

(* The claim is committed before the money moves: no second sweep sees the *)
(* referral as one that is due.                                            *)
LEMMA PayoutClaim ==
  ASSUME TypeInv, PayoutInv, NEW d \in Handlers, NEW t \in Teams, ClaimPayout(d, t)
  PROVE  PayoutInv'
<1>1. /\ h'[d].pc = "award" /\ h'[d].team = t /\ h'[d].owed = ~referral[t].stamped
      /\ \A e \in Handlers : e # d => h'[e] = h[e]
  BY ClaimRow
<1>2. /\ OthersKept(t) /\ SameSides(t)
      /\ referral[t].status = "qualified" /\ referral'[t].status = "paid"
  BY ClaimRows
<1>3. Unpaid(t) /\ referral[t].referrer = 0
  BY <1>2 DEF PayoutInv, Unpaid
<1>4. (\A o \in Teams : Unpaid(o))'
  <2> SUFFICES ASSUME NEW o \in Teams PROVE Unpaid(o)'
    OBVIOUS
  <2>1. Unpaid(o)
    BY DEF PayoutInv
  <2>2. CASE o = t
    BY <1>2, <1>3, <2>2 DEF Unpaid, SameSides
  <2>3. CASE o # t
    BY <1>2, <2>1, <2>3 DEF Unpaid, OthersKept
  <2> QED BY <2>2, <2>3
<1>5. \A e \in Handlers : e # d /\ h[e].pc = "award" => h[e].team \in Teams /\ h[e].team # t
  <2> SUFFICES ASSUME NEW e \in Handlers, h[e].pc = "award" PROVE h[e].team \in Teams /\ h[e].team # t
    OBVIOUS
  <2>1. h[e].team \in Teams /\ Claimed(e)
    BY DEF TypeInv, Equipped, WithTeam, PayoutInv
  <2> QED BY <1>2, <2>1 DEF Claimed
<1>6. (\A e \in Handlers : Claimed(e))'
  <2> SUFFICES ASSUME NEW e \in Handlers, h'[e].pc = "award" PROVE Claimed(e)'
    BY DEF Claimed
  <2>1. CASE e = d
    BY <1>1, <1>2, <1>3, <2>1 DEF Claimed, SameSides
  <2>2. CASE e # d
    <3>1. h'[e] = h[e] /\ Claimed(e) /\ h[e].team \in Teams /\ h[e].team # t
      BY <1>1, <1>5, <2>2 DEF PayoutInv
    <3> QED BY <1>2, <3>1 DEF Claimed, OthersKept
  <2> QED BY <2>1, <2>2
<1>7. (\A e, f \in Handlers : h[e].pc = "award" /\ h[f].pc = "award" /\ h[e].team = h[f].team => e = f)'
  BY <1>1, <1>5 DEF PayoutInv
<1> QED BY <1>4, <1>6, <1>7 DEF PayoutInv

LEMMA PayoutAward == ASSUME TypeInv, PayoutInv, NEW d \in Handlers, Award(d) PROVE PayoutInv'
<1> DEFINE t == h[d].team
<1>1. h[d].pc = "award" /\ h'[d].pc # "award" /\ \A e \in Handlers : e # d => h'[e] = h[e]
  BY PlainRow DEF Award
<1>2. /\ t \in Teams /\ OthersKept(t)
      /\ referral'[t].referrer = referral[t].referrer + 1
      /\ referral'[t].referee = IF h[d].owed THEN referral[t].referee + 1 ELSE referral[t].referee
      /\ referral'[t].stamped = (referral[t].stamped \/ h[d].owed)
      /\ referral'[t].status = referral[t].status
  BY AwardRows
<1>3. /\ referral[t].status = "paid" /\ referral[t].referrer = 0 /\ Unpaid(t)
      /\ h[d].owed <=> ~referral[t].stamped
  BY <1>1, <1>2 DEF PayoutInv, Claimed
<1>4. ASSUME NEW o \in Teams, o = t PROVE Unpaid(o)'
  <2>1. referral'[o].referrer = 1 /\ Unpaid(o) /\ referral'[o].status = "paid"
    BY <1>2, <1>3, <1>4
  <2>2. CASE h[d].owed
    <3>1. referral'[o].stamped /\ ~referral[o].stamped
      BY <1>2, <1>3, <1>4, <2>2
    <3>2. referral'[o].referee = 1
      BY <1>2, <1>4, <2>1, <2>2, <3>1 DEF Unpaid
    <3> QED BY <2>1, <3>1, <3>2 DEF Unpaid
  <2>3. CASE ~h[d].owed
    <3>1. referral'[o].stamped /\ referral[o].stamped
      BY <1>2, <1>3, <1>4, <2>3
    <3>2. referral'[o].referee = referral[o].referee
      BY <1>2, <1>4, <2>3
    <3> QED BY <2>1, <3>1, <3>2 DEF Unpaid
  <2> QED BY <2>2, <2>3
<1>5. (\A o \in Teams : Unpaid(o))'
  <2> SUFFICES ASSUME NEW o \in Teams, o # t PROVE Unpaid(o)'
    BY <1>4
  <2> QED BY <1>2 DEF PayoutInv, Unpaid, OthersKept
<1>6. (\A e \in Handlers : Claimed(e))'
  <2> SUFFICES ASSUME NEW e \in Handlers, h'[e].pc = "award" PROVE Claimed(e)'
    BY DEF Claimed
  <2>1. h'[e] = h[e] /\ Claimed(e) /\ h[e].team \in Teams
    BY <1>1 DEF PayoutInv, TypeInv, Equipped, WithTeam
  <2>2. h[e].team # t
    BY <1>1, <2>1 DEF PayoutInv
  <2> QED BY <1>2, <2>1, <2>2 DEF Claimed, OthersKept
<1>7. (\A e, f \in Handlers : h[e].pc = "award" /\ h[f].pc = "award" /\ h[e].team = h[f].team => e = f)'
  BY <1>1 DEF PayoutInv
<1> QED BY <1>5, <1>6, <1>7 DEF PayoutInv

LEMMA PayoutStep == TypeInv /\ PayoutInv /\ VerdictInv /\ [Next]_vars => PayoutInv'
<1> SUFFICES ASSUME TypeInv, PayoutInv, VerdictInv, [Next]_vars PROVE PayoutInv'
  OBVIOUS
<1>1. ASSUME NEW d \in Handlers, h'[d].pc # "award", \A e \in Handlers : e # d => h'[e] = h[e],
             UNCHANGED referral
      PROVE  PayoutInv'
  BY <1>1, PayoutAside DEF PaidAlike
<1>2. ASSUME NEW d \in Handlers, Handle(d) PROVE PayoutInv'
  <2>1. CASE \E m \in Payments : Deliver(d, m, Card[m]) \/ Deliver(d, m, None)
    BY <2>1, <1>1, PlainRow DEF Deliver
  <2>2. CASE Credit(d) \/ LockBonus(d) \/ GrantBonus(d) \/ BonusFails(d) \/ OpenPage(d) \/ Leave(d) \/ Revoke(d)
    <3>1. UNCHANGED referral
      BY <2>2 DEF Credit, LockBonus, GrantBonus, BonusFails, OpenPage, Leave, Revoke
    <3> QED BY <2>2, <3>1, <1>1, PlainRow
  <2>3. CASE \E m \in Payments, amount \in Halves : DeliverReversal(d, m, amount)
    BY <2>3, <1>1, PlainRow DEF DeliverReversal
  <2>4. CASE Judge(d)
    <3>1. UNCHANGED referral
      BY <2>4 DEF Judge
    <3>2. CASE referral[h[d].team].status = "pending"
      BY <2>4, <3>1, <3>2, <1>1, JudgeRow
    <3>3. CASE referral[h[d].team].status # "pending"
      BY <2>4, <3>1, <3>3, <1>1, SettledRow
    <3> QED BY <3>2, <3>3
  <2>5. CASE Enter(d)
    <3>1. /\ h[d].team \in Teams /\ h[d].verdict \in Verdicts
          /\ OthersKept(h[d].team) /\ SameSides(h[d].team)
          /\ h[d].verdict = "pending" => referral' = referral
          /\ h[d].verdict # "pending" => referral'[h[d].team].status = h[d].verdict
      BY <2>5, EnterRows
    <3>2. referral[h[d].team].status = "pending"
      BY <2>5 DEF VerdictInv, Standing, Judging, Enter
    <3>3. ASSUME NEW t \in Teams PROVE PaidAlike(t)
      <4>1. CASE t = h[d].team
        BY <3>1, <3>2, <4>1 DEF PaidAlike, SameSides, Verdicts
      <4>2. CASE t # h[d].team
        BY <3>1, <4>2 DEF PaidAlike, OthersKept
      <4> QED BY <4>1, <4>2
    <3> QED BY <2>5, <3>3, PlainRow, PayoutAside
  <2>6. CASE Reject(d)
    <3>1. \A t \in Teams : PaidAlike(t)
      BY <2>6, RejectRows DEF PaidAlike, SameSides
    <3> QED BY <2>6, <3>1, PlainRow, PayoutAside
  <2> QED BY <1>2, <2>1, <2>2, <2>3, <2>4, <2>5, <2>6, PayoutGrant, PayoutClaim, PayoutAward DEF Handle
<1>3. ASSUME NEW t \in Teams, HoldEnds(t) PROVE PayoutInv'
  <2>1. UNCHANGED h
    BY <1>3 DEF HoldEnds
  <2>2. \A o \in Teams : PaidAlike(o)
    <3>1. OthersKept(t) /\ SameSides(t) /\ referral'[t].status = referral[t].status
      BY <1>3, HoldRows
    <3> QED BY <3>1 DEF PaidAlike, SameSides, OthersKept
  <2>3. \A o \in Teams : Unpaid(o)'
    BY <2>2 DEF PayoutInv, Unpaid, PaidAlike
  <2>4. ASSUME NEW e \in Handlers PROVE Claimed(e)'
    <3>1. Claimed(e) /\ (h[e].pc = "award" => h[e].team \in Teams)
      BY DEF PayoutInv, TypeInv, Equipped, WithTeam
    <3> QED BY <2>1, <2>2, <3>1 DEF Claimed, PaidAlike
  <2> QED BY <2>1, <2>3, <2>4 DEF PayoutInv
<1>4. ASSUME UNCHANGED <<referral, h>> PROVE PayoutInv'
  BY <1>4 DEF PayoutInv, Unpaid, Claimed
<1>5. ASSUME NEW m \in Payments, RefundAtStripe(m) PROVE PayoutInv'
  BY <1>4, <1>5 DEF RefundAtStripe
<1>6. CASE UNCHANGED vars
  BY <1>4, <1>6 DEF vars
<1> QED BY <1>2, <1>3, <1>5, <1>6 DEF Next

-----------------------------------------------------------------------------
(* The verdicts. *)

LEMMA VerdictInit == Init => VerdictInv
<1> SUFFICES ASSUME Init PROVE VerdictInv
  OBVIOUS
<1>1. \A t \in Teams : ~Earns(t)
  <2> SUFFICES ASSUME NEW t \in Teams PROVE ~Earns(t)
    OBVIOUS
  <2>1. referral[t] \in [by : Users, status : {"pending"}, due : {FALSE}, pay : {None}, card : {None},
                          stamped : {FALSE}, referee : {0}, referrer : {0}]
    BY DEF Init
  <2>2. referral[t].status = "pending"
    BY <2>1
  <2> QED BY <2>2 DEF Earns, Earning
<1>2. \A user \in Users : EarnedBy(user) = {}
  BY <1>1 DEF EarnedBy
<1>3. \A user \in Users : WithinCap(user)
  BY <1>2, FS_EmptySet, RewardsAssumption DEF WithinCap
<1>4. \A d \in Handlers : h[d].pc = "idle"
  BY DEF Init, Idle
<1> QED BY <1>1, <1>3, <1>4 DEF VerdictInv, Standing, Judging

(* What a referral that qualifies was found to be.                         *)
LEMMA QualifiedMeans ==
  ASSUME TypeInv, VerdictInv, NEW t \in Teams, NEW card,
         referral[t].status = "pending", Verdict(t, card) = "qualified"
  PROVE  /\ card # None => \A o \in Teams : Earns(o) => referral[o].card # card
         /\ Cardinality(EarnedBy(referral[t].by)) < ReferralCap
<1> DEFINE by == referral[t].by
           purchases == {m \in credited : Payer[m] = t}
           clash == card # None /\ \E o \in Rivals(t) : referral[o].card = card
           earned == {o \in Rivals(t) : referral[o].by = by}
<1>1. Cardinality(purchases) \in Nat /\ Need \in Nat /\ ReferralCap \in Nat
  BY FS_Subset, FS_CardinalityType, RewardsAssumption DEF TypeInv
<1>2. Rivals(t) = {o \in Teams : Earns(o)}
  BY DEF Rivals, Earns, Earning
<1>3. earned = EarnedBy(by)
  BY <1>2 DEF EarnedBy
<1>4. by \in Users
  BY DEF TypeInv, ReferralRow
<1>5. Cardinality(EarnedBy(by)) \in Nat
  BY <1>4, FS_CardinalityType DEF VerdictInv, WithinCap
<1> HIDE DEF purchases, clash, earned
<1>6. ~(Cardinality(purchases) < Need)
  BY <1>1 DEF Verdict, purchases, clash, earned
<1>7. Cardinality(purchases) >= Need
  BY <1>1, <1>6
<1>8. ~(by \in suspended \/ clash)
  BY <1>6, <1>7 DEF Verdict, purchases, clash, earned
<1>9. ~(Cardinality(earned) >= ReferralCap)
  BY <1>6, <1>7, <1>8 DEF Verdict, purchases, clash, earned
<1>10. Cardinality(EarnedBy(by)) < ReferralCap
  BY <1>1, <1>3, <1>5, <1>9
<1>11. card # None => \A o \in Teams : Earns(o) => referral[o].card # card
  BY <1>2, <1>8 DEF clash
<1> QED BY <1>10, <1>11

(* Fewer referrals that earn, with the cards and referrers they had.       *)
NoNewEarner(t) ==
  /\ referral'[t].by = referral[t].by
  /\ referral'[t].status \in Earning => Earns(t) /\ referral'[t].card = referral[t].card

LEMMA FewerEarners ==
  ASSUME VerdictInv, \A t \in Teams : NoNewEarner(t), NEW user \in Users
  PROVE  /\ EarnedBy(user)' \subseteq EarnedBy(user)
         /\ IsFiniteSet(EarnedBy(user)')
         /\ Cardinality(EarnedBy(user)') <= Cardinality(EarnedBy(user))
<1>1. EarnedBy(user)' \subseteq EarnedBy(user)
  BY DEF EarnedBy, NoNewEarner, Earns
<1>2. IsFiniteSet(EarnedBy(user))
  BY DEF VerdictInv, WithinCap
<1> QED BY <1>1, <1>2, FS_Subset

LEMMA VerdictAside ==
  ASSUME TypeInv, VerdictInv, NEW d \in Handlers, h'[d].pc # "enter",
         \A e \in Handlers : e # d => h'[e] = h[e],
         \A t \in Teams : NoNewEarner(t),
         \A e \in Handlers : e # d /\ Judging(e) => referral'[h[e].team].status = "pending"
  PROVE  VerdictInv'
<1>1. (\A t, o \in Teams : Earns(t) /\ Earns(o) /\ referral[t].card = referral[o].card
                             /\ referral[t].card # None => t = o)'
  BY DEF VerdictInv, Earns, NoNewEarner
<1>2. (\A user \in Users : WithinCap(user))'
  <2> SUFFICES ASSUME NEW user \in Users PROVE WithinCap(user)'
    OBVIOUS
  <2>1. IsFiniteSet(EarnedBy(user)') /\ Cardinality(EarnedBy(user)') <= Cardinality(EarnedBy(user))
    BY FewerEarners
  <2>2. IsFiniteSet(EarnedBy(user)) /\ Cardinality(EarnedBy(user)) <= ReferralCap
    BY DEF VerdictInv, WithinCap
  <2>3. Cardinality(EarnedBy(user)') \in Nat /\ Cardinality(EarnedBy(user)) \in Nat /\ ReferralCap \in Nat
    BY <2>1, <2>2, FS_CardinalityType, RewardsAssumption
  <2>4. Cardinality(EarnedBy(user)') <= ReferralCap
    BY <2>1, <2>2, <2>3
  <2> QED BY <2>1, <2>4 DEF WithinCap
<1>3. (\A e \in Handlers : Standing(e))'
  <2> SUFFICES ASSUME NEW e \in Handlers, h'[e].pc = "enter" PROVE Standing(e)'
    BY DEF Standing, Judging
  <2>1. h'[e] = h[e] /\ e # d /\ Judging(e) /\ Standing(e)
    BY DEF VerdictInv, Judging
  <2>2. h[e].team \in Teams /\ referral[h[e].team].by \in Users
    BY <2>1 DEF TypeInv, ReferralRow, Equipped, WithTeam, Judging
  <2>3. referral'[h'[e].team].status = "pending" /\ referral'[h[e].team].by = referral[h[e].team].by
    BY <2>1, <2>2 DEF NoNewEarner
  <2>4. ASSUME h[e].verdict = "qualified"
        PROVE  /\ h[e].card # None => \A o \in Teams : Earns(o)' => referral'[o].card # h[e].card
               /\ Cardinality(EarnedBy(referral[h[e].team].by)') < ReferralCap
    <3>1. /\ h[e].card # None => \A o \in Teams : Earns(o) => referral[o].card # h[e].card
          /\ Cardinality(EarnedBy(referral[h[e].team].by)) < ReferralCap
      BY <2>1, <2>4 DEF Standing
    <3>2. h[e].card # None => \A o \in Teams : referral'[o].status \in Earning => referral'[o].card # h[e].card
      BY <3>1 DEF NoNewEarner
    <3>3. ASSUME NEW user \in Users, Cardinality(EarnedBy(user)) < ReferralCap
          PROVE  Cardinality(EarnedBy(user)') < ReferralCap
      <4>1. IsFiniteSet(EarnedBy(user)') /\ Cardinality(EarnedBy(user)') <= Cardinality(EarnedBy(user))
        BY FewerEarners
      <4>2. IsFiniteSet(EarnedBy(user))
        BY DEF VerdictInv, WithinCap
      <4>3. Cardinality(EarnedBy(user)') \in Nat /\ Cardinality(EarnedBy(user)) \in Nat /\ ReferralCap \in Nat
        BY <4>1, <4>2, FS_CardinalityType, RewardsAssumption
      <4> QED BY <3>3, <4>1, <4>3
    <3>4. \A user \in Users : user = referral[h[e].team].by => Cardinality(EarnedBy(user)') < ReferralCap
      BY <3>1, <3>3
    <3>5. /\ h[e].card # None => \A o \in Teams : Earns(o)' => referral'[o].card # h[e].card
      BY <3>2 DEF Earns
    <3>6. referral'[h'[e].team].by = referral[h[e].team].by
      BY <2>1, <2>3
    <3>7. Cardinality(EarnedBy(referral[h[e].team].by)') < ReferralCap
      BY <2>2, <3>4, <3>6 DEF EarnedBy
    <3> QED BY <3>5, <3>7
  <2> QED BY <2>1, <2>3, <2>4 DEF Standing
<1>4. (\A e, f \in Handlers : Judging(e) /\ Judging(f) /\ e # f => JudgedApart(e, f))'
  <2> SUFFICES ASSUME NEW e \in Handlers, NEW f \in Handlers, h'[e].pc = "enter", h'[f].pc = "enter", e # f
               PROVE  JudgedApart(e, f)'
    BY DEF Judging
  <2>1. h'[e] = h[e] /\ h'[f] = h[f] /\ Judging(e) /\ Judging(f)
    BY DEF Judging
  <2>2. JudgedApart(e, f) /\ h[e].team \in Teams /\ h[f].team \in Teams
    BY <2>1 DEF VerdictInv, TypeInv, Equipped, WithTeam, Judging
  <2> QED BY <2>1, <2>2 DEF JudgedApart, NoNewEarner
<1> QED BY <1>1, <1>2, <1>3, <1>4 DEF VerdictInv

(* The judgement: under the locks of the referrer and of the card, so that *)
(* nobody who stands judged shares either.                                 *)
LEMMA VerdictJudge ==
  ASSUME TypeInv, VerdictInv, NEW d \in Handlers, Judge(d), referral[h[d].team].status = "pending"
  PROVE  VerdictInv'
<1> DEFINE t == h[d].team
<1>1. /\ h'[d].pc = "enter" /\ h'[d].team = h[d].team /\ h'[d].card = h[d].card
      /\ h'[d].verdict = Verdict(h[d].team, h[d].card)
      /\ h[d].team \in Teams
      /\ \A e \in Handlers : e # d => h'[e] = h[e]
  BY JudgeRow
<1>2. UNCHANGED referral /\ JudgeFree(d, referral[h[d].team].by, h[d].card)
  BY DEF Judge
<1>3. \A e \in Handlers : e # d /\ Judging(e) =>
        referral[h[e].team].by # referral[h[d].team].by /\ (h[d].card = None \/ h[e].card # h[d].card)
  BY <1>2 DEF JudgeFree, Judging
<1>4. (\A o, u \in Teams : Earns(o) /\ Earns(u) /\ referral[o].card = referral[u].card
                             /\ referral[o].card # None => o = u)'
  BY <1>2 DEF VerdictInv, Earns
<1>5. \A user : EarnedBy(user)' = EarnedBy(user)
  BY <1>2 DEF EarnedBy, Earns
<1>6. (\A user \in Users : WithinCap(user))'
  <2> SUFFICES ASSUME NEW user \in Users PROVE WithinCap(user)'
    OBVIOUS
  <2> QED BY <1>5 DEF VerdictInv, WithinCap
<1>7. (\A e \in Handlers : Standing(e))'
  <2> SUFFICES ASSUME NEW e \in Handlers PROVE Standing(e)'
    OBVIOUS
  <2>1. CASE e # d
    <3>1. h'[e] = h[e] /\ Standing(e)
      BY <1>1, <2>1 DEF VerdictInv
    <3> QED BY <1>2, <3>1 DEF Standing, Judging, Earns, EarnedBy
  <2>2. CASE e = d
    <3>1. h'[e].verdict = "qualified" =>
            /\ h[d].card # None => \A o \in Teams : Earns(o) => referral[o].card # h[d].card
            /\ Cardinality(EarnedBy(referral[h[d].team].by)) < ReferralCap
      BY <1>1, <2>2, QualifiedMeans
    <3> QED BY <1>1, <1>2, <2>2, <3>1 DEF Standing, Judging, Earns, EarnedBy
  <2> QED BY <2>1, <2>2
<1>8. (\A e, f \in Handlers : Judging(e) /\ Judging(f) /\ e # f => JudgedApart(e, f))'
  <2> SUFFICES ASSUME NEW e \in Handlers, NEW f \in Handlers, h'[e].pc = "enter", h'[f].pc = "enter", e # f
               PROVE  JudgedApart(e, f)'
    BY DEF Judging
  <2>1. \A g \in Handlers : g # d /\ h'[g].pc = "enter" => h'[g] = h[g] /\ Judging(g)
    BY <1>1 DEF Judging
  <2>2. CASE e # d /\ f # d
    <3>1. h'[e] = h[e] /\ h'[f] = h[f] /\ JudgedApart(e, f)
      BY <2>1, <2>2 DEF VerdictInv
    <3> QED BY <1>2, <3>1 DEF JudgedApart
  <2>3. CASE e = d
    <3>1. /\ h'[f] = h[f] /\ referral[h[f].team].by # referral[h[d].team].by
          /\ h[d].card = None \/ h[f].card # h[d].card
      BY <1>3, <2>1, <2>3
    <3> QED BY <1>1, <1>2, <2>3, <3>1 DEF JudgedApart
  <2>4. CASE f = d
    <3>1. /\ h'[e] = h[e] /\ referral[h[e].team].by # referral[h[d].team].by
          /\ h[d].card = None \/ h[e].card # h[d].card
      BY <1>3, <2>1, <2>4
    <3> QED BY <1>1, <1>2, <2>4, <3>1 DEF JudgedApart
  <2> QED BY <2>2, <2>3, <2>4
<1> QED BY <1>4, <1>6, <1>7, <1>8 DEF VerdictInv

(* The entry of a verdict that qualifies: it is still true, so that the    *)
(* team's card is its own and its referrer has room.                       *)
LEMMA VerdictEnter ==
  ASSUME TypeInv, VerdictInv, NEW d \in Handlers, Enter(d), h[d].verdict = "qualified"
  PROVE  VerdictInv'
<1>1. PICK t \in Teams : t = h[d].team
  BY EnterRows
<1>2. PICK by \in Users : by = referral[t].by
  BY <1>1 DEF TypeInv, ReferralRow
<1>3. h'[d].pc # "enter" /\ \A e \in Handlers : e # d => h'[e] = h[e]
  BY PlainRow
<1>4. /\ OthersKept(t) /\ SameSides(t)
      /\ referral'[t].status = "qualified" /\ referral'[t].card = h[d].card
  BY <1>1, EnterRows
<1>5. Judging(d)
  BY DEF Enter, Judging
<1>6. /\ referral[t].status = "pending"
      /\ h[d].card # None => \A o \in Teams : Earns(o) => referral[o].card # h[d].card
      /\ Cardinality(EarnedBy(by)) < ReferralCap
  BY <1>1, <1>2, <1>5 DEF VerdictInv, Standing
<1>7. \A e \in Handlers : e # d /\ Judging(e) =>
        /\ h[e].team \in Teams /\ h[e].team # t /\ referral[h[e].team].by # by
        /\ h[e].card = None \/ h[e].card # h[d].card
  <2> SUFFICES ASSUME NEW e \in Handlers, e # d, Judging(e)
               PROVE  /\ h[e].team \in Teams /\ h[e].team # t /\ referral[h[e].team].by # by
                      /\ h[e].card = None \/ h[e].card # h[d].card
    OBVIOUS
  <2>1. JudgedApart(e, d) /\ h[e].team \in Teams
    BY <1>5 DEF VerdictInv, TypeInv, Equipped, WithTeam, Judging
  <2> QED BY <1>1, <1>2, <2>1 DEF JudgedApart
<1>8. /\ Earns(t)' /\ ~Earns(t)
      /\ \A o \in Teams : o # t => (referral'[o].status \in Earning <=> Earns(o)) /\ referral'[o].card = referral[o].card
      /\ \A o \in Teams : referral'[o].by = referral[o].by
  BY <1>4, <1>6 DEF Earns, Earning, OthersKept, SameSides
<1>9. (\A o, u \in Teams : Earns(o) /\ Earns(u) /\ referral[o].card = referral[u].card
                             /\ referral[o].card # None => o = u)'
  <2> SUFFICES ASSUME NEW o \in Teams, NEW u \in Teams, referral'[o].status \in Earning,
                      referral'[u].status \in Earning, referral'[o].card = referral'[u].card,
                      referral'[o].card # None
               PROVE  o = u
    BY DEF Earns
  <2>1. CASE o # t /\ u # t
    BY <1>8, <2>1 DEF VerdictInv
  <2>2. CASE o = t /\ u # t
    BY <1>4, <1>6, <1>8, <2>2
  <2>3. CASE o # t /\ u = t
    BY <1>4, <1>6, <1>8, <2>3
  <2> QED BY <2>1, <2>2, <2>3
<1>10. ASSUME NEW user \in Users, user # by PROVE EarnedBy(user)' = EarnedBy(user)
  <2>1. \A o \in Teams : o # t => (referral'[o].status \in Earning <=> referral[o].status \in Earning)
    BY <1>8 DEF Earns
  <2>2. referral'[t].by # user /\ referral[t].by # user
    BY <1>2, <1>8, <1>10
  <2> QED BY <1>8, <2>1, <2>2 DEF EarnedBy, Earns
<1>11. EarnedBy(by)' = EarnedBy(by) \cup {t} /\ t \notin EarnedBy(by)
  <2>1. \A o \in Teams : o # t => (referral'[o].status \in Earning <=> referral[o].status \in Earning)
    BY <1>8 DEF Earns
  <2>2. referral'[t].by = by /\ referral'[t].status \in Earning /\ referral[t].status \notin Earning
    BY <1>2, <1>8 DEF Earns
  <2> QED BY <1>8, <2>1, <2>2 DEF EarnedBy, Earns
<1>12. (\A user \in Users : WithinCap(user))'
  <2> SUFFICES ASSUME NEW user \in Users PROVE WithinCap(user)'
    OBVIOUS
  <2>1. IsFiniteSet(EarnedBy(user)) /\ Cardinality(EarnedBy(user)) <= ReferralCap
    BY DEF VerdictInv, WithinCap
  <2>2. CASE user # by
    BY <1>10, <2>1, <2>2 DEF WithinCap
  <2>3. CASE user = by
    <3>1. IsFiniteSet(EarnedBy(by)) /\ Cardinality(EarnedBy(by)) \in Nat /\ ReferralCap \in Nat
      BY <2>1, <2>3, FS_CardinalityType, RewardsAssumption
    <3>2. /\ IsFiniteSet(EarnedBy(by) \cup {t})
          /\ Cardinality(EarnedBy(by) \cup {t}) = Cardinality(EarnedBy(by)) + 1
      BY <1>11, <3>1, FS_AddElement
    <3>3. Cardinality(EarnedBy(by) \cup {t}) <= ReferralCap
      BY <1>6, <3>1, <3>2
    <3> QED BY <1>11, <2>3, <3>2, <3>3 DEF WithinCap
  <2> QED BY <2>2, <2>3
<1>13. (\A e \in Handlers : Standing(e))'
  <2> SUFFICES ASSUME NEW e \in Handlers, h'[e].pc = "enter" PROVE Standing(e)'
    BY DEF Standing, Judging
  <2>1. h'[e] = h[e] /\ e # d /\ Judging(e) /\ Standing(e)
    BY <1>3 DEF VerdictInv, Judging
  <2>2. /\ h[e].team \in Teams /\ h[e].team # t /\ referral[h[e].team].by # by
        /\ h[e].card = None \/ h[e].card # h[d].card
    BY <1>7, <2>1
  <2>3. referral'[h[e].team] = referral[h[e].team] /\ referral[h[e].team].status = "pending"
    BY <1>4, <2>1, <2>2 DEF OthersKept, Standing
  <2>4. PICK other \in Users : other = referral[h[e].team].by
    BY <2>2 DEF TypeInv, ReferralRow
  <2>5. EarnedBy(other)' = EarnedBy(other)
    BY <1>10, <2>2, <2>4
  <2>6. ASSUME h[e].verdict = "qualified"
        PROVE  /\ h[e].card # None =>
                    \A o \in Teams : referral'[o].status \in Earning => referral'[o].card # h[e].card
               /\ Cardinality(EarnedBy(other)') < ReferralCap
    <3>1. /\ h[e].card # None => \A o \in Teams : Earns(o) => referral[o].card # h[e].card
          /\ Cardinality(EarnedBy(other)) < ReferralCap
      BY <2>1, <2>4, <2>6 DEF Standing
    <3>2. ASSUME h[e].card # None, NEW o \in Teams, referral'[o].status \in Earning
          PROVE  referral'[o].card # h[e].card
      <4>1. CASE o = t
        BY <1>4, <2>2, <3>2, <4>1
      <4>2. CASE o # t
        BY <1>8, <3>1, <3>2, <4>2
      <4> QED BY <4>1, <4>2
    <3> QED BY <2>5, <3>1, <3>2
  <2>7. Cardinality(EarnedBy(other)') < ReferralCap =>
          Cardinality(EarnedBy(referral[h[e].team].by)') < ReferralCap
    BY <2>1, <2>3, <2>4 DEF EarnedBy
  <2> QED BY <2>1, <2>3, <2>6, <2>7 DEF Standing, Earns
<1>14. (\A e, f \in Handlers : Judging(e) /\ Judging(f) /\ e # f => JudgedApart(e, f))'
  <2> SUFFICES ASSUME NEW e \in Handlers, NEW f \in Handlers, h'[e].pc = "enter", h'[f].pc = "enter", e # f
               PROVE  JudgedApart(e, f)'
    BY DEF Judging
  <2>1. h'[e] = h[e] /\ h'[f] = h[f] /\ Judging(e) /\ Judging(f)
    BY <1>3 DEF Judging
  <2>2. JudgedApart(e, f) /\ h[e].team \in Teams /\ h[f].team \in Teams
    BY <2>1 DEF VerdictInv, TypeInv, Equipped, WithTeam, Judging
  <2> QED BY <1>8, <2>1, <2>2 DEF JudgedApart
<1> QED BY <1>9, <1>12, <1>13, <1>14 DEF VerdictInv

LEMMA VerdictStep == TypeInv /\ VerdictInv /\ [Next]_vars => VerdictInv'
<1> SUFFICES ASSUME TypeInv, VerdictInv, [Next]_vars PROVE VerdictInv'
  OBVIOUS
<1>1. ASSUME NEW d \in Handlers, h'[d].pc # "enter", \A e \in Handlers : e # d => h'[e] = h[e],
             \A t \in Teams : /\ referral'[t].by = referral[t].by /\ referral'[t].card = referral[t].card
                              /\ \/ referral'[t].status = referral[t].status
                                 \/ /\ referral[t].status = "qualified"
                                    /\ referral'[t].status \in {"paid", "rejected"}
      PROVE  VerdictInv'
  <2>1. \A t \in Teams : NoNewEarner(t)
    BY <1>1 DEF NoNewEarner, Earns, Earning
  <2>2. ASSUME NEW e \in Handlers, Judging(e) PROVE referral'[h[e].team].status = "pending"
    <3>1. h[e].team \in Teams /\ referral[h[e].team].status = "pending"
      BY <2>2 DEF VerdictInv, Standing, TypeInv, Equipped, WithTeam, Judging
    <3> QED BY <1>1, <3>1
  <2> QED BY <1>1, <2>1, <2>2, VerdictAside
<1>2. ASSUME NEW d \in Handlers, Handle(d) PROVE VerdictInv'
  <2>1. CASE \E m \in Payments : Deliver(d, m, Card[m]) \/ Deliver(d, m, None)
    BY <2>1, <1>1, PlainRow DEF Deliver
  <2>2. CASE Credit(d) \/ LockBonus(d) \/ GrantBonus(d) \/ BonusFails(d) \/ OpenPage(d) \/ Leave(d) \/ Revoke(d)
    <3>1. UNCHANGED referral
      BY <2>2 DEF Credit, LockBonus, GrantBonus, BonusFails, OpenPage, Leave, Revoke
    <3> QED BY <2>2, <3>1, <1>1, PlainRow
  <2>3. CASE \E m \in Payments, amount \in Halves : DeliverReversal(d, m, amount)
    BY <2>3, <1>1, PlainRow DEF DeliverReversal
  <2>4. CASE Judge(d)
    <3>1. CASE referral[h[d].team].status # "pending"
      <4>1. UNCHANGED referral
        BY <2>4 DEF Judge
      <4> QED BY <2>4, <3>1, <4>1, <1>1, SettledRow
    <3> QED BY <2>4, <3>1, VerdictJudge
  <2>5. CASE Enter(d)
    <3>1. /\ h[d].team \in Teams /\ h[d].verdict \in Verdicts
          /\ OthersKept(h[d].team) /\ SameSides(h[d].team)
          /\ h[d].verdict = "pending" => referral' = referral
          /\ h[d].verdict # "pending" => referral'[h[d].team].status = h[d].verdict
      BY <2>5, EnterRows
    <3>2. CASE h[d].verdict = "pending"
      <4>1. UNCHANGED referral
        BY <3>1, <3>2
      <4> QED BY <2>5, <4>1, <1>1, PlainRow
    <3>3. CASE h[d].verdict \in {"rejected", "capped"}
      <4>1. ASSUME NEW t \in Teams PROVE NoNewEarner(t)
        <5>1. CASE t = h[d].team
          BY <3>1, <3>3, <5>1 DEF NoNewEarner, SameSides, Earning
        <5>2. CASE t # h[d].team
          BY <3>1, <5>2 DEF NoNewEarner, OthersKept, Earns
        <5> QED BY <5>1, <5>2
      <4>2. ASSUME NEW e \in Handlers, e # d, Judging(e) PROVE referral'[h[e].team].status = "pending"
        <5>1. Judging(d) /\ JudgedApart(e, d) /\ h[e].team \in Teams /\ referral[h[e].team].status = "pending"
          BY <2>5, <4>2 DEF VerdictInv, Standing, TypeInv, Equipped, WithTeam, Judging, Enter
        <5>2. h[e].team # h[d].team
          BY <5>1 DEF JudgedApart
        <5> QED BY <3>1, <5>1, <5>2 DEF OthersKept
      <4> QED BY <2>5, <4>1, <4>2, PlainRow, VerdictAside
    <3>4. CASE h[d].verdict = "qualified"
      BY <2>5, <3>4, VerdictEnter
    <3> QED BY <3>1, <3>2, <3>3, <3>4 DEF Verdicts
  <2>6. CASE GrantReferee(d)
    <3>1. \A t \in Teams : /\ referral'[t].by = referral[t].by /\ referral'[t].card = referral[t].card
                           /\ referral'[t].status = referral[t].status
      BY <2>6, GrantRefereeRows DEF OthersKept
    <3> QED BY <2>6, <3>1, <1>1, PlainRow
  <2>7. ASSUME NEW t \in Teams, ClaimPayout(d, t) PROVE VerdictInv'
    <3>1. OthersKept(t) /\ SameSides(t) /\ referral[t].status = "qualified" /\ referral'[t].status = "paid"
          /\ referral'[t].card = referral[t].card
      BY <2>7, ClaimRows
    <3>2. h'[d].pc = "award" /\ \A e \in Handlers : e # d => h'[e] = h[e]
      BY <2>7, ClaimRow
    <3> QED BY <3>1, <3>2, <1>1 DEF OthersKept, SameSides
  <2>8. CASE Award(d)
    <3>1. \A t \in Teams : /\ referral'[t].by = referral[t].by /\ referral'[t].card = referral[t].card
                           /\ referral'[t].status = referral[t].status
      BY <2>8, AwardRows DEF OthersKept
    <3> QED BY <2>8, <3>1, <1>1, PlainRow
  <2>9. CASE Reject(d)
    BY <2>9, <1>1, RejectRows, PlainRow DEF SameSides
  <2> QED BY <1>2, <2>1, <2>2, <2>3, <2>4, <2>5, <2>6, <2>7, <2>8, <2>9 DEF Handle
<1>3. ASSUME UNCHANGED <<referral, h>> PROVE VerdictInv'
  BY <1>3 DEF VerdictInv, WithinCap, EarnedBy, Earns, Standing, Judging, JudgedApart
<1>4. ASSUME NEW t \in Teams, HoldEnds(t) PROVE VerdictInv'
  <2>1. UNCHANGED h /\ \A o \in Teams : /\ referral'[o].by = referral[o].by
                                        /\ referral'[o].card = referral[o].card
                                        /\ referral'[o].status = referral[o].status
    BY <1>4, HoldRows DEF HoldEnds, SameSides, OthersKept
  <2>2. \A user : EarnedBy(user)' = EarnedBy(user)
    BY <2>1 DEF EarnedBy, Earns
  <2>3. (\A o, u \in Teams : Earns(o) /\ Earns(u) /\ referral[o].card = referral[u].card
                               /\ referral[o].card # None => o = u)'
    BY <2>1 DEF VerdictInv, Earns
  <2>4. (\A user \in Users : WithinCap(user))'
    <3> SUFFICES ASSUME NEW user \in Users PROVE WithinCap(user)'
      OBVIOUS
    <3> QED BY <2>2 DEF VerdictInv, WithinCap
  <2>5. ASSUME NEW e \in Handlers PROVE Standing(e)'
    <3>1. Standing(e) /\ (Judging(e) => h[e].team \in Teams)
      BY DEF VerdictInv, TypeInv, Equipped, WithTeam, Judging
    <3>2. Judging(e) => EarnedBy(referral[h[e].team].by)' = EarnedBy(referral[h[e].team].by)
      BY <2>1, <3>1 DEF EarnedBy, Earns
    <3> QED BY <2>1, <3>1, <3>2 DEF Standing, Judging, Earns
  <2>6. (\A e, f \in Handlers : Judging(e) /\ Judging(f) /\ e # f => JudgedApart(e, f))'
    <3> SUFFICES ASSUME NEW e \in Handlers, NEW f \in Handlers, Judging(e), Judging(f), e # f
                 PROVE  JudgedApart(e, f)'
      BY <2>1 DEF Judging
    <3>1. JudgedApart(e, f) /\ h[e].team \in Teams /\ h[f].team \in Teams
      BY DEF VerdictInv, TypeInv, Equipped, WithTeam, Judging
    <3> QED BY <2>1, <3>1 DEF JudgedApart
  <2> QED BY <2>3, <2>4, <2>5, <2>6 DEF VerdictInv
<1>5. ASSUME NEW m \in Payments, RefundAtStripe(m) PROVE VerdictInv'
  BY <1>3, <1>5 DEF RefundAtStripe
<1>6. CASE UNCHANGED vars
  BY <1>3, <1>6 DEF vars
<1> QED BY <1>2, <1>4, <1>5, <1>6 DEF Next

-----------------------------------------------------------------------------
THEOREM InvariantHolds == Spec => []Invariant
<1>1. Init => Invariant
  BY TypeInit, BonusInit, PayoutInit, VerdictInit DEF Invariant
<1>2. Invariant /\ [Next]_vars => Invariant'
  BY TypeStep, BonusStep, PayoutStep, VerdictStep DEF Invariant
<1> QED BY <1>1, <1>2, PTL DEF Spec

(* Types: and no block records a refund that Stripe has not made, or stands *)
(* for a payment that was not credited (revoke_refunded, _credit).          *)
THEOREM TypeCorrect == Spec => []TypeOK
<1>1. Invariant => TypeOK
  <2> SUFFICES ASSUME Invariant PROVE TypeOK
    OBVIOUS
  <2>1. credited \subseteq Payments /\ suspended \subseteq Users /\ refunds \in [Payments -> Halves]
    BY DEF Invariant, TypeInv
  <2>2. block \in [Payments -> [refunded : Halves, bonuses : Nat, revoked : Halves]]
    BY DEF Invariant, TypeInv, BlockRow
  <2>3. referral \in [Teams -> [by : Users, status : Statuses, due : BOOLEAN, pay : Payments \cup {None},
                                card : Fingerprints, stamped : BOOLEAN, referee : Nat, referrer : Nat]]
    BY DEF Invariant, TypeInv, ReferralRow
  <2>4. \A d \in Handlers : h[d].pay \in Payments \cup {None} /\ h[d].amount \in Halves
    BY DEF Invariant, TypeInv, HandlerRow
  <2>5. \A m \in Payments : /\ block[m].refunded <= refunds[m]
                            /\ m \notin credited => block[m] = [refunded |-> 0, bonuses |-> 0, revoked |-> 0]
    BY DEF Invariant, BonusInv, BlockWithin
  <2> QED BY <2>1, <2>2, <2>3, <2>4, <2>5 DEF TypeOK
<1> QED BY <1>1, InvariantHolds, PTL

(* A payment earns its bonus once, whatever deliveries race, and the bonus *)
(* stands revoked as far as the payment is refunded (_grant_topup_bonus).  *)
THEOREM BonusIsNetOfRefunds == Spec => []BonusNetOfRefunds
<1>1. Invariant => BonusNetOfRefunds
  BY DEF Invariant, BonusInv, BonusOnce, BonusNetOfRefunds
<1> QED BY <1>1, InvariantHolds, PTL

(* Each side of a referral is paid at most once, and only a referral that  *)
(* was claimed pays its referrer (_grant_referee, _pay).                   *)
THEOREM EachSideIsPaidOnce == Spec => []EachSideOnce
<1>1. Invariant => EachSideOnce
  <2> SUFFICES ASSUME Invariant, NEW t \in Teams
               PROVE  /\ referral[t].referee <= 1 /\ referral[t].referrer <= 1
                      /\ referral[t].referrer = 1 => referral[t].status = "paid"
    BY DEF EachSideOnce
  <2>1. Unpaid(t)
    BY DEF Invariant, PayoutInv
  <2> QED BY <2>1 DEF Unpaid
<1> QED BY <1>1, InvariantHolds, PTL

(* One known card funds one referral that earns, and nobody earns beyond   *)
(* the cap, however verdicts and entries interleave (qualify).             *)
THEOREM OneCardFundsOneReferral == Spec => []OneCardOneReferral
<1>1. Invariant => OneCardOneReferral
  <2> SUFFICES ASSUME Invariant PROVE OneCardOneReferral
    OBVIOUS
  <2> DEFINE earning == {t \in Teams : referral[t].status \in Earning}
  <2>1. \A t, o \in earning : referral[t].card = referral[o].card /\ referral[t].card # None => t = o
    BY DEF Invariant, VerdictInv, Earns
  <2>2. ASSUME NEW user \in Users PROVE Cardinality({t \in earning : referral[t].by = user}) <= ReferralCap
    <3>1. {t \in earning : referral[t].by = user} = EarnedBy(user)
      BY DEF EarnedBy, Earns
    <3> QED BY <3>1 DEF Invariant, VerdictInv, WithinCap
  <2> QED BY <2>1, <2>2 DEF OneCardOneReferral
<1> QED BY <1>1, InvariantHolds, PTL
=============================================================================
