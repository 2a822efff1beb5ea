-------------------------- MODULE LedgerProperties --------------------------
(***************************************************************************)
(* What the ledger promises.  The hazards behind these are sequences: an   *)
(* overrun while another call holds money, a refund while calls are in     *)
(* flight, a hold opened before midnight and closed after it, a sweep that *)
(* meets a hold closed or deferred since its scan.                         *)
(***************************************************************************)
EXTENDS Ledger

(* The invariant in the module docstring of domain/money: an organization's *)
(* balance is what is left on its blocks minus what its open holds withhold,*)
(* whatever the order of grants, refunds, overruns, sweeps and batches.     *)
BalanceEquation == \A o \in Orgs : balance[o] = Credit(o) - Held(o)

-----------------------------------------------------------------------------
Charged(o) ==
  Sum([c \in Calls |-> IF closing[c].kind = "settle" /\ closing[c].org = o
                       THEN closing[c].amount ELSE 0])

Consumed(o) ==
  Sum([b \in BlockIds |-> IF block[b].org = o
                          THEN block[b].amount - block[b].taken - block[b].remaining ELSE 0])

(* The journal and the blocks tell the same story: what left an organiza-   *)
(* tion's blocks other than by a refund is exactly the sum of its settle    *)
(* entries (reconcile.py and /billing read the entries, spending the blocks)*)
JournalBacksBlocks == \A o \in Orgs : Charged(o) = Consumed(o)

-----------------------------------------------------------------------------
SpentToday(o) == IF spent[o].day = today THEN spent[o].micro ELSE 0

SpentTodayFromLedger(o) ==
  Sum([c \in Calls |-> IF closing[c].kind = "settle" /\ closing[c].org = o /\ closing[c].day = today
                       THEN closing[c].amount ELSE 0])
  + Sum([c \in Calls |-> IF hold[c].org = o /\ hold[c].day = today THEN hold[c].amount ELSE 0])

(* spent_today, the counter behind the daily cap, equals                    *)
(* spent_today_from_ledger, its recomputation from the journal, also when   *)
(* holds opened on one day are settled or released on the next.             *)
SpentTodayAgrees == \A o \in Orgs : SpentToday(o) = SpentTodayFromLedger(o)

-----------------------------------------------------------------------------
(* A tagged call is attributed exactly once: at its hold while it is in     *)
(* flight, at its settle entry's amount and day afterwards, and not at all  *)
(* when it was released (tag budgets and invoices sum these rows).          *)
TagRowsAgree ==
  \A c \in Tagged :
    tag[c] = IF IsOpen(c)
             THEN [org |-> hold[c].org, amount |-> hold[c].amount, settled |-> FALSE,
                   day |-> hold[c].day]
             ELSE IF closing[c].kind = "settle"
             THEN [org |-> closing[c].org, amount |-> closing[c].amount, settled |-> TRUE,
                   day |-> closing[c].day]
             ELSE NoTag

-----------------------------------------------------------------------------
Overrun(o) ==
  Sum([c \in Calls |-> IF closing[c].kind = "settle" /\ closing[c].org = o
                       THEN NonNeg(closing[c].amount - closing[c].reserved) ELSE 0])

(* "The next reserve is the gate that stops an overrun from compounding":   *)
(* a balance is below zero only by what settled calls cost beyond their own *)
(* reserves; no reserve, refund or sweep ever digs deeper.                  *)
OverdraftBounded == \A o \in Orgs : balance[o] + Overrun(o) >= 0

-----------------------------------------------------------------------------
(* However often and in whatever order a refund is reported, a block gives  *)
(* back no more than the largest total reported for it, and never credit    *)
(* that was already consumed.                                               *)
RevokedWithinTarget ==
  \A b \in BlockIds : /\ block[b].taken <= block[b].target
                      /\ block[b].target <= block[b].amount
                      /\ block[b].taken + block[b].remaining <= block[b].amount

(* A refund takes only credit no call in flight is holding: the step that   *)
(* takes it leaves the balance at or above zero.                            *)
RefundSparesHolds ==
  [][\A b \in BlockIds :
       block'[b].taken > block[b].taken => balance'[block[b].org] >= 0]_vars

-----------------------------------------------------------------------------
Listing(c) == {r \in Calls : c \in reserving[r].todo}

(* While an async task is pending no sweep puts its hold on a list; one that*)
(* listed it before the task was deferred may still release it.  Whoever    *)
(* comes first, the sweep, the cancelled request or the task's own end,     *)
(* closes the hold, and the others change nothing of how it was closed.     *)
SweepSparesTasks ==
  [][\A c \in Calls :
       /\ c \in pending => Listing(c)' \subseteq Listing(c)
       /\ closing[c].kind # "none" => ~IsOpen(c)' /\ closing'[c] = closing[c]]_vars

(* Free credit burns before earned, and earned before paid: a call draws a  *)
(* block only when the cheaper blocks of its team end up empty, all those   *)
(* that existed when the draw began, so at least all its hold knew.         *)
PaidCreditLast ==
  [][\E k \in 0 .. MaxBlocks :
       /\ \A c \in Calls : IsOpen(c) /\ ~IsOpen(c)' /\ closing'[c].kind = "settle"
                          => k >= hold[c].known
       /\ \A a, b \in BlockIds :
            /\ IsBlock(b) /\ block'[b].remaining < block[b].remaining
            /\ block'[b].taken = block[b].taken
            => /\ b <= k
               /\ /\ a <= k /\ block[a].org = block[b].org
                  /\ KindOrder(block[a].kind) < KindOrder(block[b].kind)
                  => block'[a].remaining = 0]_vars

=============================================================================
