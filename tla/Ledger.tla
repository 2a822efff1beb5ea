------------------------------- MODULE Ledger -------------------------------
(***************************************************************************)
(* The ledger of src/src/treg/domain/money/__init__.py: prepaid credit     *)
(* blocks, the materialized balance of an organization, the holds of calls *)
(* in flight and the journal.  Every action is one committed transaction;  *)
(* LedgerTx takes them apart into statements and row locks.                *)
(*                                                                         *)
(* reserve is three actions because the code commits three times: the scan *)
(* for stale holds, one release per stale hold, and the balance gate.      *)
(***************************************************************************)
EXTENDS MoneyOps

CONSTANTS
  Orgs,         \* organizations
  Calls,        \* call ids; a hold has the id of its call
  Tagged,       \* the calls that carry an X-Treg-Meta tag
  Refs,         \* payment references of top-ups
  None,         \* SQL NULL, and Python's None
  MaxBlocks,    \* how many credit blocks may ever be created
  MaxDay,       \* the last UTC day of the model
  Margin,       \* platform_margin in percent
  Credits,      \* amounts that may be granted or bought
  Estimates,    \* raw estimates a call may reserve
  Actuals,      \* raw costs a call may turn out to have
  Targets       \* cumulative refund totals a payment processor may report

ASSUME LedgerAssumption ==
  /\ IsFiniteSet(Orgs) /\ IsFiniteSet(Calls) /\ Tagged \subseteq Calls
  /\ None \notin Orgs /\ None \notin Refs /\ None \notin Nat
  /\ MaxBlocks \in Nat /\ MaxDay \in Nat /\ Margin \in Nat
  /\ Credits \subseteq Nat \ {0} /\ Estimates \subseteq Nat
  /\ Actuals \subseteq Nat /\ Targets \subseteq Nat

VARIABLES
  block,        \* the CreditBlock table, with the revoke entries of each block
  balance,      \* Org.balance_micro
  spent,        \* Org.spent_today_micro with its day stamp
  hold,         \* the Hold table
  closing,      \* the settle or release LedgerEntry of each call
  tag,          \* the TagSpend row of each tagged call
  pending,      \* calls with a pending AsyncTaskRecord
  reserving,    \* reserves between their scan and their gate
  today         \* the UTC day

vars == <<block, balance, spent, hold, closing, tag, pending, reserving, today>>

-----------------------------------------------------------------------------
(* Rows *)

BlockIds == 1 .. MaxBlocks
Kinds == {"promotional", "referral", "bonus", "earned", "purchased"}

(* _KIND_ORDER: free credit burns first, then a seller's earnings, then paid. *)
KindOrder(kind) == CASE kind \in {"promotional", "referral", "bonus"} -> 0
                     [] kind = "earned" -> 1
                     [] kind = "purchased" -> 2

NoBlock == [org |-> None, kind |-> "bonus", amount |-> 0, remaining |-> 0,
            ref |-> None, taken |-> 0, target |-> 0]
NoHold == [org |-> None, amount |-> 0, day |-> 0, stale |-> FALSE, known |-> 0]
NoEntry == [kind |-> "none", org |-> None, reserved |-> 0, amount |-> 0, day |-> 0]
NoTag == [org |-> None, amount |-> 0, settled |-> FALSE, day |-> 0]
NoReserve == [org |-> None, charged |-> 0, todo |-> {}]

BlockRow == [org : Orgs \cup {None}, kind : Kinds, amount : Nat, remaining : Nat,
             ref : Refs \cup {None}, taken : Nat, target : Nat]
(* known is history: how many blocks had been created when the hold was reserved. *)
HoldRow == [org : Orgs \cup {None}, amount : Nat, day : Nat, stale : BOOLEAN, known : Nat]
EntryRow == [kind : {"none", "settle", "release"}, org : Orgs \cup {None},
             reserved : Nat, amount : Nat, day : Nat]
TagRow == [org : Orgs \cup {None}, amount : Nat, settled : BOOLEAN, day : Nat]
ReserveRow == [org : Orgs \cup {None}, charged : Nat, todo : SUBSET Calls]

IsOpen(c) == hold[c].org # None
IsBlock(b) == block[b].org # None

TypeOK ==
  /\ block \in [BlockIds -> BlockRow]
  /\ balance \in [Orgs -> Int]
  /\ spent \in [Orgs -> [day : Nat \cup {None}, micro : Int]]
  /\ hold \in [Calls -> HoldRow]
  /\ closing \in [Calls -> EntryRow]
  /\ tag \in [Calls -> TagRow]
  /\ pending \subseteq Calls
  /\ reserving \in [Calls -> ReserveRow]
  /\ today \in Nat

-----------------------------------------------------------------------------
(* Totals *)

Remaining(o) == [b \in BlockIds |-> IF block[b].org = o THEN block[b].remaining ELSE 0]
Withheld(o) == [c \in Calls |-> IF hold[c].org = o THEN hold[c].amount ELSE 0]

Credit(o) == Sum(Remaining(o))
Funded == Cardinality({b \in BlockIds : IsBlock(b)})
Held(o) == Sum(Withheld(o))

-----------------------------------------------------------------------------
Init ==
  /\ block = [b \in BlockIds |-> NoBlock]
  /\ balance = [o \in Orgs |-> 0]
  /\ spent = [o \in Orgs |-> [day |-> None, micro |-> 0]]
  /\ hold = [c \in Calls |-> NoHold]
  /\ closing = [c \in Calls |-> NoEntry]
  /\ tag = [c \in Calls |-> NoTag]
  /\ pending = {}
  /\ reserving = [c \in Calls |-> NoReserve]
  /\ today = 0

(* _spent_today_values: the first movement of a new UTC day starts the counter over. *)
AddSpent(s, delta) ==
  [day |-> today, micro |-> IF s.day = today THEN s.micro + delta ELSE delta]

-----------------------------------------------------------------------------
(* Funding *)

NextBlock(b) == ~IsBlock(b) /\ \A x \in BlockIds : ~IsBlock(x) => b <= x

NewBlock(o, kind, n, ref) ==
  [org |-> o, kind |-> kind, amount |-> n, remaining |-> n, ref |-> ref,
   taken |-> 0, target |-> 0]

Fund(o, kind, n, ref) ==
  \E b \in BlockIds :
    /\ NextBlock(b)
    /\ block' = [block EXCEPT ![b] = NewBlock(o, kind, n, ref)]
    /\ balance' = [balance EXCEPT ![o] = @ + n]
    /\ UNCHANGED <<spent, hold, closing, tag, pending, reserving, today>>

(* grant: a promotion, a referral reward, a top-up's bonus.  Every caller   *)
(* passes once=False and guards against a second grant by a row of its own. *)
Grant(o, kind, n) == Fund(o, kind, n, None)

(* topup: a payment reference that is already on a block moves no money. *)
Topup(o, n, ref) ==
  /\ \A b \in BlockIds : block[b].ref # ref
  /\ Fund(o, "purchased", n, ref)

-----------------------------------------------------------------------------
(* Revocation of a refunded payment *)

(***************************************************************************)
(* revoke_in_transaction: targets are cumulative, what was taken before is *)
(* read back from the revoke entries, and the unheld balance bounds the    *)
(* whole take.  asked maps the blocks of one refund to their targets; they *)
(* are served in creation order (the payment's own block, then its bonus). *)
(***************************************************************************)
OwedFromScratch(b, goal) == goal
Owed(b, goal) == NonNeg(goal - block[b].taken)

OnBlock(b, goal) == Lesser(Owed(b, goal), block[b].remaining)

UnheldIgnoringHolds(o) == Credit(o)
Unheld(o) == NonNeg(balance[o])

Revoke(o, asked) ==
  LET T       == DOMAIN asked
      goal    == [b \in T |-> Lesser(asked[b], block[b].amount)]
      take    == Spread([b \in T |-> OnBlock(b, goal[b])], [b \in T |-> b], Unheld(o))
      rose(b) == goal[b] > block[b].target
  IN  /\ \A b \in T : block[b].org = o
      /\ \E b \in T : take[b] > 0 \/ rose(b)
      /\ block' = [b \in BlockIds |->
           IF b \in T
           THEN [block[b] EXCEPT !.remaining = @ - take[b],
                                 !.taken = @ + take[b],
                                 !.target = IF take[b] > 0 \/ rose(b)
                                            THEN IF goal[b] > @ THEN goal[b] ELSE @
                                            ELSE @]
           ELSE block[b]]
      /\ balance' = [balance EXCEPT ![o] = @ - Sum(take)]
      /\ UNCHANGED <<spent, hold, closing, tag, pending, reserving, today>>

-----------------------------------------------------------------------------
(* Closing holds *)

BurnRankByAge == [b \in BlockIds |-> b]

(* Consumption order of _consume_blocks: kind first, then age. *)
BurnRank == [b \in BlockIds |-> KindOrder(block[b].kind) * (MaxBlocks + 1) + b]

(***************************************************************************)
(* What a draw on o's blocks can use.  Its one SELECT ... FOR UPDATE locks *)
(* the blocks that exist when it starts; a block funded while it waits for *)
(* those locks is not drawn.  Blocks are numbered in the order they are    *)
(* committed, so it sees those up to some k, and at least those its hold   *)
(* already knew.                                                           *)
(***************************************************************************)
Visible(o, k) == [b \in BlockIds |-> IF b <= k THEN Remaining(o)[b] ELSE 0]
Views(c) == hold[c].known .. Funded

(* _consume_blocks on the visible blocks of o, for an amount n. *)
Draw(o, n, k) == Spread(Visible(o, k), BurnRank, n)

Drawn(take) == [b \in BlockIds |-> [block[b] EXCEPT !.remaining = @ - take[b]]]

CountedAlways(c) == hold[c].amount

(* What a hold that was counted today takes out of the daily counter. *)
CountedToday(c) == IF hold[c].day = today THEN hold[c].amount ELSE 0

Settled(c, a) == IF a = None THEN hold[c].amount ELSE WithMargin(a, Margin)

RefundNeverNegative(c, n) == NonNeg(hold[c].amount - n)

(* What settling gives back; negative when the call overran its estimate. *)
Refund(c, n) == hold[c].amount - n

SettleEntryOfReserve(c, n) ==
  [kind |-> "settle", org |-> hold[c].org, reserved |-> hold[c].amount,
   amount |-> hold[c].amount, day |-> today]

SettleEntry(c, n) ==
  [kind |-> "settle", org |-> hold[c].org, reserved |-> hold[c].amount,
   amount |-> n, day |-> today]

ReleaseEntry(c) ==
  [kind |-> "release", org |-> hold[c].org, reserved |-> hold[c].amount,
   amount |-> hold[c].amount, day |-> today]

TagSettledAtReserve(row, n) ==
  IF row.org = None THEN row ELSE [row EXCEPT !.amount = n, !.settled = TRUE]

(* The tag row moves to what was consumed, and to the instant of the settle. *)
TagSettled(row, n) ==
  IF row.org = None THEN row ELSE [row EXCEPT !.amount = n, !.settled = TRUE, !.day = today]

(* _settle_claimed without the blocks: the hold of c closed, n of it consumed. *)
SettleHold(c, n) ==
  LET o == hold[c].org
      delta == n - CountedToday(c)
  IN  /\ hold' = [hold EXCEPT ![c] = NoHold]
      /\ spent' = IF delta = 0 THEN spent ELSE [spent EXCEPT ![o] = AddSpent(@, delta)]
      /\ closing' = [closing EXCEPT ![c] = SettleEntry(c, n)]
      /\ tag' = [tag EXCEPT ![c] = TagSettled(@, n)]

(* settle / settle_in_transaction *)
Settle(c, a, k) ==
  LET o == hold[c].org
      take == Draw(o, Settled(c, a), k)
      n == Sum(take)
  IN  /\ IsOpen(c)
      /\ SettleHold(c, n)
      /\ block' = Drawn(take)
      /\ balance' = [balance EXCEPT ![o] = @ + Refund(c, n)]
      /\ pending' = pending \ {c}
      /\ UNCHANGED <<reserving, today>>

(* settle_to_in_transaction: the seller earns what the buyer's blocks gave. *)
(* It closes the hold of a hub run, which is never deferred.                *)
SettleTo(c, payee, a, k) ==
  LET o == hold[c].org
      pay == IF a = None THEN hold[c].amount ELSE Lesser(hold[c].amount, a)
      take == Draw(o, pay, k)
      n == Sum(take)
      refunded == [balance EXCEPT ![o] = @ + Refund(c, n)]
  IN  /\ IsOpen(c)
      /\ c \notin pending
      /\ SettleHold(c, n)
      /\ \/ /\ n = 0
            /\ block' = Drawn(take)
            /\ balance' = refunded
         \/ /\ n > 0
            /\ \E b \in BlockIds :
                 /\ NextBlock(b)
                 /\ block' = [Drawn(take) EXCEPT ![b] = NewBlock(payee, "earned", n, None)]
            /\ balance' = [refunded EXCEPT ![payee] = @ + n]
      /\ UNCHANGED <<pending, reserving, today>>

(* _release_claimed *)
ReleaseHold(c) ==
  LET o == hold[c].org
      counted == CountedToday(c)
  IN  /\ hold' = [hold EXCEPT ![c] = NoHold]
      /\ balance' = [balance EXCEPT ![o] = @ + hold[c].amount]
      /\ spent' = IF counted = 0 THEN spent ELSE [spent EXCEPT ![o] = AddSpent(@, -counted)]
      /\ closing' = [closing EXCEPT ![c] = ReleaseEntry(c)]
      /\ tag' = [tag EXCEPT ![c] = NoTag]
      /\ UNCHANGED block

(* release / release_in_transaction *)
Release(c) ==
  /\ IsOpen(c)
  /\ ReleaseHold(c)
  /\ pending' = pending \ {c}
  /\ UNCHANGED <<reserving, today>>

(***************************************************************************)
(* close_holds_in_transaction: the holds of S are settled at actual, those *)
(* of R released, in one transaction.  Within an organization the settles  *)
(* draw in input order (rank), so a late one may find the blocks empty.    *)
(* A request cancelled while its task row commits closes its own hold this *)
(* way, and leaves the task pending.                                       *)
(***************************************************************************)
HoldsOf(C, o) == {c \in C : hold[c].org = o}

BatchDue(S, actual, o) == [c \in HoldsOf(S, o) |-> Settled(c, actual[c])]
BatchDrawn(S, actual, rank, k, o) ==
  Spread(BatchDue(S, actual, o), rank, Sum(Visible(o, k)))

Freed(C, o) == Sum([c \in C |-> IF hold[c].org = o THEN hold[c].amount ELSE 0])
Uncounted(C, o) == Sum([c \in C |-> IF hold[c].org = o THEN CountedToday(c) ELSE 0])

CloseBatch(S, R, actual, rank, k) ==
  LET drawn(o) == BatchDrawn(S, actual, rank, k, o)
      n(c)     == drawn(hold[c].org)[c]
      take     == [o \in Orgs |-> Draw(o, Sum(BatchDue(S, actual, o)), k)]
      moved(o) == \/ \E c \in HoldsOf(S, o) : n(c) # CountedToday(c)
                  \/ \E c \in HoldsOf(R, o) : CountedToday(c) # 0
  IN  /\ \A c \in S \cup R : IsOpen(c)
      /\ hold' = [c \in Calls |-> IF c \in S \cup R THEN NoHold ELSE hold[c]]
      /\ block' = [b \in BlockIds |->
           IF IsBlock(b) THEN [block[b] EXCEPT !.remaining = @ - take[block[b].org][b]]
           ELSE block[b]]
      /\ balance' = [o \in Orgs |-> balance[o] + Freed(S \cup R, o) - Sum(drawn(o))]
      /\ spent' = [o \in Orgs |->
           IF moved(o) THEN AddSpent(spent[o], Sum(drawn(o)) - Uncounted(S \cup R, o))
           ELSE spent[o]]
      /\ closing' = [c \in Calls |->
           IF c \in S THEN SettleEntry(c, n(c))
           ELSE IF c \in R THEN ReleaseEntry(c) ELSE closing[c]]
      /\ tag' = [c \in Calls |->
           IF c \in S THEN TagSettled(tag[c], n(c))
           ELSE IF c \in R THEN NoTag ELSE tag[c]]
      /\ UNCHANGED <<pending, reserving, today>>

-----------------------------------------------------------------------------
(* Reserving *)

Fresh(c) == ~IsOpen(c) /\ closing[c].kind = "none" /\ reserving[c] = NoReserve

ReapableWithTasks(o) == {h \in Calls : hold[h].org = o /\ hold[h].stale}

(* reap_stale_holds' query: older than hold_ttl_s, no pending async task. *)
Reapable(o) == {h \in Calls : hold[h].org = o /\ hold[h].stale /\ h \notin pending}

ReserveScan(c, o, est) ==
  /\ Fresh(c)
  /\ reserving' = [reserving EXCEPT ![c] =
       [org |-> o, charged |-> WithMargin(est, Margin), todo |-> Reapable(o)]]
  /\ UNCHANGED <<block, balance, spent, hold, closing, tag, pending, today>>

(* One release of the sweep, which does not look for tasks again.  A hold  *)
(* closed since the scan is skipped.                                       *)
Reap(c, h) ==
  /\ h \in reserving[c].todo
  /\ reserving' = [reserving EXCEPT ![c].todo = @ \ {h}]
  /\ UNCHANGED <<pending, today>>
  /\ \/ /\ IsOpen(h)
        /\ ReleaseHold(h)
     \/ /\ ~IsOpen(h)
        /\ UNCHANGED <<block, balance, spent, hold, closing, tag>>

AffordsByCredit(o, n) == Credit(o) >= n

(* The WHERE clause of the conditional UPDATE. *)
Affords(o, n) == balance[o] >= n

ReserveDebit(c) ==
  LET o == reserving[c].org
      n == reserving[c].charged
  IN  /\ o # None
      /\ reserving[c].todo = {}
      /\ Affords(o, n)
      /\ balance' = [balance EXCEPT ![o] = @ - n]
      /\ spent' = [spent EXCEPT ![o] = AddSpent(@, n)]
      /\ hold' = [hold EXCEPT ![c] = [org |-> o, amount |-> n, day |-> today, stale |-> FALSE,
                                      known |-> Funded]]
      /\ tag' = IF c \in Tagged
                THEN [tag EXCEPT ![c] = [org |-> o, amount |-> n, settled |-> FALSE, day |-> today]]
                ELSE tag
      /\ reserving' = [reserving EXCEPT ![c] = NoReserve]
      /\ UNCHANGED <<block, closing, pending, today>>

(* InsufficientBalance: rolled back. *)
ReserveRefuse(c) ==
  LET o == reserving[c].org
  IN  /\ o # None
      /\ reserving[c].todo = {}
      /\ ~Affords(o, reserving[c].charged)
      /\ reserving' = [reserving EXCEPT ![c] = NoReserve]
      /\ UNCHANGED <<block, balance, spent, hold, closing, tag, pending, today>>

(* The request is cancelled, or its process dies, between two commits. *)
ReserveAbandon(c) ==
  /\ reserving[c] # NoReserve
  /\ reserving' = [reserving EXCEPT ![c] = NoReserve]
  /\ UNCHANGED <<block, balance, spent, hold, closing, tag, pending, today>>

-----------------------------------------------------------------------------
(* Time, and the async tasks that keep a hold open *)

Midnight ==
  /\ today < MaxDay
  /\ today' = today + 1
  /\ UNCHANGED <<block, balance, spent, hold, closing, tag, pending, reserving>>

(* A hold passes hold_ttl_s: the upstream timeout plus a grace period. *)
Age(c) ==
  /\ IsOpen(c) /\ ~hold[c].stale
  /\ hold' = [hold EXCEPT ![c].stale = TRUE]
  /\ UNCHANGED <<block, balance, spent, closing, tag, pending, reserving, today>>

(* defer_submission: a request has no deadline, so its hold may be stale by *)
(* now, and on the list of a sweep that found no task of it.                *)
Defer(c) ==
  /\ IsOpen(c)
  /\ c \notin pending
  /\ pending' = pending \cup {c}
  /\ UNCHANGED <<block, balance, spent, hold, closing, tag, reserving, today>>

(* _finish, closed_hold: the task ends, its request or a sweep has closed the hold. *)
ClosedHold(c) ==
  /\ c \in pending
  /\ ~IsOpen(c)
  /\ pending' = pending \ {c}
  /\ UNCHANGED <<block, balance, spent, hold, closing, tag, reserving, today>>

-----------------------------------------------------------------------------
GrantKinds == {"promotional", "bonus"}

(* The blocks of one refund: a payment's own block and the bonuses beside it. *)
Refundable(o) == {b \in BlockIds : block[b].org = o /\ block[b].kind \in {"purchased", "bonus"}}

(* A batch of one hold is Settle or Release, unless it leaves a task pending. *)
Batches == {C \in SUBSET Calls : Cardinality(C) > 1 \/ C \cap pending # {}}

Orders(S) == {r \in [S -> 1 .. Cardinality(S)] : \A x, y \in S : r[x] = r[y] => x = y}

Next ==
  \/ \E o \in Orgs, kind \in GrantKinds, n \in Credits : Grant(o, kind, n)
  \/ \E o \in Orgs, n \in Credits, ref \in Refs : Topup(o, n, ref)
  \/ \E o \in Orgs : \E T \in SUBSET Refundable(o) : \E asked \in [T -> Targets] : Revoke(o, asked)
  \/ \E c \in Calls, o \in Orgs, est \in Estimates : ReserveScan(c, o, est)
  \/ \E c, h \in Calls : Reap(c, h)
  \/ \E c \in Calls : ReserveDebit(c) \/ ReserveRefuse(c) \/ ReserveAbandon(c)
  \/ \E c \in Calls, a \in Actuals \cup {None} : \E k \in Views(c) : Settle(c, a, k)
  \/ \E c \in Calls, payee \in Orgs, a \in Actuals \cup {None} :
       \E k \in Views(c) : SettleTo(c, payee, a, k)
  \/ \E C \in Batches : \E S \in SUBSET C :
       \E actual \in [S -> Actuals \cup {None}], rank \in Orders(S) :
         \E k \in {x \in 0 .. Funded : \A c \in S : x \in Views(c)} :
           CloseBatch(S, C \ S, actual, rank, k)
  \/ \E c \in Calls : Release(c) \/ Age(c) \/ Defer(c) \/ ClosedHold(c)
  \/ Midnight

Spec == Init /\ [][Next]_vars

=============================================================================
