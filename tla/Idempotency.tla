---------------------------- MODULE Idempotency ----------------------------
(***************************************************************************)
(* One Idempotency-Key of one caller: its row in idempotentcall, the calls *)
(* that carry it, and what each of them did with money.  A call looks the  *)
(* key up, claims it by an insert, reserves, reaches the provider, closes  *)
(* its hold, stores its answer; its lease is renewed beside it.  It may    *)
(* be cancelled or lose its process at any point, and every statement of   *)
(* bookkeeping may fail.  A later call finds an answer, a claim in use, or *)
(* a claim whose lease ran out, which it closes from the owner's money.    *)
(*                                                                         *)
(* A call's id is its call_ref: the owner a claim names, and its holds.    *)
(***************************************************************************)
EXTENDS Integers, FiniteSets

CONSTANTS
  Calls,        \* the calls that carry the key
  Prints,       \* request fingerprints
  Purchases,    \* those of endpoints with settle: quantity
  None,         \* no call
  Charges,      \* what the provider's answer may cost
  Window,       \* IDEMPOTENCY_WINDOW_S
  Renew,        \* IDEMPOTENCY_LEASE_RENEW_S
  Stale,        \* IDEMPOTENCY_STALE_PENDING_S
  Grace,        \* what _resolve_stale_claim adds to a renewal: 60 s
  Late,         \* how late a renewal may run
  HoldTTL,      \* hold_ttl_s
  MaxMisses,    \* bound: renewals that fail
  MaxNow        \* bound: the last instant

ASSUME IdempotencyAssumption ==
  /\ IsFiniteSet(Calls) /\ None \notin Calls
  /\ {Window, Renew, Stale, Grace, Late, HoldTTL, MaxMisses, MaxNow} \subseteq Nat
  /\ Charges \subseteq Nat \ {0}
  /\ Purchases \subseteq Prints
  /\ Late <= Grace
  /\ Renew + Grace <= Stale

VARIABLES
  row,          \* the row of the key
  call,         \* the calls, by their call_ref
  money,        \* their holds, settle entries and async tasks
  misses,       \* renewals that have failed so far
  now

vars == <<row, call, money, misses, now>>

-----------------------------------------------------------------------------
NoRow == [owner |-> None, print |-> None, status |-> "none", answer |-> "none",
          charged |-> 0, lease |-> 0, expires |-> 0]

(* id and claimed: the primary key of the row this call inserted, and when. *)
(* error: the answer it was charged for is a 4xx.                           *)
(* how: why the call ended without an answer to keep.                       *)
NewCall == [pc |-> "new", print |-> None, seen |-> NoRow, sum |-> 0, id |-> 0, claimed |-> 0,
            beat |-> 0, cost |-> 0, error |-> FALSE, how |-> "none"]

NoMoney == [hold |-> "none", held |-> 0, task |-> "none", born |-> 0, paid |-> 0, at |-> 0]

Init ==
  /\ row = NoRow
  /\ call = [c \in Calls |-> NewCall]
  /\ money = [c \in Calls |-> NoMoney]
  /\ misses = 0
  /\ now = 0

Abandoned(r) == r.status = "pending" /\ r.lease < now - Stale
ExpiredOrAbandoned(r) == r.status # "none" /\ (r.expires < now \/ Abandoned(r))
Expired(r) == r.status # "none" /\ r.expires < now
Owned(c) == row.owner = c /\ row.status = "pending"

Goto(c, pc) == call' = [call EXCEPT ![c].pc = pc]

(* The call is over or about to be: what it knew goes with it. *)
Leave(c, pc, how) ==
  call' = [call EXCEPT ![c] = [NewCall EXCEPT !.pc = pc, !.how = how, !.id = call[c].id,
                                             !.claimed = call[c].claimed]]
End(c, pc) == Leave(c, pc, call[c].how)

-----------------------------------------------------------------------------
(* _replay_idempotent *)

Outcome(r, p) ==
  IF r = NoRow THEN "claim"
  ELSE IF Expired(r) THEN "expired"
  ELSE IF r.print # p THEN "refused"             \* 422
  ELSE IF Abandoned(r) THEN "hold"
  ELSE IF r.status = "pending" THEN "refused"    \* 409
  ELSE "replayed"

LookUp(c, p) ==
  LET found == Outcome(row, p)
  IN
  /\ call[c].pc = "new"
  /\ call' = IF found \in {"refused", "replayed"} THEN [call EXCEPT ![c].pc = found]
             ELSE [call EXCEPT ![c].pc = found, ![c].print = p, ![c].seen = row]
  /\ UNCHANGED <<row, money, misses, now>>

(* The row that was read, by its primary key: gone already is no error. *)
DeleteExpired(c) ==
  /\ call[c].pc = "expired"
  /\ row' = IF row.owner = call[c].seen.owner THEN NoRow ELSE row
  /\ call' = [call EXCEPT ![c].pc = "claim", ![c].seen = NoRow]
  /\ UNCHANGED <<money, misses, now>>

-----------------------------------------------------------------------------
(* _resolve_stale_claim: _money_of in three statements, then the swap *)

Since(r) == r.expires - Window
UntilLease(r) == r.lease
Until(r) == r.lease + Renew + Grace

FindHold(c) ==
  /\ call[c].pc = "hold"
  /\ \/ money[call[c].seen.owner].hold = "open" /\ End(c, "refused")
     \/ money[call[c].seen.owner].hold # "open" /\ Goto(c, "entries")
  /\ UNCHANGED <<row, money, misses, now>>

FindEntries(c) ==
  LET r == call[c].seen
      m == money[r.owner]
  IN  /\ call[c].pc = "entries"
      /\ call' = [call EXCEPT ![c].pc = "tasks",
                              ![c].sum = IF m.at \in Since(r) .. Until(r) THEN m.paid ELSE 0]
      /\ UNCHANGED <<row, money, misses, now>>

LateSettlesOfNone(r, m) == 0
LateSettles(r, m) ==
  IF m.task # "none" /\ m.born \in Since(r) .. Until(r) /\ m.at > Until(r) THEN m.paid ELSE 0

FindTasks(c) ==
  LET r == call[c].seen
      m == money[r.owner]
  IN  /\ call[c].pc = "tasks"
      /\ \/ /\ m.task = "pending" /\ m.born \in Since(r) .. Until(r)
            /\ End(c, "refused")
         \/ /\ ~(m.task = "pending" /\ m.born \in Since(r) .. Until(r))
            /\ call' = [call EXCEPT ![c].pc = "swap", ![c].sum = @ + LateSettles(r, m)]
      /\ UNCHANGED <<row, money, misses, now>>

(* The lease as it was read: the owner and its last renewal. *)
SameOwner(c) == row.owner = call[c].seen.owner /\ row.status = "pending"
SameLease(c) == SameOwner(c) /\ row.lease = call[c].seen.lease

Swap(c) ==
  /\ call[c].pc = "swap"
  /\ \/ /\ SameLease(c)
        /\ row' = [row EXCEPT !.status = "done", !.charged = call[c].sum,
                              !.answer = IF call[c].sum > 0 THEN "lost" ELSE "unknown"]
        /\ End(c, "replayed")
     \/ /\ ~SameLease(c)
        /\ End(c, "refused")
        /\ UNCHANGED row
  /\ UNCHANGED <<money, misses, now>>

-----------------------------------------------------------------------------
NextId == Cardinality({d \in Calls : call[d].id > 0}) + 1

(* _claim_idempotent: a row that is still there is a lost insert, unless it *)
(* has expired and this call's sweep could lock and delete it.              *)
VacantAsLookedUp(c) == call[c].seen = NoRow
Vacant(c) == row = NoRow \/ Expired(row)

Claim(c) ==
  /\ call[c].pc = "claim"
  /\ \/ /\ Vacant(c)
        /\ row' = [NoRow EXCEPT !.owner = c, !.print = call[c].print, !.status = "pending",
                                !.lease = now, !.expires = now + Window]
        /\ call' = [call EXCEPT ![c].pc = "own", ![c].id = NextId,
                                 ![c].claimed = now, ![c].beat = now]
     \/ /\ row # NoRow
        /\ End(c, "refused")
        /\ UNCHANGED row
  /\ UNCHANGED <<money, misses, now>>

(* _hold_claim_lease: while the request has the claim. *)
Working(c) == call[c].pc \in {"own", "sent", "closed"}

RenewLease(c) ==
  /\ Working(c) /\ now >= call[c].beat + Renew
  /\ call' = [call EXCEPT ![c].beat = now]
  /\ \/ /\ row' = IF Owned(c) THEN [row EXCEPT !.lease = now] ELSE row
        /\ UNCHANGED misses
     \/ /\ misses < MaxMisses
        /\ misses' = misses + 1
        /\ UNCHANGED row
  /\ UNCHANGED <<money, now>>

-----------------------------------------------------------------------------
(* The call and its money *)

(* _platform_reserve, then the request is sent. *)
Reserve(c) ==
  /\ call[c].pc = "own"
  /\ money' = [money EXCEPT ![c].hold = "open", ![c].held = now]
  /\ Goto(c, "sent")
  /\ UNCHANGED <<row, misses, now>>

Returned(m) == IF m.hold = "open" THEN [m EXCEPT !.hold = "closed", !.held = 0] ELSE m
ChargedOnly(m, n) == IF m.hold = "open" THEN [m EXCEPT !.paid = n, !.at = now] ELSE m
Charged(m, n) ==
  IF m.hold = "open" THEN [m EXCEPT !.hold = "closed", !.held = 0, !.paid = n, !.at = now] ELSE m

(* _platform_settle of a success, or of an error, a 4xx, that reports a     *)
(* charge.  A hold that was reaped is charged nothing.                      *)
Settle(c, n, error) ==
  /\ call[c].pc = "sent"
  /\ money' = [money EXCEPT ![c] = Charged(@, n)]
  /\ call' = [call EXCEPT ![c].pc = "closed", ![c].cost = money'[c].paid, ![c].error = error]
  /\ UNCHANGED <<row, misses, now>>

(* It never raises: the hold stays for the reaper and the call costs 0. *)
SettleFails(c) ==
  /\ call[c].pc = "sent"
  /\ Goto(c, "closed")
  /\ UNCHANGED <<row, money, misses, now>>

(* defer_submission *)
Defer(c, n) ==
  /\ call[c].pc = "sent" /\ money[c].hold = "open"
  /\ money' = [money EXCEPT ![c].task = "pending", ![c].born = now]
  /\ call' = [call EXCEPT ![c].pc = "closed", ![c].cost = n]
  /\ UNCHANGED <<row, misses, now>>

(* Refused before the reserve, not metered, or failed at no charge. *)
Fail(c) ==
  /\ call[c].pc \in {"own", "sent"}
  /\ money' = [money EXCEPT ![c] = Returned(@)]
  /\ Leave(c, "drop", "failed")
  /\ UNCHANGED <<row, misses, now>>

(* _finish_cancelled_call: the hold goes back, or a purchase that was sent  *)
(* is charged, or its release fails and is logged; then the claim.          *)
Cancel(c) ==
  /\ Working(c)
  /\ \/ /\ money' = [money EXCEPT ![c] = Returned(@)]
        /\ Leave(c, "drop", "cancelled")
     \/ /\ call[c].pc = "sent" /\ call[c].print \in Purchases
        /\ \E n \in Charges : money' = [money EXCEPT ![c] = Charged(@, n)]
        /\ Leave(c, "drop", "purchased")
     \/ /\ Leave(c, "drop", "cancelled")
        /\ UNCHANGED money
  /\ UNCHANGED <<row, misses, now>>

-----------------------------------------------------------------------------
(* The end of the claim *)

(* _store_idempotent of an answer that is kept, as no error is. *)
Store(c) ==
  /\ call[c].pc = "closed" /\ ~call[c].error
  /\ row' = IF Owned(c) THEN [row EXCEPT !.status = "done", !.answer = "kept",
                                         !.charged = call[c].cost]
            ELSE row
  /\ End(c, "done")
  /\ UNCHANGED <<money, misses, now>>

StoreFails(c) ==
  /\ call[c].pc = "closed"
  /\ End(c, "done")
  /\ UNCHANGED <<row, money, misses, now>>

(* The answer is not kept, and the key is free again, whatever the call was *)
(* charged: a 4xx, or a body that was streamed or spooled.  A deferred      *)
(* call's is neither.                                                       *)
NotKept(c) ==
  /\ call[c].pc = "closed" /\ money[c].task = "none"
  /\ Leave(c, "drop", IF call[c].error THEN "rejected" ELSE "streamed")
  /\ UNCHANGED <<row, money, misses, now>>

(* _release_idempotent_claim, or the delete of _store_idempotent: only a    *)
(* claim that is still this call's, and pending.                            *)
MayDropAny(c) == row.status = "pending"
MayDrop(c) == Owned(c)

Drop(c) ==
  /\ call[c].pc = "drop"
  /\ row' \in {row, IF MayDrop(c) THEN NoRow ELSE row}     \* it may fail
  /\ End(c, "done")
  /\ UNCHANGED <<money, misses, now>>

Crash(c) ==
  /\ call[c].pc \notin {"new", "refused", "replayed", "done", "dead"}
  /\ End(c, "dead")
  /\ UNCHANGED <<row, money, misses, now>>

-----------------------------------------------------------------------------
(* Others: the worker, the reaper, the clock *)

EndTask(c) ==
  /\ money[c].task = "pending"
  /\ \E m \in {Returned(money[c])} \cup {Charged(money[c], n) : n \in Charges} :
       money' = [money EXCEPT ![c] = [m EXCEPT !.task = "ended"]]
  /\ UNCHANGED <<row, call, misses, now>>

(* A pending task keeps a hold off the sweep's list, but not one that was   *)
(* listed before its row was committed.                                     *)
Reap(c) ==
  /\ money[c].hold = "open"
  /\ now > money[c].held + HoldTTL
  /\ money' = [money EXCEPT ![c] = Returned(@)]
  /\ UNCHANGED <<row, call, misses, now>>

Tick ==
  /\ now < MaxNow
  /\ \A c \in Calls : Working(c) => now < call[c].beat + Renew + Late
  /\ now' = now + 1
  /\ UNCHANGED <<row, call, money, misses>>

Next ==
  \/ \E c \in Calls :
       \/ \E p \in Prints : LookUp(c, p)
       \/ DeleteExpired(c) \/ Claim(c) \/ RenewLease(c)
       \/ FindHold(c) \/ FindEntries(c) \/ FindTasks(c) \/ Swap(c)
       \/ Reserve(c) \/ SettleFails(c) \/ Fail(c) \/ Cancel(c)
       \/ \E n \in Charges : Defer(c, n) \/ \E error \in BOOLEAN : Settle(c, n, error)
       \/ Store(c) \/ StoreFails(c) \/ NotKept(c) \/ Drop(c) \/ Crash(c)
       \/ EndTask(c) \/ Reap(c)
  \/ Tick

Spec == Init /\ [][Next]_vars

-----------------------------------------------------------------------------
TypeOK ==
  /\ row.owner \in Calls \cup {None}
  /\ row.status \in {"none", "pending", "done"}
  /\ row.answer \in {"none", "kept", "lost", "unknown"}
  /\ (row.status = "none") = (row.owner = None)
  /\ \A c \in Calls :
       /\ call[c].pc \in {"new", "claim", "expired", "refused", "hold", "entries", "tasks", "swap",
                          "replayed", "own", "sent", "closed", "drop", "done", "dead"}
       /\ money[c].hold \in {"none", "open", "closed"}
       /\ money[c].task \in {"none", "pending", "ended"}
       /\ money[c].paid \in Charges \cup {0}
       /\ money[c].paid > 0 => money[c].hold = "closed" /\ money[c].at <= now

-----------------------------------------------------------------------------
(* d claimed the key after c, within the window of c's claim. *)
SameWindow(c, d) ==
  /\ 0 < call[c].id /\ call[c].id < call[d].id
  /\ call[d].claimed <= call[c].claimed + Window

PaidTwice(c, d) ==
  money[c].paid > 0 /\ money[d].paid > 0 /\ SameWindow(c, d)

(* "One remembered answer, so a retried call is not paid for twice": two    *)
(* calls of one key are both charged within a window only if the answer of  *)
(* the first is never kept (a streamed or spooled body, or a 4xx that the   *)
(* provider charged for), or it was a purchase whose repetition the         *)
(* provider prices at nothing.                                              *)
RetryPaidOnce ==
  \A c, d \in Calls : PaidTwice(c, d) => call[c].how \in {"streamed", "rejected", "purchased"}

(* What the code keeps of that: only a call that gave its claim back itself,*)
(* now a cancelled one too, lets another be charged.  No crash, lost answer,*)
(* failed write, missed renewal or stale retry does.                        *)
PaidTwiceOnlyIfGivenBack ==
  \A c, d \in Calls :
    PaidTwice(c, d) => call[c].how \in {"streamed", "rejected", "purchased", "cancelled"}

(* At most one call of a key is between its claim and its end, even when    *)
(* its lease has run out and a retry has closed its claim, until the window *)
(* has passed: no second call reaches the provider meanwhile.               *)
OneAtWork ==
  \A c, d \in Calls :
    Working(c) /\ Working(d) => ~SameWindow(c, d)

(* The stored 410 tells the truth about its owner: if its renewals arrived, *)
(* the charge it shows is what the owner paid, whether it paid before its   *)
(* process died or by an async task that its worker settled much later.     *)
LostChargeFound ==
  misses = 0 /\ row.answer \in {"lost", "unknown"} => row.charged = money[row.owner].paid

(* A claim that is pending and inside its window ends by its owner's own    *)
(* step, or by a retry that finds its lease run out at that very moment and *)
(* none of its money moving.                                                *)
ClaimIsTheOwners ==
  [][row.status = "pending" /\ ~Expired(row) /\ (row'.owner # row.owner \/ row'.status = "done")
     => \/ call'[row.owner] # call[row.owner]
        \/ row'.answer \in {"lost", "unknown"} /\ Abandoned(row)]_vars

=============================================================================
