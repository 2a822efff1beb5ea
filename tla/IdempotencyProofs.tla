------------------------ MODULE IdempotencyProofs ------------------------
(***************************************************************************)
(* What holds of an Idempotency-Key for any finite number of calls and any *)
(* window, lease and delay: proofs of the properties of Idempotency, all   *)
(* from one inductive invariant, IInv.  Whose turn it is rests on the row: *)
(* a claim is kept, over, or given back (KeptOrOver), so that a later one  *)
(* is Apart from it.  What a stored 410 says rests on the lease: while no  *)
(* renewal is missed, a lease that ran out has no call behind it, and all  *)
(* its owner's money is dated within what the retry searches (Dated,       *)
(* Found).                                                                 *)
(***************************************************************************)
EXTENDS Idempotency, FiniteSetTheorems, TLAPS

USE IdempotencyAssumption DEF IdempotencyAssumption

-----------------------------------------------------------------------------
(* Before a call's claim, between it and its end, and how a claim is given   *)
(* back.                                                                    *)
Early == {"new", "claim", "expired", "refused", "hold", "entries", "tasks", "swap", "replayed"}
Holding == {"own", "sent", "closed", "drop"}
Given == {"failed", "streamed", "rejected", "purchased", "cancelled"}

RowSet == [owner : Calls \cup {None}, print : Prints \cup {None},
           status : {"none", "pending", "done"}, answer : {"none", "kept", "lost", "unknown"},
           charged : Nat, lease : Nat, expires : Nat]
CallSet == [pc : Early \cup Holding \cup {"done", "dead"}, print : Prints \cup {None}, seen : RowSet,
            sum : Nat, id : Nat, claimed : Nat, beat : Nat, cost : Nat, error : BOOLEAN, how : Given \cup {"none"}]
MoneySet == [hold : {"none", "open", "closed"}, held : Nat, task : {"none", "pending", "ended"},
             born : Nat, paid : Charges \cup {0}, at : Nat]

Typed ==
  /\ row \in RowSet
  /\ call \in [Calls -> CallSet]
  /\ money \in [Calls -> MoneySet]
  /\ misses \in Nat
  /\ now \in Nat

HasClaimed(c) == call[c].id > 0
Claimants == {d \in Calls : call[d].id > 0}
GaveBack(c) == call[c].pc = "done" /\ call[c].how \in Given

(* The row is of a call that claimed the key, from its claim for a window.  *)
RowOwned ==
  /\ row = NoRow \/ (row.owner \in Calls /\ row.status # "none")
  /\ row.owner \in Calls => HasClaimed(row.owner) /\ row.expires = call[row.owner].claimed + Window
  /\ row.answer \in {"lost", "unknown"} => row.status = "done"

(* A call and its own money. *)
Course(c) ==
  LET k == call[c]
      m == money[c]
  IN  /\ k.pc \in Early => ~HasClaimed(c)
      /\ k.pc \in Holding => HasClaimed(c)
      /\ ~HasClaimed(c) => m = NoMoney
      /\ HasClaimed(c) => k.claimed <= now
      /\ k.pc \in Early \cup {"own", "sent", "closed"} => k.how = "none"
      /\ k.pc = "drop" => k.how \in Given
      /\ k.pc = "own" => m.hold = "none"
      /\ k.pc \in {"own", "sent"} => m.task = "none" /\ m.paid = 0
      /\ k.how = "failed" => m.hold # "open" /\ m.paid = 0
      /\ m.paid > 0 => m.hold = "closed" /\ k.claimed <= m.at /\ m.at <= now
      /\ m.task # "none" => k.claimed <= m.born /\ m.born <= now
      /\ Working(c) => k.beat <= now /\ now <= k.beat + Renew + Late

Numbered == \A c \in Calls : call[c].id <= Cardinality(Claimants)

(* What a claim that was made rests on, until its window is over. *)
KeptOrOver(c) ==
  HasClaimed(c) => row.owner = c \/ now > call[c].claimed + Window \/ GaveBack(c)

Apart ==
  \A c, d \in Calls :
    HasClaimed(c) /\ call[c].id < call[d].id
      => call[d].claimed > call[c].claimed + Window \/ GaveBack(c)

(* All the money of an owner was moved, or its task begun, by Until(r).     *)
Dated(r) ==
  LET m == money[r.owner]
  IN  /\ m.paid > 0 /\ m.task = "none" => m.at <= Until(r)
      /\ m.task # "none" => m.born <= Until(r)

LeaseHeld ==
  misses = 0 /\ row.status = "pending"
    => /\ Working(row.owner) => row.lease = call[row.owner].beat
       /\ Dated(row)

(* What a retry knows of the row it read.                                   *)
SeenRow(c) ==
  LET r == call[c].seen
  IN  call[c].pc \in {"expired", "hold", "entries", "tasks", "swap"}
        => /\ r.owner \in Calls /\ HasClaimed(r.owner)
           /\ r.expires = call[r.owner].claimed + Window
           /\ IF call[c].pc = "expired" THEN Expired(r) ELSE Abandoned(r)

Found(c) ==
  LET r == call[c].seen
      m == money[r.owner]
      pc == call[c].pc
  IN  misses = 0
        => /\ pc \in {"hold", "entries", "tasks", "swap"} => ~Working(r.owner) /\ Dated(r)
           /\ pc \in {"entries", "tasks", "swap"} => m.hold # "open"
           /\ pc = "tasks" => call[c].sum = IF m.at \in Since(r) .. Until(r) THEN m.paid ELSE 0
           /\ pc = "swap" => call[c].sum = m.paid

Closed ==
  misses = 0 /\ row.answer \in {"lost", "unknown"}
    => /\ row.charged = money[row.owner].paid
       /\ money[row.owner].hold # "open"
       /\ ~Working(row.owner)

IInv ==
  /\ Typed
  /\ RowOwned
  /\ Numbered
  /\ Apart
  /\ LeaseHeld
  /\ Closed
  /\ \A c \in Calls : Course(c) /\ KeptOrOver(c) /\ SeenRow(c) /\ Found(c)

-----------------------------------------------------------------------------
(* A step *)

(* Every step but the clock's is one call's: it touches that call, its      *)
(* money, and the row in one of five ways.                                  *)
OnlyOf(c) == \A d \in Calls \ {c} : call'[d] = call[d] /\ money'[d] = money[d]

(* What no step takes back from a call that made its claim: its number, and *)
(* once it works no more, the end of its hold and the dates of its money.   *)
Steady(o) ==
  LET m == money[o]
      n == money'[o]
  IN  /\ HasClaimed(o) => call'[o].id = call[o].id /\ call'[o].claimed = call[o].claimed
      /\ HasClaimed(o) /\ ~Working(o) =>
           /\ ~Working(o)'
           /\ m.hold # "open" => n.hold # "open" /\ n.paid = m.paid /\ n.at = m.at
           /\ m.task = "none" => n.task = "none" /\ n.paid = m.paid /\ n.at = m.at
           /\ m.task # "none" => n.task # "none" /\ n.born = m.born
      /\ GaveBack(o) => GaveBack(o)'

Renews(c) ==
  /\ Owned(c) /\ Working(c) /\ Working(c)'
  /\ row' = [row EXCEPT !.lease = now]
  /\ call'[c].beat = now

Frees(c) ==
  /\ row' = NoRow
  /\ row.owner \in Calls
  /\ Expired(row) \/ (row.owner = c /\ GaveBack(c)')

Answers(c) ==
  /\ Owned(c) /\ ~Working(c)'
  /\ \E n \in Nat : row' = [row EXCEPT !.status = "done", !.answer = "kept", !.charged = n]

Swaps(c) ==
  /\ SameLease(c) /\ call[c].pc = "swap"
  /\ row' = [row EXCEPT !.status = "done", !.charged = call[c].sum,
                        !.answer = IF call[c].sum > 0 THEN "lost" ELSE "unknown"]

Takes(c) ==
  /\ Vacant(c) /\ call[c].pc = "claim"
  /\ row' = [NoRow EXCEPT !.owner = c, !.print = call[c].print, !.status = "pending",
                          !.lease = now, !.expires = now + Window]
  /\ call'[c].id = NextId /\ call'[c].claimed = now /\ call'[c].beat = now
  /\ call'[c].pc = "own"

RowStep(c) ==
  \/ row' = row /\ call'[c].id = call[c].id
  \/ Renews(c) /\ call'[c].id = call[c].id
  \/ Frees(c) /\ call'[c].id = call[c].id
  \/ Answers(c) /\ call'[c].id = call[c].id
  \/ Swaps(c) /\ call'[c].id = call[c].id
  \/ Takes(c)

BeatKept(c) ==
  Working(c)' /\ Owned(c) => call'[c].beat = call[c].beat \/ misses' > 0 \/ Renews(c)

StepOf(c) ==
  /\ OnlyOf(c)
  /\ now' = now /\ misses' >= misses
  /\ Typed'
  /\ Steady(c)
  /\ RowStep(c)
  /\ BeatKept(c)
  /\ Course(c)' /\ SeenRow(c)' /\ Found(c)'

USE DEF Early, Holding, Given

LEMMA RowTypes == NoRow \in RowSet /\ None \notin Calls
  BY DEF NoRow, RowSet

(* The fields of a call's money have their types.                            *)
LEMMA MoneyFields ==
  ASSUME Typed, NEW o \in Calls
  PROVE  /\ money[o] \in MoneySet
         /\ money[o].paid \in Nat /\ money[o].at \in Nat /\ money[o].born \in Nat /\ money[o].held \in Nat
<1>1. money[o] \in MoneySet
  BY DEF Typed
<1>2. \A x \in Charges \cup {0} : x \in Nat
  OBVIOUS
<1> QED
  BY <1>1, <1>2 DEF MoneySet

(* A step of one call is steady for every call.                              *)
LEMMA OthersSteady ==
  ASSUME NEW c \in Calls, OnlyOf(c), Steady(c), NEW o \in Calls
  PROVE  Steady(o)
<1>1. CASE o = c
  BY <1>1
<1>2. CASE o # c
  BY <1>2 DEF OnlyOf, Steady, HasClaimed, Working, GaveBack
<1> QED
  BY <1>1, <1>2

(* The owner of the row is always a call that made its claim.               *)
LEMMA OwnerClaimed ==
  ASSUME Typed, RowOwned, row.status # "none" \/ row.owner # None
  PROVE  row.owner \in Calls /\ HasClaimed(row.owner) /\ row.expires = call[row.owner].claimed + Window
  BY DEF RowOwned, Typed, RowSet, NoRow

(* The row names a call that made its claim, for a window from then on.      *)
LEMMA RowOwnedKept ==
  ASSUME IInv, NEW c \in Calls, StepOf(c)
  PROVE  RowOwned'
<1>1. Typed /\ RowOwned /\ Typed'
  BY DEF IInv, StepOf
<1>2. \A o \in Calls : Steady(o)
  BY OthersSteady DEF StepOf
<1>3. \A o \in Calls : HasClaimed(o) => HasClaimed(o)' /\ call'[o].claimed = call[o].claimed
  BY <1>2 DEF Steady, HasClaimed
<1> USE DEF RowOwned
<1>4. CASE row' = row
  BY <1>1, <1>3, <1>4 DEF NoRow
<1>5. CASE Renews(c)
  BY <1>1, <1>3, <1>5, OwnerClaimed DEF Renews, Owned, Typed, RowSet, NoRow
<1>6. CASE Frees(c)
  BY <1>6 DEF Frees, NoRow
<1>7. CASE Answers(c)
  BY <1>1, <1>3, <1>7, OwnerClaimed DEF Answers, Owned, Typed, RowSet, NoRow
<1>8. CASE Swaps(c)
  BY <1>1, <1>3, <1>8, OwnerClaimed DEF Swaps, SameLease, SameOwner, Typed, RowSet, NoRow
<1>9. CASE Takes(c)
  <2>1. Cardinality(Claimants) \in Nat
    BY FS_CardinalityType, FS_Subset DEF Claimants
  <2> QED
    BY <1>9, <2>1 DEF Takes, NoRow, HasClaimed, NextId, Claimants
<1> QED
  BY <1>4, <1>5, <1>6, <1>7, <1>8, <1>9 DEF StepOf, RowStep

(* A claim is kept, over, or given back.                                     *)
LEMMA KeptOrOverKept ==
  ASSUME IInv, NEW c \in Calls, StepOf(c), NEW d \in Calls
  PROVE  KeptOrOver(d)'
<1>1. Typed /\ RowOwned /\ Typed' /\ KeptOrOver(d) /\ now' = now
  BY DEF IInv, StepOf
<1>2. Steady(d)
  BY OthersSteady DEF StepOf
<1>3. CASE Takes(c) /\ d = c
  BY <1>3 DEF KeptOrOver, Takes, NoRow
<1>4. CASE ~(Takes(c) /\ d = c)
  <2>1. HasClaimed(d)' => HasClaimed(d)
    BY <1>4 DEF StepOf, RowStep, OnlyOf, HasClaimed
  <2>2. SUFFICES ASSUME HasClaimed(d), row.owner = d, ~(row'.owner = d)
                 PROVE  now > call[d].claimed + Window \/ GaveBack(d)'
    BY <1>1, <1>2, <2>1 DEF KeptOrOver, Steady
  <2>3. row.expires = call[d].claimed + Window /\ row # NoRow
    BY <1>1, <2>2 DEF RowOwned, NoRow
  <2>4. CASE Frees(c)
    BY <2>2, <2>3, <2>4, <1>1 DEF Frees, Expired, Typed, RowSet, CallSet
  <2>5. CASE Takes(c)
    BY <2>2, <2>3, <2>5, <1>1 DEF Takes, Vacant, Expired, Typed, RowSet, CallSet
  <2>6. CASE Renews(c) \/ Answers(c) \/ Swaps(c) \/ row' = row
    BY <2>2, <2>6, <1>1 DEF Renews, Answers, Swaps, Typed, RowSet
  <2> QED
    BY <2>4, <2>5, <2>6 DEF StepOf, RowStep
<1> QED
  BY <1>3, <1>4

(* The next number is one past those given out.                              *)
LEMMA Counting == 
  ASSUME Typed
  PROVE  IsFiniteSet(Claimants) /\ Cardinality(Claimants) \in Nat /\ NextId = Cardinality(Claimants) + 1
  BY FS_CardinalityType, FS_Subset DEF Claimants, NextId

(* No call has a number past the count of claims.                            *)
LEMMA NumberedKept ==
  ASSUME IInv, NEW c \in Calls, StepOf(c)
  PROVE  Numbered'
<1>1. Typed /\ Numbered /\ Course(c)
  BY DEF IInv
<1>2. \A d \in Calls : d # c => call'[d].id = call[d].id
  BY DEF StepOf, OnlyOf
<1>3. CASE call'[c].id = call[c].id
  <2>1. \A d \in Calls : call'[d].id = call[d].id
    BY <1>2, <1>3
  <2>2. Claimants' = Claimants
    BY <2>1 DEF Claimants
  <2> QED
    BY <1>1, <2>1, <2>2 DEF Numbered
<1>4. CASE Takes(c)
  <2>1. c \notin Claimants
    BY <1>1, <1>4 DEF Takes, Course, HasClaimed, Claimants
  <2>2. Claimants' = Claimants \cup {c}
    BY <1>1, <1>2, <1>4, Counting DEF Takes, Claimants
  <2>3. Cardinality(Claimants)' = Cardinality(Claimants) + 1
    BY <1>1, <2>1, <2>2, Counting, FS_AddElement
  <2>4. Cardinality(Claimants) \in Nat /\ call'[c].id = Cardinality(Claimants) + 1
    BY <1>1, <1>4, Counting DEF Takes
  <2>5. \A d \in Calls : call[d].id \in Nat
    BY <1>1 DEF Typed, CallSet
  <2> QED
    BY <1>1, <1>2, <2>3, <2>4, <2>5 DEF Numbered
<1> QED
  BY <1>3, <1>4 DEF StepOf, RowStep

(* A later claim is past the window of an earlier one not given back.        *)
LEMMA ApartKept ==
  ASSUME IInv, NEW c \in Calls, StepOf(c)
  PROVE  Apart'
<1>1. Typed /\ RowOwned /\ Typed' /\ Numbered /\ Apart /\ now' = now /\ Course(c)
  BY DEF IInv, StepOf
<1>2. \A o \in Calls : Steady(o)
  BY OthersSteady DEF StepOf
<1>3. \A d \in Calls : d # c => call'[d] = call[d]
  BY DEF StepOf, OnlyOf
<1> SUFFICES ASSUME NEW a \in Calls, NEW b \in Calls, HasClaimed(a)', call'[a].id < call'[b].id
             PROVE  call'[b].claimed > call'[a].claimed + Window \/ GaveBack(a)'
  BY DEF Apart
<1>4. CASE Takes(c)
  <2>1. ~HasClaimed(c)
    BY <1>1, <1>4 DEF Takes, Course
  <2>2. Cardinality(Claimants) \in Nat /\ call'[c].id = Cardinality(Claimants) + 1
    BY <1>1, <1>4, Counting DEF Takes
  <2>3. a # c
    <3> SUFFICES ASSUME a = c PROVE FALSE
      OBVIOUS
    <3>1. b # c /\ call'[b].id = call[b].id /\ call[b].id \in Nat
      BY <1>1, <1>3 DEF Typed, CallSet
    <3> QED
      BY <3>1, <2>2, <1>1 DEF Numbered
  <2>4. CASE b = c
    <3>1. HasClaimed(a) /\ KeptOrOver(a) /\ call'[a] = call[a]
      BY <2>3, <1>3 DEF HasClaimed, IInv
    <3>2. row.owner = a => now > call[a].claimed + Window
      <4> SUFFICES ASSUME row.owner = a PROVE now > call[a].claimed + Window
        OBVIOUS
      <4>1. row # NoRow /\ row.expires = call[a].claimed + Window
        BY <1>1 DEF RowOwned, NoRow
      <4> QED
        BY <1>1, <1>4, <4>1 DEF Takes, Vacant, Expired, Typed, RowSet, CallSet
    <3>3. now > call[a].claimed + Window \/ GaveBack(a)
      BY <3>1, <3>2 DEF KeptOrOver
    <3> QED
      BY <3>1, <3>3, <2>4, <1>4 DEF Takes, GaveBack
  <2>5. CASE b # c
    BY <2>3, <2>5, <1>1, <1>3 DEF Apart, HasClaimed, GaveBack
  <2> QED
    BY <2>4, <2>5
<1>5. CASE call'[c].id = call[c].id
  <2>1. call'[a].id = call[a].id /\ call'[b].id = call[b].id
    BY <1>3, <1>5
  <2>2. HasClaimed(a) /\ call[a].id < call[b].id
    BY <2>1 DEF HasClaimed
  <2>3. HasClaimed(b)
    BY <2>2, <1>1 DEF HasClaimed, Typed, CallSet
  <2>4. call'[a].claimed = call[a].claimed /\ call'[b].claimed = call[b].claimed
    BY <1>2, <2>2, <2>3 DEF Steady
  <2>5. GaveBack(a) => GaveBack(a)'
    BY <1>2 DEF Steady
  <2> QED
    BY <2>2, <2>4, <2>5, <1>1 DEF Apart
<1> QED
  BY <1>4, <1>5 DEF StepOf, RowStep

(* Money that is not its call's to move any more keeps its dates.           *)
LEMMA DatedKept ==
  ASSUME NEW r, r.owner \in Calls, HasClaimed(r.owner), ~Working(r.owner), Steady(r.owner), Dated(r)
  PROVE  /\ money'[r.owner].paid > 0 /\ money'[r.owner].task = "none" => money'[r.owner].at <= Until(r)
         /\ money'[r.owner].task # "none" => money'[r.owner].born <= Until(r)
  BY DEF Dated, Steady

(* The lease of a call at work is its last renewal, and bounds its money.    *)
LEMMA LeaseHeldKept ==
  ASSUME IInv, NEW c \in Calls, StepOf(c)
  PROVE  LeaseHeld'
<1>1. Typed /\ RowOwned /\ Typed' /\ LeaseHeld /\ now' = now /\ misses' >= misses /\ RowOwned'
  BY RowOwnedKept DEF IInv, StepOf
<1> SUFFICES ASSUME misses' = 0, row'.status = "pending"
             PROVE  (Working(row.owner) => row.lease = call[row.owner].beat)' /\ Dated(row)'
  BY DEF LeaseHeld
<1>2. misses = 0
  BY <1>1 DEF Typed
<1>3. \A d \in Calls : d # c => call'[d] = call[d] /\ money'[d] = money[d]
  BY DEF StepOf, OnlyOf
<1>4. CASE Takes(c)
  <2>1. row'.owner = c /\ row'.lease = now /\ call'[c].beat = now
    BY <1>4 DEF Takes, NoRow
  <2>2. (money[c].paid > 0 => money[c].at <= now)'
    BY <1>1 DEF StepOf, Course
  <2>3. (money[c].task # "none" => money[c].born <= now)'
    BY <1>1 DEF StepOf, Course
  <2> QED
    BY <2>1, <2>2, <2>3, <1>1 DEF Dated, Until, Typed, MoneySet
<1>5. CASE row' = row \/ Renews(c)
  <2>1. row.status = "pending" /\ row'.owner = row.owner
    BY <1>1, <1>5 DEF Renews, Owned, Typed, RowSet
  <2>2. row.owner \in Calls /\ HasClaimed(row.owner) /\ row.expires = call[row.owner].claimed + Window
    BY <1>1, <2>1, OwnerClaimed
  <2>3. (Working(row.owner) => row.lease = call[row.owner].beat) /\ Dated(row)
    BY <1>1, <1>2, <2>1 DEF LeaseHeld
  <2> DEFINE o == row.owner
  <2>4. Steady(o)
    BY <2>2, OthersSteady DEF StepOf
  <2>5. CASE o # c
    <3>1. ~Renews(c)
      BY <2>5 DEF Renews, Owned
    <3> QED
      BY <3>1, <1>3, <1>5, <2>2, <2>3, <2>5 DEF Working, Dated, Until
  <2>6. CASE o = c /\ ~Working(c)
    <3>1. row' = row /\ ~Working(c)'
      BY <1>5, <2>2, <2>4, <2>6 DEF Renews, Steady
    <3>2. Dated(row)'
      BY <3>1, <2>2, <2>3, <2>4, <2>6, DatedKept DEF Dated, Until
    <3> QED
      BY <3>1, <3>2, <2>6
  <2>7. CASE o = c /\ Working(c)
    <3>1. row'.lease \in Nat /\ row'.lease + Renew + Grace >= now
      <4>1. row.lease \in Nat /\ row.lease + Renew + Grace >= now
        BY <2>3, <2>7, <1>1 DEF IInv, Course, Typed, CallSet, RowSet
      <4>2. CASE Renews(c)
        BY <4>2, <1>1 DEF Renews, Typed, RowSet
      <4> QED
        BY <4>1, <4>2, <1>5
    <3>2. (money[c].paid > 0 => money[c].at <= now)' /\ (money[c].task # "none" => money[c].born <= now)'
      BY DEF StepOf, Course
    <3>3. Dated(row)'
      BY <3>1, <3>2, <2>1, <2>7, <1>1 DEF Dated, Until, Typed, MoneySet
    <3>4. (Working(c) => row.lease = call[c].beat)'
      <4>1. CASE Renews(c)
        BY <4>1, <1>1 DEF Renews, Typed, RowSet
      <4>2. CASE ~Renews(c)
        BY <4>2, <1>5, <2>1, <2>3, <2>7 DEF StepOf, BeatKept, Owned
      <4> QED
        BY <4>1, <4>2
    <3> QED
      BY <3>3, <3>4, <2>1, <2>7
  <2> QED
    BY <2>5, <2>6, <2>7
<1>6. CASE Frees(c) \/ Answers(c) \/ Swaps(c)
  <2>1. row'.status # "pending"
    <3>1. CASE Frees(c)
      BY <3>1 DEF Frees, NoRow
    <3>2. CASE Answers(c)
      BY <3>2, <1>1 DEF Answers, Typed, RowSet
    <3>3. CASE Swaps(c)
      BY <3>3, <1>1 DEF Swaps, Typed, RowSet
    <3> QED
      BY <1>6, <3>1, <3>2, <3>3
  <2> QED
    BY <2>1
<1> QED
  BY <1>4, <1>5, <1>6 DEF StepOf, RowStep

(* A lease that ran out while every renewal arrived has no call behind it.  *)
LEMMA AbandonedIsIdle ==
  ASSUME IInv, misses = 0, row.status = "pending", Abandoned(row)
  PROVE  row.owner \in Calls /\ ~Working(row.owner) /\ Dated(row)
<1>1. row.owner \in Calls
  BY OwnerClaimed DEF IInv
<1>2. Course(row.owner) /\ LeaseHeld /\ Typed
  BY <1>1 DEF IInv
<1>3. Working(row.owner) => row.lease = call[row.owner].beat
  BY <1>2 DEF LeaseHeld
<1>4. Working(row.owner) => now <= call[row.owner].beat + Renew + Late
  BY <1>2 DEF Course
<1> QED
  BY <1>1, <1>2, <1>3, <1>4 DEF LeaseHeld, Abandoned, Typed, RowSet, CallSet

(* The answer a retry stored stays true of its owner.                        *)
LEMMA ClosedKept ==
  ASSUME IInv, NEW c \in Calls, StepOf(c)
  PROVE  Closed'
<1>1. Typed /\ RowOwned /\ Typed' /\ Closed /\ now' = now /\ misses' >= misses
  BY DEF IInv, StepOf
<1> SUFFICES ASSUME misses' = 0, row'.answer \in {"lost", "unknown"}
             PROVE  /\ row'.charged = money'[row'.owner].paid
                    /\ money'[row'.owner].hold # "open"
                    /\ ~Working(row.owner)'
  BY DEF Closed
<1>2. misses = 0
  BY <1>1 DEF Typed
<1>3. CASE row' = row \/ Renews(c)
  <2>1. row' = row
    BY <1>1, <1>3 DEF Renews, Owned, Typed, RowSet, RowOwned
  <2>2. row.owner \in Calls /\ HasClaimed(row.owner)
    BY <1>1, <2>1, OwnerClaimed DEF RowOwned
  <2>3. Steady(row.owner)
    BY <2>2, OthersSteady DEF StepOf
  <2> QED
    BY <1>1, <1>2, <2>1, <2>2, <2>3 DEF Closed, Steady
<1>4. CASE Swaps(c)
  <2>1. row'.owner = row.owner /\ row'.charged = call[c].sum
    BY <1>1, <1>4 DEF Swaps, Typed, RowSet
  <2>2. row.owner = call[c].seen.owner /\ row.owner \in Calls
    BY <1>1, <1>4, OwnerClaimed DEF Swaps, SameLease, SameOwner
  <2>3. Found(c) /\ SeenRow(c) /\ call[c].pc = "swap"
    BY <1>4 DEF Swaps, IInv
  <2>4. /\ call[c].sum = money[row.owner].paid
        /\ money[row.owner].hold # "open"
        /\ ~Working(row.owner) /\ HasClaimed(row.owner)
    BY <1>2, <2>2, <2>3 DEF Found, SeenRow
  <2>5. Steady(row.owner)
    BY <2>2, OthersSteady DEF StepOf
  <2> QED
    BY <2>1, <2>4, <2>5 DEF Steady
<1>5. CASE Takes(c) \/ Answers(c) \/ Frees(c)
  <2>1. row'.answer \in {"none", "kept"}
    <3>1. CASE Frees(c)
      BY <3>1 DEF Frees, NoRow
    <3>2. CASE Takes(c)
      BY <3>2 DEF Takes, NoRow
    <3>3. CASE Answers(c)
      BY <3>3, <1>1 DEF Answers, Typed, RowSet
    <3> QED
      BY <1>5, <3>1, <3>2, <3>3
  <2> QED
    BY <2>1
<1> QED
  BY <1>3, <1>4, <1>5 DEF StepOf, RowStep

(* What holds of a call and of what it read survives the steps of others.    *)
LEMMA OthersKept ==
  ASSUME IInv, NEW c \in Calls, StepOf(c), NEW d \in Calls, d # c
  PROVE  Course(d)' /\ SeenRow(d)' /\ Found(d)'
<1>1. Course(d) /\ SeenRow(d) /\ Found(d) /\ Typed
  BY DEF IInv
<1>2. call'[d] = call[d] /\ money'[d] = money[d] /\ now' = now /\ misses' >= misses /\ misses' \in Nat
  BY DEF StepOf, OnlyOf, Typed
<1>3. Course(d)'
  BY <1>1, <1>2 DEF Course, HasClaimed, Working
<1> DEFINE r == call[d].seen
<1>4. CASE call[d].pc \in {"expired", "hold", "entries", "tasks", "swap"}
  <2>1. r.owner \in Calls /\ HasClaimed(r.owner)
    BY <1>1, <1>4 DEF SeenRow
  <2>2. Steady(r.owner)
    BY <2>1, OthersSteady DEF StepOf
  <2>3. SeenRow(d)'
    BY <1>1, <1>2, <1>4, <2>1, <2>2 DEF SeenRow, Steady, HasClaimed, Expired, Abandoned
  <2>4. Found(d)'
    <3> SUFFICES ASSUME misses' = 0, call[d].pc # "expired" PROVE Found(d)'
      BY <1>2, <1>4 DEF Found
    <3>1. misses = 0
      BY <1>1, <1>2 DEF Typed
    <3>2. ~Working(r.owner) /\ Dated(r)
      BY <3>1, <1>1, <1>4 DEF Found
    <3>3. ~Working(r.owner)'
      BY <3>2, <2>1, <2>2, <1>2 DEF Steady
    <3>4. (Dated(call[d].seen))'
      BY <3>2, <2>1, <2>2, <1>2, DatedKept DEF Dated, Until
    <3> QED
      BY <3>1, <3>2, <3>3, <3>4, <1>1, <1>2, <2>1, <2>2 DEF Found, Steady, Since, Until
  <2> QED
    BY <1>3, <2>3, <2>4
<1>5. CASE call[d].pc \notin {"expired", "hold", "entries", "tasks", "swap"}
  BY <1>2, <1>3, <1>5 DEF SeenRow, Found
<1> QED
  BY <1>4, <1>5

(* A step of one call keeps the invariant, given what it does to that        *)
(* call.                                                                     *)
LEMMA StepKeeps ==
  ASSUME IInv, NEW c \in Calls, StepOf(c)
  PROVE  IInv'
<1>1. \A d \in Calls : Course(d)' /\ SeenRow(d)' /\ Found(d)'
  BY OthersKept DEF StepOf
<1>2. \A d \in Calls : KeptOrOver(d)'
  BY KeptOrOverKept
<1> QED
  BY <1>1, <1>2, RowOwnedKept, NumberedKept, ApartKept, LeaseHeldKept, ClosedKept DEF IInv, StepOf


-----------------------------------------------------------------------------
(* The steps *)

Resting(c) == call[c].pc \in {"new", "claim", "refused", "replayed", "own", "sent", "closed", "drop",
                             "done", "dead"}

(* A call that is not resolving a stale claim holds nothing it read.         *)
LEMMA RestingKnowsNothing ==
  ASSUME NEW c \in Calls, Resting(c)'
  PROVE  SeenRow(c)' /\ Found(c)'
  BY DEF Resting, SeenRow, Found

(* The fields of a call have their types.                                    *)
LEMMA CallFields ==
  ASSUME Typed, NEW c \in Calls
  PROVE  /\ call[c] \in CallSet /\ money[c] \in MoneySet
         /\ call[c].pc \in Early \cup Holding \cup {"done", "dead"}
         /\ call[c].id \in Nat /\ call[c].claimed \in Nat /\ call[c].beat \in Nat /\ call[c].sum \in Nat
         /\ call[c].cost \in Nat /\ call[c].how \in Given \cup {"none"} /\ call[c].seen \in RowSet
         /\ call[c].print \in Prints \cup {None}
  BY DEF Typed, CallSet

(* What Leave does to a call.                                                *)
LEMMA LeaveFacts ==
  ASSUME Typed, NEW c \in Calls, NEW pc \in Early \cup Holding \cup {"done", "dead"},
         NEW how \in Given \cup {"none"}, Leave(c, pc, how)
  PROVE  /\ call' \in [Calls -> CallSet]
         /\ call'[c].pc = pc /\ call'[c].how = how
         /\ call'[c].id = call[c].id /\ call'[c].claimed = call[c].claimed
         /\ \A d \in Calls : d # c => call'[d] = call[d]
<1> DEFINE k == [NewCall EXCEPT !.pc = pc, !.how = how, !.id = call[c].id, !.claimed = call[c].claimed]
<1>1. NewCall \in CallSet
  BY RowTypes DEF NewCall, CallSet
<1>2. k \in CallSet
  <2>1. call[c].id \in Nat /\ call[c].claimed \in Nat
    BY CallFields
  <2> QED
    BY ZenonT(60), <1>1, <2>1 DEF CallSet
<1>3. k.pc = pc /\ k.how = how /\ k.id = call[c].id /\ k.claimed = call[c].claimed
  BY DEF NewCall
<1>4. call' = [call EXCEPT ![c] = k]
  BY DEF Leave
<1> HIDE DEF k
<1> QED
  BY <1>2, <1>3, <1>4 DEF Typed

(* What Goto does to a call.                                                 *)
LEMMA GotoFacts ==
  ASSUME Typed, NEW c \in Calls, NEW pc \in Early \cup Holding \cup {"done", "dead"}, Goto(c, pc)
  PROVE  /\ call' \in [Calls -> CallSet]
         /\ call'[c].pc = pc /\ call'[c].how = call[c].how /\ call'[c].seen = call[c].seen
         /\ call'[c].id = call[c].id /\ call'[c].claimed = call[c].claimed
         /\ call'[c].beat = call[c].beat /\ call'[c].sum = call[c].sum
         /\ \A d \in Calls : d # c => call'[d] = call[d]
<1> DEFINE k == [call[c] EXCEPT !.pc = pc]
<1>1. k \in CallSet /\ k.pc = pc /\ k.how = call[c].how /\ k.seen = call[c].seen
      /\ k.id = call[c].id /\ k.claimed = call[c].claimed /\ k.beat = call[c].beat /\ k.sum = call[c].sum
  BY CallFields DEF CallSet
<1>2. call' = [call EXCEPT ![c] = k]
  BY DEF Goto
<1> HIDE DEF k
<1> QED
  BY <1>1, <1>2 DEF Typed

(* A call that gives up, or is over, and takes its claim or nothing along.  *)
LEMMA EarlyLeaves ==
  ASSUME IInv, NEW c \in Calls, call[c].pc \in Early, NEW pc \in {"refused", "replayed", "dead"},
         End(c, pc), row' = row \/ Swaps(c), Typed', UNCHANGED <<money, misses, now>>
  PROVE  IInv'
<1>1. Typed /\ Course(c) /\ ~HasClaimed(c) /\ call[c].how = "none"
  BY DEF IInv, Course
<1>2. /\ call'[c].pc = pc /\ call'[c].how = call[c].how
      /\ call'[c].id = call[c].id /\ call'[c].claimed = call[c].claimed
      /\ \A d \in Calls : d # c => call'[d] = call[d]
  <2>1. Leave(c, pc, call[c].how) /\ pc \in Early \cup Holding \cup {"done", "dead"}
    BY DEF End
  <2>2. call[c].how \in Given \cup {"none"}
    BY <1>1, CallFields
  <2> QED
    BY <1>1, <2>1, <2>2, LeaveFacts
<1>3. OnlyOf(c) /\ Steady(c) /\ Resting(c)'
  BY <1>1, <1>2 DEF OnlyOf, Steady, Resting, HasClaimed, GaveBack
<1>4. Course(c)'
  BY <1>1, <1>2 DEF Course, HasClaimed, Working
<1>5. RowStep(c) /\ BeatKept(c)
  BY <1>2 DEF RowStep, BeatKept, Working
<1>6. misses' >= misses
  BY <1>1 DEF Typed
<1> QED
  BY <1>3, <1>4, <1>5, <1>6, RestingKnowsNothing, StepKeeps DEF StepOf

LEMMA LookUpKeeps ==
  ASSUME IInv, NEW c \in Calls, NEW p \in Prints, LookUp(c, p)
  PROVE  IInv'
<1>1. Typed /\ Course(c) /\ RowOwned /\ call[c].pc = "new"
  BY DEF IInv, LookUp
<1> DEFINE found == Outcome(row, p)
           k == IF found \in {"refused", "replayed"} THEN [call[c] EXCEPT !.pc = found]
                ELSE [call[c] EXCEPT !.pc = found, !.print = p, !.seen = row]
<1>2. found \in {"claim", "expired", "refused", "hold", "replayed"}
  BY DEF Outcome
<1>3. call' = [call EXCEPT ![c] = k] /\ UNCHANGED <<row, money, misses, now>>
  BY DEF LookUp
<1>4. /\ k \in CallSet /\ k.pc = found /\ k.id = call[c].id /\ k.claimed = call[c].claimed
      /\ k.how = call[c].how
  <2> HIDE DEF found
  <2>1. CASE found \in {"refused", "replayed"}
    BY <2>1, <1>1, <1>2, CallFields DEF CallSet, Typed
  <2>2. CASE found \notin {"refused", "replayed"}
    BY ZenonT(60), <2>2, <1>1, <1>2, CallFields DEF CallSet, Typed
  <2> QED
    BY <2>1, <2>2
<1>5. found \in {"expired", "hold"} => k.seen = row
  <2> HIDE DEF found
  <2> QED
    BY <1>1, <1>2, CallFields DEF CallSet
<1>6. found = "expired" => row # NoRow /\ Expired(row)
  BY DEF Outcome
<1>7. found = "hold" => row # NoRow /\ Abandoned(row)
  BY DEF Outcome
<1>8. ~HasClaimed(c) /\ call[c].how = "none"
  BY <1>1 DEF Course
<1> HIDE DEF k, found
<1>9. Typed' /\ OnlyOf(c) /\ call'[c] = k
  BY <1>1, <1>3, <1>4 DEF Typed, OnlyOf
<1>10. Steady(c)
  BY <1>2, <1>4, <1>8, <1>9, <1>3 DEF Steady, HasClaimed, GaveBack
<1>11. RowStep(c) /\ BeatKept(c) /\ misses' >= misses
  BY <1>1, <1>2, <1>3, <1>4, <1>9 DEF RowStep, BeatKept, Working, Typed
<1>12. Course(c)'
  BY <1>1, <1>2, <1>3, <1>4, <1>8, <1>9 DEF Course, HasClaimed, Working
<1>13. SeenRow(c)'
  <2> SUFFICES ASSUME found \in {"expired", "hold"} PROVE SeenRow(c)'
    BY <1>2, <1>4, <1>9 DEF SeenRow
  <2>1. row # NoRow /\ (IF found = "expired" THEN Expired(row) ELSE Abandoned(row))
    BY <1>6, <1>7
  <2>2. row.owner \in Calls /\ HasClaimed(row.owner) /\ row.expires = call[row.owner].claimed + Window
    BY <1>1, <2>1 DEF RowOwned
  <2>3. row.owner # c
    BY <2>2, <1>8
  <2> QED
    BY <2>1, <2>2, <2>3, <1>3, <1>4, <1>5, <1>9 DEF SeenRow, HasClaimed, Expired, Abandoned, OnlyOf
<1>14. Found(c)'
  <2> SUFFICES ASSUME found = "hold", misses = 0 PROVE Found(c)'
    BY <1>2, <1>3, <1>4, <1>9 DEF Found
  <2>1. row.status = "pending" /\ Abandoned(row)
    BY <1>7 DEF Abandoned
  <2>2. row.owner \in Calls /\ ~Working(row.owner) /\ Dated(row)
    BY <2>1, AbandonedIsIdle
  <2>3. Working(row.owner)' = Working(row.owner)
    BY <2>2, <1>1, <1>2, <1>3, <1>4, <1>9 DEF Working, OnlyOf
  <2> QED
    BY <2>2, <2>3, <1>3, <1>4, <1>5, <1>9 DEF Found, Dated, Until
<1> QED
  BY <1>3, <1>9, <1>10, <1>11, <1>12, <1>13, <1>14, StepKeeps DEF StepOf

(* A retry that only reads, or deletes the row it saw expired, goes on.     *)
LEMMA RetryGoesOn ==
  ASSUME IInv, NEW c \in Calls, call[c].pc \in {"expired", "hold", "entries", "tasks"},
         NEW k \in CallSet, call' = [call EXCEPT ![c] = k],
         k.pc \in {"claim", "entries", "tasks", "swap"},
         k.id = call[c].id, k.claimed = call[c].claimed, k.how = call[c].how,
         row' = row \/ Frees(c), row' \in RowSet, UNCHANGED <<money, misses, now>>,
         SeenRow(c)', Found(c)'
  PROVE  IInv'
<1>1. Typed /\ Course(c) /\ ~HasClaimed(c) /\ call[c].how = "none"
  BY DEF IInv, Course
<1>2. Typed' /\ OnlyOf(c) /\ call'[c] = k /\ misses' >= misses
  BY <1>1 DEF Typed, OnlyOf
<1>3. Steady(c)
  BY <1>1, <1>2 DEF Steady, HasClaimed, GaveBack
<1>4. RowStep(c) /\ BeatKept(c)
  BY <1>2 DEF RowStep, BeatKept, Working
<1>5. Course(c)'
  BY <1>1, <1>2 DEF Course, HasClaimed, Working
<1> QED
  BY <1>2, <1>3, <1>4, <1>5, StepKeeps DEF StepOf

LEMMA DeleteExpiredKeeps ==
  ASSUME IInv, NEW c \in Calls, DeleteExpired(c)
  PROVE  IInv'
<1>1. Typed /\ SeenRow(c) /\ RowOwned /\ call[c].pc = "expired" /\ UNCHANGED <<money, misses, now>>
  BY DEF IInv, DeleteExpired
<1> DEFINE k == [call[c] EXCEPT !.pc = "claim", !.seen = NoRow]
<1>2. k \in CallSet /\ k.pc = "claim" /\ k.id = call[c].id /\ k.claimed = call[c].claimed /\ k.how = call[c].how
  BY <1>1, CallFields, RowTypes DEF CallSet
<1>3. call' = [call EXCEPT ![c] = k]
  BY DEF DeleteExpired
<1> HIDE DEF k
<1>4. call'[c].pc = "claim"
  BY <1>1, <1>2, <1>3 DEF Typed
<1>5. Resting(c)'
  BY <1>4 DEF Resting
<1>6. row' = row \/ Frees(c)
  <2>1. CASE row.owner = call[c].seen.owner
    <3>1. row.owner \in Calls /\ row.expires = call[c].seen.expires
      BY <1>1, <2>1 DEF SeenRow, RowOwned
    <3>2. Expired(row)
      BY <1>1, <3>1 DEF SeenRow, RowOwned, Expired, NoRow, RowSet
    <3> QED
      BY <2>1, <3>1, <3>2 DEF Frees, DeleteExpired
  <2> QED
    BY <2>1 DEF DeleteExpired
<1>7. row' \in RowSet
  BY <1>1, RowTypes DEF DeleteExpired, Typed
<1> QED
  BY <1>1, <1>2, <1>3, <1>5, <1>6, <1>7, RestingKnowsNothing, RetryGoesOn

LEMMA FindHoldKeeps ==
  ASSUME IInv, NEW c \in Calls, FindHold(c)
  PROVE  IInv'
<1>1. /\ Typed /\ SeenRow(c) /\ Found(c) /\ Course(c) /\ call[c].pc = "hold"
      /\ UNCHANGED <<row, money, misses, now>>
  BY DEF IInv, FindHold
<1>2. CASE End(c, "refused")
  <2>1. call[c].how \in Given \cup {"none"} /\ Leave(c, "refused", call[c].how)
    BY <1>1, <1>2, CallFields DEF End
  <2>2. call' \in [Calls -> CallSet]
    BY <1>1, <2>1, LeaveFacts
  <2>3. Typed'
    BY <1>1, <2>2 DEF Typed
  <2> QED
    BY <1>1, <1>2, <2>3, EarlyLeaves
<1>3. CASE money[call[c].seen.owner].hold # "open" /\ Goto(c, "entries")
  <2> DEFINE k == call'[c]
  <2>1. /\ call' \in [Calls -> CallSet] /\ k.pc = "entries" /\ k.how = call[c].how /\ k.seen = call[c].seen
        /\ k.id = call[c].id /\ k.claimed = call[c].claimed
        /\ \A d \in Calls : d # c => call'[d] = call[d]
    BY <1>1, <1>3, GotoFacts
  <2>2. call' = [call EXCEPT ![c] = k]
    BY <2>1, <1>1 DEF Typed
  <2>3. call[c].seen.owner # c
    BY <1>1 DEF SeenRow, Course
  <2>4. SeenRow(c)'
    BY <1>1, <2>1, <2>3 DEF SeenRow, HasClaimed, Abandoned
  <2>5. Found(c)'
    BY <1>1, <1>3, <2>1, <2>3 DEF Found, SeenRow, Working, Dated, Until
  <2> QED
    BY <1>1, <2>1, <2>2, <2>4, <2>5, RetryGoesOn DEF Typed
<1> QED
  BY <1>2, <1>3 DEF FindHold

LEMMA FindEntriesKeeps ==
  ASSUME IInv, NEW c \in Calls, FindEntries(c)
  PROVE  IInv'
<1>1. /\ Typed /\ SeenRow(c) /\ Found(c) /\ Course(c) /\ call[c].pc = "entries"
      /\ UNCHANGED <<row, money, misses, now>>
  BY DEF IInv, FindEntries
<1> DEFINE r == call[c].seen
           m == money[r.owner]
           sum == IF m.at \in Since(r) .. Until(r) THEN m.paid ELSE 0
           k == [call[c] EXCEPT !.pc = "tasks", !.sum = sum]
<1>2. sum \in Nat
  BY <1>1, MoneyFields DEF SeenRow
<1>3. call' = [call EXCEPT ![c] = k]
  BY DEF FindEntries
<1> HIDE DEF sum
<1>4. k \in CallSet /\ k.pc = "tasks" /\ k.sum = sum /\ k.id = call[c].id /\ k.claimed = call[c].claimed
      /\ k.how = call[c].how /\ k.seen = r
  BY <1>1, <1>2, CallFields DEF CallSet
<1> HIDE DEF k
<1>5. call'[c] = k /\ \A d \in Calls : d # c => call'[d] = call[d]
  BY <1>1, <1>3 DEF Typed
<1>6. r.owner # c
  BY <1>1 DEF SeenRow, Course
<1>7. SeenRow(c)'
  BY <1>1, <1>4, <1>5, <1>6 DEF SeenRow, HasClaimed, Abandoned
<1>8. Found(c)'
  BY <1>1, <1>4, <1>5, <1>6 DEF Found, SeenRow, Working, Dated, Until, Since, sum
<1> QED
  BY <1>1, <1>3, <1>4, <1>7, <1>8, RetryGoesOn DEF Typed

LEMMA FindTasksKeeps ==
  ASSUME IInv, NEW c \in Calls, FindTasks(c)
  PROVE  IInv'
<1>1. /\ Typed /\ SeenRow(c) /\ Found(c) /\ Course(c) /\ call[c].pc = "tasks"
      /\ UNCHANGED <<row, money, misses, now>>
  BY DEF IInv, FindTasks
<1> DEFINE r == call[c].seen
           m == money[r.owner]
           late == LateSettles(r, m)
           k == [call[c] EXCEPT !.pc = "swap", !.sum = @ + late]
<1>2. late \in Nat
  BY <1>1, MoneyFields DEF SeenRow, LateSettles
<1>3. CASE End(c, "refused")
  <2>1. call[c].how \in Given \cup {"none"} /\ Leave(c, "refused", call[c].how)
    BY <1>1, <1>3, CallFields DEF End
  <2>2. call' \in [Calls -> CallSet]
    BY <1>1, <2>1, LeaveFacts
  <2>3. Typed'
    BY <1>1, <2>2 DEF Typed
  <2> QED
    BY <1>1, <1>3, <2>3, EarlyLeaves
<1>4. CASE call' = [call EXCEPT ![c] = k]
  <2> HIDE DEF late
  <2> DEFINE sum == call[c].sum + late
  <2>a. sum \in Nat /\ k = [call[c] EXCEPT !.pc = "swap", !.sum = sum]
    BY <1>1, <1>2, CallFields
  <2>1. k \in CallSet /\ k.pc = "swap" /\ k.sum = call[c].sum + late /\ k.id = call[c].id
        /\ k.claimed = call[c].claimed /\ k.how = call[c].how /\ k.seen = r
    BY <1>1, <2>a, CallFields DEF CallSet
  <2> HIDE DEF k
  <2>2. call'[c] = k /\ \A d \in Calls : d # c => call'[d] = call[d]
    BY <1>1, <1>4 DEF Typed
  <2>3. r.owner \in Calls /\ r.owner # c
    BY <1>1 DEF SeenRow, Course
  <2>4. SeenRow(c)'
    BY <1>1, <2>1, <2>2, <2>3 DEF SeenRow, HasClaimed, Abandoned
  <2>5. misses = 0 => call[c].sum + late = m.paid
    <3> SUFFICES ASSUME misses = 0 PROVE call[c].sum + late = m.paid
      OBVIOUS
    <3>1. Dated(r) /\ call[c].sum = IF m.at \in Since(r) .. Until(r) THEN m.paid ELSE 0
      BY <1>1 DEF Found
    <3>2. Course(r.owner) /\ HasClaimed(r.owner) /\ r.expires = call[r.owner].claimed + Window
      BY <1>1, <2>3 DEF IInv, SeenRow
    <3>3. m \in MoneySet /\ r \in RowSet /\ call[r.owner].claimed \in Nat
      BY <1>1, <2>3, CallFields DEF Typed
    <3>4. Since(r) = call[r.owner].claimed /\ Until(r) \in Nat
      BY <3>2, <3>3 DEF Since, Until, RowSet
    <3>5. m.paid > 0 => Since(r) <= m.at
      BY <3>2, <3>4 DEF Course
    <3>6. m.paid \in Nat /\ m.at \in Nat /\ m.born \in Nat
      BY <1>1, <2>3, MoneyFields
    <3>7. m.paid > 0 /\ m.at > Until(r) => m.task # "none" /\ m.born \in Since(r) .. Until(r)
      <4>1. /\ m.paid > 0 /\ m.task = "none" => m.at <= Until(r)
            /\ m.task # "none" => m.born <= Until(r)
        BY <3>1 DEF Dated
      <4>2. m.task # "none" => call[r.owner].claimed <= m.born
        BY <3>2 DEF Course
      <4> QED
        BY <3>3, <3>4, <3>6, <4>1, <4>2
    <3> QED
      BY <3>1, <3>4, <3>5, <3>6, <3>7 DEF late, LateSettles
  <2>6. Found(c)'
    BY <1>1, <2>1, <2>2, <2>3, <2>5 DEF Found, Working, Dated, Until
  <2> QED
    BY <1>1, <1>4, <2>1, <2>4, <2>6, RetryGoesOn DEF Typed
<1> QED
  BY <1>3, <1>4 DEF FindTasks

LEMMA SwapKeeps ==
  ASSUME IInv, NEW c \in Calls, Swap(c)
  PROVE  IInv'
<1>1. Typed /\ Course(c) /\ call[c].pc = "swap" /\ UNCHANGED <<money, misses, now>>
  BY DEF IInv, Swap
<1>2. row' = row \/ Swaps(c)
  BY DEF Swap, Swaps
<1>3. \E pc \in {"refused", "replayed"} : End(c, pc)
  BY DEF Swap
<1>4. PICK pc \in {"refused", "replayed"} : End(c, pc)
  BY <1>3
<1>5. call' \in [Calls -> CallSet]
  <2>1. call[c].how \in Given \cup {"none"} /\ Leave(c, pc, call[c].how)
    BY <1>1, <1>4, CallFields DEF End
  <2> QED
    BY <1>1, <2>1, LeaveFacts
<1>6. row' \in RowSet
  <2>1. row \in RowSet /\ call[c].sum \in Nat
    BY <1>1, CallFields DEF Typed
  <2> QED
    BY <1>2, <2>1 DEF Swaps, RowSet
<1>7. Typed'
  BY <1>1, <1>5, <1>6 DEF Typed
<1> QED
  BY <1>1, <1>2, <1>4, <1>7, EarlyLeaves


(* What a release does to a hold.                                            *)
LEMMA ReturnedFacts ==
  ASSUME NEW m \in MoneySet
  PROVE  LET n == Returned(m)
         IN  /\ n \in MoneySet /\ n.hold # "open" /\ n.paid = m.paid /\ n.at = m.at
             /\ n.task = m.task /\ n.born = m.born
             /\ m.hold = "closed" => n.hold = "closed"
  BY DEF Returned, MoneySet

(* What a charge does to a hold.                                             *)
LEMMA ChargedFacts ==
  ASSUME NEW m \in MoneySet, NEW x \in Charges, now \in Nat
  PROVE  LET n == Charged(m, x)
         IN  /\ n \in MoneySet /\ n.hold # "open"
             /\ n.task = m.task /\ n.born = m.born
             /\ IF m.hold = "open" THEN n.hold = "closed" /\ n.paid = x /\ n.at = now
                ELSE n.hold = m.hold /\ n.paid = m.paid /\ n.at = m.at
  BY DEF Charged, MoneySet

(* What a call does once it has its claim.                                  *)
LEMMA OwnStep ==
  ASSUME IInv, NEW c \in Calls, call[c].pc \in Holding,
         NEW k \in CallSet, call' = [call EXCEPT ![c] = k],
         NEW m \in MoneySet, money' = [money EXCEPT ![c] = m],
         k.id = call[c].id, k.claimed = call[c].claimed,
         k.pc \in Holding \cup {"done", "dead"},
         Working(c) \/ (m = money[c] /\ k.pc \notin {"own", "sent", "closed"}),
         now' = now, misses' >= misses, misses' \in Nat, row' \in RowSet,
         RowStep(c), BeatKept(c), Course(c)'
  PROVE  IInv'
<1>1. Typed /\ Course(c) /\ HasClaimed(c)
  BY DEF IInv, Course
<1>2. call'[c] = k /\ money'[c] = m /\ OnlyOf(c) /\ Typed'
  BY <1>1 DEF Typed, OnlyOf
<1>3. Steady(c)
  BY <1>1, <1>2 DEF Steady, Working, GaveBack
<1>4. Resting(c)'
  BY <1>2 DEF Resting
<1> QED
  BY <1>2, <1>3, <1>4, RestingKnowsNothing, StepKeeps DEF StepOf

(* It leaves its work with what it did to its hold.                         *)
LeavesMoney(c, m, how) ==
  /\ m.task = money[c].task /\ m.born = money[c].born
  /\ \/ m.paid = money[c].paid /\ m.at = money[c].at /\ (money[c].paid > 0 => m.hold = "closed")
     \/ m.paid > 0 /\ m.at = now /\ m.hold = "closed" /\ how # "failed"
  /\ m = money[c] \/ (Working(c) /\ m.hold # "open")
  /\ how = "failed" => m.hold # "open" /\ m.paid = 0

LeavesRow(c, pc) == row' \in RowSet /\ (row' = row \/ Answers(c) \/ (Frees(c) /\ pc = "done"))

LEMMA OwnLeaves ==
  ASSUME IInv, NEW c \in Calls, call[c].pc \in Holding,
         NEW pc \in {"drop", "done", "dead"}, NEW how \in Given \cup {"none"}, Leave(c, pc, how),
         pc # "drop" \/ how \in Given,
         NEW m \in MoneySet, money' = [money EXCEPT ![c] = m], LeavesMoney(c, m, how),
         LeavesRow(c, pc), UNCHANGED <<misses, now>>
  PROVE  IInv'
<1>1. Typed /\ Course(c) /\ HasClaimed(c)
  BY DEF IInv, Course
<1> DEFINE k == call'[c]
<1>2. /\ call' \in [Calls -> CallSet] /\ k.pc = pc /\ k.how = how
      /\ k.id = call[c].id /\ k.claimed = call[c].claimed
      /\ \A d \in Calls : d # c => call'[d] = call[d]
  <2>1. pc \in Early \cup Holding \cup {"done", "dead"}
    OBVIOUS
  <2> QED
    BY <1>1, <2>1, LeaveFacts
<1> USE DEF LeavesMoney, LeavesRow
<1>3. k \in CallSet /\ call' = [call EXCEPT ![c] = k]
  BY <1>1, <1>2 DEF Typed
<1>4. money'[c] = m
  BY <1>1 DEF Typed
<1>5. RowStep(c) /\ BeatKept(c)
  BY <1>2 DEF RowStep, BeatKept, Working
<1>6. m.paid \in Nat /\ m.at \in Nat /\ m.born \in Nat
  <2>1. money'[c] \in MoneySet /\ \A x \in Charges \cup {0} : x \in Nat
    BY <1>4
  <2> QED
    BY <2>1, <1>4 DEF MoneySet
<1>7. Course(c)'
  BY <1>1, <1>2, <1>4, <1>6, CallFields, MoneyFields DEF Course, HasClaimed, Working
<1>8. misses' >= misses /\ misses' \in Nat
  BY <1>1 DEF Typed
<1> HIDE DEF k
<1> QED
  BY <1>2, <1>3, <1>5, <1>7, <1>8, OwnStep DEF Working

LEMMA ClaimKeeps ==
  ASSUME IInv, NEW c \in Calls, Claim(c)
  PROVE  IInv'
<1>1. /\ Typed /\ Course(c) /\ RowOwned /\ call[c].pc = "claim" /\ ~HasClaimed(c) /\ money[c] = NoMoney
      /\ call[c].how = "none" /\ UNCHANGED <<money, misses, now>>
  BY DEF IInv, Claim, Course
<1>2. CASE End(c, "refused") /\ row' = row
  <2>1. call[c].how \in Given \cup {"none"} /\ Leave(c, "refused", call[c].how)
    BY <1>1, <1>2, CallFields DEF End
  <2>2. call' \in [Calls -> CallSet]
    BY <1>1, <2>1, LeaveFacts
  <2>3. Typed'
    BY <1>1, <1>2, <2>2 DEF Typed
  <2> QED
    BY <1>1, <1>2, <2>3, EarlyLeaves
<1>3. CASE ~(End(c, "refused") /\ row' = row)
  <2> DEFINE k == [call[c] EXCEPT !.pc = "own", !.id = NextId, !.claimed = now, !.beat = now]
             r == [NoRow EXCEPT !.owner = c, !.print = call[c].print, !.status = "pending",
                                !.lease = now, !.expires = now + Window]
  <2>1. Vacant(c) /\ row' = r /\ call' = [call EXCEPT ![c] = k]
    BY <1>3 DEF Claim
  <2>2. NextId \in Nat /\ NextId > 0
    BY <1>1, Counting
  <2>3. k \in CallSet /\ k.pc = "own" /\ k.id = NextId /\ k.claimed = now /\ k.beat = now /\ k.how = "none"
    BY ZenonT(60), <1>1, <2>2, CallFields DEF CallSet, Typed
  <2>4. r \in RowSet
    <3>1. call[c].print \in Prints \cup {None} /\ now + Window \in Nat /\ now \in Nat
      BY <1>1, CallFields DEF Typed
    <3> QED
      BY <3>1, RowTypes DEF RowSet
  <2> HIDE DEF k
  <2>5. call'[c] = k /\ Typed' /\ OnlyOf(c) /\ misses' >= misses
    BY <1>1, <2>1, <2>3, <2>4 DEF Typed, OnlyOf
  <2>6. Takes(c)
    BY <1>1, <2>1, <2>3, <2>5 DEF Takes
  <2>7. Steady(c) /\ Resting(c)'
    BY <1>1, <2>3, <2>5 DEF Steady, Resting, GaveBack
  <2>8. row.owner # c
    BY <1>1 DEF RowOwned
  <2>9. RowStep(c) /\ BeatKept(c)
    BY <2>6, <2>8 DEF RowStep, BeatKept, Owned
  <2>10. Course(c)'
    BY <1>1, <2>2, <2>3, <2>5 DEF Course, HasClaimed, NoMoney, Typed, Working
  <2> QED
    BY <1>1, <2>5, <2>7, <2>9, <2>10, RestingKnowsNothing, StepKeeps DEF StepOf
<1> QED
  BY <1>2, <1>3

LEMMA RenewLeaseKeeps ==
  ASSUME IInv, NEW c \in Calls, RenewLease(c)
  PROVE  IInv'
<1>1. /\ Typed /\ Course(c) /\ Working(c) /\ call[c].pc \in Holding /\ UNCHANGED <<money, now>>
  BY DEF IInv, RenewLease, Working
<1> DEFINE k == [call[c] EXCEPT !.beat = now]
<1>2. call' = [call EXCEPT ![c] = k]
  BY DEF RenewLease
<1>3. /\ k \in CallSet /\ k.beat = now /\ k.id = call[c].id /\ k.claimed = call[c].claimed
      /\ k.pc = call[c].pc /\ k.how = call[c].how
  BY <1>1, CallFields DEF CallSet, Typed
<1> HIDE DEF k
<1>4. call'[c] = k /\ money' = [money EXCEPT ![c] = money[c]] /\ money[c] \in MoneySet
  BY <1>1, <1>2 DEF Typed
<1>5. /\ row' \in RowSet /\ misses' >= misses /\ misses' \in Nat
      /\ \/ misses' > 0 /\ row' = row
         \/ ~Owned(c) /\ row' = row
         \/ Renews(c)
  <2>1. CASE row' = (IF Owned(c) THEN [row EXCEPT !.lease = now] ELSE row) /\ misses' = misses
    <3>1. Working(c)'
      BY <1>1, <1>3, <1>4 DEF Working
    <3> QED
      BY <1>1, <1>3, <1>4, <2>1, <3>1 DEF Renews, Typed, RowSet
  <2>2. CASE misses' = misses + 1 /\ row' = row
    BY <1>1, <2>2 DEF Typed
  <2> QED
    BY <2>1, <2>2 DEF RenewLease
<1>6. RowStep(c) /\ BeatKept(c)
  BY <1>3, <1>4, <1>5 DEF RowStep, BeatKept
<1>7. Course(c)'
  BY <1>1, <1>3, <1>4 DEF Course, HasClaimed, Typed, Working
<1> QED
  BY <1>1, <1>2, <1>3, <1>4, <1>5, <1>6, <1>7, OwnStep

(* A call that goes on, with the row as it was.                             *)
LEMMA OwnGoesOn ==
  ASSUME IInv, NEW c \in Calls, Working(c),
         NEW k \in CallSet, call' = [call EXCEPT ![c] = k], k.pc \in {"sent", "closed"},
         k.id = call[c].id, k.claimed = call[c].claimed, k.beat = call[c].beat, k.how = call[c].how,
         NEW m \in MoneySet, money' = [money EXCEPT ![c] = m], UNCHANGED <<row, misses, now>>,
         k.pc = "sent" => m.task = "none" /\ m.paid = 0,
         m.paid > 0 => m.hold = "closed" /\ k.claimed <= m.at /\ m.at <= now,
         m.task # "none" => k.claimed <= m.born /\ m.born <= now
  PROVE  IInv'
<1>1. Typed /\ Course(c) /\ call[c].pc \in Holding
  BY DEF IInv, Working
<1>2. call'[c] = k /\ money'[c] = m /\ misses' >= misses /\ misses' \in Nat /\ row' \in RowSet
  BY <1>1 DEF Typed
<1>3. RowStep(c) /\ BeatKept(c)
  BY <1>2 DEF RowStep, BeatKept
<1>4. Course(c)'
  BY <1>1, <1>2 DEF Course, HasClaimed, Working
<1> QED
  BY <1>1, <1>2, <1>3, <1>4, OwnStep

LEMMA ReserveKeeps ==
  ASSUME IInv, NEW c \in Calls, Reserve(c)
  PROVE  IInv'
<1>1. Typed /\ Course(c) /\ Working(c) /\ UNCHANGED <<row, misses, now>> /\ call[c].pc = "own"
  BY DEF IInv, Reserve, Working
<1> DEFINE k == call'[c]
           m == [money[c] EXCEPT !.hold = "open", !.held = now]
<1>2. /\ call' \in [Calls -> CallSet] /\ k.pc = "sent" /\ k.how = call[c].how /\ k.id = call[c].id
      /\ k.claimed = call[c].claimed /\ k.beat = call[c].beat
      /\ \A d \in Calls : d # c => call'[d] = call[d]
  BY <1>1, GotoFacts DEF Reserve
<1>3. k \in CallSet /\ call' = [call EXCEPT ![c] = k]
  BY <1>1, <1>2 DEF Typed
<1>4. money' = [money EXCEPT ![c] = m]
  BY DEF Reserve
<1>5. m \in MoneySet /\ m.task = money[c].task /\ m.paid = money[c].paid
  BY <1>1, MoneyFields DEF MoneySet, Typed
<1>6. m.task = "none" /\ m.paid = 0 /\ ~(m.paid > 0) /\ ~(m.task # "none")
  BY <1>1, <1>5 DEF Course
<1> HIDE DEF k, m
<1> QED
  BY <1>1, <1>2, <1>3, <1>4, <1>5, <1>6, OwnGoesOn

LEMMA SettleKeeps ==
  ASSUME IInv, NEW c \in Calls, NEW n \in Charges, NEW error \in BOOLEAN, Settle(c, n, error)
  PROVE  IInv'
<1>1. /\ Typed /\ Course(c) /\ Working(c) /\ UNCHANGED <<row, misses, now>> /\ call[c].pc = "sent"
      /\ HasClaimed(c)
  BY DEF IInv, Settle, Working, Course
<1> DEFINE m == Charged(money[c], n)
           k == [call[c] EXCEPT !.pc = "closed", !.cost = m.paid, !.error = error]
<1>2. /\ m \in MoneySet /\ m.task = money[c].task /\ m.born = money[c].born
      /\ IF money[c].hold = "open" THEN m.hold = "closed" /\ m.paid = n /\ m.at = now
         ELSE m.hold = money[c].hold /\ m.paid = money[c].paid /\ m.at = money[c].at
  BY <1>1, MoneyFields, ChargedFacts DEF Typed
<1> HIDE DEF m
<1>3. m.paid \in Nat
  <2>1. \A x \in Charges \cup {0} : x \in Nat
    OBVIOUS
  <2> QED
    BY <1>2, <2>1 DEF MoneySet
<1>4. money' = [money EXCEPT ![c] = m] /\ call' = [call EXCEPT ![c] = k]
  BY <1>1 DEF Settle, m, Typed
<1>5. /\ k \in CallSet /\ k.pc = "closed" /\ k.id = call[c].id /\ k.claimed = call[c].claimed
      /\ k.beat = call[c].beat /\ k.how = call[c].how
  BY <1>1, <1>3, CallFields DEF CallSet
<1>6. m.paid > 0 => m.hold = "closed" /\ k.claimed <= m.at /\ m.at <= now
  BY <1>1, <1>2, <1>5 DEF Course, Typed
<1> HIDE DEF k
<1>7. m.task = "none"
  BY <1>1, <1>2 DEF Course
<1> QED
  BY <1>1, <1>2, <1>4, <1>5, <1>6, <1>7, OwnGoesOn

LEMMA SettleFailsKeeps ==
  ASSUME IInv, NEW c \in Calls, SettleFails(c)
  PROVE  IInv'
<1>1. /\ Typed /\ Course(c) /\ Working(c) /\ UNCHANGED <<row, money, misses, now>> /\ call[c].pc = "sent"
  BY DEF IInv, SettleFails, Working
<1> DEFINE k == call'[c]
<1>2. /\ call' \in [Calls -> CallSet] /\ k.pc = "closed" /\ k.how = call[c].how /\ k.id = call[c].id
      /\ k.claimed = call[c].claimed /\ k.beat = call[c].beat
      /\ \A d \in Calls : d # c => call'[d] = call[d]
  BY <1>1, GotoFacts DEF SettleFails
<1>3. k \in CallSet /\ call' = [call EXCEPT ![c] = k]
  BY <1>1, <1>2 DEF Typed
<1>4. money' = [money EXCEPT ![c] = money[c]] /\ money[c] \in MoneySet
  BY <1>1 DEF Typed
<1>5. ~(money[c].paid > 0) /\ ~(money[c].task # "none") /\ ~(call'[c].pc = "sent")
  BY <1>1, <1>2 DEF Course
<1> HIDE DEF k
<1> QED
  BY <1>1, <1>2, <1>3, <1>4, <1>5, OwnGoesOn

LEMMA DeferKeeps ==
  ASSUME IInv, NEW c \in Calls, NEW n \in Charges, Defer(c, n)
  PROVE  IInv'
<1>1. /\ Typed /\ Course(c) /\ Working(c) /\ UNCHANGED <<row, misses, now>> /\ call[c].pc = "sent"
      /\ HasClaimed(c)
  BY DEF IInv, Defer, Working, Course
<1> DEFINE k == [call[c] EXCEPT !.pc = "closed", !.cost = n]
           m == [money[c] EXCEPT !.task = "pending", !.born = now]
<1>2. money' = [money EXCEPT ![c] = m] /\ call' = [call EXCEPT ![c] = k]
  BY DEF Defer
<1>3. m \in MoneySet /\ m.paid = money[c].paid /\ m.born = now
  BY <1>1, MoneyFields DEF MoneySet, Typed
<1>4. /\ k \in CallSet /\ k.pc = "closed" /\ k.id = call[c].id /\ k.claimed = call[c].claimed
      /\ k.beat = call[c].beat /\ k.how = call[c].how
  BY <1>1, CallFields DEF CallSet
<1>5. ~(m.paid > 0) /\ k.claimed <= m.born /\ m.born <= now /\ ~(k.pc = "sent")
  BY <1>1, <1>3, <1>4 DEF Course, Typed
<1> HIDE DEF k, m
<1> QED
  BY <1>1, <1>2, <1>3, <1>4, <1>5, OwnGoesOn


LEMMA FailKeeps ==
  ASSUME IInv, NEW c \in Calls, Fail(c)
  PROVE  IInv'
<1>1. Typed /\ Course(c) /\ Working(c) /\ call[c].pc \in Holding /\ UNCHANGED <<row, misses, now>>
  BY DEF IInv, Fail, Working
<1> DEFINE m == Returned(money[c])
<1>2. /\ m \in MoneySet /\ m.hold # "open" /\ m.paid = money[c].paid /\ m.at = money[c].at
      /\ m.task = money[c].task /\ m.born = money[c].born
  BY <1>1, MoneyFields, ReturnedFacts
<1>3. money[c].paid = 0 /\ ~(money[c].paid > 0)
  BY <1>1 DEF Course, Fail
<1>4. money' = [money EXCEPT ![c] = m] /\ Leave(c, "drop", "failed") /\ row' \in RowSet
  BY <1>1 DEF Fail, Typed
<1> HIDE DEF m
<1>5. LeavesMoney(c, m, "failed") /\ LeavesRow(c, "drop")
  BY <1>1, <1>2, <1>3, <1>4 DEF LeavesMoney, LeavesRow
<1> QED
  BY <1>1, <1>2, <1>4, <1>5, OwnLeaves

LEMMA CancelKeeps ==
  ASSUME IInv, NEW c \in Calls, Cancel(c)
  PROVE  IInv'
<1>1. Typed /\ Course(c) /\ Working(c) /\ call[c].pc \in Holding /\ UNCHANGED <<row, misses, now>>
  BY DEF IInv, Cancel, Working
<1>2. LeavesRow(c, "drop")
  BY <1>1 DEF Typed, LeavesRow
<1>3. CASE money' = [money EXCEPT ![c] = Returned(@)] /\ Leave(c, "drop", "cancelled")
  <2> DEFINE m == Returned(money[c])
  <2>1. /\ m \in MoneySet /\ m.hold # "open" /\ m.paid = money[c].paid /\ m.at = money[c].at
        /\ m.task = money[c].task /\ m.born = money[c].born
        /\ money[c].paid > 0 => m.hold = "closed"
    BY <1>1, MoneyFields, ReturnedFacts DEF Course
  <2>2. money' = [money EXCEPT ![c] = m]
    BY <1>3
  <2> HIDE DEF m
  <2>3. LeavesMoney(c, m, "cancelled")
    BY <1>1, <2>1 DEF LeavesMoney
  <2> QED
    BY <1>1, <1>2, <1>3, <2>1, <2>2, <2>3, OwnLeaves
<1>4. CASE /\ call[c].pc = "sent"
           /\ \E n \in Charges : money' = [money EXCEPT ![c] = Charged(@, n)]
           /\ Leave(c, "drop", "purchased")
  <2>1. PICK n \in Charges : money' = [money EXCEPT ![c] = Charged(@, n)]
    BY <1>4
  <2> DEFINE m == Charged(money[c], n)
  <2>2. /\ m \in MoneySet /\ m.hold # "open" /\ m.task = money[c].task /\ m.born = money[c].born
        /\ IF money[c].hold = "open" THEN m.hold = "closed" /\ m.paid = n /\ m.at = now
           ELSE m.hold = money[c].hold /\ m.paid = money[c].paid /\ m.at = money[c].at
    BY <1>1, MoneyFields, ChargedFacts DEF Typed
  <2>3. money' = [money EXCEPT ![c] = m]
    BY <2>1
  <2> HIDE DEF m
  <2>4. ~(money[c].paid > 0)
    BY <1>1, <1>4 DEF Course
  <2>5. n > 0
    OBVIOUS
  <2>6. LeavesMoney(c, m, "purchased")
    BY <1>1, <2>2, <2>4, <2>5 DEF LeavesMoney
  <2> QED
    BY <1>1, <1>2, <1>4, <2>2, <2>3, <2>6, OwnLeaves
<1>5. CASE Leave(c, "drop", "cancelled") /\ UNCHANGED money
  <2>1. money' = [money EXCEPT ![c] = money[c]] /\ money[c] \in MoneySet
    BY <1>1, <1>5 DEF Typed
  <2>2. LeavesMoney(c, money[c], "cancelled")
    BY <1>1 DEF Course, LeavesMoney
  <2> QED
    BY <1>1, <1>2, <1>5, <2>1, <2>2, OwnLeaves
<1> QED
  BY <1>3, <1>4, <1>5 DEF Cancel

(* A call that ends with its money as it is.                                *)
LEMMA OwnEnds ==
  ASSUME IInv, NEW c \in Calls, call[c].pc \in Holding, NEW pc \in {"done", "dead"}, End(c, pc),
         UNCHANGED <<money, misses, now>>, row' \in RowSet,
         row' = row \/ Answers(c) \/ (Frees(c) /\ pc = "done")
  PROVE  IInv'
<1>1. Typed /\ Course(c)
  BY DEF IInv
<1>2. money' = [money EXCEPT ![c] = money[c]] /\ money[c] \in MoneySet
  BY <1>1 DEF Typed
<1>3. LeavesMoney(c, money[c], call[c].how) /\ LeavesRow(c, pc)
  BY <1>1 DEF Course, LeavesMoney, LeavesRow
<1>4. call[c].how \in Given \cup {"none"} /\ Leave(c, pc, call[c].how)
  BY <1>1, CallFields DEF End
<1> QED
  BY <1>1, <1>2, <1>3, <1>4, OwnLeaves

LEMMA StoreKeeps ==
  ASSUME IInv, NEW c \in Calls, Store(c)
  PROVE  IInv'
<1>1. Typed /\ Course(c) /\ call[c].pc \in Holding /\ UNCHANGED <<money, misses, now>> /\ End(c, "done")
  BY DEF IInv, Store
<1>2. call'[c].pc = "done"
  BY <1>1, CallFields, LeaveFacts DEF End
<1>3. row' \in RowSet /\ (row' = row \/ Answers(c))
  <2>1. CASE Owned(c)
    <3> DEFINE n == call[c].cost
    <3>1. row' = [row EXCEPT !.status = "done", !.answer = "kept", !.charged = n] /\ n \in Nat
      BY <1>1, <2>1, CallFields DEF Store
    <3> HIDE DEF n
    <3> QED
      BY <1>1, <1>2, <2>1, <3>1 DEF Answers, Working, Typed, RowSet
  <2> QED
    BY <1>1, <2>1 DEF Store, Typed
<1> QED
  BY <1>1, <1>3, OwnEnds

LEMMA DropKeeps ==
  ASSUME IInv, NEW c \in Calls, Drop(c)
  PROVE  IInv'
<1>1. /\ Typed /\ Course(c) /\ RowOwned /\ call[c].pc \in Holding /\ UNCHANGED <<money, misses, now>>
      /\ End(c, "done") /\ call[c].pc = "drop"
  BY DEF IInv, Drop
<1>2. call'[c].pc = "done" /\ call'[c].how = call[c].how
  BY <1>1, CallFields, LeaveFacts DEF End
<1>3. GaveBack(c)'
  BY <1>1, <1>2 DEF GaveBack, Course
<1>4. row' \in RowSet /\ (row' = row \/ Frees(c))
  BY <1>1, <1>3, RowTypes DEF Drop, MayDrop, Owned, Frees, Typed
<1> QED
  BY <1>1, <1>4, OwnEnds

LEMMA NotKeptKeeps ==
  ASSUME IInv, NEW c \in Calls, NotKept(c)
  PROVE  IInv'
<1> DEFINE how == IF call[c].error THEN "rejected" ELSE "streamed"
<1>1. /\ Typed /\ Course(c) /\ call[c].pc \in Holding /\ UNCHANGED <<row, money, misses, now>>
      /\ Leave(c, "drop", how) /\ how \in Given /\ how # "failed"
  BY DEF IInv, NotKept
<1> HIDE DEF how
<1>2. money' = [money EXCEPT ![c] = money[c]] /\ money[c] \in MoneySet
  BY <1>1 DEF Typed
<1>3. LeavesMoney(c, money[c], how) /\ LeavesRow(c, "drop")
  BY <1>1 DEF Course, LeavesMoney, LeavesRow, Typed
<1> QED
  BY <1>1, <1>2, <1>3, OwnLeaves

LEMMA CrashKeeps ==
  ASSUME IInv, NEW c \in Calls, Crash(c)
  PROVE  IInv'
<1>1. Typed /\ End(c, "dead") /\ UNCHANGED <<row, money, misses, now>>
  BY DEF IInv, Crash
<1>2. row' \in RowSet
  BY <1>1 DEF Typed
<1>3. CASE call[c].pc \in Holding
  BY <1>1, <1>2, <1>3, OwnEnds
<1>4. CASE call[c].pc \in Early
  <2>1. call[c].how \in Given \cup {"none"} /\ Leave(c, "dead", call[c].how)
    BY <1>1, CallFields DEF End
  <2>2. call' \in [Calls -> CallSet]
    BY <1>1, <2>1, LeaveFacts
  <2>3. Typed'
    BY <1>1, <2>2 DEF Typed
  <2> QED
    BY <1>1, <1>4, <2>3, EarlyLeaves
<1> QED
  BY <1>1, <1>3, <1>4, CallFields DEF Crash

(* The worker and the reaper move the money of a hold that is still open.   *)
LEMMA MoneyStep ==
  ASSUME IInv, NEW c \in Calls, HasClaimed(c), call[c].pc \notin {"own"}, 
         NEW m \in MoneySet, money' = [money EXCEPT ![c] = m], UNCHANGED <<row, call, misses, now>>,
         m.hold # "open", m.born = money[c].born, (m.task = "none") = (money[c].task = "none"),
         \/ m.paid = money[c].paid /\ m.at = money[c].at /\ (money[c].hold = "closed" => m.hold = "closed")
         \/ /\ money[c].hold = "open" /\ m.hold = "closed" /\ m.paid > 0 /\ m.at = now
            /\ money[c].task # "none"
  PROVE  IInv'
<1>1. /\ Typed /\ Course(c) /\ SeenRow(c) /\ Found(c) /\ misses \in Nat
  BY DEF IInv, Typed
<1>2. call'[c] = call[c] /\ money'[c] = m /\ OnlyOf(c) /\ Typed'
  BY <1>1 DEF Typed, OnlyOf
<1>3. Steady(c)
  BY <1>1, <1>2 DEF Steady, Working, GaveBack, HasClaimed
<1>4. Course(c)'
  BY <1>1, <1>2, MoneyFields, CallFields DEF Course, HasClaimed, Working, Typed
<1>5. Resting(c)'
  BY <1>1, <1>2, CallFields DEF Resting, Course
<1>6. RowStep(c) /\ BeatKept(c) /\ misses' >= misses
  BY <1>1 DEF RowStep, BeatKept
<1> QED
  BY <1>2, <1>3, <1>4, <1>5, <1>6, RestingKnowsNothing, StepKeeps DEF StepOf

LEMMA EndTaskKeeps ==
  ASSUME IInv, NEW c \in Calls, EndTask(c)
  PROVE  IInv'
<1>1. /\ Typed /\ Course(c) /\ money[c].task = "pending" /\ UNCHANGED <<row, call, misses, now>>
      /\ money[c] \in MoneySet /\ now \in Nat
  BY MoneyFields DEF IInv, EndTask, Typed
<1>2. HasClaimed(c) /\ call[c].pc # "own"
  BY <1>1 DEF Course, NoMoney
<1>3. PICK m \in {Returned(money[c])} \cup {Charged(money[c], n) : n \in Charges} :
        money' = [money EXCEPT ![c] = [m EXCEPT !.task = "ended"]]
  BY DEF EndTask
<1>4. /\ m \in MoneySet /\ m.hold # "open" /\ m.born = money[c].born
      /\ \/ /\ m.paid = money[c].paid /\ m.at = money[c].at
            /\ money[c].hold = "closed" => m.hold = "closed"
         \/ money[c].hold = "open" /\ m.hold = "closed" /\ m.paid > 0 /\ m.at = now
  <2>1. CASE m = Returned(money[c])
    BY <2>1, <1>1, ReturnedFacts
  <2>2. ASSUME NEW n \in Charges, m = Charged(money[c], n) PROVE <1>4!:
    <3>1. n > 0
      OBVIOUS
    <3> QED
      BY <2>2, <3>1, <1>1, ChargedFacts
  <2> QED
    BY <1>3, <2>1, <2>2
<1> DEFINE e == [m EXCEPT !.task = "ended"]
<1>5. e \in MoneySet /\ e.hold = m.hold /\ e.born = m.born /\ e.paid = m.paid /\ e.at = m.at /\ e.task = "ended"
  BY <1>4 DEF MoneySet
<1>6. money' = [money EXCEPT ![c] = e]
  BY <1>3
<1> HIDE DEF e
<1> QED
  BY <1>1, <1>2, <1>4, <1>5, <1>6, MoneyStep

LEMMA ReapKeeps ==
  ASSUME IInv, NEW c \in Calls, Reap(c)
  PROVE  IInv'
<1>1. /\ Typed /\ Course(c) /\ money[c].hold = "open" /\ UNCHANGED <<row, call, misses, now>>
      /\ money[c] \in MoneySet
  BY MoneyFields DEF IInv, Reap, Typed
<1>2. HasClaimed(c) /\ call[c].pc # "own"
  BY <1>1 DEF Course, NoMoney
<1> DEFINE m == Returned(money[c])
<1>3. /\ m \in MoneySet /\ m.hold # "open" /\ m.born = money[c].born /\ m.task = money[c].task
      /\ m.paid = money[c].paid /\ m.at = money[c].at
  BY <1>1, ReturnedFacts
<1>4. money' = [money EXCEPT ![c] = m]
  BY DEF Reap
<1> HIDE DEF m
<1> QED
  BY <1>1, <1>2, <1>3, <1>4, MoneyStep

(* Time passes: only dates relative to the clock can be disturbed.           *)
LEMMA TickKeeps ==
  ASSUME IInv, Tick
  PROVE  IInv'
<1>1. Typed /\ UNCHANGED <<row, call, money, misses>> /\ now' = now + 1 /\ now \in Nat
  BY DEF IInv, Tick, Typed
<1>2. Typed' /\ RowOwned' /\ Numbered' /\ Apart' /\ LeaseHeld' /\ Closed'
  BY <1>1 DEF IInv, Typed, RowOwned, Numbered, Claimants, Apart, LeaseHeld, Closed, HasClaimed, GaveBack,
              Working, Dated, Until
<1> SUFFICES ASSUME NEW c \in Calls PROVE (Course(c) /\ KeptOrOver(c) /\ SeenRow(c) /\ Found(c))'
  BY <1>2 DEF IInv
<1>3. Course(c) /\ KeptOrOver(c) /\ SeenRow(c) /\ Found(c)
  BY DEF IInv
<1>4. Course(c)'
  BY <1>1, <1>3, CallFields, MoneyFields DEF Course, HasClaimed, Working, Tick
<1>5. KeptOrOver(c)'
  BY <1>1, <1>3, CallFields DEF KeptOrOver, HasClaimed, GaveBack
<1>6. SeenRow(c)'
  BY <1>1, <1>3, CallFields DEF SeenRow, HasClaimed, Expired, Abandoned, RowSet
<1>7. Found(c)'
  BY <1>1, <1>3 DEF Found, Working, Dated, Until, Since
<1> QED
  BY <1>4, <1>5, <1>6, <1>7

(* The invariant holds before any call.                                      *)
LEMMA InitHolds == Init => IInv
<1> SUFFICES ASSUME Init PROVE IInv
  OBVIOUS
<1>1. NewCall \in CallSet /\ NoMoney \in MoneySet
  BY RowTypes DEF NewCall, CallSet, NoMoney, MoneySet
<1>2. Typed
  BY <1>1, RowTypes DEF Init, Typed
<1>3. \A c \in Calls : call[c].pc = "new" /\ call[c].id = 0 /\ call[c].how = "none" /\ money[c] = NoMoney
  BY DEF Init, NewCall
<1>4. RowOwned /\ LeaseHeld /\ Closed
  BY RowTypes DEF Init, RowOwned, LeaseHeld, Closed, NoRow
<1>5. Numbered /\ Apart
  BY <1>2, <1>3, Counting DEF Numbered, Apart, HasClaimed
<1>6. \A c \in Calls : Course(c) /\ KeptOrOver(c) /\ SeenRow(c) /\ Found(c)
  BY <1>3 DEF Course, KeptOrOver, SeenRow, Found, HasClaimed, Working, NoMoney
<1> QED
  BY <1>2, <1>4, <1>5, <1>6 DEF IInv

(* Every step keeps the invariant.                                           *)
LEMMA NextKeeps == IInv /\ [Next]_vars => IInv'
<1> SUFFICES ASSUME IInv, [Next]_vars PROVE IInv'
  OBVIOUS
<1>1. CASE UNCHANGED vars
  <2>1. UNCHANGED row /\ UNCHANGED call /\ UNCHANGED money /\ UNCHANGED misses /\ UNCHANGED now
    BY <1>1 DEF vars
  <2>2. Typed' /\ RowOwned' /\ Closed'
    BY <2>1 DEF IInv, Typed, RowOwned, Closed, Working, Dated, Until, HasClaimed, Expired, Abandoned, Since
  <2>3. Numbered' /\ Apart'
    BY <2>1 DEF IInv, Numbered, Claimants, Apart, HasClaimed, GaveBack
  <2>4. LeaseHeld'
    BY <2>1 DEF IInv, LeaseHeld, Working, Dated, Until
  <2>5. \A c \in Calls : Course(c)' /\ KeptOrOver(c)'
    BY <2>1 DEF IInv, Course, KeptOrOver, HasClaimed, GaveBack, Working
  <2>6. \A c \in Calls : SeenRow(c)'
    BY <2>1 DEF IInv, SeenRow, HasClaimed, Expired, Abandoned
  <2>7. \A c \in Calls : Found(c)'
    BY <2>1 DEF IInv, Found, Working, Dated, Until, Since
  <2> QED
    BY <2>2, <2>3, <2>4, <2>5, <2>6, <2>7 DEF IInv
<1>2. CASE Tick
  BY <1>2, TickKeeps
<1>3. ASSUME NEW c \in Calls, \E p \in Prints : LookUp(c, p) PROVE IInv'
  BY <1>3, LookUpKeeps
<1>4. ASSUME NEW c \in Calls,
             DeleteExpired(c) \/ Claim(c) \/ RenewLease(c) \/ FindHold(c) \/ FindEntries(c) \/ FindTasks(c)
               \/ Swap(c)
      PROVE  IInv'
  BY <1>4, DeleteExpiredKeeps, ClaimKeeps, RenewLeaseKeeps, FindHoldKeeps, FindEntriesKeeps, FindTasksKeeps,
     SwapKeeps
<1>5. ASSUME NEW c \in Calls, Reserve(c) \/ SettleFails(c) \/ Fail(c) \/ Cancel(c)
             \/ \E n \in Charges : Defer(c, n) \/ \E error \in BOOLEAN : Settle(c, n, error)
      PROVE  IInv'
  BY <1>5, ReserveKeeps, SettleFailsKeeps, FailKeeps, CancelKeeps, SettleKeeps, DeferKeeps
<1>6. ASSUME NEW c \in Calls, Store(c) \/ NotKept(c) \/ Drop(c) \/ Crash(c) \/ EndTask(c) \/ Reap(c)
      PROVE  IInv'
  BY <1>6, StoreKeeps, NotKeptKeeps, DropKeeps, CrashKeeps, EndTaskKeeps, ReapKeeps
<1>7. ASSUME NEW c \in Calls, StoreFails(c) PROVE IInv'
  <2>1. End(c, "done") /\ row' = row /\ row' \in RowSet /\ UNCHANGED <<money, misses, now>> /\ call[c].pc \in Holding
    BY <1>7 DEF StoreFails, IInv, Typed
  <2> QED
    BY <2>1, OwnEnds
<1> QED
  BY <1>1, <1>2, <1>3, <1>4, <1>5, <1>6, <1>7 DEF Next

(* The inductive invariant holds of every behaviour.                         *)
THEOREM Invariant == Spec => []IInv
  BY InitHolds, NextKeeps, PTL DEF Spec

-----------------------------------------------------------------------------
(* Rows, calls and money keep their types; a paid charge closed its hold.    *)
THEOREM TypeCorrect == Spec => []TypeOK
<1>1. IInv => TypeOK
  <2> SUFFICES ASSUME IInv PROVE TypeOK
    OBVIOUS
  <2>1. Typed /\ RowOwned
    BY DEF IInv
  <2>2. /\ row.owner \in Calls \cup {None} /\ row.status \in {"none", "pending", "done"}
        /\ row.answer \in {"none", "kept", "lost", "unknown"}
    BY <2>1 DEF Typed, RowSet
  <2>3. (row.status = "none") = (row.owner = None)
    BY <2>1 DEF RowOwned, NoRow
  <2>4. \A c \in Calls :
          /\ call[c].pc \in Early \cup Holding \cup {"done", "dead"}
          /\ money[c].hold \in {"none", "open", "closed"}
          /\ money[c].task \in {"none", "pending", "ended"}
          /\ money[c].paid \in Charges \cup {0}
    BY <2>1, CallFields, MoneyFields DEF MoneySet
  <2>5. \A c \in Calls : money[c].paid > 0 => money[c].hold = "closed" /\ money[c].at <= now
    BY DEF IInv, Course
  <2> QED
    BY <2>2, <2>3, <2>4, <2>5 DEF TypeOK
<1> QED
  BY <1>1, Invariant, PTL

(* No two calls of a key are between claim and answer within one window,     *)
(* whatever is cancelled, lost or late.                                      *)
THEOREM WorksAlone == Spec => []OneAtWork
<1>1. IInv => OneAtWork
  <2> SUFFICES ASSUME IInv, NEW c \in Calls, NEW d \in Calls, Working(c), Working(d), SameWindow(c, d)
               PROVE  FALSE
    BY DEF OneAtWork
  <2>1. call[d].claimed > call[c].claimed + Window
    BY DEF IInv, Apart, SameWindow, HasClaimed, GaveBack, Working
  <2> QED
    BY <2>1, CallFields DEF IInv, SameWindow
<1> QED
  BY <1>1, Invariant, PTL

(* Two calls of a key are both charged within a window only if the first     *)
(* gave its claim back, streamed, purchased or cancelled.                    *)
THEOREM PaidOnceUnlessGivenBack == Spec => []PaidTwiceOnlyIfGivenBack
<1>1. IInv => PaidTwiceOnlyIfGivenBack
  <2> SUFFICES ASSUME IInv, NEW c \in Calls, NEW d \in Calls, PaidTwice(c, d)
               PROVE  call[c].how \in {"streamed", "rejected", "purchased", "cancelled"}
    BY DEF PaidTwiceOnlyIfGivenBack
  <2>1. ~(call[d].claimed > call[c].claimed + Window)
    BY CallFields DEF IInv, SameWindow, PaidTwice
  <2>2. GaveBack(c)
    BY <2>1 DEF IInv, Apart, PaidTwice, SameWindow, HasClaimed
  <2>3. call[c].how # "failed"
    BY DEF IInv, Course, PaidTwice
  <2> QED
    BY <2>2, <2>3 DEF GaveBack
<1> QED
  BY <1>1, Invariant, PTL

(* If no renewal was missed, the charge a stored 410 shows is all that       *)
(* the call it stands for ever paid.                                         *)
THEOREM LostChargeIsFound == Spec => []LostChargeFound
<1>1. IInv => LostChargeFound
  BY DEF IInv, Closed, LostChargeFound
<1> QED
  BY <1>1, Invariant, PTL

(* A claim that is pending in its window is ended by its owner, or by a      *)
(* retry while its lease is out.                                             *)
THEOREM ClaimStaysTheOwners == Spec => ClaimIsTheOwners
<1>1. IInv /\ [Next]_vars
      => [row.status = "pending" /\ ~Expired(row) /\ (row'.owner # row.owner \/ row'.status = "done")
          => \/ call'[row.owner] # call[row.owner]
             \/ row'.answer \in {"lost", "unknown"} /\ Abandoned(row)]_vars
  <2> SUFFICES ASSUME IInv, Next, row.status = "pending", ~Expired(row),
                      row'.owner # row.owner \/ row'.status = "done"
               PROVE  \/ call'[row.owner] # call[row.owner]
                      \/ (row'.answer \in {"lost", "unknown"} /\ Abandoned(row))
    BY DEF vars
  <2>1. Typed /\ RowOwned /\ row # NoRow
    BY DEF IInv, NoRow
  <2>2. row' # row
    OBVIOUS
  <2>3. ASSUME NEW c \in Calls, DeleteExpired(c) PROVE FALSE
    <3>1. row.owner = call[c].seen.owner /\ call[c].pc = "expired"
      BY <2>2, <2>3 DEF DeleteExpired
    <3>2. Expired(call[c].seen) /\ row.expires = call[c].seen.expires
      BY <2>1, <3>1 DEF IInv, SeenRow, RowOwned
    <3> QED
      BY <3>2 DEF Expired
  <2>4. ASSUME NEW c \in Calls, Swap(c)
        PROVE  row'.answer \in {"lost", "unknown"} /\ Abandoned(row)
    <3>1. SameLease(c) /\ call[c].pc = "swap"
      BY <2>2, <2>4 DEF Swap
    <3>2. row'.answer \in {"lost", "unknown"}
      BY <2>1, <2>2, <2>4 DEF Swap, Typed, RowSet
    <3>3. Abandoned(row)
      BY <3>1 DEF IInv, SeenRow, SameLease, SameOwner, Abandoned
    <3> QED
      BY <3>2, <3>3
  <2>5. ASSUME NEW c \in Calls, Claim(c) PROVE FALSE
    BY <2>1, <2>2, <2>5 DEF Claim, Vacant
  <2>6. ASSUME NEW c \in Calls, RenewLease(c) PROVE FALSE
    BY <2>1, <2>2, <2>6 DEF RenewLease, Typed, RowSet
  <2>7. ASSUME NEW c \in Calls, Store(c) \/ Drop(c) PROVE call'[row.owner] # call[row.owner]
    <3>1. row.owner = c /\ call[c].pc \in {"closed", "drop"} /\ End(c, "done")
      BY <2>2, <2>7 DEF Store, Drop, MayDrop, Owned
    <3>2. call'[c].pc = "done"
      BY <2>1, <3>1, CallFields, LeaveFacts DEF End
    <3> QED
      BY <3>1, <3>2
  <2> QED
    BY <2>2, <2>3, <2>4, <2>5, <2>6, <2>7 DEF Next, LookUp, FindHold, FindEntries, FindTasks, Reserve,
       SettleFails, Fail, Cancel, Settle, Defer, StoreFails, NotKept, Crash, EndTask, Reap, Tick
<1> QED
  BY <1>1, Invariant, PTL DEF Spec, ClaimIsTheOwners

=============================================================================
