-------------------------- MODULE AutoTopupProofs --------------------------
(***************************************************************************)
(* Automatic top-up, for any processes, cards, cap and number of attempts: *)
(* what it charges is accounted for before it charges again, and a         *)
(* crossing is charged once to one card.                                   *)
(***************************************************************************)
EXTENDS AutoTopupProperties, FiniteSetTheorems, SequenceTheorems, TLAPS

Statuses == {"draft", "open", "paid", "void"}
InvoiceRow == [crossing : Nat, card : Cards, gen : Nat, status : Statuses, pi : PiStates]
OrgRow == [on : BOOLEAN, why : Reasons, card : Cards \cup {None},
           failures : 0..MaxAttempts, stamp : 0..MaxClaims]

Early == {"look", "priors", "create"}
Further == {"finalize", "retrieve", "pay", "settle", "stop", "pause"}
Stages == {"idle", "claim", "fail"} \cup Early \cup Further
Chosen == {"create", "finalize", "retrieve", "settle"}
Nexts == Chosen \cup {""}
Whys == {"", "stripe_unconfirmed", "card_declined", "no_card"}

AtRow == [pc : Stages, stamp : Nat, card : Cards \cup {None}, crossing : Nat, since : Nat,
          prior : SUBSET Nat, paid : SUBSET Nat, inv : Nat, gen : Nat, next : Nexts, why : Whys]

(* The invoices and what the ledger knows of them.                         *)
InvoicesTyped ==
  /\ invoices \in Seq(InvoiceRow) /\ Len(invoices) \in Nat /\ Ids = 1 .. Len(invoices)
  /\ invoices \in [Ids -> InvoiceRow]
  /\ \A i \in Ids : invoices[i].pi = "succeeded" => invoices[i].status = "paid"

BooksTyped ==
  /\ credited \subseteq Paid /\ late \subseteq Ids
  /\ failedEvents \subseteq Ids \X {"auth", "decline"}
  /\ lastCredit \in 0 .. Len(invoices)
  /\ manual \in Seq(Cards) /\ Len(manual) <= MaxManual

(* What a process has read is there, and what it settles is paid.          *)
AtWork(p) ==
  /\ at[p].inv \in 0 .. Len(invoices)
  /\ at[p].prior \subseteq Ids /\ at[p].paid \subseteq Ids
  /\ at[p].pc \in {"claim"} \cup Early => at[p].card \in Cards
  /\ at[p].pc \in Further => at[p].inv \in Ids
  /\ at[p].pc = "settle" => at[p].inv \in Paid
  /\ at[p].pc = "priors" => at[p].next \in Chosen
  /\ at[p].pc = "priors" /\ at[p].next # "create" => at[p].inv \in Ids
  /\ at[p].pc = "priors" /\ at[p].next = "settle" => at[p].inv \in Paid

TypeInv ==
  /\ org \in OrgRow /\ cooling \in BOOLEAN /\ overlapped \in BOOLEAN
  /\ InvoicesTyped /\ BooksTyped
  /\ at \in [Procs -> AtRow] /\ \A p \in Procs : AtWork(p)

(***************************************************************************)
(* One charge per key: the invoices of a key are numbered 0, 1, 2, ... and *)
(* all but the latest are void.  A process that will create one has seen   *)
(* every number below its own, void.                                       *)
(***************************************************************************)
SameKey(i, j) == Key(i) = Key(j)
KeyOf(p) == <<at[p].crossing, at[p].card>>

Numbered ==
  /\ \A i, j \in Ids : SameKey(i, j) /\ invoices[i].gen = invoices[j].gen => i = j
  /\ \A i, j \in Ids : SameKey(i, j) /\ invoices[i].gen < invoices[j].gen => invoices[i].status = "void"
  /\ \A i \in Ids : \A g \in Nat : g < invoices[i].gen => \E j \in Ids : SameKey(i, j) /\ invoices[j].gen = g

WillCreate(p) == at[p].pc = "create" \/ (at[p].pc = "priors" /\ at[p].next = "create")

SeesVoid(p) ==
  WillCreate(p) =>
    \A g \in Nat : g < at[p].gen =>
      \E j \in Ids : Key(j) = KeyOf(p) /\ invoices[j].gen = g /\ invoices[j].status = "void"

OnceEach == Numbered /\ \A p \in Procs : SeesVoid(p)

(***************************************************************************)
(* One live invoice, while no attempt outlives its wait: there is one      *)
(* attempt at a time; whatever is unaccounted for is newer than the latest *)
(* credit, so that the attempt sees it: it is of the attempt's own key, or *)
(* on its list of invoices to check.                                       *)
(***************************************************************************)
Claims ==
  \A p \in Procs : at[p].pc = "claim" =>
    at[p].stamp <= org.stamp /\ at[p].stamp < MaxClaims /\ (at[p].stamp = org.stamp => ~cooling)

Alone ==
  /\ \A p \in Procs : Running(p) => cooling
  /\ \A p, q \in Procs : Running(p) /\ Running(q) => p = q

OneUnaccounted ==
  /\ \A u, v \in Unaccounted : u = v
  /\ \A u \in Unaccounted : lastCredit < u

Seen(p) ==
  /\ at[p].pc = "look" => at[p].since <= lastCredit
  /\ at[p].pc = "priors" =>
       \A u \in Unaccounted : Key(u) = KeyOf(p) \/ u \in at[p].prior \cup at[p].paid
  /\ at[p].pc = "create" => \A u \in Unaccounted : Key(u) = KeyOf(p)

OneAtATime == ~overlapped => Alone /\ OneUnaccounted /\ \A p \in Procs : Seen(p)

(* Each claim creates one invoice at most.                                 *)
Creators == {p \in Procs : at[p].pc \in Early}
Counted == IsFiniteSet(Creators) /\ Len(invoices) + Cardinality(Creators) <= org.stamp

Invariant == TypeInv /\ OnceEach /\ Claims /\ OneAtATime /\ Counted

-----------------------------------------------------------------------------
(* The policy *)

LEMMA Base ==
  /\ MaxAttempts \in Nat /\ MaxAttempts > 0 /\ MaxClaims \in Nat /\ MaxManual \in Nat
  /\ None \notin Cards
BY AutoTopupAssumption

(* Switching the policy leaves the claim stamp alone.                      *)
SamePolicy(o, p) == p \in OrgRow /\ p.stamp = o.stamp

LEMMA OrgFields ==
  ASSUME NEW o \in OrgRow
  PROVE  /\ o.on \in BOOLEAN /\ o.why \in Reasons /\ o.card \in Cards \cup {None}
         /\ o.failures \in 0 .. MaxAttempts /\ o.stamp \in 0 .. MaxClaims
BY DEF OrgRow

LEMMA DisabledType ==
  ASSUME NEW o \in OrgRow, NEW reason \in Reasons
  PROVE  SamePolicy(o, Disabled(o, reason))
BY DEF SamePolicy, Disabled, OrgRow

LEMMA ClearedType ==
  ASSUME NEW o \in OrgRow
  PROVE  SamePolicy(o, [o EXCEPT !.failures = 0])
BY Base DEF SamePolicy, OrgRow

LEMMA ArmType ==
  ASSUME NEW o \in OrgRow, NEW b \in BOOLEAN, NEW c \in BOOLEAN, NEW d \in BOOLEAN
  PROVE  SamePolicy(o, ArmIfWaitingForCard(o, b, c, d))
<1> DEFINE armed == [o EXCEPT !.on = TRUE, !.why = "", !.failures = 0]
<1>1. "" \in Reasons
  BY DEF Reasons
<1>2. SamePolicy(o, armed)
  <2> DEFINE r == [o EXCEPT !.on = TRUE, !.why = ""]
  <2>1. [o EXCEPT !.on = TRUE] \in OrgRow /\ [o EXCEPT !.on = TRUE].stamp = o.stamp
    BY DEF OrgRow
  <2>2. r \in OrgRow /\ r.stamp = o.stamp
    BY <1>1, <2>1 DEF OrgRow
  <2>3. armed = [r EXCEPT !.failures = 0]
    OBVIOUS
  <2> HIDE DEF r, armed
  <2> QED
    BY <2>2, <2>3, ClearedType DEF SamePolicy
<1>3. ArmIfWaitingForCard(o, b, c, d) \in {o, armed}
  BY DEF ArmIfWaitingForCard
<1> QED
  BY <1>2, <1>3 DEF SamePolicy

LEMMA CardType ==
  ASSUME NEW o \in OrgRow, NEW card \in Cards, NEW paid \in BOOLEAN
  PROVE  SamePolicy(o, SetDefaultPm(o, card, paid))
<1> DEFINE s == [o EXCEPT !.card = card]
<1>1. SamePolicy(o, s)
  BY DEF SamePolicy, OrgRow
<1>2. s \in OrgRow /\ (paid \/ o.card # card) \in BOOLEAN
  BY <1>1 DEF SamePolicy
<1>3. SamePolicy(s, ArmIfWaitingForCard(s, paid \/ o.card # card, paid, FALSE))
  BY <1>2, ArmType
<1> QED
  BY <1>1, <1>3 DEF SamePolicy, SetDefaultPm

LEMMA FailureType ==
  ASSUME NEW o \in OrgRow, NEW reason, NEW p \in AfterFailure(o, reason)
  PROVE  SamePolicy(o, p)
<1> DEFINE n == IF o.failures < MaxAttempts THEN o.failures + 1 ELSE o.failures
           counted == [o EXCEPT !.failures = IF @ < MaxAttempts THEN @ + 1 ELSE @]
           why == IF reason = "stripe_unconfirmed" THEN reason ELSE "max_attempts:"
           off == Disabled(counted, why)
<1>1. n \in 0 .. MaxAttempts
  BY Base, OrgFields
<1>2. counted = [o EXCEPT !.failures = n]
  OBVIOUS
<1>3. SamePolicy(o, counted)
  <2> HIDE DEF n
  <2> QED
    BY <1>1, <1>2 DEF SamePolicy, OrgRow
<1>4. why \in Reasons
  BY DEF Reasons
<1>5. SamePolicy(counted, off)
  <2> HIDE DEF counted, why
  <2> QED
    BY <1>3, <1>4, DisabledType DEF SamePolicy
<1>6. p \in {counted, off}
  BY DEF AfterFailure
<1> QED
  <2> HIDE DEF counted, off
  <2> QED
    BY <1>3, <1>5, <1>6 DEF SamePolicy

LEMMA CardGoneType ==
  ASSUME NEW o \in OrgRow, NEW card
  PROVE  SamePolicy(o, CardGone(o, card))
<1> DEFINE forgotten == [o EXCEPT !.card = None, !.failures = 0]
<1>1. SamePolicy(o, forgotten)
  <2> DEFINE r == [o EXCEPT !.card = None]
  <2>1. r \in OrgRow /\ r.stamp = o.stamp
    BY DEF OrgRow
  <2>2. forgotten = [r EXCEPT !.failures = 0]
    OBVIOUS
  <2> HIDE DEF r, forgotten
  <2> QED
    BY <2>1, <2>2, ClearedType DEF SamePolicy
<1>2. SamePolicy(forgotten, Disabled(forgotten, "no_card"))
  <2>1. "no_card" \in Reasons
    BY DEF Reasons
  <2> HIDE DEF forgotten
  <2> QED
    BY <1>1, <2>1, DisabledType DEF SamePolicy
<1>3. CardGone(o, card) \in {o, forgotten, Disabled(forgotten, "no_card")}
  BY DEF CardGone
<1> QED
  <2> HIDE DEF forgotten
  <2> QED
    BY <1>1, <1>2, <1>3 DEF SamePolicy

-----------------------------------------------------------------------------
(* What most steps have in common: the invoices stay, with their keys, and *)
(* a void or paid one stays so; the ledger knows as much or one payment    *)
(* more; and the attempts that move go on or end.                          *)

KeepsInvoices ==
  /\ InvoicesTyped' /\ Len(invoices') = Len(invoices)
  /\ \A i \in Ids : /\ invoices'[i].crossing = invoices[i].crossing
                    /\ invoices'[i].card = invoices[i].card
                    /\ invoices'[i].gen = invoices[i].gen
                    /\ invoices[i].status = "void" => invoices'[i].status = "void"
                    /\ invoices[i].status = "paid" => invoices'[i].status = "paid"

Credits(i) ==
  /\ credited' = credited \cup {i}
  /\ lastCredit' = IF i \in credited THEN lastCredit ELSE Len(invoices)

KeepsBooks ==
  /\ late' \subseteq Ids /\ failedEvents' \subseteq Ids \X {"auth", "decline"}
  /\ manual' \in Seq(Cards) /\ Len(manual') <= MaxManual
  /\ \/ credited' = credited /\ lastCredit' = lastCredit
     \/ \E i \in Paid : Credits(i)

KeepsClock == SamePolicy(org, org') /\ cooling' = cooling /\ overlapped' = overlapped

Moved(q) ==
  /\ at'[q] \in AtRow /\ AtWork(q)'
  /\ at'[q].pc # "claim"
  /\ at'[q].pc = "idle" \/ Running(q)
  /\ at'[q].pc \in Early => at[q].pc \in Early
  /\ SeesVoid(q)'
  /\ ~overlapped /\ Alone /\ OneUnaccounted /\ Seen(q) => Seen(q)'

Attempts ==
  /\ at' = [q \in Procs |-> at'[q]]
  /\ \A q \in Procs : at'[q] = at[q] \/ Moved(q)

LEMMA InvoiceFields ==
  ASSUME InvoicesTyped, NEW i \in Ids
  PROVE  /\ invoices[i].crossing \in Nat /\ invoices[i].card \in Cards /\ invoices[i].gen \in Nat
         /\ invoices[i].status \in Statuses /\ invoices[i].pi \in PiStates
         /\ i \in Nat /\ i > 0 /\ i <= Len(invoices)
<1>1. invoices[i] \in InvoiceRow
  BY DEF InvoicesTyped
<1>2. i \in 1 .. Len(invoices) /\ Len(invoices) \in Nat
  BY DEF InvoicesTyped
<1> QED
  BY <1>1, <1>2 DEF InvoiceRow

LEMMA AtFields ==
  ASSUME TypeInv, NEW p \in Procs
  PROVE  /\ at[p].pc \in Stages /\ at[p].stamp \in Nat /\ at[p].card \in Cards \cup {None}
         /\ at[p].crossing \in Nat /\ at[p].since \in Nat /\ at[p].inv \in Nat /\ at[p].gen \in Nat
         /\ at[p].next \in Nexts /\ at[p].why \in Whys /\ AtWork(p) /\ at[p] \in AtRow
<1>1. at[p] \in AtRow /\ AtWork(p)
  BY DEF TypeInv
<1> QED
  BY <1>1 DEF AtRow

LEMMA Kept ==
  ASSUME InvoicesTyped, KeepsInvoices
  PROVE  /\ Ids' = Ids /\ Paid \subseteq Paid'
         /\ \A i \in Ids : Key(i)' = Key(i)
         /\ \A i, j \in Ids : SameKey(i, j)' <=> SameKey(i, j)
         /\ \A i \in Ids : invoices'[i].gen = invoices[i].gen
<1>1. Ids' = Ids
  BY DEF KeepsInvoices, InvoicesTyped
<1>2. \A i \in Ids : Key(i)' = Key(i)
  BY <1>1 DEF KeepsInvoices, Key
<1>3. Paid \subseteq Paid'
  BY <1>1 DEF KeepsInvoices, Paid
<1>4. \A i, j \in Ids : SameKey(i, j)' <=> SameKey(i, j)
  BY <1>2 DEF SameKey
<1>5. \A i \in Ids : invoices'[i].gen = invoices[i].gen
  BY DEF KeepsInvoices
<1> QED
  BY <1>1, <1>2, <1>3, <1>4, <1>5

(* What is accounted for stays so.                                         *)
LEMMA NothingNew ==
  ASSUME InvoicesTyped, KeepsInvoices, KeepsBooks
  PROVE  Unaccounted' \subseteq Unaccounted
<1>1. credited \subseteq credited'
  BY DEF KeepsBooks, Credits
<1>2. Ids' = Ids
  BY Kept
<1>3. ASSUME NEW i \in Ids, invoices'[i].status \in {"draft", "open", "paid"}
      PROVE  invoices[i].status \in {"draft", "open", "paid"}
  <2>1. invoices[i].status \in Statuses
    BY InvoiceFields
  <2>2. invoices[i].status # "void"
    BY <1>3 DEF KeepsInvoices
  <2> QED
    BY <2>1, <2>2 DEF Statuses
<1> QED
  BY <1>1, <1>2, <1>3 DEF Unaccounted

LEMMA StaysTyped ==
  ASSUME TypeInv, KeepsInvoices, KeepsBooks, KeepsClock, Attempts
  PROVE  TypeInv'
<1>1. InvoicesTyped /\ InvoicesTyped' /\ Len(invoices') = Len(invoices)
  BY DEF TypeInv, KeepsInvoices
<1>2. Ids' = Ids /\ Paid \subseteq Paid'
  BY <1>1, Kept
<1>3. BooksTyped'
  <2>1. credited \subseteq Paid /\ lastCredit \in 0 .. Len(invoices) /\ Len(invoices) \in Nat
    BY <1>1 DEF TypeInv, BooksTyped, InvoicesTyped
  <2>2. credited' \subseteq Paid' /\ lastCredit' \in 0 .. Len(invoices)
    BY <1>2, <2>1 DEF KeepsBooks, Credits
  <2> QED
    BY <1>1, <1>2, <2>2 DEF BooksTyped, KeepsBooks
<1>4. ASSUME NEW p \in Procs PROVE at'[p] \in AtRow /\ AtWork(p)'
  <2>1. CASE at'[p] = at[p]
    <3>1. AtWork(p) /\ at[p] \in AtRow
      BY DEF TypeInv
    <3> QED
      BY <1>1, <1>2, <2>1, <3>1 DEF AtWork
  <2>2. CASE Moved(p)
    BY <2>2 DEF Moved
  <2> QED
    BY <2>1, <2>2 DEF Attempts
<1>5. at' \in [Procs -> AtRow]
  BY <1>4 DEF Attempts
<1> QED
  BY <1>1, <1>3, <1>4, <1>5 DEF TypeInv, KeepsClock, SamePolicy

LEMMA StaysOnceEach ==
  ASSUME TypeInv, OnceEach, KeepsInvoices, Attempts
  PROVE  OnceEach'
<1>0. InvoicesTyped
  BY DEF TypeInv
<1>1. /\ Ids' = Ids
      /\ \A i, j \in Ids : SameKey(i, j)' <=> SameKey(i, j)
      /\ \A i \in Ids : invoices'[i].gen = invoices[i].gen
      /\ \A i \in Ids : Key(i)' = Key(i)
      /\ \A i \in Ids : invoices[i].status = "void" => invoices'[i].status = "void"
  BY <1>0, Kept DEF KeepsInvoices
<1>2. Numbered'
  BY <1>1 DEF OnceEach, Numbered
<1>3. ASSUME NEW p \in Procs PROVE SeesVoid(p)'
  <2>1. CASE at'[p] = at[p]
    <3>1. SeesVoid(p)
      BY DEF OnceEach
    <3> QED
      BY <1>1, <2>1, <3>1 DEF SeesVoid, WillCreate, KeyOf
  <2>2. CASE Moved(p)
    BY <2>2 DEF Moved
  <2> QED
    BY <2>1, <2>2 DEF Attempts
<1> QED
  BY <1>2, <1>3 DEF OnceEach

LEMMA StaysClaimed ==
  ASSUME Claims, KeepsClock, Attempts
  PROVE  Claims'
<1>1. \A p \in Procs : at'[p].pc = "claim" => at'[p] = at[p]
  BY DEF Attempts, Moved
<1> QED
  BY <1>1 DEF Claims, KeepsClock, SamePolicy

LEMMA StaysOneAtATime ==
  ASSUME TypeInv, OneAtATime, KeepsInvoices, KeepsBooks, KeepsClock, Attempts
  PROVE  OneAtATime'
<1> SUFFICES ASSUME ~overlapped' PROVE Alone' /\ OneUnaccounted' /\ \A p \in Procs : Seen(p)'
  BY DEF OneAtATime
<1>1. ~overlapped /\ Alone /\ OneUnaccounted /\ \A p \in Procs : Seen(p)
  BY DEF OneAtATime, KeepsClock
<1>2. \A p \in Procs : Running(p)' => Running(p)
  BY DEF Attempts, Moved, Running
<1>3. Alone'
  BY <1>1, <1>2 DEF Alone, KeepsClock
<1>4. InvoicesTyped /\ credited \subseteq Paid /\ lastCredit \in Nat /\ Len(invoices) \in Nat
      /\ lastCredit <= Len(invoices)
  BY DEF TypeInv, BooksTyped, InvoicesTyped
<1>5. Unaccounted' \subseteq Unaccounted
  BY <1>4, NothingNew
<1>6. (lastCredit' = lastCredit \/ Unaccounted' = {}) /\ lastCredit' \in Nat /\ lastCredit <= lastCredit'
  <2>1. CASE lastCredit' = lastCredit
    BY <1>4, <2>1
  <2>2. CASE lastCredit' # lastCredit
    <3>1. PICK i \in Paid : Credits(i) /\ i \notin credited /\ lastCredit' = Len(invoices)
      BY <2>2 DEF KeepsBooks, Credits
    <3>2. i \in Unaccounted
      BY <3>1 DEF Unaccounted, Paid
    <3>3. i \notin Unaccounted'
      BY <3>1 DEF Unaccounted, Credits
    <3> QED
      BY <1>1, <1>4, <1>5, <3>1, <3>2, <3>3 DEF OneUnaccounted
  <2> QED
    BY <2>1, <2>2
<1>7. OneUnaccounted'
  BY <1>1, <1>5, <1>6 DEF OneUnaccounted
<1>8. ASSUME NEW p \in Procs PROVE Seen(p)'
  <2>1. CASE at'[p] = at[p]
    <3>1. \A u \in Unaccounted' : u \in Unaccounted /\ Key(u)' = Key(u)
      <4>1. Unaccounted \subseteq Ids
        BY DEF Unaccounted
      <4> QED
        BY <1>4, <1>5, <4>1, Kept
    <3>2. at[p].since \in Nat
      BY AtFields
    <3>3. Seen(p)
      BY <1>1
    <3> QED
      BY <1>4, <1>6, <2>1, <3>1, <3>2, <3>3 DEF Seen, KeyOf
  <2>2. CASE Moved(p)
    BY <1>1, <2>2 DEF Moved
  <2> QED
    BY <2>1, <2>2 DEF Attempts
<1> QED
  BY <1>3, <1>7, <1>8

LEMMA StaysCounted ==
  ASSUME TypeInv, Counted, KeepsInvoices, KeepsClock, Attempts
  PROVE  Counted'
<1>1. Creators' \subseteq Creators
  BY DEF Creators, Attempts, Moved
<1>2. IsFiniteSet(Creators') /\ Cardinality(Creators') <= Cardinality(Creators)
      /\ Cardinality(Creators') \in Nat /\ Cardinality(Creators) \in Nat
  BY <1>1, FS_Subset, FS_CardinalityType DEF Counted
<1>3. Len(invoices) \in Nat /\ org.stamp \in Nat
  BY DEF TypeInv, InvoicesTyped, OrgRow
<1> QED
  BY <1>2, <1>3 DEF Counted, KeepsInvoices, KeepsClock, SamePolicy

LEMMA Onward ==
  ASSUME Invariant, KeepsInvoices, KeepsBooks, KeepsClock, Attempts
  PROVE  Invariant'
BY StaysTyped, StaysOnceEach, StaysClaimed, StaysOneAtATime, StaysCounted DEF Invariant

-----------------------------------------------------------------------------
(* What stays, and how an attempt goes on or ends.                         *)

LEMMA SameInvoices ==
  ASSUME TypeInv, UNCHANGED invoices
  PROVE  KeepsInvoices
<1>1. InvoicesTyped /\ InvoicesTyped'
  BY DEF TypeInv, InvoicesTyped, Ids
<1> QED
  BY <1>1 DEF KeepsInvoices

LEMMA SameBooks ==
  ASSUME TypeInv, UNCHANGED <<late, failedEvents, ledger>>
  PROVE  KeepsBooks
BY DEF TypeInv, BooksTyped, KeepsBooks, ledger

LEMMA SameClock ==
  ASSUME TypeInv, UNCHANGED <<org, cooling, overlapped>>
  PROVE  KeepsClock
BY DEF TypeInv, KeepsClock, SamePolicy

LEMMA SameAttempts ==
  ASSUME TypeInv, UNCHANGED at
  PROVE  Attempts
BY DEF TypeInv, Attempts

LEMMA OneMoves ==
  ASSUME TypeInv, NEW p \in Procs, NEW r, at' = [at EXCEPT ![p] = r], Moved(p)
  PROVE  Attempts
BY DEF TypeInv, Attempts

LEMMA IdleRow ==
  Idle \in AtRow /\ Idle.pc = "idle" /\ Idle.inv = 0 /\ Idle.prior = {} /\ Idle.paid = {}
BY DEF Idle, AtRow, Stages, Nexts, Whys

LEMMA Ends ==
  ASSUME TypeInv, KeepsInvoices, NEW p \in Procs, at' = [at EXCEPT ![p] = Idle]
  PROVE  Attempts
<1>1. at'[p] = Idle
  BY DEF TypeInv
<1>2. Len(invoices') \in Nat
  BY DEF KeepsInvoices, InvoicesTyped
<1>3. AtWork(p)'
  BY <1>1, <1>2, IdleRow DEF AtWork, Early, Further
<1>4. SeesVoid(p)' /\ Seen(p)'
  BY <1>1, IdleRow DEF SeesVoid, WillCreate, Seen
<1>5. Moved(p)
  BY <1>1, <1>3, <1>4, IdleRow DEF Moved, Early
<1> QED
  BY <1>5, OneMoves

FailRow(p, pc, why) ==
  [Idle EXCEPT !.pc = pc, !.why = why, !.card = IF why = "no_card" THEN at[p].card ELSE None,
               !.inv = IF pc = "stop" THEN at[p].inv ELSE 0]

LEMMA FailRowType ==
  ASSUME TypeInv, NEW p \in Procs, NEW pc \in {"fail", "stop"}, NEW why \in Whys
  PROVE  /\ FailRow(p, pc, why) \in AtRow
         /\ FailRow(p, pc, why).pc = pc /\ FailRow(p, pc, why).prior = {} /\ FailRow(p, pc, why).paid = {}
         /\ FailRow(p, pc, why).inv = IF pc = "stop" THEN at[p].inv ELSE 0
<1> DEFINE card == IF why = "no_card" THEN at[p].card ELSE None
           inv == IF pc = "stop" THEN at[p].inv ELSE 0
           r == [Idle EXCEPT !.pc = pc]
           s == [r EXCEPT !.why = why]
           t == [s EXCEPT !.card = card]
<1>1. card \in Cards \cup {None} /\ inv \in Nat
  BY AtFields
<1>2. r \in AtRow /\ r.pc = pc /\ r.prior = {} /\ r.paid = {}
  <2>1. pc \in Stages
    BY DEF Stages, Further
  <2> QED
    BY <2>1, IdleRow DEF Idle, AtRow
<1>3. s \in AtRow /\ s.pc = pc /\ s.prior = {} /\ s.paid = {}
  <2> HIDE DEF r
  <2> QED
    BY <1>2 DEF AtRow
<1>4. t \in AtRow /\ t.pc = pc /\ t.prior = {} /\ t.paid = {}
  <2> HIDE DEF s, card
  <2> QED
    BY <1>1, <1>3 DEF AtRow
<1>5. FailRow(p, pc, why) = [t EXCEPT !.inv = inv]
  BY DEF FailRow
<1> HIDE DEF t, inv
<1>6. FailRow(p, pc, why) \in AtRow /\ FailRow(p, pc, why).pc = pc /\ FailRow(p, pc, why).prior = {}
      /\ FailRow(p, pc, why).paid = {} /\ FailRow(p, pc, why).inv = inv
  BY <1>1, <1>4, <1>5 DEF AtRow
<1> QED
  BY <1>6 DEF inv

LEMMA Fails ==
  ASSUME TypeInv, KeepsInvoices, NEW p \in Procs, Running(p),
         NEW pc \in {"fail", "stop"}, NEW why \in Whys, Fail(p, pc, why),
         pc = "stop" => at[p].inv \in Ids
  PROVE  Attempts
<1> DEFINE r == FailRow(p, pc, why)
<1>1. at' = [at EXCEPT ![p] = r] /\ at'[p] = r
  BY DEF TypeInv, Fail, FailRow
<1>2. r \in AtRow /\ r.pc = pc /\ r.prior = {} /\ r.paid = {} /\ r.inv = IF pc = "stop" THEN at[p].inv ELSE 0
  BY FailRowType
<1> HIDE DEF r
<1>3. AtWork(p)'
  <2>1. Ids' = Ids /\ Ids = 1 .. Len(invoices) /\ Len(invoices') = Len(invoices) /\ Len(invoices) \in Nat
    BY Kept DEF TypeInv, InvoicesTyped, KeepsInvoices
  <2>2. r.inv \in 0 .. Len(invoices) /\ (pc = "stop" => r.inv \in Ids)
    BY <1>2, <2>1
  <2> QED
    BY <1>1, <1>2, <2>1, <2>2 DEF AtWork, Early, Further
<1>4. SeesVoid(p)' /\ Seen(p)'
  BY <1>1, <1>2 DEF SeesVoid, WillCreate, Seen
<1>5. Moved(p)
  BY <1>1, <1>2, <1>3, <1>4 DEF Moved, Early
<1> QED
  BY <1>1, <1>5, OneMoves

LEMMA Goes ==
  ASSUME TypeInv, KeepsInvoices, NEW p \in Procs, Running(p),
         NEW pc \in Further, Goto(p, pc), at[p].inv \in Ids, pc = "settle" => at[p].inv \in Paid'
  PROVE  Attempts
<1> DEFINE r == [at[p] EXCEPT !.pc = pc]
<1>1. at' = [at EXCEPT ![p] = r] /\ at'[p] = r
  BY DEF TypeInv, Goto
<1>2. r \in AtRow /\ r.pc = pc /\ r.prior = at[p].prior /\ r.paid = at[p].paid /\ r.inv = at[p].inv
  <2>1. pc \in Stages
    BY DEF Stages
  <2> QED
    BY <2>1, AtFields DEF AtRow
<1> HIDE DEF r
<1>3. AtWork(p)'
  <2>1. Ids' = Ids /\ Len(invoices') = Len(invoices)
    BY Kept DEF TypeInv, KeepsInvoices
  <2>2. AtWork(p)
    BY AtFields
  <2>3. pc \notin {"claim", "priors"} \cup Early
    BY DEF Further, Early
  <2> QED
    BY <1>1, <1>2, <2>1, <2>2, <2>3 DEF AtWork
<1>4. SeesVoid(p)' /\ Seen(p)'
  BY <1>1, <1>2 DEF SeesVoid, WillCreate, Seen, Further
<1>5. Moved(p)
  BY <1>1, <1>2, <1>3, <1>4 DEF Moved, Early, Further
<1> QED
  BY <1>1, <1>5, OneMoves

-----------------------------------------------------------------------------
(* What Stripe does to an invoice.                                         *)

SameInvoice(x, r) ==
  /\ r \in InvoiceRow /\ r.crossing = x.crossing /\ r.card = x.card /\ r.gen = x.gen

ByStatus(x, status, pi) == [x EXCEPT !.status = status, !.pi = pi]
ByPayment(x, status, pi) == [x EXCEPT !.pi = pi, !.status = status]

LEMMA RowType ==
  ASSUME NEW x \in InvoiceRow, NEW status \in Statuses, NEW pi \in PiStates
  PROVE  \A r \in {ByStatus(x, status, pi), ByPayment(x, status, pi)} :
           SameInvoice(x, r) /\ r.status = status /\ r.pi = pi
<1> DEFINE s == [x EXCEPT !.status = status]
           t == [x EXCEPT !.pi = pi]
<1>1. SameInvoice(x, s) /\ s.status = status
  BY DEF SameInvoice, InvoiceRow
<1>2. SameInvoice(x, t) /\ t.pi = pi
  BY DEF SameInvoice, InvoiceRow
<1>3. [x EXCEPT !.status = status, !.pi = pi] = [s EXCEPT !.pi = pi]
  OBVIOUS
<1>4. [x EXCEPT !.pi = pi, !.status = status] = [t EXCEPT !.status = status]
  OBVIOUS
<1> HIDE DEF s, t
<1>5. SameInvoice(x, [s EXCEPT !.pi = pi]) /\ [s EXCEPT !.pi = pi].status = status
      /\ [s EXCEPT !.pi = pi].pi = pi
  BY <1>1 DEF SameInvoice, InvoiceRow
<1>6. SameInvoice(x, [t EXCEPT !.status = status]) /\ [t EXCEPT !.status = status].status = status
      /\ [t EXCEPT !.status = status].pi = pi
  BY <1>2 DEF SameInvoice, InvoiceRow
<1> QED
  BY <1>3, <1>4, <1>5, <1>6 DEF ByStatus, ByPayment

LEMMA RowMoves ==
  ASSUME TypeInv, NEW i \in Ids, NEW r, SameInvoice(invoices[i], r),
         invoices' = [invoices EXCEPT ![i] = r],
         invoices[i].status = "void" => r.status = "void",
         invoices[i].status = "paid" => r.status = "paid",
         r.pi = "succeeded" => r.status = "paid"
  PROVE  KeepsInvoices /\ invoices'[i] = r
<1>1. InvoicesTyped
  BY DEF TypeInv
<1>2. r \in InvoiceRow
  BY DEF SameInvoice
<1>4. invoices' \in [Ids -> InvoiceRow] /\ invoices'[i] = r
      /\ \A j \in Ids : j # i => invoices'[j] = invoices[j]
  BY <1>1, <1>2 DEF InvoicesTyped
<1>5. DOMAIN invoices' = Ids
  BY <1>4
<1>6. Ids' = Ids
  BY <1>5 DEF Ids
<1>7. Len(invoices') = Len(invoices) /\ invoices' \in Seq(InvoiceRow)
  <2>1. invoices \in Seq(InvoiceRow) /\ i \in 1 .. Len(invoices)
    BY <1>1 DEF InvoicesTyped
  <2>2. [invoices EXCEPT ![i] = r] \in Seq(InvoiceRow)
        /\ Len([invoices EXCEPT ![i] = r]) = Len(invoices)
    BY <1>2, <2>1, ExceptSeq
  <2> QED
    BY <2>2
<1>8. InvoicesTyped'
  BY <1>1, <1>2, <1>4, <1>6, <1>7 DEF InvoicesTyped
<1> QED
  BY <1>2, <1>4, <1>7, <1>8 DEF KeepsInvoices, SameInvoice

LEMMA Moves ==
  ASSUME TypeInv, NEW i \in Ids, invoices[i].status = "open", NEW pi \in PayOutcomes,
         PaymentMoves(i, pi)
  PROVE  /\ KeepsInvoices /\ failedEvents' \subseteq Ids \X {"auth", "decline"}
         /\ pi = "succeeded" => i \in Paid'
<1> DEFINE status == IF pi = "succeeded" THEN "paid" ELSE "open"
           r == ByPayment(invoices[i], status, pi)
<1>1. InvoicesTyped /\ failedEvents \subseteq Ids \X {"auth", "decline"}
  BY DEF TypeInv, BooksTyped
<1>2. status \in Statuses /\ pi \in PiStates /\ invoices[i] \in InvoiceRow
  BY <1>1 DEF Statuses, PayOutcomes, PiStates, Unpaid, InvoicesTyped
<1>3. invoices' = [invoices EXCEPT ![i] = r]
  BY <1>1 DEF PaymentMoves, InvoicesTyped, ByPayment
<1>4. SameInvoice(invoices[i], r) /\ r.status = status /\ r.pi = pi
  <2> HIDE DEF status
  <2> QED
    BY <1>2, RowType
<1> HIDE DEF r
<1>5. KeepsInvoices /\ invoices'[i] = r
  BY <1>3, <1>4, RowMoves
<1>6. failedEvents' \subseteq Ids \X {"auth", "decline"}
  BY <1>1 DEF PaymentMoves
<1>7. pi = "succeeded" => i \in Paid'
  BY <1>1, <1>4, <1>5, Kept DEF Paid
<1> QED
  BY <1>5, <1>6, <1>7

LEMMA VoidedKeeps ==
  ASSUME TypeInv, NEW i \in Ids, invoices' \in {Voided(i), invoices}
  PROVE  KeepsInvoices
<1>1. CASE invoices' = invoices
  BY <1>1, SameInvoices
<1>2. CASE invoices' = Voided(i) /\ Voidable(i)
  <2> DEFINE status == "void"
             pi == "canceled"
             r == ByStatus(invoices[i], status, pi)
  <2>1. InvoicesTyped
    BY DEF TypeInv
  <2>2. invoices' = [invoices EXCEPT ![i] = r]
    BY <1>2, <2>1 DEF Voided, InvoicesTyped, ByStatus
  <2>3. status \in Statuses /\ pi \in PiStates /\ invoices[i] \in InvoiceRow
    BY <2>1 DEF Statuses, PiStates, Unpaid, InvoicesTyped
  <2>4. status = "void" /\ pi # "succeeded"
    OBVIOUS
  <2> HIDE DEF status, pi
  <2>5. SameInvoice(invoices[i], r) /\ r.status = status /\ r.pi = pi
    BY <2>3, RowType
  <2>6. invoices[i].status = "open"
    BY <1>2 DEF Voidable
  <2> HIDE DEF r
  <2> QED
    BY <2>2, <2>4, <2>5, <2>6, RowMoves
<1> QED
  BY <1>1, <1>2 DEF Voided

LEMMA PauseKeeps ==
  ASSUME TypeInv, NEW i \in Ids, PauseForAuth(i)
  PROVE  KeepsInvoices /\ SamePolicy(org, org')
<1>1. invoices' \in {Voided(i), invoices}
  BY DEF PauseForAuth
<1>2. {"authentication_required", "stripe_unconfirmed"} \subseteq Reasons
  BY DEF Reasons
<1>3. PICK confirmed \in BOOLEAN :
        org' = Disabled(org, IF confirmed THEN "authentication_required" ELSE "stripe_unconfirmed")
  BY DEF PauseForAuth
<1>4. org \in OrgRow
  BY DEF TypeInv
<1> QED
  BY <1>1, <1>2, <1>3, <1>4, VoidedKeeps, DisabledType

-----------------------------------------------------------------------------
(* The owner, the webhooks and Stripe                                      *)

LEMMA PolicyKept ==
  ASSUME Invariant, SamePolicy(org, org'), UNCHANGED <<cooling, stripe, ledger, at, overlapped>>
  PROVE  Invariant'
<1>1. KeepsInvoices /\ KeepsBooks /\ Attempts
  BY SameInvoices, SameBooks, SameAttempts DEF Invariant, stripe
<1>2. KeepsClock
  BY DEF KeepsClock
<1> QED
  BY <1>1, <1>2, Onward

LEMMA OwnerKeeps ==
  ASSUME Invariant, OwnerTurnsOn \/ OwnerTurnsOff
  PROVE  Invariant'
<1>1. org \in OrgRow
  BY DEF Invariant, TypeInv
<1>2. CASE OwnerTurnsOn
  <2> DEFINE on == org.card # None
             why == IF org.card = None THEN "no_card" ELSE ""
             r == [org EXCEPT !.on = on]
             s == [r EXCEPT !.failures = 0]
  <2>1. on \in BOOLEAN /\ why \in Reasons
    BY DEF Reasons
  <2>2. SamePolicy(org, r)
    <3> HIDE DEF on
    <3> QED
      BY <1>1, <2>1 DEF SamePolicy, OrgRow
  <2>3. SamePolicy(org, s)
    <3> HIDE DEF r
    <3> QED
      BY <2>2, ClearedType DEF SamePolicy
  <2>4. org' = [s EXCEPT !.why = why]
    BY <1>2 DEF OwnerTurnsOn
  <2>5. SamePolicy(org, org')
    <3> HIDE DEF s, why
    <3> QED
      BY <2>1, <2>3, <2>4 DEF SamePolicy, OrgRow
  <2> QED
    BY <1>2, <2>5, PolicyKept DEF OwnerTurnsOn
<1>3. CASE OwnerTurnsOff
  <2>1. SamePolicy(org, org')
    BY <1>1, <1>3, DisabledType DEF OwnerTurnsOff, Reasons
  <2> QED
    BY <1>3, <2>1, PolicyKept DEF OwnerTurnsOff
<1> QED
  BY <1>2, <1>3

LEMMA CardSavedKeeps ==
  ASSUME Invariant, NEW card \in Cards, CardSaved(card)
  PROVE  Invariant'
<1>1. SamePolicy(org, org')
  BY CardType DEF Invariant, TypeInv, CardSaved
<1> QED
  BY <1>1, PolicyKept DEF CardSaved

LEMMA ManualKeeps ==
  ASSUME Invariant, NEW card \in Cards, ManualTopUp(card)
  PROVE  Invariant'
<1> DEFINE cleared == [org EXCEPT !.failures = 0]
<1>1. SamePolicy(org, cleared)
  BY ClearedType DEF Invariant, TypeInv
<1>2. org' \in {cleared, SetDefaultPm(cleared, card, TRUE)}
  BY DEF ManualTopUp
<1>3. SamePolicy(org, org')
  <2> HIDE DEF cleared
  <2> QED
    BY <1>1, <1>2, CardType DEF SamePolicy
<1>4. KeepsInvoices /\ Attempts
  BY SameInvoices, SameAttempts DEF Invariant, ManualTopUp, stripe
<1>5. manual' \in Seq(Cards) /\ Len(manual') <= MaxManual
  <2>1. manual \in Seq(Cards) /\ Len(manual) < MaxManual /\ Len(manual) \in Nat /\ MaxManual \in Nat
    BY Base, LenProperties DEF Invariant, TypeInv, BooksTyped, ManualTopUp
  <2>2. manual' = Append(manual, card)
    BY DEF ManualTopUp
  <2>3. manual' \in Seq(Cards) /\ Len(manual') = Len(manual) + 1
    BY <2>1, <2>2, AppendProperties
  <2> QED
    BY <2>1, <2>3
<1>6. KeepsBooks
  BY <1>5 DEF Invariant, TypeInv, BooksTyped, KeepsBooks, ManualTopUp, stripe
<1>7. KeepsClock
  BY <1>3 DEF KeepsClock, ManualTopUp
<1> QED
  BY <1>4, <1>6, <1>7, Onward

LEMMA ManualAgainKeeps ==
  ASSUME Invariant, ManualTopUpAgain
  PROVE  Invariant'
<1>1. PICK k \in DOMAIN manual : org' = SetDefaultPm(org, manual[k], TRUE)
  BY DEF ManualTopUpAgain
<1>2. manual[k] \in Cards
  BY <1>1, LenProperties DEF Invariant, TypeInv, BooksTyped
<1>3. SamePolicy(org, org')
  BY <1>1, <1>2, CardType DEF Invariant, TypeInv
<1> QED
  BY <1>3, PolicyKept DEF ManualTopUpAgain

LEMMA RefundKeeps ==
  ASSUME Invariant, PaymentRefunded
  PROVE  Invariant'
<1>1. SamePolicy(org, org')
  BY DisabledType DEF Invariant, TypeInv, PaymentRefunded, Reasons
<1> QED
  BY <1>1, PolicyKept DEF PaymentRefunded

LEMMA IdsCount ==
  ASSUME InvoicesTyped
  PROVE  Cardinality(Ids) = Len(invoices)
<1>1. Ids = 1 .. Len(invoices) /\ Len(invoices) \in Nat
  BY DEF InvoicesTyped
<1>2. Cardinality(1 .. Len(invoices)) = IF 1 > Len(invoices) THEN 0 ELSE Len(invoices) - 1 + 1
  BY <1>1, FS_Interval
<1> QED
  BY <1>1, <1>2

LEMMA SucceededKeeps ==
  ASSUME Invariant, NEW i \in Ids, PaymentSucceeded(i)
  PROVE  Invariant'
<1> DEFINE fresh == [org EXCEPT !.failures = 0]
           cleared == IF i \in credited THEN org ELSE ArmIfWaitingForCard(fresh, FALSE, FALSE, TRUE)
<1>1. i \in Paid /\ InvoicesTyped /\ org \in OrgRow
  BY DEF PaymentSucceeded, Invariant, TypeInv
<1>2. SamePolicy(org, fresh)
  BY <1>1, ClearedType
<1>3. SamePolicy(org, cleared)
  <2>1. SamePolicy(fresh, ArmIfWaitingForCard(fresh, FALSE, FALSE, TRUE))
    <3> HIDE DEF fresh
    <3> QED
      BY <1>2, ArmType DEF SamePolicy
  <2> HIDE DEF fresh
  <2> QED
    BY <1>1, <1>2, <2>1 DEF SamePolicy
<1>4. org' \in {cleared, SetDefaultPm(cleared, invoices[i].card, TRUE)}
  BY DEF PaymentSucceeded
<1>5. SamePolicy(org, org')
  <2>1. invoices[i].card \in Cards
    BY <1>1, InvoiceFields
  <2> HIDE DEF cleared
  <2> QED
    BY <1>3, <1>4, <2>1, CardType DEF SamePolicy
<1>6. Credits(i)
  BY <1>1, IdsCount DEF PaymentSucceeded, Credits
<1>7. KeepsInvoices /\ Attempts
  BY SameInvoices, SameAttempts DEF Invariant, PaymentSucceeded, stripe
<1>8. KeepsBooks
  <2>1. BooksTyped /\ UNCHANGED <<late, failedEvents, manual>>
    BY DEF Invariant, TypeInv, PaymentSucceeded, stripe
  <2> QED
    BY <1>1, <1>6, <2>1 DEF BooksTyped, KeepsBooks
<1>9. KeepsClock
  BY <1>5 DEF KeepsClock, PaymentSucceeded
<1> QED
  BY <1>7, <1>8, <1>9, Onward

LEMMA LatePayKeeps ==
  ASSUME Invariant, NEW i \in Ids, LatePay(i)
  PROVE  Invariant'
<1>1. TypeInv /\ BooksTyped
  BY DEF Invariant, TypeInv
<1>2. KeepsInvoices /\ failedEvents' \subseteq Ids \X {"auth", "decline"}
  <2>1. CASE Payable(i)
    <3>1. PICK pi \in PayOutcomes : PaymentMoves(i, pi)
      BY <2>1 DEF LatePay
    <3>2. invoices[i].status = "open"
      BY <2>1 DEF Payable
    <3> QED
      BY <1>1, <3>1, <3>2, Moves
  <2>2. CASE ~Payable(i)
    BY <1>1, <2>2, SameInvoices DEF LatePay, BooksTyped
  <2> QED
    BY <2>1, <2>2
<1>3. KeepsBooks
  BY <1>1, <1>2 DEF KeepsBooks, BooksTyped, LatePay, ledger
<1>4. KeepsClock /\ Attempts
  BY <1>1, SameClock, SameAttempts DEF LatePay
<1> QED
  BY <1>2, <1>3, <1>4, Onward

LEMMA SettlesKeeps ==
  ASSUME Invariant, NEW i \in Ids, PaymentSettles(i)
  PROVE  Invariant'
<1>1. TypeInv /\ BooksTyped
  BY DEF Invariant, TypeInv
<1>2. PICK pi \in PayOutcomes : PaymentMoves(i, pi)
  BY DEF PaymentSettles, PayOutcomes
<1>3. KeepsInvoices /\ failedEvents' \subseteq Ids \X {"auth", "decline"}
  BY <1>1, <1>2, Moves DEF PaymentSettles
<1>4. KeepsBooks
  BY <1>1, <1>3 DEF KeepsBooks, BooksTyped, PaymentSettles, ledger
<1>5. KeepsClock /\ Attempts
  BY <1>1, SameClock, SameAttempts DEF PaymentSettles
<1> QED
  BY <1>3, <1>4, <1>5, Onward

LEMMA FailedKeeps ==
  ASSUME Invariant, NEW e \in failedEvents, PaymentFailed(e)
  PROVE  Invariant'
<1>1. TypeInv /\ org \in OrgRow /\ e[1] \in Ids
  BY DEF Invariant, TypeInv, BooksTyped
<1>2. KeepsInvoices /\ SamePolicy(org, org')
  <2>1. CASE e[2] = "decline"
    <3>1. org' \in AfterFailure(org, "declined") /\ UNCHANGED invoices
      BY <2>1 DEF PaymentFailed
    <3> QED
      BY <1>1, <3>1, FailureType, SameInvoices
  <2>2. CASE e[2] # "decline" /\ invoices[e[1]].status = "void"
    <3>1. UNCHANGED <<org, invoices>>
      BY <2>2 DEF PaymentFailed
    <3> QED
      BY <1>1, <3>1, SameInvoices DEF SamePolicy
  <2>3. CASE e[2] # "decline" /\ invoices[e[1]].status # "void"
    <3>1. PauseForAuth(e[1])
      BY <2>3 DEF PaymentFailed
    <3> QED
      BY <1>1, <3>1, PauseKeeps
  <2> QED
    BY <2>1, <2>2, <2>3
<1>3. KeepsBooks /\ Attempts
  BY <1>1, SameBooks, SameAttempts DEF PaymentFailed
<1>4. KeepsClock
  BY <1>2 DEF KeepsClock, PaymentFailed
<1> QED
  BY <1>2, <1>3, <1>4, Onward

-----------------------------------------------------------------------------
(* The claim                                                               *)

LEMMA UsedUpKeeps ==
  ASSUME Invariant, NEW p \in Procs, FindsAttemptsUsedUp(p)
  PROVE  Invariant'
<1>1. SamePolicy(org, org')
  BY DisabledType DEF Invariant, TypeInv, FindsAttemptsUsedUp, Reasons
<1> QED
  BY <1>1, PolicyKept DEF FindsAttemptsUsedUp

(* The invoices, the books and the other attempts stay as they are.        *)
LEMMA ElsewhereSame ==
  ASSUME TypeInv, OnceEach, UNCHANGED <<stripe, ledger>>
  PROVE  /\ InvoicesTyped' /\ BooksTyped' /\ Numbered' /\ Unaccounted' = Unaccounted
         /\ OneUnaccounted => OneUnaccounted'
         /\ \A q \in Procs : at'[q] = at[q] =>
              AtWork(q)' /\ SeesVoid(q)' /\ (Seen(q) => Seen(q)')
<1>1. InvoicesTyped' /\ BooksTyped' /\ Ids' = Ids /\ Paid' = Paid /\ Unaccounted' = Unaccounted
  BY DEF TypeInv, InvoicesTyped, BooksTyped, stripe, ledger, Ids, Paid, Unaccounted
<1>2. Numbered' /\ (OneUnaccounted => OneUnaccounted')
  BY <1>1 DEF OnceEach, Numbered, OneUnaccounted, SameKey, Key, stripe, ledger
<1>3. ASSUME NEW q \in Procs, at'[q] = at[q]
      PROVE  AtWork(q)' /\ SeesVoid(q)' /\ (Seen(q) => Seen(q)')
  <2>1. AtWork(q) /\ SeesVoid(q)
    BY DEF TypeInv, OnceEach
  <2>2. AtWork(q)'
    BY <1>1, <1>3, <2>1 DEF AtWork, stripe
  <2>3. SeesVoid(q)'
    BY <1>1, <1>3, <2>1 DEF SeesVoid, WillCreate, KeyOf, Key, stripe
  <2>4. Seen(q) => Seen(q)'
    BY <1>1, <1>3 DEF Seen, KeyOf, Key, stripe, ledger
  <2> QED
    BY <2>2, <2>3, <2>4
<1> QED
  BY <1>1, <1>2, <1>3

LEMMA WaitEndsKeeps ==
  ASSUME Invariant, WaitEnds
  PROVE  Invariant'
<1>1. UNCHANGED <<stripe, ledger, org, at>> /\ cooling' = FALSE
  BY DEF WaitEnds
<1>2. TypeInv /\ OnceEach /\ Claims /\ OneAtATime /\ Counted
  BY DEF Invariant
<1>3. /\ InvoicesTyped' /\ BooksTyped' /\ Numbered' /\ Unaccounted' = Unaccounted
      /\ OneUnaccounted => OneUnaccounted'
      /\ \A q \in Procs : AtWork(q)' /\ SeesVoid(q)' /\ (Seen(q) => Seen(q)')
  BY <1>1, <1>2, ElsewhereSame
<1>4. overlapped' = (overlapped \/ \E p \in Procs : Running(p))
  BY DEF WaitEnds
<1>5. TypeInv'
  <2>1. overlapped' \in BOOLEAN
    BY <1>4, Zenon
  <2> QED
    BY <1>1, <1>2, <1>3, <2>1 DEF TypeInv
<1>6. OnceEach' /\ Claims'
  BY <1>1, <1>2, <1>3 DEF OnceEach, Claims
<1>7. OneAtATime'
  <2> SUFFICES ASSUME ~overlapped' PROVE Alone' /\ OneUnaccounted' /\ \A p \in Procs : Seen(p)'
    BY DEF OneAtATime
  <2>1. ~overlapped /\ \A p \in Procs : ~Running(p)
    BY <1>4
  <2>2. Alone'
    BY <1>1, <2>1 DEF Alone, Running
  <2> QED
    BY <1>2, <1>3, <2>1, <2>2 DEF OneAtATime
<1>8. Counted'
  BY <1>1, <1>2 DEF Counted, Creators, stripe
<1> QED
  BY <1>5, <1>6, <1>7, <1>8 DEF Invariant

LEMMA BeginKeeps ==
  ASSUME Invariant, NEW p \in Procs, Begin(p)
  PROVE  Invariant'
<1> DEFINE named == [Idle EXCEPT !.pc = "claim"]
           stamped == [named EXCEPT !.stamp = org.stamp]
           r == [stamped EXCEPT !.card = org.card]
<1>1. UNCHANGED <<stripe, ledger, org, cooling, overlapped>> /\ ~cooling /\ org.stamp < MaxClaims
      /\ at[p].pc = "idle" /\ org.card \in Cards
  BY DEF Begin, MayTry, Invariant, TypeInv, OrgRow
<1>2. TypeInv /\ OnceEach /\ Claims /\ OneAtATime /\ Counted
  BY DEF Invariant
<1>3. /\ InvoicesTyped' /\ BooksTyped' /\ Numbered' /\ Unaccounted' = Unaccounted
      /\ OneUnaccounted => OneUnaccounted'
      /\ \A q \in Procs : at'[q] = at[q] =>
           AtWork(q)' /\ SeesVoid(q)' /\ (Seen(q) => Seen(q)')
  BY <1>1, <1>2, ElsewhereSame
<1>4. at' = [at EXCEPT ![p] = r] /\ at'[p] = r /\ \A q \in Procs \ {p} : at'[q] = at[q]
  BY <1>2 DEF Begin, TypeInv
<1>5. /\ r \in AtRow /\ r.pc = "claim" /\ r.stamp = org.stamp /\ r.card = org.card
      /\ r.inv = 0 /\ r.prior = {} /\ r.paid = {}
  <2>1. named \in AtRow /\ named.pc = "claim" /\ named.inv = 0 /\ named.prior = {} /\ named.paid = {}
    BY IdleRow DEF AtRow, Stages
  <2>2. org.stamp \in Nat
    BY <1>2, OrgFields DEF TypeInv
  <2>3. /\ stamped \in AtRow /\ stamped.pc = "claim" /\ stamped.stamp = org.stamp
        /\ stamped.inv = 0 /\ stamped.prior = {} /\ stamped.paid = {}
    <3> HIDE DEF named
    <3> QED
      BY <2>1, <2>2 DEF AtRow
  <2> HIDE DEF stamped
  <2> QED
    BY <1>1, <2>3 DEF AtRow
<1> HIDE DEF r
<1>6. TypeInv'
  <2>1. AtWork(p)'
    <3>1. Len(invoices') \in Nat
      BY <1>3 DEF InvoicesTyped
    <3> QED
      BY <1>1, <1>4, <1>5, <3>1 DEF AtWork, Early, Further
  <2>2. at' \in [Procs -> AtRow]
    BY <1>2, <1>4, <1>5 DEF TypeInv
  <2> QED
    BY <1>1, <1>2, <1>3, <1>4, <2>1, <2>2 DEF TypeInv
<1>7. SeesVoid(p)' /\ Seen(p)'
  BY <1>4, <1>5 DEF SeesVoid, WillCreate, Seen
<1>8. OnceEach'
  BY <1>3, <1>4, <1>7 DEF OnceEach
<1>9. Claims'
  BY <1>1, <1>2, <1>4, <1>5, OrgFields DEF Claims, TypeInv
<1>10. \A q \in Procs : Running(q)' => q # p /\ Running(q)
  BY <1>4, <1>5 DEF Running
<1>11. OneAtATime'
  <2> SUFFICES ASSUME ~overlapped' PROVE Alone' /\ OneUnaccounted' /\ \A q \in Procs : Seen(q)'
    BY DEF OneAtATime
  <2>1. Alone /\ OneUnaccounted /\ \A q \in Procs : Seen(q)
    BY <1>1, <1>2 DEF OneAtATime
  <2>2. Alone'
    BY <1>1, <1>10, <2>1 DEF Alone
  <2> QED
    BY <1>3, <1>4, <1>7, <2>1, <2>2
<1>12. Creators' = Creators
  BY <1>1, <1>4, <1>5 DEF Creators, Early
<1>13. Counted'
  BY <1>1, <1>2, <1>12 DEF Counted, stripe
<1> QED
  BY <1>6, <1>8, <1>9, <1>11, <1>13 DEF Invariant

(* Another attempt has claimed since: this one ends.                       *)
LEMMA ClaimLost ==
  ASSUME Invariant, NEW p \in Procs, Claim(p), org.stamp # at[p].stamp
  PROVE  Invariant'
<1>1. TypeInv /\ UNCHANGED <<stripe, ledger, org, cooling, overlapped>>
      /\ at' = [at EXCEPT ![p] = Idle]
  BY DEF Claim, Invariant
<1>2. KeepsInvoices /\ KeepsBooks /\ KeepsClock
  BY <1>1, SameInvoices, SameBooks, SameClock DEF stripe
<1>3. Attempts
  BY <1>1, <1>2, Ends
<1> QED
  BY <1>2, <1>3, Onward

(* The wait since the latest claim is over, and unless an attempt outlived *)
(* it no other attempt runs.                                               *)
LEMMA ClaimWon ==
  ASSUME Invariant, NEW p \in Procs, Claim(p), org.stamp = at[p].stamp
  PROVE  Invariant'
<1> DEFINE crossing == Cardinality(credited) + Len(manual)
           looking == [at[p] EXCEPT !.pc = "look"]
           unstamped == [looking EXCEPT !.stamp = 0]
           dated == [unstamped EXCEPT !.since = lastCredit]
           r == [dated EXCEPT !.crossing = crossing]
<1>1. UNCHANGED <<stripe, ledger, overlapped>> /\ cooling' = TRUE /\ at[p].pc = "claim"
      /\ org' = [org EXCEPT !.stamp = @ + 1]
  BY DEF Claim
<1>2. TypeInv /\ OnceEach /\ Claims /\ OneAtATime /\ Counted
  BY DEF Invariant
<1>3. /\ InvoicesTyped' /\ BooksTyped' /\ Numbered' /\ Unaccounted' = Unaccounted
      /\ OneUnaccounted => OneUnaccounted'
      /\ \A q \in Procs : at'[q] = at[q] =>
           AtWork(q)' /\ SeesVoid(q)' /\ (Seen(q) => Seen(q)')
  BY <1>1, <1>2, ElsewhereSame
<1>4. at' = [at EXCEPT ![p] = r] /\ at'[p] = r /\ \A q \in Procs \ {p} : at'[q] = at[q]
  BY <1>2 DEF Claim, TypeInv
<1>5. crossing \in Nat /\ lastCredit \in Nat /\ at[p].card \in Cards /\ AtWork(p)
  <2>1. IsFiniteSet(credited)
    <3>1. IsFiniteSet(Ids)
      BY <1>2, FS_Interval DEF TypeInv, InvoicesTyped
    <3>2. credited \subseteq Ids
      BY <1>2 DEF TypeInv, BooksTyped, Paid
    <3> QED
      BY <3>1, <3>2, FS_Subset
  <2>2. Cardinality(credited) \in Nat
    BY <2>1, FS_CardinalityType
  <2>3. Len(manual) \in Nat /\ lastCredit \in Nat
    BY <1>2, LenProperties DEF TypeInv, BooksTyped, InvoicesTyped
  <2>4. AtWork(p) /\ at[p].card \in Cards
    BY <1>1, <1>2 DEF TypeInv, AtWork
  <2> QED
    BY <2>2, <2>3, <2>4
<1>6. /\ r \in AtRow /\ r.pc = "look" /\ r.since = lastCredit /\ r.card = at[p].card
      /\ r.inv = at[p].inv /\ r.prior = at[p].prior /\ r.paid = at[p].paid
  <2> HIDE DEF crossing
  <2>1. /\ looking \in AtRow /\ looking.pc = "look" /\ looking.card = at[p].card
        /\ looking.inv = at[p].inv /\ looking.prior = at[p].prior /\ looking.paid = at[p].paid
    BY <1>2, AtFields DEF AtRow, Stages, Early
  <2>2. /\ unstamped \in AtRow /\ unstamped.pc = "look" /\ unstamped.card = at[p].card
        /\ unstamped.inv = at[p].inv /\ unstamped.prior = at[p].prior /\ unstamped.paid = at[p].paid
    <3> HIDE DEF looking
    <3> QED
      BY <2>1 DEF AtRow
  <2>3. /\ dated \in AtRow /\ dated.pc = "look" /\ dated.card = at[p].card /\ dated.since = lastCredit
        /\ dated.inv = at[p].inv /\ dated.prior = at[p].prior /\ dated.paid = at[p].paid
    <3> HIDE DEF unstamped
    <3> QED
      BY <1>5, <2>2 DEF AtRow
  <2> HIDE DEF dated
  <2> QED
    BY <1>5, <2>3 DEF AtRow
<1> HIDE DEF r
<1>7. /\ org' \in OrgRow /\ org'.stamp = org.stamp + 1
      /\ \A q \in Procs : at[q].pc = "claim" => at[q].stamp < org'.stamp /\ at[q].stamp < MaxClaims
      /\ org.stamp < MaxClaims /\ org.stamp \in Nat /\ ~cooling
  <2> DEFINE n == org.stamp + 1
  <2>1. org \in OrgRow /\ org.stamp \in Nat /\ org.stamp < MaxClaims /\ ~cooling
    BY <1>1, <1>2, OrgFields DEF TypeInv, Claims
  <2>2. n \in 0 .. MaxClaims
    BY <2>1, Base
  <2>3. org' = [org EXCEPT !.stamp = n]
    BY <1>1
  <2>4. org' \in OrgRow /\ org'.stamp = n
    <3> HIDE DEF n
    <3> QED
      BY <2>1, <2>2, <2>3 DEF OrgRow
  <2>5. \A q \in Procs : at[q].pc = "claim" =>
          at[q].stamp \in Nat /\ at[q].stamp <= org.stamp /\ at[q].stamp < MaxClaims
    BY <1>2, AtFields DEF Claims
  <2> QED
    BY <2>1, <2>4, <2>5
<1>8. TypeInv'
  <2>1. AtWork(p)'
    BY <1>1, <1>4, <1>5, <1>6 DEF AtWork, Early, Further, stripe, Ids
  <2>2. at' \in [Procs -> AtRow]
    BY <1>2, <1>4, <1>6 DEF TypeInv
  <2> QED
    BY <1>1, <1>2, <1>3, <1>4, <1>7, <2>1, <2>2 DEF TypeInv
<1>9. SeesVoid(p)' /\ Seen(p)'
  <2>1. lastCredit' = lastCredit
    BY <1>1 DEF ledger
  <2> QED
    BY <1>4, <1>5, <1>6, <2>1 DEF SeesVoid, WillCreate, Seen
<1>10. OnceEach'
  BY <1>3, <1>4, <1>9 DEF OnceEach
<1>11. Claims'
  <2>1. \A q \in Procs : at'[q].pc = "claim" => at[q].pc = "claim" /\ at'[q] = at[q]
    BY <1>4, <1>6
  <2>2. \A q \in Procs : at[q].pc = "claim" =>
          /\ at[q].stamp <= org'.stamp /\ at[q].stamp < MaxClaims
          /\ at[q].stamp # org'.stamp
    BY <1>2, <1>7, AtFields
  <2> QED
    BY <2>1, <2>2 DEF Claims
<1>12. OneAtATime'
  <2> SUFFICES ASSUME ~overlapped' PROVE Alone' /\ OneUnaccounted' /\ \A q \in Procs : Seen(q)'
    BY DEF OneAtATime
  <2>1. Alone /\ OneUnaccounted /\ \A q \in Procs : Seen(q)
    BY <1>1, <1>2 DEF OneAtATime
  <2>2. \A q \in Procs : ~Running(q)
    BY <1>7, <2>1 DEF Alone
  <2>3. Alone'
    BY <1>1, <1>4, <2>2 DEF Alone, Running
  <2> QED
    BY <1>3, <1>4, <1>9, <2>1, <2>3
<1>13. Counted'
  <2>1. Creators' = Creators \cup {p} /\ p \notin Creators
    BY <1>1, <1>4, <1>6 DEF Creators, Early
  <2>2. IsFiniteSet(Creators') /\ Cardinality(Creators') = Cardinality(Creators) + 1
    BY <1>2, <2>1, FS_AddElement DEF Counted
  <2>3. Cardinality(Creators) \in Nat /\ Len(invoices) \in Nat /\ Len(invoices') = Len(invoices)
    BY <1>1, <1>2, FS_CardinalityType DEF Counted, TypeInv, InvoicesTyped, stripe
  <2> QED
    BY <1>2, <1>7, <2>2, <2>3 DEF Counted
<1> QED
  BY <1>8, <1>10, <1>11, <1>12, <1>13 DEF Invariant

-----------------------------------------------------------------------------
(* The attempt's own invoice                                               *)

(* The invoices of one key, n of them, are the generations 0 .. n-1.       *)
LEMMA Generations ==
  ASSUME InvoicesTyped, Numbered, NEW k,
         NEW g \in Nat, g < Cardinality({i \in Ids : Key(i) = k})
  PROVE  \E j \in Ids : Key(j) = k /\ invoices[j].gen = g
<1> DEFINE mine == {i \in Ids : Key(i) = k}
           f == [i \in mine |-> invoices[i].gen]
<1> SUFFICES ASSUME \A j \in mine : invoices[j].gen # g PROVE FALSE
  OBVIOUS
<1>1. ASSUME NEW i \in mine PROVE invoices[i].gen \in 0 .. (g - 1)
  <2>1. invoices[i].gen \in Nat
    BY <1>1, InvoiceFields
  <2>2. ASSUME g < invoices[i].gen PROVE FALSE
    <3>1. PICK j \in Ids : SameKey(i, j) /\ invoices[j].gen = g
      BY <1>1, <2>2 DEF Numbered
    <3>2. j \in mine
      BY <1>1, <3>1 DEF SameKey
    <3> QED
      BY <3>1, <3>2
  <2> QED
    BY <1>1, <2>1, <2>2
<1>2. \A i, j \in mine : invoices[i].gen = invoices[j].gen => i = j
  BY DEF Numbered, SameKey
<1>3. f \in [mine -> 0 .. (g - 1)] /\ \A i, j \in mine : f[i] = f[j] => i = j
  BY <1>1, <1>2
<1>4. f \in Injection(mine, 0 .. (g - 1))
  BY <1>3 DEF Injection, IsInjective
<1>5. IsFiniteSet(0 .. (g - 1)) /\ Cardinality(0 .. (g - 1)) = g
  <2>1. IsFiniteSet(0 .. (g - 1))
        /\ Cardinality(0 .. (g - 1)) = IF 0 > g - 1 THEN 0 ELSE (g - 1) - 0 + 1
    BY FS_Interval
  <2> QED
    BY <2>1
<1>6. Cardinality(mine) <= g /\ IsFiniteSet(mine)
  <2> HIDE DEF f, mine
  <2> QED
    BY <1>4, <1>5, FS_Injection
<1>7. Cardinality(mine) \in Nat
  BY <1>6, FS_CardinalityType
<1> QED
  BY <1>6, <1>7

LEMMA LookKeeps ==
  ASSUME Invariant, NEW p \in Procs, Look(p)
  PROVE  Invariant'
<1> DEFINE k == KeyOf(p)
           mine == {i \in Ids : Key(i) = k}
           active == {i \in mine : invoices[i].status # "void"}
           found == IF active = {} THEN 0 ELSE CHOOSE i \in active : TRUE
           prior == {i \in Ids \ mine : invoices[i].status \in {"draft", "open"}}
           paid == {i \in Paid \ mine : i > at[p].since}
           gen == Cardinality(mine \ active)
           next == IF found = 0 THEN "create"
                   ELSE CASE invoices[found].status = "draft" -> "finalize"
                          [] invoices[found].status = "open" -> "retrieve"
                          [] invoices[found].status = "paid" -> "settle"
           r1 == [at[p] EXCEPT !.pc = "priors"]
           r2 == [r1 EXCEPT !.since = 0]
           r3 == [r2 EXCEPT !.prior = prior]
           r4 == [r3 EXCEPT !.paid = paid]
           r5 == [r4 EXCEPT !.inv = found]
           r6 == [r5 EXCEPT !.gen = gen]
           r == [r6 EXCEPT !.next = next]
<1>1. TypeInv /\ OnceEach /\ InvoicesTyped /\ Numbered /\ at[p].pc = "look"
  BY DEF Look, Invariant, OnceEach, TypeInv
<1>2. UNCHANGED <<stripe, ledger, org, cooling, overlapped>>
  BY DEF Look
<1>3. at' = [at EXCEPT ![p] = r] /\ at'[p] = r
  <2>1. at' = [at EXCEPT ![p].pc = "priors", ![p].since = 0, ![p].prior = prior, ![p].paid = paid,
                         ![p].inv = found, ![p].gen = gen, ![p].next = next]
    BY DEF Look, KeyOf
  <2> HIDE DEF prior, paid, found, gen, next
  <2> QED
    BY <1>1, <2>1 DEF TypeInv
<1>4. KeepsInvoices /\ KeepsBooks /\ KeepsClock
  BY <1>1, <1>2, SameInvoices, SameBooks, SameClock DEF stripe
<1>5. mine \subseteq Ids /\ active \subseteq mine /\ Ids \subseteq Nat \ {0} /\ Ids = 1 .. Len(invoices)
      /\ Len(invoices) \in Nat
  BY <1>1 DEF InvoicesTyped
<1>6. found \in 0 .. Len(invoices) /\ (found = 0 <=> active = {}) /\ (found # 0 => found \in active)
  BY <1>5
<1>7. /\ next \in Chosen /\ (next = "create" => active = {}) /\ (next # "create" => found \in Ids)
      /\ next = "settle" => found \in Paid
  <2>1. CASE found = 0
    BY <1>6, <2>1 DEF Chosen
  <2>2. CASE found # 0
    <3>1. found \in Ids /\ invoices[found].status \in {"draft", "open", "paid"}
      <4>1. found \in Ids /\ invoices[found].status # "void"
        BY <1>5, <1>6, <2>2
      <4>2. invoices[found].status \in Statuses
        BY <1>1, <4>1, InvoiceFields
      <4> QED
        BY <4>1, <4>2 DEF Statuses
    <3> HIDE DEF found
    <3> QED
      BY <2>2, <3>1 DEF Chosen, Paid
  <2> QED
    BY <2>1, <2>2
<1>8. gen \in Nat /\ prior \subseteq Ids /\ paid \subseteq Ids
  <2>1. IsFiniteSet(Ids)
    <3>1. IsFiniteSet(1 .. Len(invoices))
      BY <1>1, FS_Interval DEF InvoicesTyped
    <3> QED
      BY <1>5, <3>1
  <2>2. mine \ active \subseteq Ids
    BY <1>5
  <2>3. IsFiniteSet(mine \ active)
    <3> HIDE DEF mine, active
    <3> QED
      BY <2>1, <2>2, FS_Subset
  <2>4. gen \in Nat
    BY <2>3, FS_CardinalityType
  <2> QED
    BY <2>4 DEF Paid
<1> HIDE DEF found, prior, paid, gen, next, mine, active, k
<1>9. /\ r \in AtRow /\ r.pc = "priors" /\ r.card = at[p].card /\ r.crossing = at[p].crossing
      /\ r.prior = prior /\ r.paid = paid /\ r.inv = found /\ r.gen = gen /\ r.next = next
  <2>0. prior \in SUBSET Nat /\ paid \in SUBSET Nat /\ found \in Nat /\ gen \in Nat /\ next \in Nexts
    <3>1. next \in Nexts
      BY <1>7, Zenon DEF Nexts
    <3> QED
      BY <1>5, <1>6, <1>8, <3>1
  <2>1. r1 \in AtRow /\ r1.pc = "priors" /\ r1.card = at[p].card /\ r1.crossing = at[p].crossing
    BY <1>1, AtFields DEF AtRow, Stages, Early
  <2>2. r2 \in AtRow /\ r2.pc = "priors" /\ r2.card = at[p].card /\ r2.crossing = at[p].crossing
    <3> HIDE DEF r1
    <3> QED
      BY <2>1 DEF AtRow
  <2>3. r3 \in AtRow /\ r3.pc = "priors" /\ r3.card = at[p].card /\ r3.crossing = at[p].crossing
        /\ r3.prior = prior
    <3> HIDE DEF r2
    <3> QED
      BY <2>0, <2>2 DEF AtRow
  <2>4. r4 \in AtRow /\ r4.pc = "priors" /\ r4.card = at[p].card /\ r4.crossing = at[p].crossing
        /\ r4.prior = prior /\ r4.paid = paid
    <3> HIDE DEF r3
    <3> QED
      BY <2>0, <2>3 DEF AtRow
  <2>5. r5 \in AtRow /\ r5.pc = "priors" /\ r5.card = at[p].card /\ r5.crossing = at[p].crossing
        /\ r5.prior = prior /\ r5.paid = paid /\ r5.inv = found
    <3> HIDE DEF r4
    <3> QED
      BY <2>0, <2>4 DEF AtRow
  <2>6. r6 \in AtRow /\ r6.pc = "priors" /\ r6.card = at[p].card /\ r6.crossing = at[p].crossing
        /\ r6.prior = prior /\ r6.paid = paid /\ r6.inv = found /\ r6.gen = gen
    <3> HIDE DEF r5
    <3> QED
      BY <2>0, <2>5 DEF AtRow
  <2> HIDE DEF r6
  <2> QED
    BY <2>0, <2>6 DEF AtRow
<1> HIDE DEF r
<1>10. KeyOf(p)' = k
  BY <1>3, <1>9 DEF KeyOf, k
<1>11. Ids' = Ids /\ Paid' = Paid /\ Unaccounted' = Unaccounted /\ lastCredit' = lastCredit
       /\ invoices' = invoices
  BY <1>2 DEF stripe, ledger, Ids, Paid, Unaccounted
<1>12. AtWork(p)'
  <2>1. at[p].card \in Cards
    BY <1>1 DEF TypeInv, AtWork, Early
  <2> QED
    BY <1>3, <1>6, <1>7, <1>8, <1>9, <1>11, <2>1 DEF AtWork, Early, Further
<1>13. SeesVoid(p)'
  <2> SUFFICES ASSUME WillCreate(p)', NEW g \in Nat, g < gen
               PROVE  \E j \in Ids : Key(j) = k /\ invoices[j].gen = g /\ invoices[j].status = "void"
    BY <1>3, <1>9, <1>10, <1>11 DEF SeesVoid, Key
  <2>1. active = {}
    BY <1>3, <1>7, <1>9 DEF WillCreate
  <2>2. g < Cardinality({i \in Ids : Key(i) = k})
    BY <2>1 DEF gen, mine
  <2>3. PICK j \in Ids : Key(j) = k /\ invoices[j].gen = g
    BY <1>1, <2>2, Generations
  <2>4. invoices[j].status = "void"
    BY <2>1, <2>3 DEF active, mine
  <2> QED
    BY <2>3, <2>4
<1>14. ASSUME OneUnaccounted, Seen(p) PROVE Seen(p)'
  <2>1. ASSUME NEW u \in Unaccounted PROVE Key(u) = k \/ u \in prior \cup paid
    <3>1. /\ u \in Ids /\ invoices[u].status \in {"draft", "open", "paid"} /\ lastCredit < u
          /\ at[p].since <= lastCredit
      BY <1>1, <1>14, <2>1 DEF Unaccounted, OneUnaccounted, Seen
    <3>2. lastCredit \in Nat /\ at[p].since \in Nat /\ u \in Nat
      BY <1>1, <1>5, <3>1, AtFields DEF TypeInv, BooksTyped
    <3> QED
      BY <3>1, <3>2 DEF mine, prior, paid, Paid
  <2> QED
    BY <1>3, <1>9, <1>10, <1>11, <2>1 DEF Seen, Key
<1>15. Moved(p)
  BY <1>1, <1>3, <1>9, <1>12, <1>13, <1>14 DEF Moved, Early, Running
<1>16. Attempts
  BY <1>1, <1>3, <1>15, OneMoves
<1> QED
  BY <1>4, <1>16, Onward

LEMMA StillSees ==
  ASSUME TypeInv, OnceEach, KeepsInvoices, NEW p \in Procs,
         WillCreate(p)' => WillCreate(p), at'[p].gen = at[p].gen, KeyOf(p)' = KeyOf(p)
  PROVE  SeesVoid(p)'
<1>1. InvoicesTyped /\ SeesVoid(p)
  BY DEF TypeInv, OnceEach
<1>2. /\ Ids' = Ids /\ \A i \in Ids : Key(i)' = Key(i)
      /\ \A i \in Ids : invoices'[i].gen = invoices[i].gen
      /\ \A i \in Ids : invoices[i].status = "void" => invoices'[i].status = "void"
  BY <1>1, Kept DEF KeepsInvoices
<1> QED
  BY <1>1, <1>2 DEF SeesVoid

StruckOff(p, i, paid) == [at EXCEPT ![p] = [at[p] EXCEPT !.prior = @ \ {i}, !.paid = paid]]
Unresolved(p) == [at EXCEPT ![p] = [Idle EXCEPT !.pc = "fail", !.why = "stripe_unconfirmed"]]

(* An invoice is struck off the list of those to check: it is paid and     *)
(* noted so, or it is void.                                                *)
LEMMA PriorSettled ==
  ASSUME TypeInv, OnceEach, KeepsInvoices, UNCHANGED <<credited, lastCredit>>,
         NEW p \in Procs, at[p].pc = "priors",
         NEW i \in Ids, NEW paid \in SUBSET Ids, at[p].paid \subseteq paid,
         i \in Unaccounted' => i \in paid,
         at' = StruckOff(p, i, paid)
  PROVE  Attempts
<1> DEFINE prior == at[p].prior \ {i}
           s == [at[p] EXCEPT !.prior = prior]
           r == [s EXCEPT !.paid = paid]
<1>1. at' = [at EXCEPT ![p] = r] /\ at'[p] = r
  BY DEF TypeInv, StruckOff
<1>2. AtWork(p) /\ at[p] \in AtRow /\ InvoicesTyped
  BY AtFields DEF TypeInv
<1>3. prior \subseteq Ids /\ Ids \subseteq Nat
  BY <1>2 DEF AtWork, InvoicesTyped
<1>4. /\ r \in AtRow /\ r.pc = "priors" /\ r.card = at[p].card /\ r.crossing = at[p].crossing
      /\ r.prior = prior /\ r.paid = paid /\ r.inv = at[p].inv /\ r.gen = at[p].gen /\ r.next = at[p].next
  <2>0. prior \in SUBSET Nat /\ paid \in SUBSET Nat
    BY <1>3
  <2> HIDE DEF prior
  <2>1. /\ s \in AtRow /\ s.pc = "priors" /\ s.card = at[p].card /\ s.crossing = at[p].crossing
        /\ s.prior = prior /\ s.inv = at[p].inv /\ s.gen = at[p].gen /\ s.next = at[p].next
    BY <1>2, <2>0 DEF AtRow
  <2> HIDE DEF s
  <2> QED
    BY <2>0, <2>1 DEF AtRow
<1> HIDE DEF r
<1>5. KeyOf(p)' = KeyOf(p)
  BY <1>1, <1>4 DEF KeyOf
<1>6. /\ Ids' = Ids /\ Paid \subseteq Paid' /\ Len(invoices') = Len(invoices)
      /\ \A j \in Ids : Key(j)' = Key(j)
  BY <1>2, Kept DEF KeepsInvoices
<1>7. AtWork(p)'
  BY <1>1, <1>2, <1>3, <1>4, <1>6 DEF AtWork, Early, Further
<1>8. SeesVoid(p)'
  <2>1. WillCreate(p)' => WillCreate(p)
    BY <1>1, <1>4 DEF WillCreate
  <2> QED
    BY <1>1, <1>4, <1>5, <2>1, StillSees
<1>9. ASSUME Seen(p) PROVE Seen(p)'
  <2>1. Unaccounted' \subseteq Unaccounted /\ Unaccounted \subseteq Ids
    <3>1. KeepsInvoices /\ credited' = credited
      OBVIOUS
    <3>2. ASSUME NEW u \in Ids, invoices'[u].status \in {"draft", "open", "paid"}
          PROVE  invoices[u].status \in {"draft", "open", "paid"}
      <4>1. invoices[u].status \in Statuses /\ invoices[u].status # "void"
        BY <1>2, <3>2, InvoiceFields DEF KeepsInvoices
      <4> QED
        BY <4>1 DEF Statuses
    <3> QED
      BY <1>6, <3>1, <3>2 DEF Unaccounted
  <2>2. ASSUME NEW u \in Unaccounted' PROVE Key(u)' = KeyOf(p) \/ u \in prior \cup paid
    <3>1. Key(u)' = Key(u) /\ u \in Unaccounted
      BY <1>6, <2>1, <2>2
    <3>2. Key(u) = KeyOf(p) \/ u \in at[p].prior \cup at[p].paid
      BY <1>9, <3>1 DEF Seen
    <3>3. CASE u = i
      BY <2>2, <3>3
    <3>4. CASE u # i
      BY <3>1, <3>2, <3>4
    <3> QED
      BY <3>3, <3>4
  <2> QED
    BY <1>1, <1>4, <1>5, <2>2 DEF Seen
<1>10. Moved(p)
  BY <1>1, <1>4, <1>7, <1>8, <1>9 DEF Moved, Early, Running
<1> QED
  BY <1>1, <1>10, OneMoves

LEMMA PriorFailed ==
  ASSUME TypeInv, KeepsInvoices, NEW p \in Procs, at[p].pc = "priors",
         at' = Unresolved(p)
  PROVE  Attempts
<1> DEFINE s == [Idle EXCEPT !.pc = "fail"]
           r == [s EXCEPT !.why = "stripe_unconfirmed"]
<1>0. at' = [at EXCEPT ![p] = r]
  BY DEF Unresolved
<1>1. at'[p] = r
  BY <1>0 DEF TypeInv
<1>2. s \in AtRow /\ s.pc = "fail" /\ s.inv = 0 /\ s.prior = {} /\ s.paid = {}
  BY IdleRow DEF AtRow, Stages
<1>3. r \in AtRow /\ r.pc = "fail" /\ r.inv = 0 /\ r.prior = {} /\ r.paid = {}
  <2>1. "stripe_unconfirmed" \in Whys
    BY DEF Whys
  <2> HIDE DEF s
  <2> QED
    BY <1>2, <2>1 DEF AtRow
<1> HIDE DEF r
<1>4. AtWork(p)'
  <2>1. Len(invoices') \in Nat
    BY DEF KeepsInvoices, InvoicesTyped
  <2> QED
    BY <1>1, <1>3, <2>1 DEF AtWork, Early, Further
<1>5. SeesVoid(p)' /\ Seen(p)'
  BY <1>1, <1>3 DEF SeesVoid, WillCreate, Seen
<1>6. Moved(p)
  BY <1>1, <1>3, <1>4, <1>5 DEF Moved, Early, Running
<1> QED
  BY <1>0, <1>6, OneMoves

LEMMA CheckPriorKeeps ==
  ASSUME Invariant, NEW p \in Procs, NEW i \in at[p].prior, CheckPrior(p, i)
  PROVE  Invariant'
<1> DEFINE row == [at[p] EXCEPT !.prior = @ \ {i}]
           settled == [at EXCEPT ![p] = row]
           noted == [at EXCEPT ![p] = [row EXCEPT !.paid = @ \cup {i}]]
           failed == Unresolved(p)
<1>1. TypeInv /\ OnceEach /\ InvoicesTyped /\ at[p].pc = "priors" /\ AtWork(p)
  BY DEF CheckPrior, Invariant, TypeInv
<1>2. UNCHANGED <<org, cooling, late, failedEvents, ledger, overlapped>>
  BY DEF CheckPrior
<1>3. i \in Ids /\ at[p].paid \in SUBSET Ids /\ at[p].paid \cup {i} \in SUBSET Ids
  BY <1>1 DEF AtWork
<1>4. \/ invoices[i].status = "paid" /\ at' = noted /\ UNCHANGED invoices
      \/ invoices[i].status = "void" /\ at' = settled /\ UNCHANGED invoices
      \/ invoices[i].status = "open" /\ SafeToVoid(p, i) /\ invoices' = Voided(i) /\ at' \in {settled, failed}
      \/ at' = failed /\ UNCHANGED invoices
  BY DEF CheckPrior, Unresolved
<1>5. KeepsInvoices
  BY <1>1, <1>3, <1>4, VoidedKeeps
<1>6. UNCHANGED <<credited, lastCredit>>
  BY <1>2 DEF ledger
<1>7. settled = StruckOff(p, i, at[p].paid)
  <2>1. row = [row EXCEPT !.paid = at[p].paid]
    BY <1>1, AtFields DEF AtRow
  <2> QED
    BY <2>1 DEF StruckOff
<1>8. noted = StruckOff(p, i, at[p].paid \cup {i})
  <2>1. row.paid = at[p].paid
    BY <1>1, AtFields DEF AtRow
  <2> QED
    BY <2>1 DEF StruckOff
<1> HIDE DEF settled, noted
<1>9. ASSUME invoices[i].status = "paid" /\ at' = noted /\ UNCHANGED invoices PROVE Attempts
  BY <1>1, <1>3, <1>5, <1>6, <1>8, <1>9, PriorSettled
<1>10. ASSUME invoices[i].status = "void" /\ at' = settled /\ UNCHANGED invoices PROVE Attempts
  <2>1. i \notin Unaccounted'
    BY <1>10 DEF Unaccounted
  <2> QED
    BY <1>1, <1>3, <1>5, <1>6, <1>7, <1>10, <2>1, PriorSettled
<1>11. ASSUME invoices[i].status = "open", SafeToVoid(p, i), invoices' = Voided(i), at' = settled
       PROVE  Attempts
  <2>1. Voidable(i)
    BY <1>11 DEF Voidable, SafeToVoid, Unpaid
  <2>2. invoices'[i].status = "void"
    <3>1. invoices[i] \in InvoiceRow
      BY <1>1, <1>3 DEF InvoicesTyped
    <3>2. invoices'[i] = [invoices[i] EXCEPT !.status = "void", !.pi = "canceled"]
      BY <1>1, <1>3, <1>11, <2>1 DEF Voided, InvoicesTyped
    <3> QED
      BY <3>1, <3>2 DEF InvoiceRow
  <2>3. i \notin Unaccounted'
    BY <2>2 DEF Unaccounted
  <2> QED
    BY <1>1, <1>3, <1>5, <1>6, <1>7, <1>11, <2>3, PriorSettled
<1>12. ASSUME at' = failed PROVE Attempts
  BY <1>1, <1>5, <1>12, PriorFailed
<1> HIDE DEF failed
<1>13. Attempts
  BY <1>4, <1>9, <1>10, <1>11, <1>12
<1>14. KeepsBooks /\ KeepsClock
  BY <1>1, <1>2, SameBooks, SameClock
<1> QED
  BY <1>5, <1>13, <1>14, Onward

LEMMA CheckPaidKeeps ==
  ASSUME Invariant, NEW p \in Procs, CheckPaid(p)
  PROVE  Invariant'
<1>1. TypeInv /\ OnceEach /\ InvoicesTyped /\ at[p].pc = "priors" /\ at[p].prior = {} /\ AtWork(p)
  BY DEF CheckPaid, Invariant, TypeInv
<1>2. UNCHANGED <<org, cooling, stripe, ledger, overlapped>>
  BY DEF CheckPaid
<1>3. KeepsInvoices /\ KeepsBooks /\ KeepsClock
  BY <1>1, <1>2, SameInvoices, SameBooks, SameClock DEF stripe
<1>4. CASE ~AllCredited(p)
  <2>1. Fail(p, "fail", "stripe_unconfirmed") /\ Running(p)
    BY <1>1, <1>4 DEF CheckPaid, Running
  <2>2. "stripe_unconfirmed" \in Whys
    BY DEF Whys
  <2> QED
    BY <1>1, <1>3, <2>1, <2>2, Fails, Onward
<1>5. CASE AllCredited(p)
  <2> DEFINE none == ""
             s == [at[p] EXCEPT !.pc = at[p].next]
             t == [s EXCEPT !.paid = {}]
             r == [t EXCEPT !.next = none]
  <2>1. at' = [at EXCEPT ![p] = r] /\ at'[p] = r
    BY <1>1, <1>5 DEF CheckPaid, TypeInv
  <2>2. at[p].next \in Chosen /\ none \in Nexts /\ Chosen \subseteq Stages
    BY <1>1 DEF AtWork, Nexts, Chosen, Stages, Further, Early
  <2> HIDE DEF none
  <2>3. /\ r \in AtRow /\ r.pc = at[p].next /\ r.card = at[p].card /\ r.crossing = at[p].crossing
        /\ r.prior = {} /\ r.paid = {} /\ r.inv = at[p].inv /\ r.gen = at[p].gen
    <3>1. /\ s \in AtRow /\ s.pc = at[p].next /\ s.card = at[p].card /\ s.crossing = at[p].crossing
          /\ s.prior = {} /\ s.inv = at[p].inv /\ s.gen = at[p].gen
      BY <1>1, <2>2, AtFields DEF AtRow
    <3>2. /\ t \in AtRow /\ t.pc = at[p].next /\ t.card = at[p].card /\ t.crossing = at[p].crossing
          /\ t.prior = {} /\ t.inv = at[p].inv /\ t.gen = at[p].gen /\ t.paid = {}
      <4> HIDE DEF s
      <4> QED
        BY <3>1 DEF AtRow
    <3> HIDE DEF t
    <3> QED
      BY <2>2, <3>2 DEF AtRow
  <2> HIDE DEF r
  <2>4. Ids' = Ids /\ Paid' = Paid /\ Unaccounted' = Unaccounted /\ invoices' = invoices
    BY <1>2 DEF stripe, ledger, Ids, Paid, Unaccounted
  <2>5. AtWork(p)'
    <3>1. at[p].card \in Cards /\ at[p].inv \in 0 .. Len(invoices)
          /\ (at[p].next # "create" => at[p].inv \in Ids) /\ (at[p].next = "settle" => at[p].inv \in Paid)
      BY <1>1 DEF AtWork, Early
    <3>2. at[p].next \in Further => at[p].next # "create"
      BY DEF Further
    <3>3. at[p].next # "priors"
      BY <2>2 DEF Chosen
    <3> QED
      BY <2>1, <2>3, <2>4, <3>1, <3>2, <3>3 DEF AtWork
  <2>6. KeyOf(p)' = KeyOf(p)
    BY <2>1, <2>3 DEF KeyOf
  <2>7. SeesVoid(p)'
    <3>1. WillCreate(p)' => WillCreate(p)
      BY <1>1, <2>1, <2>2, <2>3 DEF WillCreate, Chosen
    <3> QED
      BY <1>1, <1>3, <2>1, <2>3, <2>6, <3>1, StillSees
  <2>8. ASSUME Seen(p) PROVE Seen(p)'
    <3>1. \A u \in Unaccounted : Key(u) = KeyOf(p)
      <4>1. at[p].paid \subseteq credited
        BY <1>5 DEF AllCredited
      <4>2. \A u \in Unaccounted : u \notin credited
        BY DEF Unaccounted
      <4> QED
        BY <1>1, <2>8, <4>1, <4>2 DEF Seen
    <3>2. at[p].next \notin {"look", "priors"}
      BY <2>2 DEF Chosen
    <3> QED
      BY <2>1, <2>3, <2>4, <2>6, <3>1, <3>2 DEF Seen, Key
  <2>9. at[p].next \notin {"claim", "idle"}
    BY <2>2 DEF Chosen
  <2>10. Moved(p)
    BY <1>1, <2>1, <2>3, <2>5, <2>7, <2>8, <2>9 DEF Moved, Early, Running
  <2> QED
    BY <1>1, <1>3, <2>1, <2>10, OneMoves, Onward
<1> QED
  BY <1>4, <1>5

-----------------------------------------------------------------------------
(* The request was answered before: the attempt finds the same invoice.    *)
LEMMA CreateAgain ==
  ASSUME Invariant, NEW p \in Procs, Create(p), SameRequest(p) # {}
  PROVE  Invariant'
<1> DEFINE j == CHOOSE i \in SameRequest(p) : TRUE
           s == [at[p] EXCEPT !.pc = "finalize"]
           r == [s EXCEPT !.inv = j]
<1>1. TypeInv /\ InvoicesTyped /\ at[p].pc = "create" /\ AtWork(p)
  BY DEF Create, Invariant, TypeInv
<1>2. UNCHANGED <<invoices, org, cooling, late, failedEvents, ledger, overlapped>>
  BY DEF Create
<1>3. KeepsInvoices /\ KeepsBooks /\ KeepsClock
  BY <1>1, <1>2, SameInvoices, SameBooks, SameClock
<1>4. at' = [at EXCEPT ![p] = r] /\ at'[p] = r
  BY <1>1 DEF Create, TypeInv
<1>5. j \in Ids
  BY DEF SameRequest
<1> HIDE DEF j
<1>6. r \in AtRow /\ r.pc = "finalize" /\ r.inv = j /\ r.prior = at[p].prior /\ r.paid = at[p].paid
  <2>1. s \in AtRow /\ s.pc = "finalize" /\ s.prior = at[p].prior /\ s.paid = at[p].paid
    BY <1>1, AtFields DEF AtRow, Stages, Further
  <2>2. j \in Nat
    BY <1>1, <1>5, InvoiceFields
  <2> HIDE DEF s
  <2> QED
    BY <2>1, <2>2 DEF AtRow
<1> HIDE DEF r
<1>7. AtWork(p)'
  <2>1. Ids' = Ids /\ invoices' = invoices /\ j \in 0 .. Len(invoices)
    BY <1>1, <1>2, <1>5 DEF Ids, InvoicesTyped
  <2> QED
    BY <1>1, <1>4, <1>5, <1>6, <2>1 DEF AtWork, Early
<1>8. SeesVoid(p)' /\ Seen(p)'
  BY <1>4, <1>6 DEF SeesVoid, WillCreate, Seen
<1>9. Moved(p)
  BY <1>1, <1>4, <1>6, <1>7, <1>8 DEF Moved, Early, Running
<1> QED
  BY <1>1, <1>3, <1>4, <1>9, OneMoves, Onward

(* A new invoice: those of its key are void, and are the generations below *)
(* its own.                                                                *)
LEMMA CreateNew ==
  ASSUME Invariant, NEW p \in Procs, Create(p), SameRequest(p) = {}
  PROVE  Invariant'
<1>0. PICK n \in Nat : n = Len(invoices) + 1
  BY LenProperties DEF Invariant, TypeInv, InvoicesTyped
<1> DEFINE new == [crossing |-> at[p].crossing, card |-> at[p].card, gen |-> at[p].gen,
                   status |-> "draft", pi |-> "none"]
           s == [at[p] EXCEPT !.pc = "finalize"]
           r == [s EXCEPT !.inv = n]
<1>1. TypeInv /\ OnceEach /\ Claims /\ OneAtATime /\ Counted /\ at[p].pc = "create"
  BY DEF Create, Invariant
<1>2. InvoicesTyped /\ BooksTyped /\ Numbered /\ SeesVoid(p) /\ AtWork(p)
  BY <1>1 DEF TypeInv, OnceEach
<1>3. UNCHANGED <<org, cooling, late, failedEvents, ledger, overlapped>> /\ invoices' = Append(invoices, new)
  BY DEF Create
<1>4. at' = [at EXCEPT ![p] = r] /\ at'[p] = r /\ \A q \in Procs \ {p} : at'[q] = at[q]
  BY <1>0, <1>1 DEF Create, TypeInv
<1>5. /\ Ids = 1 .. Len(invoices) /\ Len(invoices) \in Nat /\ invoices \in Seq(InvoiceRow)
      /\ \A i \in Ids : invoices[i].pi = "succeeded" => invoices[i].status = "paid"
  BY <1>2 DEF InvoicesTyped
<1>6. new \in InvoiceRow
  <2>1. at[p].crossing \in Nat /\ at[p].gen \in Nat /\ at[p].card \in Cards
    BY <1>1, <1>2, AtFields DEF AtWork, Early
  <2> QED
    BY <2>1 DEF InvoiceRow, Statuses, PiStates
<1>7. /\ new.crossing = at[p].crossing /\ new.card = at[p].card /\ new.gen = at[p].gen
      /\ new.status = "draft" /\ new.pi = "none"
  OBVIOUS
<1> HIDE DEF new
<1>8. /\ invoices' \in Seq(InvoiceRow) /\ Len(invoices') = n /\ invoices'[n] = new
      /\ \A i \in Ids : invoices'[i] = invoices[i]
  BY <1>0, <1>3, <1>5, <1>6, AppendProperties
<1>9. Ids' = 1 .. n /\ Ids' = Ids \cup {n} /\ n \notin Ids /\ n \in Nat
  <2>1. DOMAIN invoices' = 1 .. n
    BY <1>8, LenProperties
  <2> QED
    BY <1>0, <1>5, <2>1 DEF Ids
<1>10. InvoicesTyped'
  <2>1. invoices' \in [Ids' -> InvoiceRow]
    BY <1>8, <1>9, LenProperties
  <2>2. \A i \in Ids' : invoices'[i].pi = "succeeded" => invoices'[i].status = "paid"
    BY <1>5, <1>7, <1>8, <1>9
  <2> QED
    BY <1>8, <1>9, <2>1, <2>2 DEF InvoicesTyped
<1>11. Paid' = Paid /\ \A i \in Ids : Key(i)' = Key(i)
  BY <1>7, <1>8, <1>9 DEF Paid, Key
<1>12. Key(n)' = KeyOf(p)
  BY <1>7, <1>8 DEF Key, KeyOf
<1>13. BooksTyped'
  <2>1. lastCredit \in 0 .. Len(invoices')
    BY <1>0, <1>2, <1>5, <1>8 DEF BooksTyped
  <2> QED
    BY <1>2, <1>3, <1>9, <1>11, <2>1 DEF BooksTyped, ledger
<1>14. /\ r \in AtRow /\ r.pc = "finalize" /\ r.inv = n /\ r.prior = at[p].prior /\ r.paid = at[p].paid
  <2>1. s \in AtRow /\ s.pc = "finalize" /\ s.prior = at[p].prior /\ s.paid = at[p].paid
    BY <1>1, AtFields DEF AtRow, Stages, Further
  <2> HIDE DEF s
  <2> QED
    BY <1>9, <2>1 DEF AtRow
<1> HIDE DEF r
<1>15. ASSUME NEW q \in Procs PROVE AtWork(q)' /\ at'[q] \in AtRow
  <2>1. CASE q = p
    <3>1. AtWork(p)'
      BY <1>2, <1>4, <1>8, <1>9, <1>14 DEF AtWork, Early
    <3> QED
      BY <1>4, <1>14, <2>1, <3>1
  <2>2. CASE q # p
    <3>1. at'[q] = at[q] /\ AtWork(q) /\ at[q] \in AtRow
      BY <1>1, <1>4, <2>2 DEF TypeInv
    <3>2. at[q].inv \in 0 .. Len(invoices')
      BY <1>0, <1>5, <1>8, <3>1 DEF AtWork
    <3>3. AtWork(q)'
      BY <1>9, <1>11, <3>1, <3>2 DEF AtWork
    <3> QED
      BY <3>1, <3>3
  <2> QED
    BY <2>1, <2>2
<1>16. TypeInv'
  <2>1. at' \in [Procs -> AtRow]
    BY <1>1, <1>4, <1>14 DEF TypeInv
  <2> QED
    BY <1>1, <1>3, <1>10, <1>13, <1>15, <2>1 DEF TypeInv
<1>17. /\ \A i \in Ids : Key(i) = KeyOf(p) => invoices[i].gen < at[p].gen /\ invoices[i].status = "void"
       /\ \A g \in Nat : g < at[p].gen =>
            \E i \in Ids : Key(i) = KeyOf(p) /\ invoices[i].gen = g /\ invoices[i].status = "void"
       /\ \A i \in Ids : invoices[i].gen \in Nat /\ at[p].gen \in Nat
  <2>0. \A i \in Ids : invoices[i].gen \in Nat /\ at[p].gen \in Nat
    BY <1>1, <1>2, AtFields, InvoiceFields
  <2>1. \A g \in Nat : g < at[p].gen =>
          \E i \in Ids : Key(i) = KeyOf(p) /\ invoices[i].gen = g /\ invoices[i].status = "void"
    BY <1>1, <1>2 DEF SeesVoid, WillCreate
  <2>2. ASSUME NEW i \in Ids, Key(i) = KeyOf(p)
        PROVE  invoices[i].gen < at[p].gen /\ invoices[i].status = "void"
    <3>1. invoices[i].gen # at[p].gen
      BY <2>2 DEF SameRequest, KeyOf
    <3>2. ~(at[p].gen < invoices[i].gen)
      <4> SUFFICES ASSUME at[p].gen < invoices[i].gen PROVE FALSE
        OBVIOUS
      <4>1. PICK j \in Ids : SameKey(i, j) /\ invoices[j].gen = at[p].gen
        BY <1>2, <2>0 DEF Numbered
      <4>2. j \in SameRequest(p)
        BY <2>2, <4>1 DEF SameRequest, SameKey, KeyOf
      <4> QED
        BY <4>2
    <3>3. invoices[i].gen < at[p].gen
      BY <2>0, <3>1, <3>2
    <3>4. PICK j \in Ids : Key(j) = KeyOf(p) /\ invoices[j].gen = invoices[i].gen /\ invoices[j].status = "void"
      BY <2>0, <2>1, <3>3
    <3>5. i = j
      BY <1>2, <2>2, <3>4 DEF Numbered, SameKey
    <3> QED
      BY <3>3, <3>4, <3>5
  <2> QED
    BY <2>0, <2>1, <2>2
<1>18. Numbered'
  <2>1. \A i, j \in Ids : SameKey(i, j)' <=> SameKey(i, j)
    BY <1>11 DEF SameKey
  <2>2. \A i \in Ids : SameKey(i, n)' => Key(i) = KeyOf(p)
    BY <1>11, <1>12 DEF SameKey
  <2>3. \A i \in Ids : SameKey(n, i)' => Key(i) = KeyOf(p)
    BY <1>11, <1>12 DEF SameKey
  <2>4. invoices'[n].gen = at[p].gen
    BY <1>7, <1>8
  <2>5. (\A i, j \in Ids : SameKey(i, j) /\ invoices[i].gen = invoices[j].gen => i = j)'
    <3> SUFFICES ASSUME NEW i \in Ids', NEW j \in Ids', SameKey(i, j)', invoices'[i].gen = invoices'[j].gen
                 PROVE  i = j
      OBVIOUS
    <3>1. CASE i \in Ids /\ j \in Ids
      BY <1>2, <1>8, <2>1, <3>1 DEF Numbered
    <3>2. CASE i = n /\ j \in Ids
      BY <1>8, <1>17, <2>3, <2>4, <3>2
    <3>3. CASE i \in Ids /\ j = n
      BY <1>8, <1>17, <2>2, <2>4, <3>3
    <3> QED
      BY <1>9, <3>1, <3>2, <3>3
  <2>6. (\A i, j \in Ids : SameKey(i, j) /\ invoices[i].gen < invoices[j].gen => invoices[i].status = "void")'
    <3> SUFFICES ASSUME NEW i \in Ids', NEW j \in Ids', SameKey(i, j)', invoices'[i].gen < invoices'[j].gen
                 PROVE  invoices'[i].status = "void"
      OBVIOUS
    <3>1. CASE i \in Ids /\ j \in Ids
      BY <1>2, <1>8, <2>1, <3>1 DEF Numbered
    <3>2. CASE i = n /\ j \in Ids
      BY <1>8, <1>17, <2>3, <2>4, <3>2
    <3>3. CASE i \in Ids /\ j = n
      BY <1>8, <1>17, <2>2, <3>3
    <3>4. CASE i = n /\ j = n
      <4>1. at[p].gen \in Nat
        BY <1>1, AtFields
      <4> QED
        BY <2>4, <3>4, <4>1
    <3> QED
      BY <1>9, <3>1, <3>2, <3>3, <3>4
  <2>7. (\A i \in Ids : \A g \in Nat : g < invoices[i].gen => \E j \in Ids : SameKey(i, j) /\ invoices[j].gen = g)'
    <3> SUFFICES ASSUME NEW i \in Ids', NEW g \in Nat, g < invoices'[i].gen
                 PROVE  \E j \in Ids' : SameKey(i, j)' /\ invoices'[j].gen = g
      OBVIOUS
    <3>1. CASE i \in Ids
      <4>1. PICK j \in Ids : SameKey(i, j) /\ invoices[j].gen = g
        BY <1>2, <1>8, <3>1 DEF Numbered
      <4> QED
        BY <1>8, <1>9, <2>1, <3>1, <4>1
    <3>2. CASE i = n
      <4>1. PICK j \in Ids : Key(j) = KeyOf(p) /\ invoices[j].gen = g
        BY <1>17, <2>4, <3>2
      <4>2. SameKey(n, j)'
        BY <1>11, <1>12, <4>1 DEF SameKey
      <4> QED
        BY <1>8, <1>9, <3>2, <4>1, <4>2
    <3> QED
      BY <1>9, <3>1, <3>2
  <2> QED
    BY <2>5, <2>6, <2>7 DEF Numbered
<1>19. OnceEach'
  <2>1. ASSUME NEW q \in Procs PROVE SeesVoid(q)'
    <3>1. CASE q = p
      BY <1>4, <1>14, <3>1 DEF SeesVoid, WillCreate
    <3>2. CASE q # p
      <4>1. SeesVoid(q) /\ at'[q] = at[q]
        BY <1>1, <1>4, <3>2 DEF OnceEach
      <4> SUFFICES ASSUME WillCreate(q)', NEW g \in Nat, g < at'[q].gen
                   PROVE  \E j \in Ids' : /\ Key(j)' = KeyOf(q)' /\ invoices'[j].gen = g
                                          /\ invoices'[j].status = "void"
        BY DEF SeesVoid
      <4>2. PICK j \in Ids : Key(j) = KeyOf(q) /\ invoices[j].gen = g /\ invoices[j].status = "void"
        BY <4>1 DEF SeesVoid, WillCreate
      <4>3. KeyOf(q)' = KeyOf(q)
        BY <4>1 DEF KeyOf
      <4> QED
        BY <1>8, <1>9, <1>11, <4>2, <4>3
    <3> QED
      BY <3>1, <3>2
  <2> QED
    BY <1>18, <2>1 DEF OnceEach
<1>20. Claims'
  BY <1>1, <1>3, <1>4, <1>14 DEF Claims
<1>21. OneAtATime'
  <2> SUFFICES ASSUME ~overlapped' PROVE Alone' /\ OneUnaccounted' /\ \A q \in Procs : Seen(q)'
    BY DEF OneAtATime
  <2>1. Alone /\ OneUnaccounted /\ \A q \in Procs : Seen(q)
    BY <1>1, <1>3 DEF OneAtATime
  <2>2. Running(p) /\ \A q \in Procs : Running(q)' => Running(q)
    BY <1>1, <1>4 DEF Running
  <2>3. Alone'
    BY <1>3, <2>1, <2>2 DEF Alone
  <2>4. Unaccounted = {}
    <3>1. \A u \in Unaccounted : u \in Ids /\ Key(u) = KeyOf(p) /\ invoices[u].status # "void"
      BY <1>1, <2>1 DEF Seen, Unaccounted
    <3> QED
      BY <1>17, <3>1
  <2>5. Unaccounted' \subseteq {n}
    BY <1>3, <1>8, <1>9, <2>4 DEF Unaccounted, ledger
  <2>6. lastCredit' < n
    BY <1>0, <1>2, <1>3, <1>5 DEF BooksTyped, ledger
  <2>7. OneUnaccounted'
    BY <2>5, <2>6 DEF OneUnaccounted
  <2>8. \A q \in Procs : Seen(q)'
    <3>1. \A q \in Procs : q # p => at'[q].pc \in {"idle", "claim"}
      BY <1>4, <2>1, <2>2 DEF Alone, Running
    <3> QED
      BY <1>4, <1>14, <3>1 DEF Seen
  <2> QED
    BY <2>3, <2>7, <2>8
<1>22. Counted'
  <2>1. Creators' = Creators \ {p} /\ p \in Creators
    BY <1>1, <1>4, <1>14 DEF Creators, Early
  <2>2. IsFiniteSet(Creators') /\ Cardinality(Creators') = Cardinality(Creators) - 1
    BY <1>1, <2>1, FS_RemoveElement DEF Counted
  <2>3. Cardinality(Creators) \in Nat
    BY <1>1, FS_CardinalityType DEF Counted
  <2> QED
    BY <1>0, <1>1, <1>3, <1>5, <1>8, <2>2, <2>3 DEF Counted
<1> QED
  BY <1>16, <1>19, <1>20, <1>21, <1>22 DEF Invariant

-----------------------------------------------------------------------------
(* The payment, and how an attempt ends                                    *)

LEMMA HasInvoice ==
  ASSUME TypeInv, NEW p \in Procs, at[p].pc \in Further
  PROVE  at[p].inv \in Ids /\ Running(p) /\ (at[p].pc = "settle" => at[p].inv \in Paid)
<1>1. AtWork(p)
  BY AtFields
<1> QED
  BY <1>1 DEF AtWork, Running, Further

LEMMA FinalizeKeeps ==
  ASSUME Invariant, NEW p \in Procs, Finalize(p)
  PROVE  Invariant'
<1> DEFINE i == at[p].inv
           status == "open"
           pi == "requires_confirmation"
           r == ByStatus(invoices[i], status, pi)
<1>1. TypeInv /\ at[p].pc = "finalize" /\ UNCHANGED <<org, cooling, late, failedEvents, ledger, overlapped>>
  BY DEF Finalize, Invariant
<1>2. i \in Ids /\ Running(p)
  BY <1>1, HasInvoice DEF Further
<1>3. KeepsInvoices
  <2>1. CASE invoices' = invoices
    BY <1>1, <2>1, SameInvoices
  <2>2. CASE invoices[i].status = "draft"
    <3>1. invoices' = [invoices EXCEPT ![i] = r]
      BY <1>1, <1>2, <2>2 DEF Finalize, ByStatus, TypeInv, InvoicesTyped
    <3>2. status \in Statuses /\ pi \in PiStates /\ invoices[i] \in InvoiceRow /\ pi # "succeeded"
      BY <1>1, <1>2 DEF Statuses, PiStates, TypeInv, InvoicesTyped
    <3>3. SameInvoice(invoices[i], r) /\ r.status = status /\ r.pi = pi
      <4> HIDE DEF i, status, pi
      <4> QED
        BY <3>2, RowType
    <3> HIDE DEF r, status, pi, i
    <3> QED
      BY <1>1, <1>2, <2>2, <3>1, <3>2, <3>3, RowMoves
  <2> QED
    BY <2>1, <2>2 DEF Finalize
<1>4. KeepsBooks /\ KeepsClock
  BY <1>1, SameBooks, SameClock
<1>5. Attempts
  <2>1. Goto(p, "retrieve") /\ "retrieve" \in Further
    BY DEF Finalize, Further
  <2> QED
    BY <1>1, <1>2, <1>3, <2>1, Goes
<1> QED
  BY <1>3, <1>4, <1>5, Onward

(* Every reason to fail that an attempt meets.                             *)
LEMMA FailureNames ==
  /\ "stripe_unconfirmed" \in Whys /\ "card_declined" \in Whys /\ "no_card" \in Whys
  /\ {"settle", "pause", "pay"} \subseteq Further
BY DEF Whys, Further

LEMMA RetrieveKeeps ==
  ASSUME Invariant, NEW p \in Procs, Retrieve(p)
  PROVE  Invariant'
<1>1. TypeInv /\ at[p].pc = "retrieve" /\ UNCHANGED <<org, cooling, stripe, ledger, overlapped>>
  BY DEF Retrieve, Invariant
<1>2. at[p].inv \in Ids /\ Running(p)
  BY <1>1, HasInvoice DEF Further
<1>3. KeepsInvoices /\ KeepsBooks /\ KeepsClock
  BY <1>1, SameInvoices, SameBooks, SameClock DEF stripe
<1>4. \/ invoices[at[p].inv].status = "paid" /\ Goto(p, "settle")
      \/ Goto(p, "pay")
      \/ \E pc \in {"fail", "stop"}, why \in {"card_declined", "stripe_unconfirmed"} : Fail(p, pc, why)
  BY DEF Retrieve
<1>5. ASSUME invoices[at[p].inv].status = "paid", Goto(p, "settle") PROVE Attempts
  <2>1. at[p].inv \in Paid'
    <3>1. at[p].inv \in Paid
      BY <1>2, <1>5 DEF Paid
    <3> QED
      BY <1>1, <1>3, <3>1, Kept DEF TypeInv
  <2> QED
    BY <1>1, <1>2, <1>3, <1>5, <2>1, FailureNames, Goes
<1>6. ASSUME Goto(p, "pay") PROVE Attempts
  BY <1>1, <1>2, <1>3, <1>6, FailureNames, Goes
<1>7. ASSUME NEW pc \in {"fail", "stop"}, NEW why \in {"card_declined", "stripe_unconfirmed"},
             Fail(p, pc, why)
      PROVE  Attempts
  <2>1. why \in Whys
    BY FailureNames
  <2> QED
    BY <1>1, <1>2, <1>3, <1>7, <2>1, Fails
<1> QED
  BY <1>3, <1>4, <1>5, <1>6, <1>7, Onward

LEMMA AfterPayMoves ==
  ASSUME TypeInv, KeepsInvoices, NEW p \in Procs, Running(p), at[p].inv \in Ids,
         NEW pi, pi = "succeeded" => at[p].inv \in Paid', AfterPay(p, pi)
  PROVE  Attempts
<1>1. \/ pi = "succeeded" /\ Goto(p, "settle")
      \/ Goto(p, "pause")
      \/ Fail(p, "stop", "card_declined")
      \/ Fail(p, "fail", "stripe_unconfirmed")
  BY DEF AfterPay
<1>2. CASE pi = "succeeded" /\ Goto(p, "settle")
  BY <1>2, FailureNames, Goes
<1>3. CASE Goto(p, "pause")
  BY <1>3, FailureNames, Goes
<1>4. CASE Fail(p, "stop", "card_declined")
  BY <1>4, FailureNames, Fails
<1>5. CASE Fail(p, "fail", "stripe_unconfirmed")
  BY <1>5, FailureNames, Fails
<1> QED
  BY <1>1, <1>2, <1>3, <1>4, <1>5

LEMMA PayKeeps ==
  ASSUME Invariant, NEW p \in Procs, Pay(p)
  PROVE  Invariant'
<1> DEFINE i == at[p].inv
<1>1. TypeInv /\ at[p].pc = "pay" /\ UNCHANGED <<org, cooling, late, ledger, overlapped>>
  BY DEF Pay, Invariant
<1>2. i \in Ids /\ Running(p)
  BY <1>1, HasInvoice DEF Further
<1>3. KeepsInvoices /\ failedEvents' \subseteq Ids \X {"auth", "decline"} /\ Attempts
  <2>1. CASE Payable(i)
    <3>1. PICK pi \in PayOutcomes : PaymentMoves(i, pi) /\ AfterPay(p, pi)
      BY <2>1 DEF Pay
    <3>2. invoices[i].status = "open"
      BY <2>1 DEF Payable
    <3>3. KeepsInvoices /\ failedEvents' \subseteq Ids \X {"auth", "decline"}
          /\ (pi = "succeeded" => i \in Paid')
      BY <1>1, <1>2, <3>1, <3>2, Moves
    <3> QED
      BY <1>1, <1>2, <3>1, <3>3, AfterPayMoves
  <2>2. CASE ~Payable(i)
    <3>1. AfterPay(p, invoices[i].pi) /\ UNCHANGED <<invoices, failedEvents>>
      BY <2>2 DEF Pay
    <3>2. KeepsInvoices
      BY <1>1, <3>1, SameInvoices
    <3>3. invoices[i].pi = "succeeded" => i \in Paid'
      <4>1. invoices[i].pi = "succeeded" => i \in Paid
        BY <1>1, <1>2 DEF TypeInv, InvoicesTyped, Paid
      <4> QED
        BY <1>1, <3>2, <4>1, Kept DEF TypeInv
    <3>4. Attempts
      BY <1>1, <1>2, <3>1, <3>2, <3>3, AfterPayMoves
    <3>5. failedEvents' \subseteq Ids \X {"auth", "decline"}
      BY <1>1, <3>1 DEF TypeInv, BooksTyped
    <3> QED
      BY <3>2, <3>4, <3>5
  <2> QED
    BY <2>1, <2>2
<1>4. KeepsBooks
  BY <1>1, <1>3 DEF KeepsBooks, TypeInv, BooksTyped, ledger
<1>5. KeepsClock
  BY <1>1, SameClock
<1> QED
  BY <1>3, <1>4, <1>5, Onward

LEMMA RefusedKeeps ==
  ASSUME Invariant, NEW p \in Procs, CardRefused(p) \/ StripeFails(p)
  PROVE  Invariant'
<1>1. TypeInv /\ UNCHANGED <<org, cooling, stripe, ledger, overlapped>>
  BY DEF CardRefused, StripeFails, Invariant
<1>2. KeepsInvoices /\ KeepsBooks /\ KeepsClock
  BY <1>1, SameInvoices, SameBooks, SameClock DEF stripe
<1>3. Attempts
  <2>1. ASSUME CardRefused(p) PROVE Attempts
    <3>1. at[p].pc = "pay" /\ Fail(p, "stop", "no_card")
      BY <2>1 DEF CardRefused
    <3>2. at[p].inv \in Ids /\ Running(p)
      BY <1>1, <3>1, HasInvoice, FailureNames
    <3> QED
      BY <1>1, <1>2, <3>1, <3>2, FailureNames, Fails
  <2>2. ASSUME StripeFails(p) PROVE Attempts
    <3>1. Running(p) /\ Fail(p, "fail", "stripe_unconfirmed")
      BY <2>2 DEF StripeFails, AtStripe, Running
    <3> QED
      BY <1>1, <1>2, <3>1, FailureNames, Fails
  <2> QED
    BY <2>1, <2>2
<1> QED
  BY <1>2, <1>3, Onward

LEMMA UnansweredKeeps ==
  ASSUME Invariant, NEW p \in Procs, PayUnanswered(p)
  PROVE  Invariant'
<1>1. TypeInv /\ UNCHANGED <<org, cooling, invoices, failedEvents, ledger, overlapped>>
      /\ at[p].pc = "pay" /\ Fail(p, "fail", "stripe_unconfirmed") /\ late' = late \cup {at[p].inv}
  BY DEF PayUnanswered, Invariant
<1>2. KeepsInvoices /\ KeepsClock
  BY <1>1, SameInvoices, SameClock
<1>3. at[p].inv \in Ids /\ Running(p)
  BY <1>1, HasInvoice, FailureNames
<1>4. KeepsBooks
  BY <1>1, <1>3 DEF KeepsBooks, TypeInv, BooksTyped, ledger
<1>5. Attempts
  BY <1>1, <1>2, <1>3, FailureNames, Fails
<1> QED
  BY <1>2, <1>4, <1>5, Onward

LEMMA BusyKeeps ==
  ASSUME Invariant, NEW p \in Procs, StripeBusy(p)
  PROVE  Invariant'
<1>1. TypeInv /\ UNCHANGED <<org, cooling, stripe, ledger, overlapped>>
      /\ at' = [at EXCEPT ![p] = Idle]
  BY DEF StripeBusy, Invariant
<1>2. KeepsInvoices /\ KeepsBooks /\ KeepsClock
  BY <1>1, SameInvoices, SameBooks, SameClock DEF stripe
<1> QED
  BY <1>1, <1>2, Ends, Onward

LEMMA SettleKeeps ==
  ASSUME Invariant, NEW p \in Procs, Settle(p)
  PROVE  Invariant'
<1> DEFINE i == at[p].inv
           fresh == [org EXCEPT !.failures = 0]
<1>1. TypeInv /\ InvoicesTyped /\ at[p].pc = "settle" /\ UNCHANGED <<cooling, stripe, manual, overlapped>>
      /\ at' = [at EXCEPT ![p] = Idle] /\ org' = ArmIfWaitingForCard(fresh, TRUE, TRUE, TRUE)
  BY DEF Settle, Invariant, TypeInv
<1>2. i \in Paid
  BY <1>1, HasInvoice, FailureNames
<1>3. Credits(i)
  BY <1>1, IdsCount DEF Settle, Credits
<1>4. KeepsInvoices
  BY <1>1, SameInvoices DEF stripe
<1>5. KeepsBooks
  <2>1. BooksTyped /\ UNCHANGED <<late, failedEvents>>
    BY <1>1 DEF TypeInv, stripe
  <2> QED
    BY <1>1, <1>2, <1>3, <2>1 DEF KeepsBooks, BooksTyped
<1>6. SamePolicy(org, org')
  <2>1. SamePolicy(org, fresh)
    BY <1>1, ClearedType DEF TypeInv
  <2> HIDE DEF fresh
  <2>2. SamePolicy(fresh, org')
    BY <1>1, <2>1, ArmType DEF SamePolicy
  <2> QED
    BY <2>1, <2>2 DEF SamePolicy
<1>7. KeepsClock
  BY <1>1, <1>6 DEF KeepsClock
<1>8. Attempts
  BY <1>1, <1>4, Ends
<1> QED
  BY <1>4, <1>5, <1>7, <1>8, Onward

LEMMA StopKeeps ==
  ASSUME Invariant, NEW p \in Procs, StopFailedInvoice(p)
  PROVE  Invariant'
<1>1. TypeInv /\ at[p].pc = "stop" /\ UNCHANGED <<org, cooling, late, failedEvents, ledger, overlapped>>
      /\ invoices' \in {Voided(at[p].inv), invoices} /\ Fail(p, "fail", at[p].why)
  BY DEF StopFailedInvoice, Invariant
<1>2. at[p].inv \in Ids /\ Running(p)
  BY <1>1, HasInvoice DEF Further
<1>3. KeepsInvoices
  BY <1>1, <1>2, VoidedKeeps
<1>4. KeepsBooks /\ KeepsClock
  BY <1>1, SameBooks, SameClock
<1>5. Attempts
  <2>1. at[p].why \in Whys
    BY <1>1, AtFields
  <2> QED
    BY <1>1, <1>2, <1>3, <2>1, Fails
<1> QED
  BY <1>3, <1>4, <1>5, Onward

LEMMA PauseStepKeeps ==
  ASSUME Invariant, NEW p \in Procs, Pause(p)
  PROVE  Invariant'
<1>1. TypeInv /\ at[p].pc = "pause" /\ UNCHANGED <<cooling, late, failedEvents, ledger, overlapped>>
      /\ PauseForAuth(at[p].inv) /\ at' = [at EXCEPT ![p] = Idle]
  BY DEF Pause, Invariant
<1>2. at[p].inv \in Ids
  BY <1>1, HasInvoice, FailureNames
<1>3. KeepsInvoices /\ SamePolicy(org, org')
  BY <1>1, <1>2, PauseKeeps
<1>4. KeepsBooks
  BY <1>1, SameBooks
<1>5. KeepsClock
  BY <1>1, <1>3 DEF KeepsClock
<1>6. Attempts
  BY <1>1, <1>3, Ends
<1> QED
  BY <1>3, <1>4, <1>5, <1>6, Onward

LEMMA RecordKeeps ==
  ASSUME Invariant, NEW p \in Procs, RecordFailure(p)
  PROVE  Invariant'
<1>1. TypeInv /\ org \in OrgRow /\ UNCHANGED <<cooling, stripe, ledger, overlapped>>
      /\ at' = [at EXCEPT ![p] = Idle]
  BY DEF RecordFailure, Invariant, TypeInv
<1>2. SamePolicy(org, org')
  BY <1>1, CardGoneType, FailureType DEF RecordFailure
<1>3. KeepsInvoices /\ KeepsBooks
  BY <1>1, SameInvoices, SameBooks DEF stripe
<1>4. KeepsClock
  BY <1>1, <1>2 DEF KeepsClock
<1> QED
  BY <1>1, <1>3, <1>4, Ends, Onward

LEMMA CrashKeeps ==
  ASSUME Invariant, NEW p \in Procs, Crash(p)
  PROVE  Invariant'
<1>1. TypeInv /\ UNCHANGED <<org, cooling, invoices, failedEvents, ledger, overlapped>>
      /\ at' = [at EXCEPT ![p] = Idle]
  BY DEF Crash, Invariant
<1>2. KeepsInvoices /\ KeepsClock
  BY <1>1, SameInvoices, SameClock
<1>3. late' \subseteq Ids
  <2>1. late \subseteq Ids
    BY <1>1 DEF TypeInv, BooksTyped
  <2>2. at[p].pc = "pay" => at[p].inv \in Ids
    BY <1>1, HasInvoice, FailureNames
  <2> QED
    BY <2>1, <2>2 DEF Crash
<1>4. KeepsBooks
  BY <1>1, <1>3 DEF KeepsBooks, TypeInv, BooksTyped, ledger
<1> QED
  BY <1>1, <1>2, <1>4, Ends, Onward

-----------------------------------------------------------------------------
(* The theorems                                                            *)

LEMMA InitHolds == Init => Invariant
<1> SUFFICES ASSUME Init PROVE Invariant
  OBVIOUS
<1>1. /\ cooling = FALSE /\ overlapped = FALSE /\ invoices = <<>> /\ late = {} /\ failedEvents = {}
      /\ credited = {} /\ lastCredit = 0 /\ manual = <<>>
      /\ at = [p \in Procs |-> Idle]
  BY DEF Init
<1>2. Len(invoices) = 0 /\ Ids = {} /\ Ids = 1 .. Len(invoices)
  BY <1>1 DEF Ids
<1>3. InvoicesTyped
  BY <1>1, <1>2 DEF InvoicesTyped
<1>4. BooksTyped
  <2>1. manual \in Seq(Cards) /\ Len(manual) = 0
    BY <1>1
  <2> QED
    BY <1>1, <1>2, <2>1, Base DEF BooksTyped, Paid
<1>5. org \in OrgRow /\ org.stamp = 0
  <2> DEFINE why == ""
  <2>1. why \in Reasons
    BY DEF Reasons
  <2>2. org = [on |-> FALSE, why |-> why, card |-> None, failures |-> 0, stamp |-> 0]
    BY DEF Init
  <2> HIDE DEF why
  <2> QED
    BY <2>1, <2>2, Base DEF OrgRow
<1>6. \A p \in Procs : at[p] = Idle
  BY <1>1
<1>7. TypeInv
  <2>1. \A p \in Procs : AtWork(p)
    BY <1>2, <1>6, IdleRow DEF AtWork, Early, Further
  <2>2. at \in [Procs -> AtRow]
    BY <1>1, IdleRow
  <2> QED
    BY <1>1, <1>3, <1>4, <1>5, <2>1, <2>2 DEF TypeInv
<1>8. OnceEach
  <2>1. Numbered
    BY <1>2 DEF Numbered
  <2>2. \A p \in Procs : SeesVoid(p)
    BY <1>6, IdleRow DEF SeesVoid, WillCreate
  <2> QED
    BY <2>1, <2>2 DEF OnceEach
<1>9. Claims
  BY <1>6, IdleRow DEF Claims
<1>10. OneAtATime
  <2>1. \A p \in Procs : ~Running(p) /\ Seen(p)
    BY <1>6, IdleRow DEF Running, Seen
  <2>2. Unaccounted = {}
    BY <1>2 DEF Unaccounted
  <2> QED
    BY <2>1, <2>2 DEF OneAtATime, Alone, OneUnaccounted
<1>11. Counted
  <2>1. Creators = {}
    BY <1>6, IdleRow DEF Creators, Early
  <2> QED
    BY <1>2, <1>5, <2>1, FS_EmptySet DEF Counted
<1> QED
  BY <1>7, <1>8, <1>9, <1>10, <1>11 DEF Invariant

LEMMA StutterKeeps ==
  ASSUME Invariant, UNCHANGED vars
  PROVE  Invariant'
<1>1. UNCHANGED <<cooling, stripe, ledger, at, overlapped>> /\ SamePolicy(org, org')
  BY DEF vars, Invariant, TypeInv, SamePolicy
<1> QED
  BY <1>1, PolicyKept

LEMMA AttemptKeeps ==
  ASSUME Invariant, NEW p \in Procs, Attempt(p)
  PROVE  Invariant'
<1>1. CASE FindsAttemptsUsedUp(p)
  BY <1>1, UsedUpKeeps
<1>2. CASE Begin(p)
  BY <1>2, BeginKeeps
<1>3. CASE Claim(p)
  BY <1>3, ClaimLost, ClaimWon
<1>4. CASE Look(p)
  BY <1>4, LookKeeps
<1>5. ASSUME NEW i \in at[p].prior, CheckPrior(p, i) PROVE Invariant'
  BY <1>5, CheckPriorKeeps
<1>6. CASE CheckPaid(p)
  BY <1>6, CheckPaidKeeps
<1>7. CASE Create(p)
  BY <1>7, CreateAgain, CreateNew
<1>8. CASE Finalize(p)
  BY <1>8, FinalizeKeeps
<1>9. CASE Retrieve(p)
  BY <1>9, RetrieveKeeps
<1>10. CASE Pay(p)
  BY <1>10, PayKeeps
<1>11. CASE CardRefused(p) \/ StripeFails(p)
  BY <1>11, RefusedKeeps
<1>12. CASE PayUnanswered(p)
  BY <1>12, UnansweredKeeps
<1>13. CASE StripeBusy(p)
  BY <1>13, BusyKeeps
<1>14. CASE Settle(p)
  BY <1>14, SettleKeeps
<1>15. CASE StopFailedInvoice(p)
  BY <1>15, StopKeeps
<1>16. CASE Pause(p)
  BY <1>16, PauseStepKeeps
<1>17. CASE RecordFailure(p)
  BY <1>17, RecordKeeps
<1>18. CASE Crash(p)
  BY <1>18, CrashKeeps
<1> QED
  BY <1>1, <1>2, <1>3, <1>4, <1>5, <1>6, <1>7, <1>8, <1>9, <1>10, <1>11, <1>12, <1>13,
     <1>14, <1>15, <1>16, <1>17, <1>18 DEF Attempt

LEMMA StepHolds == Invariant /\ [Next]_vars => Invariant'
<1> SUFFICES ASSUME Invariant, [Next]_vars PROVE Invariant'
  OBVIOUS
<1>1. CASE OwnerTurnsOn \/ OwnerTurnsOff
  BY <1>1, OwnerKeeps
<1>2. CASE ManualTopUpAgain
  BY <1>2, ManualAgainKeeps
<1>3. CASE PaymentRefunded
  BY <1>3, RefundKeeps
<1>4. CASE WaitEnds
  BY <1>4, WaitEndsKeeps
<1>5. ASSUME NEW card \in Cards, CardSaved(card) \/ ManualTopUp(card) PROVE Invariant'
  BY <1>5, CardSavedKeeps, ManualKeeps
<1>6. ASSUME NEW i \in Ids, PaymentSucceeded(i) PROVE Invariant'
  BY <1>6, SucceededKeeps
<1>7. ASSUME NEW i \in Ids, LatePay(i) PROVE Invariant'
  BY <1>7, LatePayKeeps
<1>8. ASSUME NEW i \in Ids, PaymentSettles(i) PROVE Invariant'
  BY <1>8, SettlesKeeps
<1>9. ASSUME NEW e \in failedEvents, PaymentFailed(e) PROVE Invariant'
  BY <1>9, FailedKeeps
<1>10. ASSUME NEW p \in Procs, Attempt(p) PROVE Invariant'
  BY <1>10, AttemptKeeps
<1>11. CASE UNCHANGED vars
  BY <1>11, StutterKeeps
<1> QED
  BY <1>1, <1>2, <1>3, <1>4, <1>5, <1>6, <1>7, <1>8, <1>9, <1>10, <1>11 DEF Next, Automatic

(* The policy, Stripe's invoices, what the ledger knows of them and what   *)
(* each attempt has read stay consistent in every step of every process,   *)
(* whatever is lost, late or repeated.                                     *)
THEOREM InvariantHolds == Spec => []Invariant
BY InitHolds, StepHolds, PTL DEF Spec

(* Every state of top-up has its type: no more invoices than claims, and   *)
(* only what is paid is credited.                                          *)
THEOREM TypeCorrect == Spec => []TypeOK
<1>1. Invariant => TypeOK
  <2> SUFFICES ASSUME Invariant PROVE TypeOK
    OBVIOUS
  <2>1. TypeInv /\ InvoicesTyped /\ BooksTyped /\ Counted
    BY DEF Invariant, TypeInv
  <2>2. Len(invoices) \in 0 .. MaxClaims
    <3>1. Cardinality(Creators) \in Nat
      BY <2>1, FS_CardinalityType DEF Counted
    <3>2. org.stamp \in 0 .. MaxClaims /\ Len(invoices) \in Nat
      BY <2>1, OrgFields DEF TypeInv, InvoicesTyped
    <3> QED
      BY <2>1, <3>1, <3>2, Base DEF Counted
  <2>3. \E n \in 0 .. MaxClaims : invoices \in
          [1..n -> [crossing : Nat, card : Cards, gen : Nat,
                    status : {"draft", "open", "paid", "void"}, pi : PiStates]]
    <3>1. invoices \in [1..Len(invoices) -> InvoiceRow]
      BY <2>1 DEF InvoicesTyped
    <3> QED
      BY <2>2, <3>1 DEF InvoiceRow, Statuses
  <2>4. lastCredit \in {0} \cup Ids
    BY <2>1, <2>2 DEF BooksTyped, InvoicesTyped
  <2>5. manual \in UNION {[1..n -> Cards] : n \in 0 .. MaxManual}
    <3>1. Len(manual) \in 0 .. MaxManual /\ manual \in [1..Len(manual) -> Cards]
      BY <2>1, Base, LenProperties DEF BooksTyped
    <3> QED
      BY <3>1
  <2>6. \A p \in Procs : at[p].inv \in {0} \cup Ids /\ at[p].prior \cup at[p].paid \subseteq Ids
    <3> SUFFICES ASSUME NEW p \in Procs
                 PROVE  at[p].inv \in {0} \cup Ids /\ at[p].prior \cup at[p].paid \subseteq Ids
      OBVIOUS
    <3>1. AtWork(p)
      BY <2>1, AtFields
    <3> QED
      BY <2>1, <3>1 DEF AtWork, InvoicesTyped
  <2>7. org \in OrgRow /\ {cooling, overlapped} \subseteq BOOLEAN
    BY <2>1, Zenon DEF TypeInv
  <2> QED
    BY <2>1, <2>3, <2>4, <2>5, <2>6, <2>7, Zenon DEF TypeOK, OrgRow, BooksTyped
<1> QED
  BY <1>1, InvariantHolds, PTL

(* Unless an attempt outlives its wait, the invoices that may still charge *)
(* the card, or have charged it unknown to the ledger, are one at most: no *)
(* lost reply, late webhook, crash, unconfirmed void or change of card     *)
(* makes an attempt start a second charge before the first is accounted    *)
(* for.                                                                    *)
THEOREM AccountedBeforeNext == Spec => []OneLiveInvoice
<1>1. Invariant => OneLiveInvoice
  <2> SUFFICES ASSUME Invariant, ~overlapped PROVE Cardinality(Unaccounted) <= 1
    BY DEF OneLiveInvoice
  <2>1. \A u, v \in Unaccounted : u = v
    BY DEF Invariant, OneAtATime, OneUnaccounted
  <2>2. CASE Unaccounted = {}
    BY <2>2, FS_EmptySet
  <2>3. CASE Unaccounted # {}
    <3>1. PICK u : Unaccounted = {u}
      BY <2>1, <2>3
    <3>2. Cardinality({u}) = 1
      BY FS_Singleton
    <3> QED
      BY <3>1, <3>2
  <2> QED
    BY <2>2, <2>3
<1> QED
  BY <1>1, InvariantHolds, PTL

(* However attempts overlap, one crossing of the threshold is charged once *)
(* to one card: its invoices are numbered, and all but the latest are void.*)
THEOREM CrossingChargedOnce == Spec => []OneChargePerKey
<1>1. Invariant => OneChargePerKey
  <2> SUFFICES ASSUME Invariant, NEW i \in Paid, NEW j \in Paid, Key(i) = Key(j) PROVE i = j
    BY DEF OneChargePerKey
  <2>1. InvoicesTyped /\ Numbered
    BY DEF Invariant, TypeInv, OnceEach
  <2>2. i \in Ids /\ j \in Ids /\ invoices[i].status = "paid" /\ invoices[j].status = "paid"
    BY DEF Paid
  <2>3. invoices[i].gen \in Nat /\ invoices[j].gen \in Nat
    BY <2>1, <2>2, InvoiceFields
  <2> QED
    BY <2>1, <2>2, <2>3 DEF Numbered, SameKey
<1> QED
  BY <1>1, InvariantHolds, PTL
=============================================================================
