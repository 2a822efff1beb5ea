------------------------------ MODULE LedgerTx ------------------------------
(***************************************************************************)
(* The transactions of domain/money statement by statement, at READ        *)
(* COMMITTED with row locks.  A transaction acquires row locks one at a    *)
(* time, keeps what it read, and writes at its commit; other transactions  *)
(* see committed rows only.  The rows it writes are locked from the moment *)
(* it read them, with three exceptions the code relies on: the scan of the *)
(* reaper, the lookup of a payment reference, and the set of blocks that   *)
(* exist when a statement starts.                                          *)
(*                                                                         *)
(* Every commit is a step of Ledger: see ImplementsLedger.                 *)
(***************************************************************************)
EXTENDS Integers, FiniteSets

CONSTANTS Orgs, Calls, Tagged, Refs, None, MaxBlocks, MaxDay, Margin,
          Credits, Estimates, Actuals, Targets,
          Txs,          \* database sessions
          Jobs,         \* the operations that run: names of the jobs below
          Costs         \* bound: what closers say calls cost; None: as much as is held

VARIABLES block, balance, spent, hold, closing, tag, today,   \* committed, as in Ledger
          lock,         \* the transaction that holds the lock of a row
          tx            \* the transactions in progress

db == <<block, balance, spent, hold, closing, tag>>
vars == <<block, balance, spent, hold, closing, tag, today, lock, tx>>

-----------------------------------------------------------------------------
Blocks == 1 .. MaxBlocks

HoldKey(c) == <<"hold", c>>
BlockKey(b) == <<"block", b>>
OrgKey(o) == <<"org", o>>
RefKey(r) == <<"ref", r>>    \* the unique index on stripe_payment_intent

Keys == {HoldKey(c) : c \in Calls} \cup {BlockKey(b) : b \in Blocks}
        \cup {OrgKey(o) : o \in Orgs} \cup {RefKey(r) : r \in Refs}

(***************************************************************************)
(* A transaction: its job, the statement it is at (pc), the holds, blocks  *)
(* and organizations it has yet to lock in that statement, the holds it    *)
(* has claimed, the remaining credit it read under each block's lock, the  *)
(* stale holds a reserve has yet to release, and the days it read the      *)
(* clock on: began (settled_at, or a hold's created_at) and stamp (the day *)
(* of its org UPDATE).                                                     *)
(***************************************************************************)
Idle == [job |-> [op |-> "none"], pc |-> "idle", claim |-> {}, mine |-> {}, want |-> {},
         seen |-> [b \in Blocks |-> 0], orgs |-> {}, todo |-> {}, began |-> 0, stamp |-> 0]

First(S) == CHOOSE x \in S : \A y \in S : x <= y

(* reserve's progress, as Ledger sees it. *)
Reserving ==
  [c \in Calls |->
    IF \E t \in Txs : tx[t].job.op = "reserve" /\ tx[t].job.call = c
    THEN LET r == tx[CHOOSE u \in Txs : tx[u].job.op = "reserve" /\ tx[u].job.call = c]
         IN  [org |-> r.job.org, charged |-> r.job.charged, todo |-> r.todo]
    ELSE [org |-> None, charged |-> 0, todo |-> {}]]

(* LedgerProofs holds LedgerProperties and what is proved of it.           *)
L == INSTANCE LedgerProofs WITH pending <- {}, reserving <- Reserving

ASSUME LedgerTxAssumption ==
  /\ L!LedgerAssumption
  /\ Orgs \subseteq Nat /\ Calls \subseteq Nat     \* ids that lock orders compare
  /\ None \notin Txs /\ IsFiniteSet(Txs)
  /\ Jobs \subseteq {"close", "payTo", "reserve", "revoke", "fund"}
  /\ Costs \subseteq Actuals \cup {None}

Init ==
  /\ lock = [k \in Keys |-> None]
  /\ tx = [t \in Txs |-> Idle]
  /\ L!Init

-----------------------------------------------------------------------------
(* What the job of a transaction r draws and moves, from the rows it has    *)
(* claimed and read.                                                        *)

Due(j, c) ==
  IF j.op = "payTo"
  THEN IF j.actual = None THEN hold[c].amount ELSE L!Lesser(hold[c].amount, j.actual)
  ELSE L!Settled(c, j.actual[c])

(* The claimed holds of organization o that are settled, not released. *)
Settles(r, c) == r.job.op = "payTo" \/ (r.job.op = "close" /\ c \in r.job.settle)
Dues(r, o) == [c \in {x \in r.mine : hold[x].org = o /\ Settles(r, x)} |-> Due(r.job, c)]

Read(r, o) == [b \in Blocks |-> IF block[b].org = o THEN r.seen[b] ELSE 0]
TakeUncapped(r, o) == L!Spread([b \in Blocks |-> IF block[b].org = o THEN L!Sum(Dues(r, o)) ELSE 0],
                             L!BurnRank, L!Sum(Dues(r, o)))
Take(r, o) == L!Spread(Read(r, o), L!BurnRank, L!Sum(Dues(r, o)))
Consumed(r, o) == LET d == Dues(r, o) IN L!Spread(d, [c \in DOMAIN d |-> c], L!Sum(Read(r, o)))

Drawn(r, c) == IF Settles(r, c) THEN Consumed(r, hold[c].org)[c] ELSE 0
CountedAlways(r, c) == hold[c].amount
Counted(r, c) == IF hold[c].day = r.stamp THEN hold[c].amount ELSE 0
SpentDelta(r, c) == Drawn(r, c) - Counted(r, c)

(* Whether closing c needs its organization's row at all. *)
Moves(r, c) == ~Settles(r, c) \/ hold[c].amount # Drawn(r, c) \/ SpentDelta(r, c) # 0

OrgsOf(r) ==
  CASE r.job.op = "close" \/ (r.mine # {} /\ r.job.op = "reserve") ->
         {hold[c].org : c \in {x \in r.mine : Moves(r, x)}}
    [] r.job.op = "payTo" ->
         LET c == r.job.call
         IN  (IF Moves(r, c) THEN {hold[c].org} ELSE {})
             \cup (IF Drawn(r, c) > 0 THEN {r.job.payee} ELSE {})
    [] OTHER -> {r.job.org}

-----------------------------------------------------------------------------
(* From statement to statement *)

(* The org UPDATE: its values are computed, clock included, before it waits. *)
ToOrgs(r) ==
  LET s == [r EXCEPT !.stamp = today]
  IN  IF OrgsOf(s) = {} THEN [s EXCEPT !.pc = "commit"]
      ELSE [s EXCEPT !.pc = "orgs", !.orgs = OrgsOf(s)]

(* The rows an ordered SELECT ... FOR UPDATE sees when it starts. *)
Spendable(r) ==
  {b \in Blocks : /\ block[b].remaining > 0
                  /\ L!Sum(Dues(r, block[b].org)) > 0}

ToBlocks(r) ==
  LET s == [r EXCEPT !.began = today]
  IN  IF Spendable(s) = {} THEN ToOrgs(s)
      ELSE [s EXCEPT !.pc = "blocks", !.want = Spendable(s)]

(* A reserve releases its stale holds one by one, then meets the gate. *)
ToGate(r) ==
  IF r.todo = {} THEN ToOrgs([r EXCEPT !.mine = {}])
  ELSE [r EXCEPT !.pc = "claim", !.claim = {First(r.todo)}, !.mine = {}]

Unlocked(t) == [k \in Keys |-> IF lock[k] = t THEN None ELSE lock[k]]
GrantedByCheckThenAct(t, k) == k[1] = "hold" \/ lock[k] \in {None, t}
GrantedWithoutForUpdate(t, k) == k[1] = "block" \/ lock[k] \in {None, t}
Granted(t, k) == lock[k] \in {None, t}
Locked(t, k) == [lock EXCEPT ![k] = t]

Finish(t) == tx' = [tx EXCEPT ![t] = Idle] /\ lock' = Unlocked(t)

SettlesFirst(r) ==
  IF r.job.op = "close" /\ r.claim \cap r.job.settle # {}
  THEN First(r.claim \cap r.job.settle) ELSE First(r.claim)
(* A batch claims its holds in id order, whatever the order it was given. *)
NextHold(r) == First(r.claim)

(* ORDER BY org_id, id *)
NextBlock(r) ==
  CHOOSE b \in r.want : \A x \in r.want :
    block[b].org < block[x].org \/ (block[b].org = block[x].org /\ b <= x)

BuyerFirst(r) ==
  IF r.job.op = "payTo" /\ hold[r.job.call].org \in r.orgs
  THEN hold[r.job.call].org ELSE First(r.orgs)
NextOrg(r) == First(r.orgs)

(* The row whose lock the next statement of r needs. *)
NeededKey(r) ==
  CASE r.pc = "claim"  -> HoldKey(NextHold(r))
    [] r.pc = "blocks" -> BlockKey(NextBlock(r))
    [] r.pc = "orgs"   -> OrgKey(NextOrg(r))
    [] r.pc = "ref"    -> RefKey(r.job.ref)
    [] OTHER -> None

-----------------------------------------------------------------------------
(* Starting *)

Begin(t, r) ==
  /\ tx[t] = Idle
  /\ r.job.op \in Jobs
  /\ tx' = [tx EXCEPT ![t] = r]
  /\ UNCHANGED <<db, today, lock>>

BeginClose(t, S, R, actual) ==
  /\ \A c \in S \cup R : L!IsOpen(c)
  /\ Begin(t, [Idle EXCEPT !.job = [op |-> "close", settle |-> S, actual |-> actual],
                           !.pc = "claim", !.claim = S \cup R])

BeginPayTo(t, c, payee, actual) ==
  /\ L!IsOpen(c)
  /\ Begin(t, [Idle EXCEPT !.job = [op |-> "payTo", call |-> c, payee |-> payee, actual |-> actual],
                           !.pc = "claim", !.claim = {c}])

BeginReserve(t, c, o, est) ==
  /\ L!Fresh(c)
  /\ Begin(t, ToGate([Idle EXCEPT
       !.job = [op |-> "reserve", call |-> c, org |-> o, charged |-> L!WithMargin(est, Margin)],
       !.todo = L!Reapable(o)]))

BeginRevoke(t, o, asked) ==
  Begin(t, [Idle EXCEPT !.job = [op |-> "revoke", org |-> o, asked |-> asked],
                        !.pc = "blocks", !.want = DOMAIN asked])

(* The lookup of the payment reference finds no committed block. *)
BeginTopup(t, o, n, ref) ==
  /\ \A b \in Blocks : block[b].ref # ref
  /\ Begin(t, [Idle EXCEPT !.job = [op |-> "fund", org |-> o, kind |-> "purchased",
                                    amount |-> n, ref |-> ref],
                           !.pc = "ref"])

(* An operator's credit, a promotion or a referral reward: any time, once=False. *)
BeginGrant(t, o, n) ==
  Begin(t, ToOrgs([Idle EXCEPT
    !.job = [op |-> "fund", org |-> o, kind |-> "promotional", amount |-> n, ref |-> None]]))

-----------------------------------------------------------------------------
(* Acquiring locks *)

(* DELETE FROM hold: the row count decides who closes it. *)
Claim(t) ==
  LET r == tx[t]
      c == NextHold(r)
      s == [r EXCEPT !.claim = @ \ {c}, !.mine = IF L!IsOpen(c) THEN @ \cup {c} ELSE @]
  IN  /\ r.pc = "claim"
      /\ Granted(t, HoldKey(c))
      /\ \/ /\ s.claim # {} \/ s.mine # {}
            /\ tx' = [tx EXCEPT ![t] = IF s.claim # {} THEN s ELSE ToBlocks(s)]
            /\ lock' = IF L!IsOpen(c) THEN Locked(t, HoldKey(c)) ELSE lock
         \/ /\ s.claim = {} /\ s.mine = {} /\ r.job.op = "reserve"    \* reaped elsewhere
            /\ tx' = [tx EXCEPT ![t] = ToGate([s EXCEPT !.todo = @ \ {c}])]
            /\ UNCHANGED lock
         \/ /\ s.claim = {} /\ s.mine = {} /\ r.job.op # "reserve"    \* closed elsewhere
            /\ Finish(t)
      /\ UNCHANGED <<db, today>>

(* FOR UPDATE re-reads the row once it holds the lock (populate_existing). *)
LockBlock(t) ==
  LET r == tx[t]
      b == NextBlock(r)
      s == [r EXCEPT !.want = @ \ {b}, !.seen[b] = block[b].remaining]
  IN  /\ r.pc = "blocks"
      /\ Granted(t, BlockKey(b))
      /\ lock' = Locked(t, BlockKey(b))
      /\ tx' = [tx EXCEPT ![t] = IF s.want # {} THEN s ELSE ToOrgs(s)]
      /\ UNCHANGED <<db, today>>

(* The unique index: wait for the transaction that is inserting the same    *)
(* reference; if it committed, re-SELECT its block and move no money.       *)
InsertRef(t) ==
  LET r == tx[t]
  IN  /\ r.pc = "ref"
      /\ Granted(t, RefKey(r.job.ref))
      /\ \/ /\ \A b \in Blocks : block[b].ref # r.job.ref
            /\ lock' = Locked(t, RefKey(r.job.ref))
            /\ tx' = [tx EXCEPT ![t] = ToOrgs(r)]
         \/ /\ \E b \in Blocks : block[b].ref = r.job.ref
            /\ Finish(t)
      /\ UNCHANGED <<db, today>>

LockOrg(t) ==
  LET r == tx[t]
      o == NextOrg(r)
      gate == r.job.op = "reserve" /\ r.mine = {}
      s == [r EXCEPT !.orgs = @ \ {o}]
  IN  /\ r.pc = "orgs"
      /\ Granted(t, OrgKey(o))
      /\ \/ /\ gate => L!Affords(o, r.job.charged)
            /\ lock' = Locked(t, OrgKey(o))
            /\ tx' = [tx EXCEPT ![t] =
                 IF s.orgs # {} THEN s
                 ELSE [s EXCEPT !.pc = "commit", !.began = IF gate THEN today ELSE @]]
         \/ /\ gate /\ ~L!Affords(o, r.job.charged)                   \* InsufficientBalance
            /\ Finish(t)
      /\ UNCHANGED <<db, today>>

-----------------------------------------------------------------------------
(* Committing *)

AddSpent(s, day, delta) ==
  [day |-> day, micro |-> IF s.day = day THEN s.micro + delta ELSE delta]

(* Remaining credit is written back as an absolute value. *)
DrawnBlocks(r) ==
  [b \in Blocks |->
    IF L!IsBlock(b) /\ Take(r, block[b].org)[b] > 0
    THEN [block[b] EXCEPT !.remaining = r.seen[b] - Take(r, block[b].org)[b]]
    ELSE block[b]]

Refunded(r) ==
  [o \in Orgs |->
    balance[o] + L!Sum([c \in {x \in r.mine : hold[x].org = o} |-> hold[c].amount])
               - L!Sum(Consumed(r, o))]

CloseMine(r) ==
  LET ofOrg(o) == {c \in r.mine : hold[c].org = o}
      entry(c) == [kind |-> IF Settles(r, c) THEN "settle" ELSE "release",
                   org |-> hold[c].org, reserved |-> hold[c].amount,
                   amount |-> IF Settles(r, c) THEN Drawn(r, c) ELSE hold[c].amount,
                   day |-> r.began]
      row(c) == IF ~Settles(r, c) \/ tag[c].org = None THEN L!NoTag
                ELSE [tag[c] EXCEPT !.amount = Drawn(r, c), !.settled = TRUE, !.day = r.began]
  IN  /\ hold' = [c \in Calls |-> IF c \in r.mine THEN L!NoHold ELSE hold[c]]
      /\ closing' = [c \in Calls |-> IF c \in r.mine THEN entry(c) ELSE closing[c]]
      /\ tag' = [c \in Calls |-> IF c \in r.mine THEN row(c) ELSE tag[c]]
      /\ spent' = [o \in Orgs |->
           IF \E c \in ofOrg(o) : SpentDelta(r, c) # 0
           THEN AddSpent(spent[o], r.stamp,
                  L!Sum(Consumed(r, o)) - L!Sum([c \in ofOrg(o) |-> Counted(r, c)]))
           ELSE spent[o]]

(* settle, release, close_holds_in_transaction *)
CommitClose(t) ==
  /\ tx[t].pc = "commit" /\ tx[t].job.op = "close"
  /\ block' = DrawnBlocks(tx[t])
  /\ balance' = Refunded(tx[t])
  /\ CloseMine(tx[t])
  /\ Finish(t)
  /\ UNCHANGED today

(* One release of the sweep; the session goes on to the next. *)
CommitReap(t) ==
  LET r == tx[t]
  IN  /\ r.pc = "commit" /\ r.job.op = "reserve" /\ r.mine # {}
      /\ balance' = Refunded(r)
      /\ CloseMine(r)
      /\ lock' = Unlocked(t)
      /\ tx' = [tx EXCEPT ![t] = ToGate([r EXCEPT !.todo = @ \ r.mine])]
      /\ UNCHANGED <<block, today>>

CommitPayTo(t) ==
  LET r == tx[t]
      n == Drawn(r, r.job.call)
      payee == r.job.payee
  IN  /\ r.pc = "commit" /\ r.job.op = "payTo"
      /\ \/ n = 0 /\ block' = DrawnBlocks(r) /\ balance' = Refunded(r)
         \/ /\ n > 0
            /\ \E b \in Blocks :
                 /\ L!NextBlock(b)
                 /\ block' = [DrawnBlocks(r) EXCEPT ![b] = L!NewBlock(payee, "earned", n, None)]
            /\ balance' = [Refunded(r) EXCEPT ![payee] = @ + n]
      /\ CloseMine(r)
      /\ Finish(t)
      /\ UNCHANGED today

CommitReserve(t) ==
  LET r == tx[t]
      c == r.job.call
      o == r.job.org
      n == r.job.charged
  IN  /\ r.pc = "commit" /\ r.job.op = "reserve" /\ r.mine = {}
      /\ balance' = [balance EXCEPT ![o] = @ - n]
      /\ spent' = [spent EXCEPT ![o] = AddSpent(@, r.stamp, n)]
      /\ hold' = [hold EXCEPT ![c] = [org |-> o, amount |-> n, day |-> r.began, stale |-> FALSE,
                                      known |-> L!Funded]]
      /\ tag' = IF c \in Tagged
                THEN [tag EXCEPT ![c] = [org |-> o, amount |-> n, settled |-> FALSE, day |-> r.began]]
                ELSE tag
      /\ Finish(t)
      /\ UNCHANGED <<block, closing, today>>

CommitFund(t) ==
  LET j == tx[t].job
  IN  /\ tx[t].pc = "commit" /\ j.op = "fund"
      /\ \E b \in Blocks :
           /\ L!NextBlock(b)
           /\ block' = [block EXCEPT ![b] = L!NewBlock(j.org, j.kind, j.amount, j.ref)]
      /\ balance' = [balance EXCEPT ![j.org] = @ + j.amount]
      /\ Finish(t)
      /\ UNCHANGED <<spent, hold, closing, tag, today>>

OnBlock(r, b, goal) == L!Lesser(L!Owed(b, goal), r.seen[b])

CommitRevoke(t) ==
  LET r       == tx[t]
      T       == DOMAIN r.job.asked
      goal    == [b \in T |-> L!Lesser(r.job.asked[b], block[b].amount)]
      take    == L!Spread([b \in T |-> OnBlock(r, b, goal[b])], [b \in T |-> b], L!Unheld(r.job.org))
      recorded(b) == take[b] > 0 \/ goal[b] > block[b].target
  IN  /\ r.pc = "commit" /\ r.job.op = "revoke"
      /\ block' = [b \in Blocks |->
           IF b \in T /\ recorded(b)
           THEN [block[b] EXCEPT !.remaining = r.seen[b] - take[b], !.taken = @ + take[b],
                                 !.target = IF goal[b] > @ THEN goal[b] ELSE @]
           ELSE block[b]]
      /\ balance' = [balance EXCEPT ![r.job.org] = @ - L!Sum(take)]
      /\ Finish(t)
      /\ UNCHANGED <<spent, hold, closing, tag, today>>

-----------------------------------------------------------------------------
(* The request is cancelled or its process dies: nothing staged survives. *)
Rollback(t) ==
  /\ tx[t] # Idle
  /\ Finish(t)
  /\ UNCHANGED <<db, today>>

(* The signup promotion of a team that has no money and so no call yet. *)
Signup(o) ==
  /\ \A b \in Blocks : block[b].org # o
  /\ lock[OrgKey(o)] = None
  /\ UNCHANGED <<lock, tx>>
  /\ \E n \in Credits : L!Grant(o, "promotional", n)

Age(c) == UNCHANGED <<lock, tx>> /\ L!Age(c)
Midnight == UNCHANGED <<lock, tx>> /\ L!Midnight

Start(t) ==
  \/ \E C \in SUBSET Calls : \E S \in SUBSET C : \E actual \in [S -> Costs] :
       C # {} /\ BeginClose(t, S, C \ S, actual)
  \/ \E c \in Calls, payee \in Orgs, a \in Costs : BeginPayTo(t, c, payee, a)
  \/ \E c \in Calls, o \in Orgs, est \in Estimates : BeginReserve(t, c, o, est)
  \/ \E o \in Orgs : \E T \in SUBSET L!Refundable(o) : \E asked \in [T -> Targets] :
       T # {} /\ BeginRevoke(t, o, asked)
  \/ \E o \in Orgs, n \in Credits : BeginGrant(t, o, n) \/ \E ref \in Refs : BeginTopup(t, o, n, ref)

Step(t) ==
  \/ Claim(t) \/ LockBlock(t) \/ InsertRef(t) \/ LockOrg(t)
  \/ CommitClose(t) \/ CommitReap(t) \/ CommitPayTo(t) \/ CommitReserve(t)
  \/ CommitFund(t) \/ CommitRevoke(t)

Next ==
  \/ \E t \in Txs : Start(t) \/ Step(t) \/ Rollback(t)
  \/ \E o \in Orgs : Signup(o)
  \/ \E c \in Calls : Age(c)
  \/ Midnight

Spec == Init /\ [][Next]_vars

-----------------------------------------------------------------------------
TypeOK ==
  /\ L!TypeOK
  /\ lock \in [Keys -> Txs \cup {None}]
  /\ \A t \in Txs : /\ tx[t].pc \in {"idle", "claim", "blocks", "orgs", "ref", "commit"}
                    /\ tx[t].seen \in [Blocks -> Nat]
                    /\ tx[t].mine \subseteq Calls

(* "Lock order is independent of consumption priority": whatever money      *)
(* operations run together, no set of transactions waits on each other.     *)
NoDeadlock ==
  ~ \E T \in SUBSET Txs :
      /\ T # {}
      /\ \A t \in T : /\ NeededKey(tx[t]) # None
                      /\ lock[NeededKey(tx[t])] \in T \ {t}

(* "The same number computed from the journal", what spent_today must agree *)
(* with (docstring of spent_today_from_ledger).  It does in Ledger, where a *)
(* transaction has one instant; here the clock is read several times.       *)
SpentTodayAgrees == L!SpentTodayAgrees

(* The counter drifts from the journal only when a transaction that read    *)
(* the clock before midnight commits after it: one that begins and commits  *)
(* on one day keeps them agreed, whatever day its holds were opened on.     *)
OnlyStraddlersDrift ==
  [][SpentTodayAgrees /\ ~SpentTodayAgrees'
     => \E t \in Txs : /\ tx[t].pc = "commit" /\ tx'[t] # tx[t]
                       /\ tx[t].began # today \/ tx[t].stamp # today]_vars

(* Midnight moves no money: with transactions waiting over it the balance   *)
(* is still credit less holds, the journal still explains what the blocks   *)
(* lost, and no reserve admitted on either day digs below zero.             *)
BooksHoldOverMidnight == L!BalanceEquation /\ L!JournalBacksBlocks /\ L!OverdraftBounded

(* Row locks and the row counts of DELETE and UPDATE make every money       *)
(* operation atomic: each commit is one step of Ledger, so two closers of   *)
(* one hold, two draws on one block, two deliveries of one payment never    *)
(* both count.  This is L!Spec of one day with the stutter written first,   *)
(* because most statements are one and TLC tries the disjuncts in order;    *)
(* a commit after a midnight that its transaction did not see is no step of *)
(* Ledger: OnlyStraddlersDrift says what becomes of the counter then.       *)
LedgerStep == UNCHANGED L!vars \/ L!Next
ImplementsLedger == L!Init /\ [][today' = 0 => LedgerStep]_(L!vars)

=============================================================================
