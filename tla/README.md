# treg, verified: the money path

treg is a gateway that sells calls to other people's APIs: a team's agent calls one base URL, treg
relays the call with its own or the team's credential, and charges a prepaid balance in integer
micro-USD. This directory holds TLA+ models of the parts of the server that decide what is charged,
when, and to whom, the TLC configurations that check them on small instances, and TLAPS proofs of
their central properties for every value of the constants. All source paths are below `src/src/treg/`.

    tlc -workers 2 -config MCLedger.cfg MCLedger       # check one instance
    tlapm LedgerProofs.tla                             # check the proofs of one module

## 1. The system

The inventory: each part, its state, what it does, what it meets, what is hard about it, and what
makes it correct. The last column says where the property is, or the module of the plan it waits for.

| part | state | operations | what is hard | correct when | module |
|---|---|---|---|---|---|
| ledger (`domain/money`) | credit blocks, balance and daily counter per team, holds, journal, tag rows | grant, topup, reserve (with a sweep of stale holds), settle, settle_to, release, batch close, revoke | many transactions on one team's rows, decided by conditional updates; refunds while calls are in flight; overruns; midnight | the balance is credit minus holds; the journal explains the blocks; nobody spends what is not there | `Ledger`, `LedgerTx` |
| async tasks (`application/asynctasks`) | the task row, its hold, worker claims | defer, claim, poll, observe, finish, report | leases, stale observations, cancellation at the commit, late answers, time-outs | charged only on evidence, once, and always ended | `AsyncTasks` |
| idempotent calls (`application/call/idempotency`) | one row per member and label | replay, claim, renew, store, release, resolve | the row is a lock whose owner may die; its answer is rebuilt from money that can still move | one label never runs twice within its window | `Idempotency` |
| money admission (`infra/money_admission`) | per-process locks, a Redis lease per team | admit, renew, release | leases expire in mid-transaction, replies get lost, Redis fails | a fast queue, never a condition for correctness; no wait for ever | `MoneyAdmission` |
| org concurrency, flow control, provider concurrency, quotas (`infra/`) | Redis slots and buckets | acquire, renew, release | fail-open, lost replies, leases against running calls | slots are returned, and exactly once | `OrgConcurrency` (planned) |
| call path (`application/call`) | one request's progress | resolve, reserve, relay, overflow, settle or release, compensate | cancellation between any two awaits; several holds per call | every hold a call opened is closed or left to a task, and the answer says what was taken | `CallTree` |
| billing (`application/billing`) | payments, auto top-up claim | checkout, webhook, backfill, bonus, refund, auto top-up | redelivery, races of webhook and page, recovery of an unknown payment | one credit per payment; a refund takes the bonus too; one refill at a time, and none the owner does not want | `AutoTopup`, `Rewards`; credit and revoke in `Ledger` |
| referrals (`domain/referrals`) | referral rows | capture, qualify, pay referee, sweep, cancel | webhook against sweep, refund against payout | each side is paid at most once, and not after a chargeback | `Rewards` |
| hub (`application/hub`) | runs and steps | reserve the price, run steps, pay the author | steps are tasks of their own; crash or cancel between steps and payment | the author is paid once for a successful run | `CallTree`; payment in `Ledger` |
| sign-up (`application/signup`) | the organization | create, grant | the grant is inside the creation | one promotion per organization | `LedgerTx.Signup` |
| OAuth provider (`domain/identity/mcp_oauth`) | codes, refresh families, grants | exchange, rotate, revoke, move team | replay against rotation, rolling deploys | a replayed token ends its family | `McpOAuth` (planned) |
| credential refresh (`domain/connections/refresh`) | one secret | refresh | two processes rotate one token | nobody keeps a dead token | `CredentialRefresh` (planned) |
| identity and access, teams, API keys | rows | sequential checks | little | - | not modelled |
| routing (`application/call/route`) | the attempts of one routed call | run children, weigh their answers, close what they left open | several holds decided at the end, after a failure or a cancel | a routed call that fails charges nothing of what was left to it | `CallTree` |
| capacity, resolution, catalog, pricing | marks, shares, YAML | decide who serves a call | best effort by design | - | not modelled |
| archive, audit, analytics, events | queues, files | record | may drop | only what `AsyncTasks.OneEnd` says | not modelled otherwise |
| routers, web, CLI, MCP surface | none of their own | I/O | none | - | not modelled |

How they interact: a call reserves through the ledger inside an admission, relays, and settles or
releases through the ledger; a deferred call leaves its hold to a task row, which a worker process
(`worker.py`) or the caller's own polls finish through the ledger; webhooks and pages credit and
revoke through the ledger; all of it meets in PostgreSQL, under READ COMMITTED and row locks. There
is no other shared memory between processes, and within one process a coroutine can be cancelled at
each await. `PROJECT.json` lists the hazards that follow, each at its line.

## 2. The modules

| module | what it is | checked by | proved in |
|---|---|---|---|
| `MoneyOps` | sums over rows, spreading a debit over ranked blocks, margin rounding | through the others | `LedgerProofs` |
| `Ledger` | the ledger with one atomic action per operation: the abstract specification | `MCLedger` | `LedgerProofs` |
| `LedgerProperties` | what the ledger promises | `MCLedger` | `LedgerProofs` |
| `LedgerTx` | the same operations as concurrent SQL transactions with row locks; implements `Ledger` | `MCLedgerTx` | `LedgerTxProofs` |
| `AsyncTasks` | one deferred call and everybody who may end it | `MCAsyncTasks` | `AsyncTasksProofs` |
| `Idempotency` | one label, the call that claimed it and its retries | `MCIdempotency` | `IdempotencyProofs` |
| `CallTree` | one request and the calls under it: who closes which hold | `MCCallTree` | `CallTreeProofs` |
| `MoneyAdmission` | the queue in front of the money transactions | `MCMoneyAdmission` | `MoneyAdmissionProofs` |
| `AutoTopup`, `AutoTopupProperties` | automatic refills of one team through Stripe invoices | `MCAutoTopup` | `AutoTopupProofs` |
| `AutoTopupOwner` | the same with the owner's last word noted | `MCAutoTopupOff` | - |
| `Rewards` | the bonus of a top-up and the referral of who paid it | `MCRewards` | `RewardsProofs` |

### Ledger

State: `block` (CreditBlock; `taken` and `target` are what the revoke entries of its journal add up
to and the largest total they named), `balance`, `spent` (`spent_today_micro` and its day), `hold`
(`known` is history: how many blocks existed when it was opened), `closing` (the one settle or release
entry of a call), `tag` (TagSpend), `pending` (calls with a pending task row), `reserving` (a reserve
in the middle of its sweep) and `today`. Each operation is one action, because each is one transaction;
the exception is `reserve`, which commits once for each stale hold it sweeps: `ReserveScan` reads the
list, `Reap` releases the next of it, and `ReserveDebit`, `ReserveRefuse` or `ReserveAbandon` ends it.

* Block ids stand for creation order, which is the order of commit here.
* Margin is an integer percentage; the code's rate is a float that defaults to 0. Rounding is up, as
  in `with_margin`.
* A call settles, releases and tags at most one row of each kind; a tag map with several dimensions
  would be several equal rows.
* A settle or a batch may draw only from blocks it saw when it locked them. At this level that is the
  choice `k \in Views(c)`: any moment between the opening of the hold and now.
* The sweep's LIMIT of 100 holds is not modelled.
* A task may be deferred on a hold of any age, also on one that a sweep has listed: `hold_ttl_s` is an estimate of how
  long a request takes, and nothing ends a request that takes longer.

### LedgerTx

Transactions `Txs`, each taking one job at a time: close (a settle, release, batch or sweep), payTo,
reserve, revoke, or fund (topup or grant). A transaction takes row locks one by one in the order of
its statements (`Claim` the holds, `LockBlock` the blocks it selects FOR UPDATE, `InsertRef` the unique
index, `LockOrg` the organization it updates), keeps in `seen` what it read from the blocks, and
applies its writes in its commit, when the locks go. A statement that meets a lock waits: it has no
action until the lock is free. `Rollback` is the failure of a transaction at any step.
`ImplementsLedger` says that every step of one day is a stutter or a step of `Ledger` (by `INSTANCE
LedgerProofs`, the properties of `Ledger` with what is proved of them, which maps the committed rows to
themselves); `LedgerStep` puts the stutter first
so that TLC rarely has to search `Ledger`'s next-state relation. `NoDeadlock` says that the
wait-for graph of the transactions has no cycle.

### AsyncTasks

One task: `job` (the provider's truth), `request` (the request that submitted it), `hold`, `row`,
`age`, the row `lock`, and for each finisher - a worker slot or a polling caller - where it is
(`pc`), what it saw (`seen`), what it decided under the lock (`plan`), how much of its
PROCESS_TIMEOUT_S is left (`left`) and whether that still applies to it (`scoped`).

* `_finish` is two steps: `Lock` takes the row FOR UPDATE, re-reads it and looks the hold up without a
  lock; a `Commit` action settles, releases, puts off or finds the hold closed. In between anybody may
  close the hold, which is why a commit that finds it closed moves nothing.
* `attempts`, the fencing token, is kept as the last claimant: no worker has two claims at once.
* `Compensate`, `CloseHold` and `Abandon` are the request's cancellation (`_finish_cancelled_call`) and
  the path of a row that did not persist; both can run with the row committed.
* `defer_submission` reads the hold without a lock (`ReadHold`) and commits the row later (`Defer`); the sweep lists a hold
  (`ReapScan`) and releases it later without another look (`Reap`). A hold is listed as soon as it is old, be its
  request over or not, so the release may come before the row, or after it.
* A task that is not priced by usage is one whose usage is always published with its answer.
* Left out: `_process`'s branch for a pending row that already has an error, which nothing writes;
  the bookkeeping of fetchable resources; verdict columns; the archive's own storage.
* Times are in small units: what matters is their order, ProcessTimeout < Lease (30 s and 60 s, an
  assumption with a name), Window <= Deadline, and the clamp of the next check to the window.

### Idempotency

One label of one caller: `row` is its row in `idempotentcall`, `call` where each call that carries it
is, `money` what each call's holds, settle entries and async tasks say, `now` a clock.

* `LookUp`, `DeleteExpired` and `Claim` are the intake: what the first read saw decides, so another
  request may free, claim or finish the label before the insert. The delete is by primary key; a row
  and its owner (`call_ref`) are one to one, so the owner stands for the key.
* `FindHold`, `FindEntries`, `FindTasks` and `Swap` are `_resolve_stale_claim`: three reads at READ
  COMMITTED and a compare-and-swap, each a step of its own.
* `Reserve`, `Settle`, `SettleFails`, `Defer`, `Fail` and `Cancel` are the call itself as far as it moves
  its own money; a call's own hold and those of its children are one hold. A `Settle` is of a success or of an
  `error`, a 4xx that reports a charge. `EndTask` and `Reap` are the worker and the lazy sweep, which may have listed
  the hold of a task before it was one.
* `RenewLease` runs beside the call. The clock waits for it (`Late` after it is due at most, an
  assumption with a name), but `MaxMisses` renewals may fail, as `_renew_claim_lease` swallows errors.
* `Store`, `StoreFails`, `NotKept` and `Drop` end the claim, every write fenced on owner and pending;
  a write may fail. `NotKept` is a charged call whose answer is not kept: a streamed or spooled body, or an error.
  `Crash` is the end of the process at any point.
* `how` remembers why a call ended without an answer to keep; nothing reads it but the properties.
* Left out: how keys are scoped and shown, what a stored answer says, and the sweep of other labels.

### CallTree

`top` is the request - a direct call, a routed call or a hub run - with how it ended and the charges its
answer states; `kid` is each call under it, `hold` each hold: a call's own, the one of its overflow attempt,
and the price of a hub run. `deferred` is the router's list `pending`, `dying` the steps that a run cut off
at its wall clock, `orphaned` the holds whose closer gave up.

* A call is `Start`, `Reserve`, `Dispatch`, `Answer`, `CloseOwn`, `After`, and for an overflow `Overflow`,
  `OverAnswer`, `CloseOver`. Each is one await, so that a cancel (`CancelCall`, `Doomed`) can strike at
  every one; what a transaction under way leaves behind is chosen by `InFlight`, and `Clean` is the
  shielded compensation.
* How an answer is billed is data (`how`, `over`): what matters is whether it is billed, on the
  provider's answer alone (then a router decides), or as something else that is closed at once.
* `Weigh`, `RouteEnds`, `CloseRoute` are the router; `HubReserve`, `Tally`, `Halt`, `HubEnds`, `WallClock`, `ClosePrice`,
  `Record`, `RunCrashes`, `CancelRun`, `Rescue` the recipe runner. A router runs one child at a time, a hub run all at once.
* A fault is a money transaction that fails for good (the code retries a deadlock and a pool time-out once); it is
  rolled back. A commit that succeeds and is reported as failed is not modelled.
* A crash needs no fault: a call raises before, at or after its relay (`how` is "crash"), and a run raises between its
  steps, at its output, at a step's stream or when it writes its record (`RunCrashes`), its price paid or not.
* An error may be billed on the provider's word and still say that its rate window is full (`how` is "burst"): then
  an overflow is tried after the charge.
* Left out: which answer is billed and how much, slots and rate windows, the overflow's own budget, the
  check and upgrade children of a routed call, the script road of the hub, and the end of the server process, after
  which every hold is the reaper's. A hold has no amount: what is
  taken from it is `Ledger`'s part.

### MoneyAdmission

`gate` is one use of `admit()` each (`_Gate` and the coroutine that runs it, with its renewer), `lease`
the keys in Redis, `wire` the lease requests that have left and not arrived, `down` the processes that
died. `late` and `outrun` are history.

* A lease command is three steps: sent (`Ask`, `Renew`), obeyed by Redis (`SetApplied`, `RenewApplied`,
  `DeleteApplied`), and answered; a failure (`SetFails`, `RenewFails`, `DeleteFails`) may come before or
  after Redis has obeyed, and a lease request may arrive long after its sender has given up.
* Countdowns stand for clocks: what is left of a lease in Redis, what the gate believes is left
  (`valid`), and the age of a request. The code counts a lease from when its request was sent. A
  countdown at zero enables a step and never forces one: any process may be late for anything.
* `Cancel` is a cancellation at each await, cleanup included; `Leave` is the end of the transaction.
* A gate is its own token. The transaction inside the gate is not modelled: it is `LedgerTx`'s, which
  assumes nothing of the queue.

### AutoTopup

`org` is the policy on the organization (switch, why it is off, card, failures in a row, claim stamp),
`at` is where each process is in `attempt_auto_topup` and what it has read, `invoices` is Stripe's side, `credited`
and `manual` are the credit blocks, `failedEvents` and `late` are what Stripe still has to deliver or
to receive.

* Each request to Stripe is a step, and any of them may fail; a pay request whose answer is lost may
  still arrive (`LatePay`), and a payment may settle at any time (`PaymentSettles`).
* Stripe (external) is modelled from what the code relies on: an idempotency key replays its answer,
  an invoice is voided only while its payment cannot be under way, every event is delivered at least
  once, in any order. Two processes with one invoice send the same keys.
* An automatic amount is fixed and stands for one refill, so that the crossing of the threshold
  (how many blocks there are) and the card make the key. A changed amount acts as a changed card.
* Two commits are two steps: `AfterFailure` may leave the count without the switch, a manual payment
  may be credited without its card being remembered, as when the process dies in between.
* `overlapped` is history: an attempt outlived the wait that keeps attempts apart.

### Rewards

`h` is what each handler (a webhook delivery or a visit of the Referrals page) does, `block` the purchased
block of a payment with its bonus and what was revoked, `referral` the row of each referred team.
Row and advisory locks are held from the statement that takes them to the commit: `LockBonus` to
`GrantBonus`, `Judge` to `Enter`. A handler may die between two transactions (`Leave`), and every
event may be delivered again. Amounts are halves of a payment; how much of a bonus a
revocation can still take is the ledger's part (`RevokedWithinTarget`, `RefundSparesHolds`). No referrer is an affiliate: in
the code an affiliate's referrals are exempt from the lifetime cap.

## 3. What is checked

| run | instance | shows |
|---|---|---|
| `ledger` | 2 teams, 2 calls, 2 blocks, 1 midnight, margin 50 % | nine properties, 167 thousand states |
| `tx_team` | 1 team, 2 calls, 2 transactions, 1 block and its refund, a midnight | type, no deadlock, refinement of `Ledger`, books over midnight, who makes the daily counter drift; 219 thousand states |
| `tx_transfers` | 2 teams paying each other, 2 transactions, 3 blocks | no deadlock, refinement |
| `tx_midnight` | 1 team, 1 call, 2 transactions, a midnight | the finding below |
| `async` | 2 workers, 1 caller, 1 fault, a window and a deadline of 4 ticks | four safety properties and liveness, 806 thousand states |
| `idem` | a call and a retry, 2 fingerprints, window 3, a stale lease after 1, 1 missed renewal, 4 ticks | type and four safety properties, 1.7 million states |
| `idem_cancelled` | as `idem`, without purchases | the second finding below |
| `admission` | 2 gates, 2 processes, 2 organizations, a lease of 1 tick | four safety properties, 1.3 million states |
| `call_tree` | 2 calls under a direct, routed or hub request, 2 cancels, 1 fault | type, two safety properties and no dead end, 6.8 million states |
| `autotopup` | 2 processes, 2 cards, 2 attempts, 1 manual top-up, off after 1 failure | type and two safety properties, 1.2 million states |
| `autotopup_off` | the same, off after 2 failures | the third finding below |
| `rewards` | 2 handlers, 2 teams, 2 payments with one card, 2 referrers, a refund in two parts | type and three safety properties, 2.3 million states |

Ledger: `BalanceEquation` is the invariant of the module's docstring. `JournalBacksBlocks` compares
the journal's settle entries with what the blocks lost. `SpentTodayAgrees` compares the daily counter
with its recomputation. `TagRowsAgree` ties tag rows to holds and entries. `OverdraftBounded`: a
balance is negative only by overruns. `RevokedWithinTarget` and `RefundSparesHolds`: a refund, however
often reported, takes neither too much nor what calls in flight hold. `SweepSparesTasks`: no sweep
lists a pending task's hold, and of those who race for one that was listed before its task was deferred (the sweep, the
request, the task's end) the first closes it and the others change nothing. `PaidCreditLast`: promotional credit burns before earned and paid.

Async tasks: `OnePoller`, `ChargedOnEvidence`, `RowMatchesHold` (the row's account of the money is the
ledger's, whoever closed the hold, a reaper that listed it before the task was there included), `OneEnd` (one event; the archived answer is the one charged for), `PendingEnds`.

Idempotency: `OneAtWork` (no two calls of a label between claim and end within a window, even when
renewals failed and a retry closed the first one's claim), `PaidTwiceOnlyIfGivenBack` (a retry is
charged after another call only when that call gave its claim back), `LostChargeFound` (a stored 410 shows what its owner paid, also through a
task settled much later), `ClaimIsTheOwners` (nobody else ends a live claim).

Call tree: `NothingStranded` (when all is over, each hold still open was knowingly left to the reaper by a
close that failed or that a cancel interrupted: every way out of a call, a route and a run reaches every hold that may
exist, the overflow's included), `ToldWhatWasTaken` (what the answer states as charged is
what was taken, faults and crashes or not, but for what the code does not count: `Unsaid`, and the answer of a run that
crashed).

Money admission: `LeaseBacksBelief` (a gate that trusts its leases has them), `CleanEnd` (a gate that ends,
however it ends, leaves no lock and no lease that no failure accounts for), `OverrunReported` (a
transaction that was overtaken says so), `NoCircle` (gates do not wait for one another in a circle).

Auto top-up: `OneLiveInvoice` (no second charge before the first is accounted for), `OneChargePerKey` (one
crossing, one card, one charge, even when attempts overlap). Rewards: `BonusNetOfRefunds`,
`EachSideOnce`, `OneCardOneReferral`.

Bounds. Two calls and two transactions are what a race takes: every conflict in the code is between
two transactions or one transaction and the rows they share, and no operation counts actors. Two
blocks per team give an order to burn and a block to be drained; three in `tx_transfers` let an
earned block appear next to one that is being drawn. Amounts (3 credited, 1 or 2 reserved, 0 to 2
actual) include a free call, an overrun, a partial refund and a balance that cannot afford a reserve.
One fault in `async` is a time-out of a worker, a failed commit or a crash; what two of them can do
follows from the proofs, which know no bound. A lease is longer than a time-out there, and the
window longer than both.

In `Idempotency` a renewal is due every tick, a lease is abandoned two ticks after its last renewal and
a label lives three (the code's 5 and 15 minutes and 24 hours): long enough for a claim to be
abandoned, resolved, expire and be claimed again, with one missed renewal to make a live owner look
dead. `LostChargeFound` speaks of runs without a missed renewal: an owner that lives on without
renewing may pay after the span that the resolver reads, and its 410 then says "unknown".

In `admission` the waits are zero, so that a wait may be over at any moment (a reserve's refusal and the
others' fallback are always possible), and a lease of one tick makes an answer late as soon as a tick
passes; `LeaseBacksBelief` is proved for every lease. Two gates are what a race takes, in one process
or in two, and two organizations are what a circle takes. No liveness is claimed: each wait in
`admit()` has a time-out, and what follows a time-out needs no answer.

In `autotopup` two processes and two claims give an attempt that overlaps another, a lost reply in one and
its discovery by the next; one manual top-up moves the crossing, the second card rotates the key, and
a policy that the first failure turns off is turned on again by the owner at any moment, so that a longer
count would add no other attempt. The cap of one credit still lets a second invoice be
created while the first is unaccounted for, which is what the properties are about. In `rewards` the two
payments are of two teams with one card, and the referrers may be one user or two, so that the
locks of the referrer and of the card each matter; the refund arrives in halves, before, between
and after the credit and the bonus.

In `call_tree` two calls are a child that left its hold to the router and one that fails or is cut off,
or two steps of a run in parallel; two cancels are one that strikes and one that hits the compensation or
the last close; one fault is one transaction that fails. In `tx_team` one block is what two closes and a refund
fight over, and `Costs` lets every settled call overrun its hold; `tx_transfers` has the order of several
blocks, and calls that cost less than is held or as much. With one block no two credits of one payment meet in `tx_team`:
that the loser of the unique index leaves nothing behind is what `SessionsImplementLedger` proves for any number of blocks.

Types. `TypeOK` of `Ledger`, `AsyncTasks` and `MoneyAdmission` is proved for every instance, so the runs leave it out.

Deadlock checking is off in all runs but `call_tree`, where a request may rest only when all is over: elsewhere
an instance has bounded inputs and comes to rest when they are used up. The deadlocks that could really
happen, between transactions, are the invariant `NoDeadlock`.

Fairness is assumed only in `async`: weak fairness of the clock, of each worker's next step, of a
commit and a report once begun - the worker process runs every few seconds and catches every
exception of a row - and strong fairness of a worker's `Lock`, because PostgreSQL queues waiters for
a row lock (with weak fairness alone a polling caller could always be first). Nothing is assumed of
the provider, the callers or the request. A time-out of the process counts among `MaxFaults`: a poll
is cut off well before it, and without a bound each round could be lost.

### Findings

`tx_midnight`: the statement that moves the daily counter stamps it with a day that the process computed
before the statement waited for the organization's row, and decides whether the hold counts with another
reading of the clock. Two settles or reserves that overlap midnight can leave `spent_today` different
from `spent_today_from_ledger`, which it "must agree with", and the row's date can go back to
yesterday, which drops what was counted since midnight. The daily cap is off by that much for one
day. In `Ledger`, where a transaction is instantaneous, the two agree; `OnlyStraddlersDrift`
(`tx_team`) says that only a commit whose transaction read the clock before midnight makes them
part, and `BooksHoldOverMidnight` that balances, journal and overdraft are not affected.

`idem_cancelled`: a call cancelled after its charge was committed and before its answer was stored
(`service.py` 1834, 1850 and 1950) deletes its pending claim like any cancelled call. A retry with the
same label then reaches the provider and is charged again, while the docstring of `IdempotentCall` says
"One remembered answer, so a retried call is not paid for twice". Released claims of streamed and
spooled answers, which the money document describes, and purchases, which cost nothing when repeated,
are not counted, nor is a 4xx that the provider charged for: it is settled at the charge it reports, and
`_store_idempotent` deletes its claim, so that a retry may be charged again (see below). `PaidTwiceOnlyIfGivenBack` shows
that nothing else leads there.

`autotopup_off`: an attempt still under way when the owner turns auto top-up off may fail after it. It
then writes why it failed (`_record_failure`, `_pause_for_auth`) without asking whether the policy is
still on, as `_card_gone` does, and a later payment by hand takes that reason as permission to turn
the policy on again. The comment in `_arm_if_waiting_for_card` says that "A deliberate off leaves the reason
None with consent still on file, and a later (or redelivered) payment must not switch it back on".

Seen in the call path, all in the caller's favour or small: an overflow served at a named price, a refused
submission with a reported charge and a finished task are settled at once, so that a routed call that then fails
has charged for them although `run_routed` says that it charges nothing (`ToldWhatWasTaken` excepts them, in
`AtOnce`); a purchase of units that is cancelled at its settle, rather than while it was sent, is returned; a cancel
at the reserve of a run's price or at its last close leaves the price to the reaper, as does `close_deferred`
when it fails, while its answer states the charge; a run that crashes (`runner.py` 394-400) states a charge of 0
although its steps, or its author, were paid, with no transaction failed; a call that fails to overflow (`service.py`
1921-1931) states a cost of 0 although its direct answer, an error, was billed; and a run stopped by the wall clock does not count the steps it cut off; the answer of a pending
routed call carries no charge.

Where words and code part without a run of their own, as the models follow the code and their properties say what it keeps:

* A sweep that listed a hold before its task was deferred releases it under the pending task. `money.md:184` says
  "Pending `AsyncTaskRecord` holds are excluded; their worker always closes them", and `models.py:1063` that such a
  hold is "deliberately excluded until its worker resolves it"; the comment at `asynctasks.py:391` knows of it ("or
  reaped"). The finish then charges nothing (`RowMatchesHold`).
* The docstring of `_store_idempotent` gives as its reason not to keep ordinary failures that "no charge landed", but a
  4xx that reports a charge is settled (`settle.py` 1184-1188, 1221). `RetryPaidOnce` excepts it.

Seen elsewhere, documented or harmless by design: a lease request that arrives after the delete
of its cancelled gate stays for one TTL (`late`); the cap of a month can be exceeded by the charge
that was under way; a declined charge counts both where it was made and by its event; a refund
event that arrives before its credit is dropped, and the next event of that charge carries the total.

## 4. What is proved

`LedgerProofs` begins with the facts of `MoneyOps`: finite sums, and spreading a debit over ranked blocks
(never more than a row has, in total the lesser of the debit and what is there). They are stated
without recursion: a sum is the number of its units, so that facts about finite sets carry it. Then,
from `LedgerAssumption` alone:

* `TypeCorrect`: `Spec => []TypeOK`. TypeOK is inductive with the facts about Draw and Spread.
* `TasksSpared`: an action property. Only `Reap` closes a hold while a reserve moves, and it re-checks
  nothing of what its scan saw; so the proof carries `HoldLife`: a hold on some sweep's list is either
  still open and stale, perhaps a task's by now, or closed for good (a closed call never reopens).
* `BalanceHolds`: `BalanceEquation` is inductive with TypeOK; each operation changes credit, holds
  and balance by amounts that cancel, and the sums change only at the rows it touches.
* `TagsAgree`: a tag row is written with the hold and settled or deleted with it. Inductive with TypeOK and the
  fact that a call without a hold or an entry has no tag row.
* `SpentHolds`: the recomputation from the journal counts settle entries, releases of holds of this day, and
  open holds; each operation moves the counter by what it moves the recomputation by, and a midnight
  that nobody has counted on makes both zero.
* `RefundsBounded`, `RefundsSpareHolds`: a revoke's goal is the larger of what was asked before and now, and its take is
  spread within what is owed on each block and, in total, within the credit that no hold withholds.
* `OverdraftHolds`: inductive with TypeOK and `HoldLife`. What a close charges beyond what it frees shows up as
  overrun of the settled calls; a reserve or a refund only lowers a balance that covers it.
* `JournalHolds`: `JournalBacksBlocks` is inductive with TypeOK; what a step draws is what it enters.
* These money invariants together are `Books`. They are proved to be kept by a step of one of the shapes of `MoneyStep`
  (a credit, a refund, a hold opened, holds closed with what is drawn for them), which says nothing of days, sweeps
  or tasks: `Ledger`'s steps have these shapes, and so have the commits of `LedgerTx`.
* `CheapBurnsFirst`: an action property of `Spread` with the rank of `_DRAW_ORDER`: a debit that reaches
  a block has emptied every block of a lower rank that the transaction saw.

`AsyncTasksProofs`, from `AsyncAssumption`, for any workers, callers, lease, delays and window:

* `TypeCorrect`, then one inductive invariant `IInv` for all four safety properties, because each
  leans on the others. `Locked`: what a finisher read of the row under the lock still holds at its
  commit, and a hold it saw closed stays closed. `Known`: an observed end is the job's end, and a
  caller goes on only with one. `Story`: who closed the hold (a finisher, the request, or a
  reaper that listed it before the row was there) determines what the row can say.
  `Leased`: a worker at its poll is the last claimant, with more lease than process time left (here
  ProcessTimeout < Lease is used). `Reporting`: between the commit and the report the row is over and
  there is one reporter. `NotBefore`: nobody works before the row is there.
* `PollsOnce`, `ChargesOnEvidence`, `RowAndHoldAgree`, `EndsOnce`.

`IdempotencyProofs`, from `IdempotencyAssumption` (with it, that the calls of one key are finitely many), for any calls,
fingerprints, window, lease and number of missed renewals: one inductive invariant, `Invariant`, for all five properties.
The row and the calls tell the same story: who is at work has the row, was closed out of it by a resolver that
found its lease out, or has outlived its window; a call behind its claim has moved its money as its stage says; and what
a resolver has read so far (its three statements) is still true of the money or will fail its compare-and-swap.
`TypeCorrect`, `WorksAlone`, `PaidOnceUnlessGivenBack`, `LostChargeIsFound`, and the action property
`ClaimStaysTheOwners` follow from it.

`CallTreeProofs`, from `CallTreeAssumption`, for any number of children, cancels and faults. `NothingStranded` is
not inductive: it speaks of the end only. What is carried is a table of closers: an open hold that nobody gave up is on
its way through its own call (before its close, or in its cleanup), or is left to the router in `deferred`, or is the price
of a run that has not ended. `NothingIsStranded` reads it at the end. `ToldWhatWasPaid` carries, along the same
table, what a call, a route and a run may state as charged, and what may have been taken that they do not state, whatever has
failed or crashed; of a run that crashed it says nothing, as the code states a charge of 0 there.

`MoneyAdmissionProofs`, from `AdmissionAssumption`, for any gates, processes, organizations, TTL and waits:

* `TypeCorrect`: `TypeOK` is inductive.
* `LeasesBackBelief`: its inductive invariant is `TypeOK`, `Sound` (where a gate stands says which fields may
  be set: what it holds it has asked for, a renewer works only while leases are held) and `Backed`.
  Backed has three parts, one for each place where a lease can be trusted or about to be: a confirmed lease
  with time left is the gate's in Redis and ends there no earlier; a grant on its way back is the
  gate's if it is still young enough to count; a renewal on its way back likewise. The tick lowers
  both sides together, and no other gate's command touches a lease with an owner.
* `EndsClean`, `OverrunIsReported`, `NobodyWaitsInACircle`: a second invariant, `Orderly`, inductive with the first.
  `Ordered`: what a gate holds is below what it has still to take, and is remembered in `tried`. `OnWire`: what is
  on the wire was asked for and not answered. `Traced`: a lease in Redis is of a gate that still remembers it, that counted
  a failure, or whose request came late. `Overrun`: a gate that was overtaken lacks a confirmed lease until it tells.
  For the circle: of gates that wait for one another the one whose next lease (or local lock) is the
  highest waits for one whose next is higher still. Organizations are finitely many, an assumption the code's
  table justifies.

`RewardsProofs`, from `RewardsAssumption`, for any handlers, payments, teams, referrers, cards and cap: one inductive
invariant, `Invariant`. It says what a handler may rely on between two of its transactions. A payment that is
being granted its bonus has none, and nobody else is granting it (the lock of its block). A team that was judged
is still pending and its verdict still true, and nobody else who was judged shares its referrer or its card (the
locks of both). A payout that was claimed is one handler's own: the paid status is committed first, so that a
second visit does not find it unpaid, and what it owes is not stamped yet. `TypeCorrect`, `BonusIsNetOfRefunds`,
`EachSideIsPaidOnce` and `OneCardFundsOneReferral` follow; that credited payments and earning referrals are finitely
many, which their counts need, is part of the invariant.

`AutoTopupProofs`, from `AutoTopupAssumption`, for any processes, cards, cap and attempts. The inductive invariant,
`Invariant`, has `TypeInv` (what a process has read exists, and what it is about to settle is paid) and four parts.
`OnceEach`: the invoices of a key are numbered 0, 1, 2, ... and all but the latest are void; who is about to
create one has seen every lower number void, because it counted as many void ones as its own number.
`Claims`: a claim that is still to be written has its stamp only while the last wait is over. `OneAtATime`: while no
attempt has outlived its wait there is one attempt at a time, and whatever is unaccounted for is newer than the
latest credit, so that the attempt's list shows it: in its own key or among those it has to check. `Counted`:
each claim creates one invoice at most.

* `TypeCorrect`: `TypeOK` with its bound on the number of invoices, from `Counted`.
* `AccountedBeforeNext`: a second charge never begins before the first is accounted for: void, or paid and credited.
* `CrossingChargedOnce`: holds without the condition on waits, by the numbering alone.

`LedgerTxProofs`, from `LedgerTxAssumption` (with it, that sessions are finitely many and that ids are numbers, as
the orders of locks compare them), for any teams, calls, blocks, sessions and jobs. The inductive invariant,
`Invariant`, says where a transaction stands: the statement it is at says what it still wants (`AtStatement`) and
which locks it can have. Its claimed holds are exactly the hold rows it has locked, open, and lower than those it
has yet to claim (`HoldsClaimed`); its blocks exist and come before those it wants by team and id (`BlocksLocked`),
its teams by id (`OrgsLocked`), and a payment reference is locked before anything else (`RefLocked`).

* `TypeCorrect`: what a draw or a refund writes back as an absolute value is what it read less a part of it.
* `BooksHoldAmongSessions`: `BooksHoldOverMidnight`. `Ledger`'s shapes of a step do not say when its values were read;
  here they are statements old. A second inductive part, `Accounts`, says why that is as good: of a block it has
  locked a transaction has `seen` what is left now (`AsLocked`); a refund has locked, or still wants, every block it
  was asked about (`RefundRead`); it has locked, or is about to lock, every team it moves (`Reached`); a
  reserve that passed the gate can still pay (`Admitted`), and nobody else opens the hold of its call (`Alone`).
  A step `Spares` the other transactions: their locked rows keep their values and their locked teams lose no money, so
  that they stay `Informed`. Every commit is then one of the shapes of `MoneyStep`, on which `Ledger`'s own `Books`
  are inductive whatever the day.
* `NobodyWaitsInCircle`: in a circle, whoever waits for the highest team waits for one that waits for a higher
  one; so nobody in it waits for a team, then likewise nobody for a block or a hold; and who has inserted a
  reference waits for teams only. New blocks appear behind no lock, and a block never changes its team.
* `SessionsImplementLedger`: `ImplementsLedger`, the refinement: the committed rows start as `Ledger`'s and
  every step of the sessions is a stutter or an action of `Ledger`, with the same team, call, blocks and
  amounts. What `Accounts` says of money is not enough, as an action of `Ledger` is told what it writes and
  when. A third inductive part, `Progress`, tells it for each transaction (`AtWork`). `Sweeps`: a reserve that
  sweeps has one stale hold in hand, one of those it still has to release, and none when it goes to its gate.
  `Given`: who has inserted a payment reference has it alone, and a refund asks for blocks that can be refunded.
  `Sees`: a draw locks every block it could draw on up to some number, the highest when it began to select, and
  none funded since; that number is not below what `Ledger` remembers as `known` when the hold was opened.
  `Dated`: the clock it read is not of a later day. `Tables` adds that blocks are numbered without gaps. `Frame`
  is what a step of one transaction can do to the rows that the others work on. The lemma `StepImplements` says
  it of every step that is `OnTime`, a commit of the day its transaction read, whatever the day; the property is
  its case for the first.
* `OnlyLateCommitsDrift`: `OnlyStraddlersDrift`, from the same lemma: a step of `Ledger` keeps `SpentTodayAgrees`, so a step
  that breaks it is not `OnTime`.

`LedgerProofs` holds what these two need of `Ledger` alone: when a close, a payment to a host or a refund has written what
it should, there is an action of `Ledger` that writes it (`CloseIsStep`, `PayIsStep`, `RefundIsStep`).

Only model-checked: `PendingEnds` of `AsyncTasks`, which is liveness under fairness and beyond this prover, and the
refutations of the runs that expect a violation.

## 5. The plan

In order of what matters to a team's money:

1. `Ledger`, `LedgerProperties`, `LedgerTx` - done, proved, with the refinement of the one by the other.
2. `AsyncTasks` - done, safety proved.
3. `Idempotency` - done, proved.
4. `MoneyAdmission` - done, proved.
5. `AutoTopup` and `Rewards` (billing and referrals) - done, proved.
6. `CallTree` (call path, routing, recipe runs) - done, proved.
7. `OrgConcurrency`: slots in Redis against calls in flight; a slot is released once, only by its owner.
8. `McpOAuth`, `CredentialRefresh`, the hub's script road.

## 6. Not modelled

Pricing, resolution, route plans and catalog (pure decisions over data), identity and access (sequential checks),
capacity marks (best effort), archive and analytics (allowed to drop), the HTTP, CLI and web surfaces.
Of the database the models take row locks, atomic commits and READ COMMITTED reads as given.
