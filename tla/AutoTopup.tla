----------------------------- MODULE AutoTopup -----------------------------
(***************************************************************************)
(* Automatic top-up of one organization (application/billing.py): several  *)
(* web processes refill a low balance by charging a saved card through a   *)
(* Stripe invoice that each of them finds again by its key.  Replies get   *)
(* lost, payments settle late, processes die, webhooks come late, twice or *)
(* in another order, and the owner changes the card and the switch.        *)
(*                                                                         *)
(* The amount is fixed, and every charge is one refill: a changed amount   *)
(* rotates the invoice key as a changed card does.  The balance is below   *)
(* the threshold whenever an attempt begins.  Consent is on file.          *)
(***************************************************************************)
EXTENDS Integers, FiniteSets, Sequences

CONSTANTS
  Procs,        \* web processes: `_lock` allows each one attempt at a time
  Cards,        \* payment methods
  None,         \* no card
  MaxAttempts,  \* failures in a row that turn the policy off
  Cap,          \* refills that the monthly cap allows
  MaxClaims,    \* bound: attempts claimed
  MaxManual     \* bound: manual top-ups

ASSUME AutoTopupAssumption ==
  /\ None \notin Cards /\ {MaxAttempts, Cap} \subseteq Nat \ {0}
  /\ {MaxClaims, MaxManual} \subseteq Nat

VARIABLES
  org,         \* the policy: switch, why it is off, card, failures, and the claim stamp
  cooling,     \* the wait since the claim stamp is not over
  invoices,    \* Stripe's invoices, in the order of their creation
  credited,    \* the invoices whose payment is a credit block
  lastCredit,  \* how many invoices existed at the latest automatic credit
  manual,      \* the cards of the manual top-ups credited
  at,          \* where each process is in its attempt, and what it has read
  late,        \* invoices with a pay request still on its way after its sender gave up
  failedEvents,\* payment_failed events, that Stripe may deliver at any time, and again
  overlapped   \* history: an attempt was still running when its wait was over

stripe == <<invoices, late, failedEvents>>
ledger == <<credited, lastCredit, manual>>
vars == <<org, cooling, stripe, ledger, at, overlapped>>

(* "" stands for the owner and for every other reason that only the owner ends. *)
Reasons == {"", "no_card", "authentication_required", "stripe_unconfirmed", "max_attempts:"}
Unpaid == {"requires_payment_method", "canceled"}
PiStates == Unpaid \cup {"none", "requires_confirmation", "requires_action", "processing", "succeeded"}
Ids == DOMAIN invoices
Key(i) == <<invoices[i].crossing, invoices[i].card>>
Paid == {i \in Ids : invoices[i].status = "paid"}
AtStripe == {"priors", "create", "finalize", "retrieve", "pay", "settle"}
Running(p) == at[p].pc \notin {"idle", "claim"}

Idle == [pc |-> "idle", stamp |-> 0, card |-> None, crossing |-> 0, since |-> 0,
         prior |-> {}, paid |-> {}, inv |-> 0, gen |-> 0, next |-> "", why |-> ""]

TypeOK ==
  /\ org \in [on : BOOLEAN, why : Reasons, card : Cards \cup {None},
              failures : 0..MaxAttempts, stamp : 0..MaxClaims]
  /\ \E n \in 0..MaxClaims : invoices \in
       [1..n -> [crossing : Nat, card : Cards, gen : Nat,
                 status : {"draft", "open", "paid", "void"}, pi : PiStates]]
  /\ credited \subseteq Paid /\ late \subseteq Ids
  /\ failedEvents \subseteq Ids \X {"auth", "decline"}
  /\ lastCredit \in {0} \cup Ids /\ manual \in UNION {[1..n -> Cards] : n \in 0..MaxManual}
  /\ \A p \in Procs : at[p].inv \in {0} \cup Ids /\ at[p].prior \cup at[p].paid \subseteq Ids
  /\ {cooling, overlapped} \subseteq BOOLEAN

Init ==
  /\ org = [on |-> FALSE, why |-> "", card |-> None, failures |-> 0, stamp |-> 0]
  /\ cooling = FALSE /\ invoices = <<>> /\ late = {} /\ failedEvents = {}
  /\ credited = {} /\ lastCredit = 0 /\ manual = <<>>
  /\ at = [p \in Procs |-> Idle]
  /\ overlapped = FALSE

-----------------------------------------------------------------------------
(* The policy of the organization. *)

Disabled(o, reason) == [o EXCEPT !.on = FALSE, !.why = reason]

ArmIfWaitingForCard(o, cardProven, paid, autoPaid) ==
  IF /\ o.card # None /\ ~o.on
     /\ \/ o.why = "no_card"
        \/ cardProven /\ o.why = "max_attempts:"
        \/ paid /\ o.why = "authentication_required"
        \/ autoPaid /\ o.why = "stripe_unconfirmed"
    THEN [o EXCEPT !.on = TRUE, !.why = "", !.failures = 0]
    ELSE o

SetDefaultPm(o, card, paid) ==
  ArmIfWaitingForCard([o EXCEPT !.card = card], paid \/ o.card # card, paid, FALSE)

(* The count is saved before the policy is turned off: a process may die between the two. *)
AfterFailure(o, reason) ==
  LET counted == [o EXCEPT !.failures = IF @ < MaxAttempts THEN @ + 1 ELSE @]
      off == Disabled(counted, IF reason = "stripe_unconfirmed" THEN reason ELSE "max_attempts:")
  IN IF counted.failures >= MaxAttempts THEN {counted, off} ELSE {counted}

OwnerTurnsOn ==
  /\ org' = [org EXCEPT !.on = org.card # None, !.failures = 0,
                        !.why = IF org.card = None THEN "no_card" ELSE ""]
  /\ UNCHANGED <<cooling, stripe, ledger, at, overlapped>>

OwnerTurnsOff ==
  /\ org' = Disabled(org, "")
  /\ UNCHANGED <<cooling, stripe, ledger, at, overlapped>>

(* setup_intent.succeeded *)
CardSaved(card) ==
  /\ org' = SetDefaultPm(org, card, FALSE)
  /\ UNCHANGED <<cooling, stripe, ledger, at, overlapped>>

(* checkout.session.completed: a manual payment is credited, and then, unless the process dies
   between the two commits, its card remembered. *)
ManualTopUp(card) ==
  /\ Len(manual) < MaxManual
  /\ manual' = Append(manual, card)
  /\ LET cleared == [org EXCEPT !.failures = 0] IN org' \in {cleared, SetDefaultPm(cleared, card, TRUE)}
  /\ UNCHANGED <<cooling, stripe, credited, lastCredit, at, overlapped>>

(* The same event again, however late: nothing to credit, but the card is remembered again. *)
ManualTopUpAgain ==
  /\ \E k \in DOMAIN manual : org' = SetDefaultPm(org, manual[k], TRUE)
  /\ UNCHANGED <<cooling, stripe, ledger, at, overlapped>>

(* payment_intent.succeeded of an invoice, delivered at least once; only the first one credits. *)
PaymentSucceeded(i) ==
  /\ i \in Paid
  /\ credited' = credited \cup {i}
  /\ lastCredit' = IF i \in credited THEN lastCredit ELSE Cardinality(Ids)
  /\ LET cleared == IF i \in credited THEN org
                    ELSE ArmIfWaitingForCard([org EXCEPT !.failures = 0], FALSE, FALSE, TRUE)
     IN org' \in {cleared, SetDefaultPm(cleared, invoices[i].card, TRUE)}
  /\ UNCHANGED <<cooling, stripe, manual, at, overlapped>>

(* revoke_refunded: a refund not seen before of a payment that was credited. *)
PaymentRefunded ==
  /\ org.on /\ (credited # {} \/ manual # <<>>)
  /\ org' = Disabled(org, "")
  /\ UNCHANGED <<cooling, stripe, ledger, at, overlapped>>

-----------------------------------------------------------------------------
(* Stripe.  It voids an open invoice only while the payment cannot be under way, which cancels
   the payment; an idempotency key replays, so one key stands for one invoice. *)

Voidable(i) == invoices[i].status = "open" /\ invoices[i].pi \notin {"processing", "succeeded"}
Voided(i) == IF Voidable(i) THEN [invoices EXCEPT ![i].status = "void", ![i].pi = "canceled"] ELSE invoices

(* A payment comes to an outcome; a refused one is announced by an event. *)
PaymentMoves(i, pi) ==
  /\ invoices' = [invoices EXCEPT ![i].pi = pi, ![i].status = IF pi = "succeeded" THEN "paid" ELSE @]
  /\ failedEvents' = failedEvents \cup
       (CASE pi = "requires_action" -> {<<i, "auth">>}
          [] pi = "requires_payment_method" -> {<<i, "decline">>}
          [] OTHER -> {})

Payable(i) == invoices[i].status = "open" /\ invoices[i].pi = "requires_confirmation"
PayOutcomes == {"succeeded", "processing", "requires_action", "requires_payment_method"}

(* A pay request arrives although its sender has stopped waiting for the answer. *)
LatePay(i) ==
  /\ i \in late
  /\ late' = late \ {i}
  /\ IF Payable(i) THEN \E pi \in PayOutcomes : PaymentMoves(i, pi)
                   ELSE UNCHANGED <<invoices, failedEvents>>
  /\ UNCHANGED <<org, cooling, ledger, at, overlapped>>

(* A payment under way settles, or the customer authenticates it. *)
PaymentSettles(i) ==
  /\ invoices[i].status = "open"
  /\ \/ invoices[i].pi \in {"processing", "requires_action"} /\ PaymentMoves(i, "succeeded")
     \/ invoices[i].pi = "processing" /\ PaymentMoves(i, "requires_payment_method")
  /\ UNCHANGED <<org, cooling, ledger, at, late, overlapped>>

(* _void_auth_invoice: what it may leave of the invoices, and whether it could confirm the void. *)
VoidAuth(i, left, confirmed) ==
  CASE invoices[i].status = "void" -> left = invoices
    [] Voidable(i) /\ invoices[i].pi \in Unpaid \cup {"requires_action"} ->
         left = Voided(i) \/ (~confirmed /\ left = invoices)
    [] OTHER -> ~confirmed /\ left = invoices

(* _pause_for_auth *)
PauseForAuth(i) ==
  \E left \in {invoices, Voided(i)}, confirmed \in BOOLEAN :
    /\ VoidAuth(i, left, confirmed)
    /\ invoices' = left
    /\ org' = Disabled(org, IF confirmed THEN "authentication_required" ELSE "stripe_unconfirmed")

(* payment_intent.payment_failed of an invoice. *)
PaymentFailed(e) ==
  /\ e \in failedEvents
  /\ IF e[2] = "decline"
       THEN org' \in AfterFailure(org, "declined") /\ UNCHANGED invoices
       ELSE IF invoices[e[1]].status = "void" THEN UNCHANGED <<org, invoices>> ELSE PauseForAuth(e[1])
  /\ UNCHANGED <<cooling, late, failedEvents, ledger, at, overlapped>>

-----------------------------------------------------------------------------
(* attempt_auto_topup, up to its claim. *)

(* What the guards ask of the policy. *)
MayTry(p) == at[p].pc = "idle" /\ org.on /\ org.card # None

(* An earlier process died after it counted the last failure. *)
FindsAttemptsUsedUp(p) ==
  /\ MayTry(p) /\ org.failures >= MaxAttempts
  /\ org' = Disabled(org, "")
  /\ UNCHANGED <<cooling, stripe, ledger, at, overlapped>>

Begin(p) ==
  /\ MayTry(p) /\ org.failures < MaxAttempts /\ ~cooling /\ Cardinality(credited) < Cap
  /\ org.stamp < MaxClaims
  /\ at' = [at EXCEPT ![p] = [Idle EXCEPT !.pc = "claim", !.stamp = org.stamp, !.card = org.card]]
  /\ UNCHANGED <<org, cooling, stripe, ledger, overlapped>>

(* A compare-and-set of the stamp; the winner reads what its invoice key is made of. *)
Claim(p) ==
  /\ at[p].pc = "claim"
  /\ IF org.stamp = at[p].stamp
       THEN /\ org' = [org EXCEPT !.stamp = @ + 1]
            /\ cooling' = TRUE
            /\ at' = [at EXCEPT ![p].pc = "look", ![p].stamp = 0, ![p].since = lastCredit,
                                ![p].crossing = Cardinality(credited) + Len(manual)]
       ELSE at' = [at EXCEPT ![p] = Idle] /\ UNCHANGED <<org, cooling>>
  /\ UNCHANGED <<stripe, ledger, overlapped>>

WaitEnds ==
  /\ cooling /\ cooling' = FALSE
  /\ overlapped' = (overlapped \/ \E p \in Procs : Running(p))
  /\ UNCHANGED <<org, stripe, ledger, at>>

-----------------------------------------------------------------------------
(* _attempt_invoice: the attempt's own invoice, and no other one that may still charge. *)

Goto(p, pc) == at' = [at EXCEPT ![p].pc = pc]
Fail(p, pc, why) ==
  at' = [at EXCEPT ![p] = [Idle EXCEPT !.pc = pc, !.why = why,
                             !.card = IF why = "no_card" THEN at[p].card ELSE None,
                             !.inv = IF pc = "stop" THEN at[p].inv ELSE 0]]

(* Invoice.list.  An invoice of the same key that is not void serves this attempt too. *)
Look(p) ==
  /\ at[p].pc = "look"
  /\ LET mine == {i \in Ids : Key(i) = <<at[p].crossing, at[p].card>>}
         active == {i \in mine : invoices[i].status # "void"}
         found == IF active = {} THEN 0 ELSE CHOOSE i \in active : TRUE
     IN at' = [at EXCEPT
          ![p].pc = "priors", ![p].since = 0,
          ![p].prior = {i \in Ids \ mine : invoices[i].status \in {"draft", "open"}},
          ![p].paid = {i \in Paid \ mine : i > at[p].since},
          ![p].inv = found,
          ![p].gen = Cardinality(mine \ active),
          ![p].next = IF found = 0 THEN "create"
                      ELSE CASE invoices[found].status = "draft" -> "finalize"
                             [] invoices[found].status = "open" -> "retrieve"
                             [] invoices[found].status = "paid" -> "settle"]
  /\ UNCHANGED <<org, cooling, stripe, ledger, overlapped>>

(* An unfinished invoice of another key is read again: void it if its payment cannot succeed. *)
SafeToVoid(p, i) ==
  invoices[i].pi \in Unpaid \/ (invoices[i].pi = "requires_action" /\ invoices[i].card # at[p].card)

CheckPrior(p, i) ==
  LET settled == [at[p] EXCEPT !.prior = @ \ {i}]
      unresolved == [Idle EXCEPT !.pc = "fail", !.why = "stripe_unconfirmed"]
  IN
  /\ at[p].pc = "priors" /\ i \in at[p].prior
  /\ CASE invoices[i].status = "paid" ->
            at' = [at EXCEPT ![p] = [settled EXCEPT !.paid = @ \cup {i}]] /\ UNCHANGED invoices
       [] invoices[i].status = "void" -> at' = [at EXCEPT ![p] = settled] /\ UNCHANGED invoices
       [] invoices[i].status = "open" /\ SafeToVoid(p, i) ->
            /\ invoices' = Voided(i)
            /\ at' \in {[at EXCEPT ![p] = settled], [at EXCEPT ![p] = unresolved]}
       [] OTHER -> at' = [at EXCEPT ![p] = unresolved] /\ UNCHANGED invoices
  /\ UNCHANGED <<org, cooling, late, failedEvents, ledger, overlapped>>

(* A paid invoice since the latest automatic credit must be one that the ledger knows. *)
AllCreditedUnchecked(p) == TRUE
AllCredited(p) == at[p].paid \subseteq credited

CheckPaid(p) ==
  /\ at[p].pc = "priors" /\ at[p].prior = {}
  /\ IF AllCredited(p)
       THEN at' = [at EXCEPT ![p].pc = at[p].next, ![p].paid = {}, ![p].next = ""]
       ELSE Fail(p, "fail", "stripe_unconfirmed")
  /\ UNCHANGED <<org, cooling, stripe, ledger, overlapped>>

-----------------------------------------------------------------------------
(* The invoice and its payment. *)

(* Invoice.create: the crossing, the card and the generation are its idempotency key. *)
SameRequestUnkeyed(p) == {}
SameRequest(p) ==
  {i \in Ids : Key(i) = <<at[p].crossing, at[p].card>> /\ invoices[i].gen = at[p].gen}

Create(p) ==
  LET new == [crossing |-> at[p].crossing, card |-> at[p].card, gen |-> at[p].gen,
              status |-> "draft", pi |-> "none"]
      same == SameRequest(p)
  IN
  /\ at[p].pc = "create"
  /\ invoices' = IF same = {} THEN Append(invoices, new) ELSE invoices
  /\ at' = [at EXCEPT ![p].pc = "finalize",
                      ![p].inv = IF same = {} THEN Len(invoices) + 1 ELSE CHOOSE i \in same : TRUE]
  /\ UNCHANGED <<org, cooling, late, failedEvents, ledger, overlapped>>

(* The line item and Invoice.finalize; answered as the first time when it was done before. *)
Finalize(p) ==
  LET i == at[p].inv IN
  /\ at[p].pc = "finalize"
  /\ invoices' = IF invoices[i].status = "draft"
                   THEN [invoices EXCEPT ![i].status = "open", ![i].pi = "requires_confirmation"]
                   ELSE invoices
  /\ Goto(p, "retrieve")
  /\ UNCHANGED <<org, cooling, late, failedEvents, ledger, overlapped>>

Retrieve(p) ==
  LET i == at[p].inv IN
  /\ at[p].pc = "retrieve"
  /\ CASE invoices[i].status = "paid" -> Goto(p, "settle")
       [] invoices[i].status = "void" -> Fail(p, "fail", "card_declined")
       [] Payable(i) -> Goto(p, "pay")
       [] invoices[i].status = "open" /\ invoices[i].pi \in Unpaid -> Fail(p, "stop", "card_declined")
       [] OTHER -> Fail(p, "fail", "stripe_unconfirmed")
  /\ UNCHANGED <<org, cooling, stripe, ledger, overlapped>>

(* What the process does about the outcome that Invoice.pay answers. *)
AfterPayHopeful(p, pi) ==
  CASE pi = "requires_action" -> Goto(p, "pause")
    [] pi \in Unpaid -> Fail(p, "stop", "card_declined")
    [] OTHER -> Goto(p, "settle")

AfterPay(p, pi) ==
  CASE pi = "succeeded" -> Goto(p, "settle")
    [] pi = "requires_action" -> Goto(p, "pause")
    [] pi \in Unpaid -> Fail(p, "stop", "card_declined")
    [] OTHER -> Fail(p, "fail", "stripe_unconfirmed")

(* Another process may have sent this request first: then it gets the answer to that one. *)
Pay(p) ==
  LET i == at[p].inv IN
  /\ at[p].pc = "pay"
  /\ IF Payable(i)
       THEN \E pi \in PayOutcomes : PaymentMoves(i, pi) /\ AfterPay(p, pi)
       ELSE AfterPay(p, invoices[i].pi) /\ UNCHANGED <<invoices, failedEvents>>
  /\ UNCHANGED <<org, cooling, late, ledger, overlapped>>

(* The card itself is refused, nothing was charged. *)
CardRefused(p) ==
  /\ at[p].pc = "pay" /\ Payable(at[p].inv)
  /\ Fail(p, "stop", "no_card")
  /\ UNCHANGED <<org, cooling, stripe, ledger, overlapped>>

PayUnanswered(p) ==
  /\ at[p].pc = "pay"
  /\ late' = late \cup {at[p].inv}
  /\ Fail(p, "fail", "stripe_unconfirmed")
  /\ UNCHANGED <<org, cooling, invoices, failedEvents, ledger, overlapped>>

(* Any other request to Stripe fails, or its answer is lost. *)
StripeFails(p) ==
  /\ at[p].pc \in AtStripe \ {"pay"}
  /\ Fail(p, "fail", "stripe_unconfirmed")
  /\ UNCHANGED <<org, cooling, stripe, ledger, overlapped>>

(* Stripe is still running another request on this invoice. *)
StripeBusy(p) ==
  /\ at[p].pc \in {"finalize", "pay"}
  /\ at[p].inv \in late \cup {at[q].inv : q \in Procs \ {p}}
  /\ at' = [at EXCEPT ![p] = Idle]
  /\ UNCHANGED <<org, cooling, stripe, ledger, overlapped>>

-----------------------------------------------------------------------------
(* How an attempt ends. *)

(* Credit, failure count and policy in one commit. *)
Settle(p) ==
  LET i == at[p].inv IN
  /\ at[p].pc = "settle"
  /\ credited' = credited \cup {i}
  /\ lastCredit' = IF i \in credited THEN lastCredit ELSE Cardinality(Ids)
  /\ org' = ArmIfWaitingForCard([org EXCEPT !.failures = 0], TRUE, TRUE, TRUE)
  /\ at' = [at EXCEPT ![p] = Idle]
  /\ UNCHANGED <<cooling, stripe, manual, overlapped>>

(* _stop_failed_invoice: a failure to void it is only logged. *)
StopFailedInvoice(p) ==
  /\ at[p].pc = "stop"
  /\ invoices' \in {Voided(at[p].inv), invoices}
  /\ Fail(p, "fail", at[p].why)
  /\ UNCHANGED <<org, cooling, late, failedEvents, ledger, overlapped>>

Pause(p) ==
  /\ at[p].pc = "pause"
  /\ PauseForAuth(at[p].inv)
  /\ at' = [at EXCEPT ![p] = Idle]
  /\ UNCHANGED <<cooling, late, failedEvents, ledger, overlapped>>

(* _card_gone: unless another card was saved since. *)
CardGone(o, card) ==
  IF o.card # card THEN o
  ELSE LET forgotten == [o EXCEPT !.card = None, !.failures = 0]
       IN IF o.on THEN Disabled(forgotten, "no_card") ELSE forgotten

RecordFailure(p) ==
  /\ at[p].pc = "fail"
  /\ IF at[p].why = "no_card" THEN org' = CardGone(org, at[p].card)
                              ELSE org' \in AfterFailure(org, at[p].why)
  /\ at' = [at EXCEPT ![p] = Idle]
  /\ UNCHANGED <<cooling, stripe, ledger, overlapped>>

(* The process dies; a pay request it has sent may still arrive. *)
Crash(p) ==
  /\ at[p].pc # "idle"
  /\ at' = [at EXCEPT ![p] = Idle]
  /\ late' \in {late} \cup (IF at[p].pc = "pay" THEN {late \cup {at[p].inv}} ELSE {})
  /\ UNCHANGED <<org, cooling, invoices, failedEvents, ledger, overlapped>>

Attempt(p) ==
  \/ FindsAttemptsUsedUp(p) \/ Begin(p) \/ Claim(p) \/ Look(p)
  \/ \E i \in at[p].prior : CheckPrior(p, i)
  \/ CheckPaid(p) \/ Create(p) \/ Finalize(p) \/ Retrieve(p)
  \/ Pay(p) \/ CardRefused(p) \/ PayUnanswered(p) \/ StripeFails(p) \/ StripeBusy(p)
  \/ Settle(p) \/ StopFailedInvoice(p) \/ Pause(p) \/ RecordFailure(p) \/ Crash(p)

Automatic ==
  \/ ManualTopUpAgain \/ PaymentRefunded \/ WaitEnds
  \/ \E card \in Cards : CardSaved(card) \/ ManualTopUp(card)
  \/ \E i \in Ids : PaymentSucceeded(i) \/ LatePay(i) \/ PaymentSettles(i)
  \/ \E e \in failedEvents : PaymentFailed(e)
  \/ \E p \in Procs : Attempt(p)

Next == OwnerTurnsOn \/ OwnerTurnsOff \/ Automatic

Spec == Init /\ [][Next]_vars
=============================================================================
