------------------------------ MODULE CallTree ------------------------------
(***************************************************************************)
(* Who closes the holds of one request, and what its caller is told of     *)
(* them.  A request is one call of an endpoint, a routed call whose router *)
(* asks providers one after another, or a hub run whose steps are tasks.   *)
(* Each child is a call of its own (application/call/service.py) with a    *)
(* hold, perhaps a second hold for an overflow attempt (overflow.py); a    *)
(* routed child leaves the closing to its parent (settle.py, route.py); a  *)
(* hub run holds its author's price besides (hub/runner.py).               *)
(*                                                                         *)
(* A cancelled task dies at the await it stands at: the transaction it     *)
(* waits for may or may not commit, and nobody hears of it.  What nobody   *)
(* closes any more is left to the reaper; the ledger itself is Ledger.tla. *)
(***************************************************************************)
EXTENDS Naturals, FiniteSets

CONSTANTS
  Kids,        \* calls that may run under the request
  Tops,        \* the kinds of request
  MaxCancels,  \* how often the caller, or its connection, cancels
  MaxFaults    \* how many money transactions fail

ASSUME CallTreeAssumption ==
  /\ Tops \subseteq {"direct", "routed", "hub"}
  /\ MaxCancels \in Nat /\ MaxFaults \in Nat

VARIABLES
  top,       \* the request: where it stands, how it ended, the charges its answer states
  kid,       \* each call: where it stands, its answer, its overflow answer, the charges it states
  hold,      \* each hold
  deferred,  \* pending: holds that children left to the router
  dying,     \* steps that the run cancelled at its wall clock
  orphaned,  \* holds whose closer gave up: the reaper's
  cancels, faults

vars == <<top, kid, hold, deferred, dying, orphaned, cancels, faults>>

Own(k) == <<k, "own">>             \* call_ref
Extra(k) == <<k, "overflow">>      \* call_ref:overflow
Price == <<"run", "price">>        \* run_id:price
Holds == {Own(k) : k \in Kids} \cup {Extra(k) : k \in Kids} \cup {Price}

Waiting == {"reserving", "ready", "sent", "closing", "after", "overflowing", "overSent", "overClosing"}
Returned == {"done", "failed", "cancelled", "crashed"}      \* its task is over, nobody looked yet
Collected == {"answered", "refused"}

TypeOK ==
  /\ top \in [kind : Tops, told : SUBSET Holds, out : {"", "answered", "pending", "failed", "cancelled", "crashed"},
              at : {"pricing", "tooDear", "running", "stopping", "closing", "recording", "rescue", "over"}]
  /\ kid \in [Kids -> [at : Waiting \cup Returned \cup Collected \cup {"idle", "cleaning"},
                       how : {"", "skip", "limited", "none", "unbilled", "billed", "burst", "reported", "task",
                              "quantity", "crash"},
                       over : {"", "served", "unpriced", "free", "turned", "contract", "crashed", "refused"},
                       told : SUBSET Holds]]
  /\ hold \in [Holds -> {"none", "open", "taken", "returned", "task"}]
  /\ deferred \subseteq Holds /\ orphaned \subseteq Holds /\ dying \subseteq Kids
  /\ cancels \in 0 .. MaxCancels /\ faults \in 0 .. MaxFaults
  /\ deferred # {} => top.kind = "routed"
  /\ \A k \in Kids : /\ kid[k].told \subseteq {Own(k), Extra(k)}
                     /\ kid[k].at = "idle" => hold[Own(k)] = "none" /\ hold[Extra(k)] = "none"

Init ==
  /\ \E t \in Tops : top = [kind |-> t, told |-> {}, out |-> "",
                            at |-> IF t = "hub" THEN "pricing" ELSE "running"]
  /\ kid = [k \in Kids |-> [at |-> "idle", how |-> "", over |-> "", told |-> {}]]
  /\ hold = [h \in Holds |-> "none"]
  /\ deferred = {} /\ dying = {} /\ orphaned = {}
  /\ cancels = 0 /\ faults = 0

-----------------------------------------------------------------------------
(* Helpers *)

Alive(k) == k \notin dying
Working(k) == kid[k].at \in Waiting \cup {"cleaning"}
Idle(k) == kid[k].at \in {"idle"} \cup Collected
Forced(k) == kid[k].how \in {"skip", "limited"}      \* no direct answer to fall back on

(* Every close claims its hold first, and leaves one that is closed alone.  One that fails is
   rolled back. *)
Close(h, state) == [hold EXCEPT ![h] = IF @ = "open" THEN state ELSE @]

Goto(k, at) == kid' = [kid EXCEPT ![k].at = at]
Tell(k, at, told) == kid' = [kid EXCEPT ![k].at = at, ![k].told = @ \cup told]

Fails == faults < MaxFaults /\ faults' = faults + 1
Abandon(H) == orphaned' = orphaned \cup {h \in H : hold'[h] = "open"}

-----------------------------------------------------------------------------
(* One call: _execute_call *)

(* execute_child: the router and a direct request run one call at a time. *)
Start(k) ==
  /\ top.at = "running" /\ kid[k].at = "idle"
  /\ top.kind = "routed" => \A j \in Kids : Idle(j)
  /\ top.kind = "direct" => \A j \in Kids : kid[j].at = "idle"
  /\ \/ Goto(k, "reserving")
     \/ kid' = [kid EXCEPT ![k].at = "overflowing", ![k].how = "skip"]     \* mk.skip_direct
  /\ UNCHANGED <<top, hold, deferred, dying, orphaned, cancels, faults>>

(* _platform_reserve: a hold, or none for a free call outside a route, or a refusal; a read that
   fails after the commit leaves the hold to the reaper, and is no refusal that a parent expects. *)
Reserve(k) ==
  /\ kid[k].at = "reserving" /\ Alive(k)
  /\ \/ /\ Goto(k, "ready")
        /\ hold' = [hold EXCEPT ![Own(k)] = "open"]
        /\ UNCHANGED <<orphaned, faults>>
     \/ /\ \/ top.kind # "routed" /\ Goto(k, "ready")
           \/ Goto(k, "failed")
        /\ UNCHANGED <<hold, orphaned, faults>>
     \/ /\ Fails
        /\ Goto(k, "crashed")
        /\ hold' = [hold EXCEPT ![Own(k)] = "open"]
        /\ Abandon({Own(k)})
  /\ UNCHANGED <<top, deferred, dying, cancels>>

(* Credentials, rate window, quota: the request leaves, or a refusal or an error returns the hold. *)
Dispatch(k) ==
  /\ kid[k].at = "ready" /\ Alive(k)
  /\ \/ Goto(k, "sent")
     \/ \E how \in {"none", "limited", "crash"} : kid' = [kid EXCEPT ![k].at = "closing", ![k].how = how]
  /\ UNCHANGED <<top, hold, deferred, dying, orphaned, cancels, faults>>

(* The provider's answer, as the settlement reads it: no answer, one that costs nothing, one that
   is billed, an error that is billed on the provider's word and says that its rate window is full,
   an accepted task, or a refused task with a charge the provider reports; or to relay it, or to
   read its stream, raises. *)
Answer(k) ==
  /\ kid[k].at = "sent" /\ Alive(k)
  /\ \E how \in {"none", "unbilled", "billed", "burst", "reported", "task", "crash"} :
       /\ hold[Own(k)] = "none" => how # "task"
       /\ kid' = [kid EXCEPT ![k].at = "closing", ![k].how = how]
  /\ UNCHANGED <<top, hold, deferred, dying, orphaned, cancels, faults>>

(* A routed child that is billed on the provider's answer alone leaves its hold to the router. *)
DeferrableAnywhere(how) == how \in {"billed", "burst", "unpriced"}
Deferrable(how) == top.kind = "routed" /\ how \in {"billed", "burst", "unpriced"}

Charged(how) == IF how \in {"billed", "burst", "reported", "served", "unpriced"} THEN "taken"
                ELSE IF how = "task" THEN "task" ELSE "returned"
Stated(h) == IF hold[h] = "open" /\ hold'[h] \in {"taken", "task"} THEN {h} ELSE {}

(* _platform_settle, defer_submission: never raises.  A submission that cannot be recorded is
   released; a close that fails states no charge and leaves the hold to the reaper. *)
CloseOwn(k) ==
  /\ kid[k].at = "closing" /\ Alive(k)
  /\ LET h == Own(k)
         how == kid[k].how
     IN  \/ /\ hold[h] = "open" /\ Deferrable(how)
            /\ deferred' = deferred \cup {h}
            /\ Tell(k, "after", {h})
            /\ UNCHANGED <<hold, orphaned, faults>>
         \/ /\ ~Deferrable(how)
            /\ hold' = Close(h, Charged(how))
            /\ Tell(k, "after", Stated(h))
            /\ UNCHANGED <<deferred, orphaned, faults>>
         \/ /\ hold[h] = "open" /\ ~Deferrable(how) /\ Fails
            /\ hold' = IF how = "task" THEN Close(h, "returned") ELSE hold
            /\ Abandon({h})
            /\ Goto(k, "after")
            /\ UNCHANGED deferred
  /\ UNCHANGED <<top, dying, cancels>>

(* What costs nothing may say that treg's account is out, and even an error that is billed that its
   rate window is full: another provider of the same data may serve then. *)
After(k) ==
  /\ kid[k].at = "after" /\ Alive(k)
  /\ \/ kid[k].how = "none" /\ Goto(k, "failed")
     \/ kid[k].how = "crash" /\ Goto(k, "crashed")
     \/ kid[k].how \notin {"none", "limited", "crash"} /\ Goto(k, "done")
     \/ kid[k].how \in {"unbilled", "limited", "burst"} /\ Goto(k, "overflowing")
  /\ UNCHANGED <<top, hold, deferred, dying, orphaned, cancels, faults>>

(* What stands when no aggregator serves: the provider's answer, if there is one. *)
Standing(k) == IF Forced(k) THEN "failed" ELSE "done"

(* _maybe_overflow_attempt up to the request: no route or budget, a hold of its own, a refusal,
   or a reserve that raises after its commit (the child is not in `reserved` yet). *)
Overflow(k) ==
  /\ kid[k].at = "overflowing" /\ Alive(k)
  /\ \/ /\ Goto(k, "overSent")
        /\ hold' = [hold EXCEPT ![Extra(k)] = "open"]
        /\ UNCHANGED <<orphaned, faults>>
     \/ /\ Goto(k, Standing(k)) \/ Goto(k, "failed")
        /\ UNCHANGED <<hold, orphaned, faults>>
     \/ /\ Fails
        /\ hold' = [hold EXCEPT ![Extra(k)] = "open"]
        /\ Abandon({Extra(k)})
        /\ Goto(k, Standing(k))
  /\ UNCHANGED <<top, deferred, dying, cancels>>

(* The aggregator serves at a price it names, or names none, or the answer is not billable; it
   fails or refuses; or the attempt crashes, or the quota check refuses it before it leaves. *)
OverAnswer(k) ==
  /\ kid[k].at = "overSent" /\ Alive(k)
  /\ \E over \in {"served", "unpriced", "free", "turned", "contract", "crashed", "refused"} :
       /\ over = "refused" => Forced(k)
       /\ kid' = [kid EXCEPT ![k].at = "overClosing", ![k].over = over]
  /\ UNCHANGED <<top, hold, deferred, dying, orphaned, cancels, faults>>

OverflowEnd(k) ==
  CASE kid[k].over \in {"served", "unpriced", "free"} -> "done"
    [] kid[k].over \in {"turned", "refused"} -> "failed"
    [] OTHER -> Standing(k)

(* The child cycle's settle: a price from the aggregator is settled at once, even under a route. *)
CloseOver(k) ==
  /\ kid[k].at = "overClosing" /\ Alive(k)
  /\ LET h == Extra(k)
         over == kid[k].over
     IN  \/ /\ Deferrable(over)
            /\ deferred' = deferred \cup {h}
            /\ Tell(k, "done", {h})
            /\ UNCHANGED <<hold, orphaned, faults>>
         \/ /\ ~Deferrable(over)
            /\ hold' = Close(h, Charged(over))
            /\ Tell(k, OverflowEnd(k), Stated(h))
            /\ UNCHANGED <<deferred, orphaned, faults>>
         \/ /\ ~Deferrable(over) /\ Fails
            /\ UNCHANGED <<hold, deferred>>
            /\ Abandon({h})
            /\ Goto(k, OverflowEnd(k))
  /\ UNCHANGED <<top, dying, cancels>>

-----------------------------------------------------------------------------
(* Cancellation *)

(* The cancel arrives at the await the call stands at; a transaction under way may still commit.
   A purchase of units that has left may have been made. *)
InFlight(k) ==
  CASE kid[k].at = "reserving" -> {hold, [hold EXCEPT ![Own(k)] = "open"]}
    [] kid[k].at = "closing" -> IF Deferrable(kid[k].how) THEN {hold}
                                ELSE {hold, Close(Own(k), Charged(kid[k].how))}
    [] kid[k].at = "overflowing" -> {hold, [hold EXCEPT ![Extra(k)] = "open"]}
    [] kid[k].at = "overClosing" -> IF Deferrable(kid[k].over) THEN {hold}
                                    ELSE {hold, Close(Extra(k), Charged(kid[k].over))}
    [] OTHER -> {hold}

Interrupt(k) ==
  /\ kid[k].at \in Waiting
  /\ hold' \in InFlight(k)
  /\ \E how \in {kid[k].how} \cup (IF kid[k].at = "sent" THEN {"quantity"} ELSE {}) :
       kid' = [kid EXCEPT ![k].at = "cleaning", ![k].how = how, ![k].told = {}]

(* _finish_cancelled_call, shielded from further cancels: both holds by name, whether or not they
   were seen to open.  A purchase that was sent is charged, everything else returned. *)
CleanedParentOnly(k) == {Own(k)}
CleanedHolds(k) == {Own(k), Extra(k)}

Cleaned(k) ==
  [h \in Holds |->
     IF h \in CleanedHolds(k) /\ hold[h] \in {"open", "task"}
     THEN IF h = Own(k) /\ kid[k].how = "quantity" THEN "taken" ELSE "returned"
     ELSE hold[h]]

Clean(k) ==
  /\ kid[k].at = "cleaning"
  /\ Goto(k, "cancelled")
  /\ \/ hold' = Cleaned(k) /\ UNCHANGED <<orphaned, faults>>
     \/ Fails /\ UNCHANGED hold /\ Abandon(CleanedHolds(k))
  /\ UNCHANGED <<top, deferred, dying, cancels>>

(* The request's own task: of a direct or routed call the task of the child under way as well. *)
CancelCall ==
  /\ cancels < MaxCancels /\ cancels' = cancels + 1
  /\ top.kind # "hub"
  /\ \E k \in Kids : Interrupt(k)
  /\ UNCHANGED <<top, deferred, dying, orphaned, faults>>

(* A step that its run cancelled gets to know it. *)
Doomed(k) ==
  /\ k \in dying /\ dying' = dying \ {k}
  /\ Interrupt(k)
  /\ UNCHANGED <<top, deferred, orphaned, cancels, faults>>

-----------------------------------------------------------------------------
(* The request: what it makes of its children *)

Charges(told) == top.told \cup told
End(out, told) == [top EXCEPT !.at = "over", !.out = out, !.told = told]
Leave(out, told) == [top EXCEPT !.at = "closing", !.out = out, !.told = told]
Stop(out, told) == [top EXCEPT !.at = "rescue", !.out = out, !.told = told]

(* A refusal states no charge, not even that of the direct answer it came after. *)
Says(k) == IF kid[k].at = "done" THEN kid[k].told ELSE {}

Looked(k) == Goto(k, IF kid[k].at = "done" THEN "answered" ELSE "refused")

(* A direct call's answer is the request's. *)
Relay(k) ==
  /\ top.kind = "direct" /\ top.at = "running"
  /\ \/ kid[k].at = "done" /\ top' = End("answered", Says(k)) /\ Looked(k)
     \/ kid[k].at = "failed" /\ top' = End("failed", Says(k)) /\ Looked(k)
     \/ kid[k].at = "crashed" /\ top' = End("crashed", {}) /\ Looked(k)
     \/ kid[k].at = "cancelled" /\ top' = End("cancelled", {}) /\ UNCHANGED kid
  /\ UNCHANGED <<hold, deferred, dying, orphaned, cancels, faults>>

(* _run_routed reads a child's answer; it waits for an accepted task, whose end settles or
   releases its hold, and gives the caller a task that does not end. *)
Weigh(k) ==
  /\ top.kind = "routed" /\ top.at = "running"
  /\ \/ /\ kid[k].at \in {"done", "failed"}
        /\ hold[Own(k)] # "task"
        /\ top' = [top EXCEPT !.told = Charges(Says(k))]
        /\ Looked(k)
        /\ UNCHANGED hold
     \/ /\ kid[k].at = "done" /\ hold[Own(k)] = "task" /\ Looked(k)
        /\ \/ /\ hold' = [hold EXCEPT ![Own(k)] = "taken"]
              /\ top' = [top EXCEPT !.told = Charges({Own(k)})]
           \/ hold' = [hold EXCEPT ![Own(k)] = "returned"] /\ UNCHANGED top
           \/ UNCHANGED hold /\ top' = Leave("pending", top.told)
     \/ /\ \/ kid[k].at = "cancelled" /\ top' = Leave("cancelled", {})
           \/ kid[k].at = "crashed" /\ top' = Leave("crashed", {})
        /\ UNCHANGED <<kid, hold>>
  /\ UNCHANGED <<deferred, dying, orphaned, cancels, faults>>

(* The router is satisfied, gives up, or is cancelled between two children. *)
RouteEnds ==
  /\ top.kind = "routed" /\ top.at = "running" /\ \A k \in Kids : Idle(k)
  /\ \/ /\ \E k \in Kids : kid[k].at = "answered"
        /\ top' = Leave("answered", top.told) /\ UNCHANGED cancels
     \/ top' = Leave("failed", {}) /\ UNCHANGED cancels
     \/ cancels < MaxCancels /\ cancels' = cancels + 1 /\ top' = Leave("cancelled", {})
  /\ UNCHANGED <<kid, hold, deferred, dying, orphaned, faults>>

(* close_deferred: one transaction for all of `pending`, which is emptied first.  It charges them
   when the router returned an answer, and returns them when it raised. *)
ChargesWhateverHappened == TRUE
ChargesDeferred == top.out \in {"answered", "pending"}

CloseDeferred ==
  [h \in Holds |-> IF h \in deferred /\ hold[h] = "open"
                   THEN IF ChargesDeferred THEN "taken" ELSE "returned"
                   ELSE hold[h]]

CloseRoute ==
  /\ top.kind = "routed" /\ top.at = "closing"
  /\ \/ /\ hold' = CloseDeferred
        /\ top' = [top EXCEPT !.at = "over"]
        /\ UNCHANGED <<orphaned, cancels, faults>>
     \/ /\ Fails                                       \* only logged
        /\ UNCHANGED <<hold, cancels>>
        /\ Abandon(deferred)
        /\ top' = [top EXCEPT !.at = "over"]
     \/ /\ cancels < MaxCancels /\ cancels' = cancels + 1
        /\ hold' \in {hold, CloseDeferred}
        /\ Abandon(deferred)
        /\ top' = End("cancelled", {})
        /\ UNCHANGED faults
  /\ deferred' = {}
  /\ UNCHANGED <<kid, dying>>

-----------------------------------------------------------------------------
(* A hub run *)

(* _reserve_price: none for the author's own team; refused; or above the caller's ceiling.  A
   cancel here finds nobody who would close what it may leave. *)
HubReserve ==
  /\ top.at = "pricing"
  /\ \/ /\ hold' \in {hold, [hold EXCEPT ![Price] = "open"]}
        /\ top' = [top EXCEPT !.at = "running"]
        /\ UNCHANGED <<orphaned, cancels, faults>>
     \/ hold' = hold /\ top' = End("failed", {}) /\ UNCHANGED <<orphaned, cancels, faults>>
     \/ /\ hold' = [hold EXCEPT ![Price] = "open"]
        /\ top' = [top EXCEPT !.at = "tooDear"]
        /\ UNCHANGED <<orphaned, cancels, faults>>
     \/ /\ cancels < MaxCancels /\ cancels' = cancels + 1
        /\ hold' \in {hold, [hold EXCEPT ![Price] = "open"]}
        /\ Abandon({Price})
        /\ top' = End("cancelled", {})
        /\ UNCHANGED faults
     \/ Fails /\ top' = End("crashed", {}) /\ UNCHANGED <<hold, orphaned, cancels>>
  /\ UNCHANGED <<kid, deferred, dying>>

(* A step ended: its charge is added, and a failure that is not allowed stops the run.  A crash in
   a step is the run's: it returns the price, tells of no charge, and waits for no other step. *)
Tally(k) ==
  /\ top.kind = "hub" /\ top.at \in {"running", "stopping"}
  /\ Looked(k)
  /\ \/ /\ kid[k].at \in {"done", "failed"}
        /\ \E at \in {top.at, "stopping"} : top' = [top EXCEPT !.at = at, !.told = Charges(Says(k))]
     \/ kid[k].at = "crashed" /\ top' = Stop("crashed", {})
  /\ UNCHANGED <<hold, deferred, dying, orphaned, cancels, faults>>

(* The run itself raises: what a step or the output refers to is not there, a step's stream breaks,
   its record cannot be written.  It ends as with a crashed step, price paid or not. *)
RunCrashes ==
  /\ top.kind = "hub"
  /\ \/ top.at \in {"running", "stopping", "recording"}
     \/ top.at = "closing" /\ top.out = "answered"
  /\ top' = Stop("crashed", {})
  /\ UNCHANGED <<kid, hold, deferred, dying, orphaned, cancels, faults>>

(* The step cap and the cost ceiling start no further step; the running ones are awaited. *)
Halt ==
  /\ top.kind = "hub" /\ top.at = "running"
  /\ top' = [top EXCEPT !.at = "stopping"]
  /\ UNCHANGED <<kid, hold, deferred, dying, orphaned, cancels, faults>>

HubEnds ==
  /\ top.kind = "hub" /\ top.at \in {"running", "stopping"} /\ \A k \in Kids : Idle(k)
  /\ top' = Leave(IF top.at = "running" THEN "answered" ELSE "failed", top.told)
  /\ UNCHANGED <<kid, hold, deferred, dying, orphaned, cancels, faults>>

(* The wall clock cancels every step under way and waits for none: a step that has just returned
   is not looked at. *)
WallClock ==
  /\ top.kind = "hub" /\ top.at \in {"running", "stopping"} /\ \E k \in Kids : ~Idle(k)
  /\ dying' = {k \in Kids : kid[k].at \in Waiting}
  /\ top' = Leave("failed", top.told)
  /\ UNCHANGED <<kid, hold, deferred, orphaned, cancels, faults>>

(* _close_price: the author is paid for an answer (an empty one may be free); a stopped run, a
   cancelled one, and one whose close failed return the price. *)
ClosePrice ==
  /\ top.kind = "hub" /\ top.at = "closing"
  /\ LET paid == IF top.out = "answered" THEN {"taken", "returned"} ELSE {"returned"}
     IN  \/ /\ \E state \in paid : hold' = Close(Price, state)
            /\ top' = [top EXCEPT !.at = "recording", !.told = Charges(Stated(Price))]
            /\ UNCHANGED <<cancels, faults>>
         \/ /\ Fails
            /\ top' = Stop("crashed", {})
            /\ UNCHANGED <<hold, cancels>>
         \/ /\ cancels < MaxCancels /\ cancels' = cancels + 1
            /\ \E state \in paid : hold' \in {hold, Close(Price, state)}
            /\ top' = Stop("cancelled", {})
            /\ UNCHANGED faults
  /\ UNCHANGED <<kid, deferred, dying, orphaned>>

(* _record: the run is written down, and answers. *)
Record ==
  /\ top.at = "recording"
  /\ top' = [top EXCEPT !.at = "over"]
  /\ UNCHANGED <<kid, hold, deferred, dying, orphaned, cancels, faults>>

(* A cancelled run leaves its steps running: they are tasks of their own. *)
CancelRun ==
  /\ top.kind = "hub" /\ top.at \in {"running", "stopping", "recording"}
  /\ cancels < MaxCancels /\ cancels' = cancels + 1
  /\ top' = Stop("cancelled", {})
  /\ UNCHANGED <<kid, hold, deferred, dying, orphaned, faults>>

(* The last close of the price; nobody tries again. *)
Rescue ==
  /\ top.at \in {"rescue", "tooDear"}
  /\ LET out == IF top.at = "rescue" THEN top.out ELSE "failed"
     IN  \/ /\ hold' = Close(Price, "returned")
            /\ top' = End(out, {})
            /\ UNCHANGED <<orphaned, cancels, faults>>
         \/ /\ Fails
            /\ UNCHANGED <<hold, cancels>>
            /\ Abandon({Price})
            /\ top' = End("crashed", {})
         \/ /\ cancels < MaxCancels /\ cancels' = cancels + 1
            /\ hold' \in {hold, Close(Price, "returned")}
            /\ Abandon({Price})
            /\ top' = End("cancelled", {})
            /\ UNCHANGED faults
  /\ UNCHANGED <<kid, deferred, dying>>

-----------------------------------------------------------------------------
AtRest == top.at = "over" /\ \A k \in Kids : ~Working(k)
Rest == AtRest /\ UNCHANGED vars

Next ==
  \/ \E k \in Kids :
       \/ Start(k) \/ Reserve(k) \/ Dispatch(k) \/ Answer(k) \/ CloseOwn(k) \/ After(k)
       \/ Overflow(k) \/ OverAnswer(k) \/ CloseOver(k)
       \/ Doomed(k) \/ Clean(k)
       \/ Relay(k) \/ Weigh(k) \/ Tally(k)
  \/ CancelCall \/ RouteEnds \/ CloseRoute
  \/ HubReserve \/ Halt \/ RunCrashes \/ HubEnds \/ WallClock \/ ClosePrice \/ Record \/ CancelRun \/ Rescue
  \/ Rest

Spec == Init /\ [][Next]_vars

-----------------------------------------------------------------------------
(* When all is over no hold is open that somebody did not knowingly leave to the reaper: every     *)
(* way out of a call, a route and a run closes every hold that may exist, its overflow's included. *)
NothingStranded ==
  AtRest => \A h \in Holds : hold[h] = "open" => h \in orphaned

(* What the answer says was charged was taken, or is left to the reaper by a close that failed; and *)
(* what was taken it says, but for this.  A router that fails charges nothing of what was left to  *)
(* it to decide, only what a child settled at once (a price named by an aggregator or by a refused *)
(* submission, a finished task).  A run that ends by its wall clock does not know of the steps it  *)
(* cut off.  A call that fails to overflow does not say what its direct answer, an error, was      *)
(* billed.  A run that crashes says of no charge, whatever its steps or its author have been paid. *)
AtOnce(k) ==
  {h \in {Own(k)} : kid[k].how \in {"reported", "task"}} \cup {h \in {Extra(k)} : kid[k].over = "served"}

Unsaid(k) ==
  IF top.kind = "routed" /\ top.out # "answered" THEN AtOnce(k)
  ELSE IF kid[k].at \in Returned THEN {Own(k), Extra(k)}
  ELSE {h \in {Own(k)} : kid[k].how = "burst" /\ kid[k].at = "refused"}

Concludes == top.out \in {"answered", "failed"} \/ (top.out = "crashed" /\ top.kind # "hub")

ToldWhatWasTaken ==
  AtRest /\ Concludes =>
    LET taken == {h \in Holds : hold[h] \in {"taken", "task"}}
    IN  /\ top.told \subseteq taken \cup orphaned
        /\ taken \subseteq top.told \cup UNION {Unsaid(k) : k \in Kids}
=============================================================================
