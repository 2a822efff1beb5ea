----------------------------- MODULE AsyncTasks -----------------------------
(***************************************************************************)
(* A deferred call: the provider accepted a job, the request answered, and *)
(* the hold stays open until somebody observes how the job ended           *)
(* (application/asynctasks.py, domain/asynctasks).  Four parties meet on   *)
(* the task row and the hold: the request that deferred it, and may still  *)
(* be cancelled; settlement workers, each polling under a lease; callers   *)
(* whose own polls are read for evidence; the reaper of stale holds, which *)
(* may find this one stale while its request still runs.                   *)
(*                                                                         *)
(* Tasks share nothing but worker slots, so the module follows one.  Its   *)
(* clock counts the row's age.  A task that is not priced by usage is one  *)
(* whose usage is always published with its answer.                        *)
(***************************************************************************)
EXTENDS Integers

CONSTANTS
  Workers,          \* worker slots: each has at most one claim
  Callers,          \* callers that poll the task themselves
  None,             \* nobody
  FirstCheck,       \* when the first poll is due
  Lease,            \* CLAIM_LEASE_S
  ProcessTimeout,   \* PROCESS_TIMEOUT_S
  Delays,           \* what a poll without an answer may be put off by
  Window,           \* the descriptor's max_age
  Deadline,         \* MAX_AGE, 24 hours
  MaxFaults         \* how often a finisher may be refused, crash or run out of time

ASSUME AsyncAssumption ==
  /\ None \notin Workers \cup Callers /\ Workers \cap Callers = {}
  /\ Delays \subseteq Nat \ {0} /\ {FirstCheck, Lease, ProcessTimeout, Window, Deadline} \subseteq Nat
  /\ ProcessTimeout < Lease
  /\ Window <= Deadline /\ MaxFaults \in Nat

VARIABLES
  job,        \* what the provider would answer: the outcome, and whether its usage is out
  request,    \* the request that submitted the job
  hold,       \* how the hold stands, and who closed it
  row,        \* the AsyncTaskRecord
  age,        \* how old the row is, up to Deadline
  lock,       \* who holds the row lock
  pc,         \* where each finisher is
  seen,       \* what it observed, and at what age
  plan,       \* what it decided under the row lock, and whether it found the hold
  left,       \* the time left of its PROCESS_TIMEOUT_S
  scoped,     \* the workers that this timeout applies to
  events,     \* async_terminal call events emitted
  archive,    \* the terminal response kept as evidence
  faults

finisher == <<pc, seen, plan, left, scoped>>
vars == <<job, request, hold, row, age, lock, finisher, events, archive, faults>>

Finishers == Workers \cup Callers
Ends == {"success", "failure", "billed_failure"}
Answers == Ends \cup {"progress"}
Outcomes == Answers \cup {"poll_error", "account_retired", "timed_out"}
Billable == {"success", "billed_failure"}

Sooner(x, y) == IF x < y THEN x ELSE y
Until(due) == IF due > age THEN due - age ELSE 0

(* A hold that a sweep of stale ones has listed is as open as any other. *)
Open == hold.state \in {"open", "listed"}
Pending == row.status = "pending"

NothingSeen == [outcome |-> "progress", usage |-> FALSE, age |-> 0]
NoPlan == [result |-> "noop", held |-> FALSE]
NoTask == [status |-> "absent", claimant |-> None, wait |-> 0, charged |-> "nothing"]

Init ==
  /\ job = [outcome |-> "progress", usage |-> FALSE]
  /\ request = "relayed"
  /\ hold = [state |-> "open", by |-> "nobody"]
  /\ row = NoTask
  /\ age = 0
  /\ lock = None
  /\ pc = [x \in Finishers |-> "idle"]
  /\ seen = [x \in Finishers |-> NothingSeen]
  /\ plan = [x \in Finishers |-> NoPlan]
  /\ left = [x \in Finishers |-> 0]
  /\ scoped = {}
  /\ events = 0
  /\ archive = None
  /\ faults = 0

-----------------------------------------------------------------------------
(* The provider *)

JobEnds(outcome, usage) ==
  /\ job.outcome = "progress"
  /\ job' = [outcome |-> outcome, usage |-> usage]
  /\ UNCHANGED <<request, hold, row, age, lock, finisher, events, archive, faults>>

UsagePublished ==
  /\ job.outcome \in Billable /\ ~job.usage
  /\ job' = [job EXCEPT !.usage = TRUE]
  /\ UNCHANGED <<request, hold, row, age, lock, finisher, events, archive, faults>>

-----------------------------------------------------------------------------
(* The request *)

(* defer_submission: the hold is read, and not locked.  Without it the row  *)
(* does not persist (Compensate).                                           *)
ReadHold ==
  /\ request = "relayed" /\ Open
  /\ request' = "deferring"
  /\ UNCHANGED <<job, hold, row, age, lock, finisher, events, archive, faults>>

(* Its insert and commit: nobody looks at the hold again. *)
Defer ==
  /\ request = "deferring"
  /\ request' = "deferred"
  /\ row' = [NoTask EXCEPT !.status = "pending", !.wait = Sooner(FirstCheck, Window)]
  /\ UNCHANGED <<job, hold, age, lock, finisher, events, archive, faults>>

Answered ==
  /\ request = "deferred"
  /\ request' = "over"
  /\ UNCHANGED <<job, hold, row, age, lock, finisher, events, archive, faults>>

(* The request is cancelled, or told that its row did not persist: before   *)
(* the commit, or after it, with the row there (the commit boundary).       *)
Compensate ==
  /\ request \in {"relayed", "deferring", "deferred"}
  /\ request' = "cleanup"
  /\ UNCHANGED <<job, hold, row, age, lock, finisher, events, archive, faults>>

(* _finish_cancelled_call and _platform_settle: a purchase already sent is  *)
(* charged, everything else goes back.  Either may fail, and is only logged.*)
CloseHold(how) ==
  /\ request = "cleanup"
  /\ request' = "over"
  /\ hold' = IF Open THEN [state |-> how, by |-> "request"] ELSE hold
  /\ UNCHANGED <<job, row, age, lock, finisher, events, archive, faults>>

(* The process dies, or the compensation fails. *)
Abandon ==
  /\ request # "over"
  /\ request' = "over"
  /\ UNCHANGED <<job, hold, row, age, lock, finisher, events, archive, faults>>

(* reap_stale_holds: one transaction lists the holds older than hold_ttl_s   *)
(* that no pending row names.  No deadline ends a request by then: it may   *)
(* still be relaying, or about to commit its row.                           *)
ReapScan ==
  /\ hold.state = "open" /\ ~Pending
  /\ hold' = [hold EXCEPT !.state = "listed"]
  /\ UNCHANGED <<job, request, row, age, lock, finisher, events, archive, faults>>

(* The release of a listed hold, in its own transaction, if it is still     *)
(* there: nobody looks whether a row has become pending since.              *)
Reap ==
  /\ hold.state = "listed"
  /\ hold' = [state |-> "released", by |-> "reaper"]
  /\ UNCHANGED <<job, request, row, age, lock, finisher, events, archive, faults>>

-----------------------------------------------------------------------------
(* Observing *)

Leave(x) ==
  /\ pc' = [pc EXCEPT ![x] = "idle"]
  /\ seen' = [seen EXCEPT ![x] = NothingSeen]
  /\ plan' = [plan EXCEPT ![x] = NoPlan]
  /\ left' = [left EXCEPT ![x] = 0]
  /\ scoped' = scoped \ {x}

(* x has seen an outcome, and goes to end the task with it. *)
Finish(x, outcome) ==
  /\ pc' = [pc EXCEPT ![x] = "finish"]
  /\ seen' = [seen EXCEPT ![x] = [outcome |-> outcome, usage |-> job.usage, age |-> age]]

NoFence(x) == TRUE
(* The fencing token: attempts counts the claims, so a worker's number is   *)
(* the row's as long as nobody claimed after it.  A caller has none.        *)
Fenced(x) == x \in Callers \/ row.claimant = x

(* _claim_due *)
Claim(w) ==
  /\ pc[w] = "idle"
  /\ Pending /\ row.wait = 0
  /\ lock = None
  /\ row' = [row EXCEPT !.claimant = w, !.wait = Lease]
  /\ pc' = [pc EXCEPT ![w] = "claimed"]
  /\ left' = [left EXCEPT ![w] = ProcessTimeout]
  /\ scoped' = scoped \cup {w}
  /\ UNCHANGED <<job, request, hold, age, lock, seen, plan, events, archive, faults>>

NeverExpires == FALSE
Expired == age >= Window

(* _process, up to its poll. *)
Read(w) ==
  /\ pc[w] = "claimed"
  /\ UNCHANGED <<job, request, hold, row, age, lock, events, archive, faults>>
  /\ \/ /\ ~Pending \/ ~Fenced(w)
        /\ Leave(w)
     \/ /\ Pending /\ Fenced(w) /\ Expired
        /\ Finish(w, "timed_out")
        /\ UNCHANGED <<plan, left, scoped>>
     \/ /\ Pending /\ Fenced(w) /\ ~Expired
        /\ pc' = [pc EXCEPT ![w] = "polling"]
        /\ UNCHANGED <<seen, plan, left, scoped>>

EvidenceOfAnyPage(ok, said) == said
(* Only a 2xx is evidence, whatever an error page says about a status. *)
Evidence(ok, said) == IF ok THEN said ELSE "poll_error"

(* _poll: an answer, an error page or no answer at all, a retired account. *)
Polled(w, ok, said) ==
  /\ pc[w] = "polling"
  /\ ok => said \in {job.outcome, "account_retired"}
  /\ Finish(w, Evidence(ok, said))
  /\ UNCHANGED <<job, request, hold, row, age, lock, plan, left, scoped, events, archive, faults>>

(* observe_owned_poll: a caller's own poll came back with a terminal state. *)
Observe(k) ==
  /\ pc[k] = "idle"
  /\ Pending /\ job.outcome \in Ends
  /\ Finish(k, job.outcome)
  /\ UNCHANGED <<job, request, hold, row, age, lock, plan, left, scoped, events, archive, faults>>

Freed(x) == IF lock = x THEN None ELSE lock

(* PROCESS_TIMEOUT_S cancels whatever the worker was at; its own _finish    *)
(* then runs outside the scope, with no bound.  A poll is cut off sooner,   *)
(* so it is a session or an admission that took too long.                   *)
TimesOut(w) ==
  /\ w \in scoped /\ left[w] = 0
  /\ faults < MaxFaults
  /\ faults' = faults + 1
  /\ Finish(w, "poll_error")
  /\ plan' = [plan EXCEPT ![w] = NoPlan]
  /\ scoped' = scoped \ {w}
  /\ lock' = Freed(w)
  /\ UNCHANGED <<job, request, hold, row, age, left, events, archive>>

(* Admission refused, a lost session, a crash: the lease brings the row back. *)
Drop(x) ==
  /\ pc[x] # "idle"
  /\ faults < MaxFaults
  /\ faults' = faults + 1
  /\ Leave(x)
  /\ lock' = Freed(x)
  /\ UNCHANGED <<job, request, hold, row, age, events, archive>>

-----------------------------------------------------------------------------
(* Finishing *)

FinishableBySnapshot(x) == TRUE
(* The row, re-read under its lock, is still this finisher's to end. *)
Finishable(x) == Pending /\ Fenced(x)

(* The 24 hours, not the window: that one only ends polling. *)
Result(x) ==
  IF seen[x].outcome \in Ends /\ seen[x].age >= Deadline THEN "timed_out" ELSE seen[x].outcome

(* _finish, to the lookup of the hold. *)
Lock(x) ==
  /\ pc[x] = "finish"
  /\ lock = None
  /\ UNCHANGED <<job, request, hold, row, age, events, archive, faults>>
  /\ \/ /\ ~Finishable(x)
        /\ Leave(x)
        /\ UNCHANGED lock
     \/ /\ Finishable(x)
        /\ pc' = [pc EXCEPT ![x] = "locked"]
        /\ plan' = [plan EXCEPT ![x] = [result |-> Result(x), held |-> Open]]
        /\ lock' = x
        /\ UNCHANGED <<seen, left, scoped>>

Deciding(x, results) == pc[x] = "locked" /\ plan[x].result \in results

ToReport(x, result) ==
  /\ pc' = [pc EXCEPT ![x] = "report"]
  /\ plan' = [plan EXCEPT ![x] = [result |-> result, held |-> FALSE]]
  /\ lock' = None
  /\ UNCHANGED <<job, request, age, seen, left, scoped, events, archive, faults>>

(* The hold is claimed by its DELETE: whoever closed it first closed it.    *)
Ended(x, status, state, charged) ==
  /\ row' = [row EXCEPT !.status = status, !.charged = IF Open THEN charged ELSE "nothing"]
  /\ hold' = IF Open THEN [state |-> state, by |-> "task"] ELSE hold
  /\ ToReport(x, status)

(* A caller does not decide without usage; the worker settles at the reserve. *)
CommitCharge(x) ==
  /\ Deciding(x, Billable) /\ plan[x].held
  /\ seen[x].usage \/ x \in Workers
  /\ Ended(x, "settled", "settled", IF seen[x].usage THEN "usage" ELSE "reserve")

AwaitUsage(x) ==
  /\ Deciding(x, Billable) /\ plan[x].held
  /\ ~seen[x].usage /\ x \in Callers
  /\ Leave(x)
  /\ lock' = None
  /\ UNCHANGED <<job, request, hold, row, age, events, archive, faults>>

CommitReturn(x) ==
  /\ Deciding(x, {"failure", "timed_out", "account_retired"}) /\ plan[x].held
  /\ Ended(x, IF plan[x].result = "timed_out" THEN "timed_out" ELSE "released", "released", "nothing")

(* closed_hold: there was no money left to move. *)
CommitClosedHold(x) ==
  /\ Deciding(x, Ends \cup {"timed_out", "account_retired"}) /\ ~plan[x].held
  /\ row' = [row EXCEPT !.status = "released"]
  /\ ToReport(x, "closed_hold")
  /\ UNCHANGED hold

(* No answer yet: due again later, but never after the window. *)
CommitBackOff(x, delay) ==
  /\ Deciding(x, {"progress", "poll_error"})
  /\ row' = [row EXCEPT !.wait = Until(Sooner(seen[x].age + delay, Window))]
  /\ Leave(x)
  /\ lock' = None
  /\ UNCHANGED <<job, request, hold, age, events, archive, faults>>

WinsByAnswer(x) == seen[x].outcome \in Ends
(* Evidence is kept for the outcome the answer itself calls for. *)
Wins(x) ==
  \/ seen[x].outcome \in Billable /\ plan[x].result = "settled"
  \/ seen[x].outcome = "failure" /\ plan[x].result = "released"

(* _terminal_event and the archive, after the commit and outside it. *)
Report(x) ==
  /\ pc[x] = "report"
  /\ events' = events + 1
  /\ archive' = IF Wins(x) THEN [outcome |-> seen[x].outcome, usage |-> seen[x].usage] ELSE archive
  /\ Leave(x)
  /\ UNCHANGED <<job, request, hold, row, age, lock, faults>>

Commit(x) ==
  \/ CommitCharge(x) \/ AwaitUsage(x) \/ CommitReturn(x) \/ CommitClosedHold(x)
  \/ \E delay \in Delays : CommitBackOff(x, delay)

-----------------------------------------------------------------------------
(* A worker's scope ends before its timeout is over. *)
Tick ==
  /\ row.status # "absent"
  /\ \A w \in scoped : left[w] > 0
  /\ age' = Sooner(age + 1, Deadline)
  /\ row' = [row EXCEPT !.wait = IF @ > 0 THEN @ - 1 ELSE 0]
  /\ left' = [x \in Finishers |-> IF x \in scoped THEN left[x] - 1 ELSE left[x]]
  /\ UNCHANGED <<job, request, hold, lock, pc, seen, plan, scoped, events, archive, faults>>

Work(w) ==
  \/ Claim(w) \/ Read(w) \/ TimesOut(w)
  \/ \E ok \in BOOLEAN, said \in Answers \cup {"account_retired"} : Polled(w, ok, said)

Next ==
  \/ \E outcome \in Ends, usage \in BOOLEAN : JobEnds(outcome, usage)
  \/ UsagePublished
  \/ ReadHold \/ Defer \/ Answered \/ Compensate \/ Abandon \/ ReapScan \/ Reap
  \/ \E how \in {"settled", "released"} : CloseHold(how)
  \/ \E w \in Workers : Work(w)
  \/ \E k \in Callers : Observe(k)
  \/ \E x \in Finishers : Lock(x) \/ Commit(x) \/ Report(x) \/ Drop(x)
  \/ Tick

(* The worker runs every few seconds and a transaction on one row ends;     *)
(* nothing is assumed of the provider, the callers or the request.          *)
Fairness ==
  /\ WF_vars(Tick)
  /\ \A w \in Workers : WF_vars(Work(w)) /\ SF_vars(Lock(w))
  /\ \A x \in Finishers : WF_vars(Commit(x)) /\ WF_vars(Report(x))

Spec == Init /\ [][Next]_vars
FairSpec == Spec /\ Fairness

-----------------------------------------------------------------------------
TypeOK ==
  /\ job \in [outcome : Answers, usage : BOOLEAN]
  /\ request \in {"relayed", "deferring", "deferred", "cleanup", "over"}
  /\ hold \in [state : {"open", "listed", "settled", "released"}, by : {"nobody", "task", "request", "reaper"}]
  /\ row \in [status : {"absent", "pending", "settled", "released", "timed_out"},
              claimant : Workers \cup {None}, wait : Nat,
              charged : {"nothing", "usage", "reserve"}]
  /\ age \in 0 .. Deadline
  /\ lock \in Finishers \cup {None}
  /\ pc \in [Finishers -> {"idle", "claimed", "polling", "finish", "locked", "report"}]
  /\ seen \in [Finishers -> [outcome : Outcomes, usage : BOOLEAN, age : 0 .. Deadline]]
  /\ plan \in [Finishers -> [result : Outcomes \cup {"noop", "settled", "released", "closed_hold"},
                             held : BOOLEAN]]
  /\ left \in [Finishers -> 0 .. ProcessTimeout]
  /\ scoped \subseteq Workers
  /\ events \in Nat
  /\ archive \in [outcome : Ends, usage : BOOLEAN] \cup {None}
  /\ faults \in 0 .. MaxFaults

(* The lease outlives the process that took it, and a worker that lost it   *)
(* cannot move the row: no two workers poll the provider for one task.      *)
OnePoller ==
  \A v, w \in Workers : pc[v] = "polling" /\ pc[w] = "polling" => v = w

(* A charge needs the provider's own word: the hold is settled by its task  *)
(* only if the job really ended in a billable state, whatever error pages,  *)
(* time-outs and stale observations came in between.                        *)
ChargedOnEvidence ==
  hold = [state |-> "settled", by |-> "task"] => job.outcome \in Billable

(* The row and the ledger tell the same story: what the row says was charged*)
(* is what its settle took from the hold, whoever else may have closed that *)
(* first (the reaper of a request gone stale, a cancelled request); a       *)
(* returned or timed-out task took nothing and leaves no money held; and a  *)
(* task does not close its hold without ending its row.                     *)
RowMatchesHold ==
  /\ row.charged # "nothing" <=> hold = [state |-> "settled", by |-> "task"]
  /\ row.charged # "nothing" => row.status = "settled"
  /\ row.status \in {"released", "timed_out"} => ~Open
  /\ Pending => hold.by # "task"

(* A caller's poll and the workers may all see the answer; the row leaves   *)
(* pending once, so there is one terminal event, and the evidence kept is   *)
(* the very answer the task was charged or released on.                     *)
OneEnd ==
  /\ events <= 1
  /\ archive # None =>
       /\ row.status = IF archive.outcome \in Billable THEN "settled" ELSE "released"
       /\ row.charged = "usage" => archive.usage
       /\ row.charged = "reserve" => ~archive.usage

(* A deferred call does not keep a team's money for ever: whatever the      *)
(* provider does, the row ends, at the latest after its window.             *)
PendingEnds == Pending ~> ~Pending

=============================================================================
