-------------------------- MODULE AsyncTasksProofs --------------------------
(***************************************************************************)
(* What holds of a deferred call for any number of workers and callers and *)
(* any lease, delays and window: proofs of the safety properties of        *)
(* AsyncTasks by one inductive invariant, IInv, in named parts.            *)
(***************************************************************************)
EXTENDS AsyncTasks, TLAPS

USE AsyncAssumption DEF AsyncAssumption

LEMMA TypeInit == Init => TypeOK
  BY DEF Init, TypeOK, NothingSeen, NoPlan, NoTask, Finishers, Answers, Ends, Outcomes

(* A finisher that leaves, or goes to finish, keeps its types. *)
LEMMA LeaveType ==
  ASSUME TypeOK, NEW x \in Finishers, Leave(x)
  PROVE  /\ (/\ pc \in [Finishers -> {"idle", "claimed", "polling", "finish", "locked", "report"}]
             /\ seen \in [Finishers -> [outcome : Outcomes, usage : BOOLEAN, age : 0 .. Deadline]]
             /\ plan \in [Finishers -> [result : Outcomes \cup {"noop", "settled", "released", "closed_hold"},
                                        held : BOOLEAN]]
             /\ left \in [Finishers -> 0 .. ProcessTimeout]
             /\ scoped \subseteq Workers)'
<1>1. NothingSeen \in [outcome : Outcomes, usage : BOOLEAN, age : 0 .. Deadline]
  BY DEF NothingSeen, Outcomes, Answers
<1>2. NoPlan \in [result : Outcomes \cup {"noop", "settled", "released", "closed_hold"}, held : BOOLEAN]
  BY DEF NoPlan
<1> QED
  BY <1>1, <1>2 DEF Leave, TypeOK

LEMMA FinishType ==
  ASSUME TypeOK, NEW x \in Finishers, NEW outcome \in Outcomes, Finish(x, outcome)
  PROVE  /\ pc' \in [Finishers -> {"idle", "claimed", "polling", "finish", "locked", "report"}]
         /\ seen' \in [Finishers -> [outcome : Outcomes, usage : BOOLEAN, age : 0 .. Deadline]]
  BY DEF Finish, TypeOK

LEMMA TypeRequest ==
  TypeOK /\ (\/ \E outcome \in Ends, usage \in BOOLEAN : JobEnds(outcome, usage)
             \/ UsagePublished
             \/ ReadHold \/ Defer \/ Answered \/ Compensate \/ Abandon \/ ReapScan \/ Reap
             \/ \E how \in {"settled", "released"} : CloseHold(how)
             \/ Tick)
  => TypeOK'
<1> SUFFICES ASSUME TypeOK PROVE
      /\ \A outcome \in Ends, usage \in BOOLEAN : JobEnds(outcome, usage) => TypeOK'
      /\ UsagePublished => TypeOK'
      /\ Defer => TypeOK'
      /\ ReadHold \/ Answered \/ Compensate \/ Abandon => TypeOK'
      /\ ReapScan \/ Reap => TypeOK'
      /\ \A how \in {"settled", "released"} : CloseHold(how) => TypeOK'
      /\ Tick => TypeOK'
  OBVIOUS
<1>1. \A outcome \in Ends, usage \in BOOLEAN : JobEnds(outcome, usage) => TypeOK'
  BY DEF JobEnds, TypeOK, Answers, finisher
<1>2. UsagePublished => TypeOK'
  BY DEF UsagePublished, TypeOK, finisher
<1>3. Defer => TypeOK'
  <2>1. Sooner(FirstCheck, Window) \in Nat
    BY DEF Sooner
  <2> QED
    BY ZenonT(60), <2>1 DEF Defer, TypeOK, finisher, NoTask
<1>4. ReadHold \/ Answered \/ Compensate \/ Abandon => TypeOK'
  BY DEF ReadHold, Answered, Compensate, Abandon, TypeOK, finisher
<1>7. ReapScan \/ Reap => TypeOK'
  BY DEF ReapScan, Reap, TypeOK, finisher
<1>5. \A how \in {"settled", "released"} : CloseHold(how) => TypeOK'
  BY DEF CloseHold, TypeOK, finisher
<1>6. Tick => TypeOK'
  <2> SUFFICES ASSUME Tick PROVE TypeOK'
    OBVIOUS
  <2>1. age' \in 0 .. Deadline
    BY DEF Tick, TypeOK, Sooner
  <2>2. left' \in [Finishers -> 0 .. ProcessTimeout]
    BY DEF Tick, TypeOK, Finishers
  <2>3. row' \in [status : {"absent", "pending", "settled", "released", "timed_out"},
              claimant : Workers \cup {None}, wait : Nat,
              charged : {"nothing", "usage", "reserve"}]
    <3> DEFINE n == IF row.wait > 0 THEN row.wait - 1 ELSE 0
    <3>1. n \in Nat
      BY DEF TypeOK
    <3>2. row' = [row EXCEPT !.wait = n]
      BY DEF Tick
    <3> HIDE DEF n
    <3> QED
      BY <3>1, <3>2 DEF TypeOK
  <2> QED
    BY <2>1, <2>2, <2>3 DEF Tick, TypeOK
<1> QED
  BY <1>1, <1>2, <1>3, <1>4, <1>5, <1>6, <1>7

LEMMA TypeWork ==
  ASSUME TypeOK, NEW w \in Workers, Work(w)
  PROVE  TypeOK'
<1>1. w \in Finishers
  BY DEF Finishers
<1>2. CASE Claim(w)
  <2>1. row' = [row EXCEPT !.claimant = w, !.wait = Lease] /\ Lease \in Nat
    BY <1>2 DEF Claim
  <2>2. row' \in [status : {"absent", "pending", "settled", "released", "timed_out"},
                  claimant : Workers \cup {None}, wait : Nat,
                  charged : {"nothing", "usage", "reserve"}]
    BY <2>1 DEF TypeOK
  <2> QED
    BY <1>1, <1>2, <2>2 DEF Claim, TypeOK
<1>3. CASE Read(w)
  <2>1. "timed_out" \in Outcomes
    BY DEF Outcomes
  <2>2. CASE Leave(w)
    BY <1>1, <1>3, <2>2, LeaveType DEF Read, TypeOK
  <2>3. CASE Finish(w, "timed_out") /\ UNCHANGED <<plan, left, scoped>>
    BY <1>1, <1>3, <2>1, <2>3, FinishType DEF Read, TypeOK
  <2>4. CASE pc' = [pc EXCEPT ![w] = "polling"] /\ UNCHANGED <<seen, plan, left, scoped>>
    BY <1>1, <1>3, <2>4 DEF Read, TypeOK
  <2> QED
    BY <1>3, <2>2, <2>3, <2>4 DEF Read
<1>4. CASE TimesOut(w)
  <2>1. "poll_error" \in Outcomes /\ NoPlan \in [result : Outcomes \cup {"noop", "settled", "released", "closed_hold"}, held : BOOLEAN]
    BY DEF Outcomes, NoPlan
  <2> QED
    BY <1>1, <1>4, <2>1, FinishType DEF TimesOut, TypeOK, Freed
<1>5. ASSUME NEW ok \in BOOLEAN, NEW said \in Answers \cup {"account_retired"}, Polled(w, ok, said)
      PROVE  TypeOK'
  <2>1. Evidence(ok, said) \in Outcomes
    BY DEF Evidence, Outcomes
  <2> QED
    BY <1>1, <1>5, <2>1, FinishType DEF Polled, TypeOK
<1> QED
  BY <1>2, <1>3, <1>4, <1>5 DEF Work

LEMMA TypeFinish ==
  ASSUME TypeOK, NEW x \in Finishers, Lock(x) \/ Commit(x) \/ Report(x) \/ Drop(x)
  PROVE  TypeOK'
<1>1. CASE Lock(x)
  <2>1. CASE Leave(x) /\ UNCHANGED lock
    BY <1>1, <2>1, LeaveType DEF Lock, TypeOK
  <2>2. CASE /\ pc' = [pc EXCEPT ![x] = "locked"]
             /\ plan' = [plan EXCEPT ![x] = [result |-> Result(x), held |-> Open]]
             /\ lock' = x
             /\ UNCHANGED <<seen, left, scoped>>
    <3>1. Result(x) \in Outcomes /\ Open \in BOOLEAN
      BY DEF Result, TypeOK, Outcomes, Open
    <3> QED
      BY <1>1, <2>2, <3>1 DEF Lock, TypeOK
  <2> QED
    BY <1>1, <2>1, <2>2 DEF Lock
<1>2. ASSUME NEW result \in {"settled", "released", "timed_out", "closed_hold"}, ToReport(x, result),
             row' \in [status : {"absent", "pending", "settled", "released", "timed_out"},
                       claimant : Workers \cup {None}, wait : Nat,
                       charged : {"nothing", "usage", "reserve"}],
             hold' \in [state : {"open", "listed", "settled", "released"},
                        by : {"nobody", "task", "request", "reaper"}]
      PROVE  TypeOK'
  <2>1. [result |-> result, held |-> FALSE]
          \in [result : Outcomes \cup {"noop", "settled", "released", "closed_hold"}, held : BOOLEAN]
    BY DEF Outcomes
  <2> QED
    BY <1>2, <2>1 DEF ToReport, TypeOK
<1>3. ASSUME NEW status \in {"settled", "released", "timed_out"}, NEW state \in {"settled", "released"},
             NEW charged \in {"nothing", "usage", "reserve"}, Ended(x, status, state, charged)
      PROVE  TypeOK'
  BY <1>2, <1>3 DEF Ended, TypeOK
<1>4. CASE CommitCharge(x)
  BY <1>3, <1>4 DEF CommitCharge
<1>5. CASE CommitReturn(x)
  BY <1>3, <1>5 DEF CommitReturn
<1>6. CASE CommitClosedHold(x)
  BY <1>2, <1>6 DEF CommitClosedHold, TypeOK
<1>7. CASE AwaitUsage(x) \/ Drop(x)
  BY <1>7, LeaveType DEF AwaitUsage, Drop, Freed, TypeOK
<1>8. ASSUME NEW delay \in Delays, CommitBackOff(x, delay)
      PROVE  TypeOK'
  <2>1. seen[x].age \in Nat /\ delay \in Nat
    BY DEF TypeOK
  <2>2. Until(Sooner(seen[x].age + delay, Window)) \in Nat
    BY <2>1 DEF Until, Sooner, TypeOK
  <2> QED
    BY <1>8, <2>2, LeaveType DEF CommitBackOff, TypeOK
<1>9. CASE Report(x)
  <2>1. Wins(x) => [outcome |-> seen[x].outcome, usage |-> seen[x].usage] \in [outcome : Ends, usage : BOOLEAN]
    BY DEF Wins, TypeOK, Billable, Ends
  <2> QED
    BY <1>9, <2>1, LeaveType DEF Report, TypeOK
<1> QED
  BY <1>1, <1>4, <1>5, <1>6, <1>7, <1>8, <1>9 DEF Commit

LEMMA TypeStep == TypeOK /\ [Next]_vars => TypeOK'
<1> SUFFICES ASSUME TypeOK, [Next]_vars PROVE TypeOK'
  OBVIOUS
<1>1. ASSUME NEW k \in Callers, Observe(k)
      PROVE  TypeOK'
  <2>1. k \in Finishers /\ job.outcome \in Outcomes
    BY DEF Finishers, TypeOK, Outcomes
  <2> QED
    BY <1>1, <2>1, FinishType DEF Observe, TypeOK
<1>2. CASE UNCHANGED vars
  BY <1>2 DEF vars, finisher, TypeOK
<1> QED
  BY <1>1, <1>2, TypeRequest, TypeWork, TypeFinish DEF Next

(* The state of a task and of everybody who works on it stays well-formed. *)
THEOREM TypeCorrect == Spec => []TypeOK
  BY TypeInit, TypeStep, PTL DEF Spec

-----------------------------------------------------------------------------
(* The inductive invariant *)

Over == row.status \in {"settled", "released", "timed_out"}

(* Nobody works on a task before its row is there. *)
NotBefore ==
  /\ request \in {"relayed", "deferring"} => row.status = "absent"
  /\ row.status = "absent" => scoped = {} /\ \A x \in Finishers : pc[x] = "idle"

(* The row lock is what a decision rests on: nothing it read of the row     *)
(* moves until the commit.  The hold it does not cover, which can only close.*)
Locked ==
  \A x \in Finishers : pc[x] = "locked" =>
    /\ lock = x /\ Pending /\ Fenced(x)
    /\ plan[x].result \in {seen[x].outcome, "timed_out"}
    /\ ~plan[x].held => ~Open

(* An end that somebody saw is the job's, and a caller goes on only with one.*)
Known ==
  /\ \A x \in Finishers : seen[x].outcome \in Ends => job.outcome = seen[x].outcome
  /\ \A k \in Callers : pc[k] # "idle" => seen[k].outcome \in Ends

(* How the hold stands against the row, the three parties that close it told apart. *)
Story ==
  /\ Open <=> hold.by = "nobody"
  /\ Over => ~Open
  /\ hold.by = "task" => Over
  /\ RowMatchesHold
  /\ ChargedOnEvidence

(* A worker at its poll holds the last claim, in the time the lease gives it.*)
Leased ==
  /\ \A w \in Workers : pc[w] \in {"claimed", "polling"} /\ Pending =>
       row.claimant = w /\ w \in scoped /\ row.wait > left[w]
  /\ OnePoller

(* Between the commit that ends the row and its report nobody else reports. *)
Reporting ==
  /\ \A x \in Finishers : pc[x] = "report" =>
       /\ Over /\ events = 0 /\ archive = None
       /\ plan[x].result \in {"settled", "released"} => row.status = plan[x].result
       /\ plan[x].result = "settled" =>
            (row.charged = "usage" => seen[x].usage) /\ (row.charged = "reserve" => ~seen[x].usage)
  /\ \A x, y \in Finishers : pc[x] = "report" /\ pc[y] = "report" => x = y
  /\ ~Over => events = 0 /\ archive = None
  /\ OneEnd

IInv == NotBefore /\ Locked /\ Known /\ Story /\ Leased /\ Reporting

LEMMA InvInit == Init => IInv
<1> SUFFICES ASSUME Init PROVE IInv
  OBVIOUS
<1>1. row.status = "absent" /\ row.charged = "nothing" /\ hold = [state |-> "open", by |-> "nobody"]
  BY DEF Init, NoTask
<1>2. \A x \in Finishers : pc[x] = "idle" /\ seen[x].outcome = "progress"
  BY DEF Init, NothingSeen
<1>3. events = 0 /\ archive = None /\ job.outcome = "progress"
  BY DEF Init
<1>4. NotBefore /\ Locked /\ Known /\ Leased
  BY <1>1, <1>2 DEF Init, NotBefore, Locked, Known, Leased, OnePoller, Finishers, Ends
<1>5. Story
  BY <1>1, <1>3 DEF Story, Over, Open, Pending, RowMatchesHold, ChargedOnEvidence
<1>6. Reporting
  BY <1>1, <1>2, <1>3 DEF Reporting, Over, OneEnd
<1> QED
  BY <1>4, <1>5, <1>6 DEF IInv

(* What the provider does only adds to what can be known. *)
LEMMA InvJob ==
  ASSUME IInv, UsagePublished \/ \E outcome \in Ends, usage \in BOOLEAN : JobEnds(outcome, usage), TypeOK
  PROVE  IInv'
<1>1. UNCHANGED <<request, hold, row, lock, pc, seen, plan, left, scoped, events, archive>>
  BY DEF UsagePublished, JobEnds, finisher
<1>2. job.outcome # "progress" => job'.outcome = job.outcome
  BY DEF UsagePublished, JobEnds, TypeOK
<1>3. NotBefore' /\ Locked' /\ Leased' /\ Reporting'
  BY <1>1 DEF IInv, NotBefore, Locked, Leased, OnePoller, Reporting, OneEnd, Over, Pending, Open, Fenced
<1>4. Known'
  BY <1>1, <1>2 DEF IInv, Known, Ends
<1>5. Story'
  BY <1>1, <1>2 DEF IInv, Story, RowMatchesHold, ChargedOnEvidence, Billable, Over, Open, Pending
<1> QED
  BY <1>3, <1>4, <1>5 DEF IInv

(* The request and the reaper move the hold, and the row only from absent to pending. *)
LEMMA InvRequest ==
  ASSUME IInv, TypeOK,
         \/ ReadHold \/ Defer \/ Answered \/ Compensate \/ Abandon \/ ReapScan \/ Reap
         \/ \E how \in {"settled", "released"} : CloseHold(how)
  PROVE  IInv'
<1>1. UNCHANGED <<job, lock, pc, seen, plan, left, scoped, events, archive>>
  BY DEF ReadHold, Defer, Answered, Compensate, Abandon, ReapScan, Reap, CloseHold, finisher
<1>2. Known'
  BY <1>1 DEF IInv, Known
<1>3. CASE Defer
  <2>1. row.status = "absent" /\ hold.by # "task"
    BY <1>3 DEF Defer, IInv, NotBefore, Story, Over
  <2>2. /\ row' = [NoTask EXCEPT !.status = "pending", !.wait = Sooner(FirstCheck, Window)]
        /\ request' = "deferred" /\ hold' = hold
    BY <1>3 DEF Defer
  <2>3. row'.status = "pending" /\ row'.charged = "nothing"
    BY <2>2 DEF NoTask
  <2>4. \A x \in Finishers : pc'[x] = "idle"
    BY <1>1, <2>1 DEF IInv, NotBefore
  <2>5. NotBefore' /\ Locked' /\ Leased'
    BY <2>2, <2>3, <2>4 DEF NotBefore, Locked, Leased, OnePoller, Finishers
  <2>6. Story'
    BY <1>1, <2>1, <2>2, <2>3 DEF IInv, Story, RowMatchesHold, ChargedOnEvidence, Over, Open, Pending
  <2>7. Reporting'
    BY <1>1, <2>1, <2>3, <2>4 DEF IInv, Reporting, OneEnd, Over
  <2> QED
    BY <1>2, <2>5, <2>6, <2>7 DEF IInv
<1>4. CASE \/ ReadHold \/ Answered \/ Compensate \/ Abandon \/ ReapScan \/ Reap
           \/ \E how \in {"settled", "released"} : CloseHold(how)
  <2>1. row' = row /\ (request' \in {"relayed", "deferring"} => request \in {"relayed", "deferring"})
    BY <1>4 DEF ReadHold, Answered, Compensate, Abandon, ReapScan, Reap, CloseHold
  <2>2. /\ Open' => Open
        /\ (hold'.by = hold.by /\ hold'.state = hold.state)
           \/ (hold'.by = hold.by /\ Open /\ Open')
           \/ (hold'.by \in {"reaper", "request"} /\ Open /\ ~Open')
    <3>1. ReadHold \/ Answered \/ Compensate \/ Abandon => hold' = hold
      BY DEF ReadHold, Answered, Compensate, Abandon
    <3>2. ReapScan => hold'.by = hold.by /\ Open /\ Open'
      BY DEF ReapScan, Open, TypeOK
    <3>3. Reap => hold'.by = "reaper" /\ Open /\ ~Open'
      BY DEF Reap, Open
    <3>4. ASSUME NEW how \in {"settled", "released"}, CloseHold(how)
          PROVE  hold' = hold \/ (hold'.by = "request" /\ Open /\ ~Open')
      BY <3>4 DEF CloseHold, Open
    <3> QED
      BY <1>4, <3>1, <3>2, <3>3, <3>4 DEF Open
  <2>3. NotBefore' /\ Locked' /\ Leased' /\ Reporting'
    BY <1>1, <2>1, <2>2 DEF IInv, NotBefore, Locked, Leased, OnePoller, Reporting, OneEnd, Over, Pending, Fenced
  <2>4. Story'
    <3>1. hold = [state |-> "settled", by |-> "task"] <=> hold' = [state |-> "settled", by |-> "task"]
      <4>1. hold = [state |-> hold.state, by |-> hold.by] /\ hold' = [state |-> hold'.state, by |-> hold'.by]
        BY <1>4, TypeRequest DEF TypeOK
      <4>2. (hold.state = "settled" /\ hold.by = "task") <=> (hold'.state = "settled" /\ hold'.by = "task")
        BY <2>2 DEF IInv, Story, Open
      <4> QED
        BY <4>1, <4>2
    <3>2. RowMatchesHold'
      <4>1. row.status \in {"released", "timed_out"} => ~Open'
        BY <2>2 DEF IInv, Story, RowMatchesHold
      <4>2. Pending => hold'.by # "task"
        BY <2>2 DEF IInv, Story, RowMatchesHold
      <4> QED
        BY <2>1, <3>1, <4>1, <4>2 DEF IInv, Story, RowMatchesHold, Pending
    <3>3. ChargedOnEvidence'
      BY <1>1, <3>1 DEF IInv, Story, ChargedOnEvidence
    <3>4. Open' <=> hold'.by = "nobody"
      BY <2>2 DEF IInv, Story, Open
    <3>5. /\ Over' => ~Open'
          /\ hold'.by = "task" => Over'
      BY <2>1, <2>2 DEF IInv, Story, Over
    <3> QED
      BY <3>2, <3>3, <3>4, <3>5 DEF Story
  <2> QED
    BY <1>2, <2>3, <2>4 DEF IInv
<1> QED
  BY <1>3, <1>4

(* Steps that move neither the hold nor the row's status. *)
Quiet ==
  /\ UNCHANGED <<job, request, hold, events, archive>>
  /\ row'.status = row.status /\ row'.charged = row.charged

LEMMA QuietStory ==
  ASSUME IInv, Quiet
  PROVE  Story'
  BY DEF IInv, Quiet, Story, RowMatchesHold, ChargedOnEvidence, Over, Open, Pending

LEMMA QuietReporting ==
  ASSUME IInv, Quiet,
         \A x \in Finishers : pc'[x] = "report" => pc[x] = "report" /\ plan'[x] = plan[x] /\ seen'[x] = seen[x]
  PROVE  Reporting'
<1>1. row'.status = row.status /\ row'.charged = row.charged /\ events' = events /\ archive' = archive
  BY DEF Quiet
<1>2. Over' <=> Over
  BY <1>1 DEF Over
<1>3. OneEnd'
  BY <1>1 DEF IInv, Reporting, OneEnd
<1> QED
  BY <1>1, <1>2, <1>3 DEF IInv, Reporting

LEMMA InvTick ==
  ASSUME IInv, TypeOK, Tick
  PROVE  IInv'
<1>1. /\ UNCHANGED <<job, request, hold, lock, pc, seen, plan, scoped, events, archive>>
      /\ left' = [x \in Finishers |-> IF x \in scoped THEN left[x] - 1 ELSE left[x]]
  BY DEF Tick
<1> DEFINE n == IF row.wait > 0 THEN row.wait - 1 ELSE 0
<1>2. row' = [row EXCEPT !.wait = n]
  BY DEF Tick
<1>3. row'.wait = n
  BY <1>2 DEF TypeOK
<1>4. row'.status = row.status /\ row'.charged = row.charged /\ row'.claimant = row.claimant
  BY <1>2 DEF TypeOK
<1>5. Leased'
  <2> SUFFICES ASSUME NEW w \in Workers, pc[w] \in {"claimed", "polling"}, Pending
               PROVE  row'.wait > left'[w] /\ w \in scoped /\ row.claimant = w
    BY <1>1, <1>4 DEF IInv, Leased, OnePoller, Pending
  <2>1. row.claimant = w /\ w \in scoped /\ row.wait > left[w]
    BY DEF IInv, Leased
  <2>2. left'[w] = left[w] - 1 /\ left[w] \in Nat /\ row.wait \in Nat
    BY <1>1, <2>1 DEF Finishers, TypeOK
  <2> QED
    BY <1>3, <2>1, <2>2
<1> HIDE DEF n
<1>6. Quiet
  BY <1>1, <1>4 DEF Quiet
<1>7. Story' /\ Reporting'
  BY <1>1, <1>6, QuietStory, QuietReporting
<1>8. NotBefore' /\ Locked' /\ Known'
  BY <1>1, <1>4 DEF IInv, NotBefore, Locked, Known, Pending, Open, Fenced
<1> QED
  BY <1>5, <1>7, <1>8 DEF IInv

(* A claim is possible only when nobody's lease runs. *)
LEMMA InvClaim ==
  ASSUME IInv, TypeOK, NEW w \in Workers, Claim(w)
  PROVE  IInv'
<1>1. /\ w \in Finishers /\ pc[w] = "idle" /\ Pending /\ row.wait = 0 /\ lock = None
      /\ row' = [row EXCEPT !.claimant = w, !.wait = Lease]
      /\ pc' = [pc EXCEPT ![w] = "claimed"]
      /\ left' = [left EXCEPT ![w] = ProcessTimeout]
      /\ scoped' = scoped \cup {w}
      /\ UNCHANGED <<job, request, hold, lock, seen, plan, events, archive>>
  BY DEF Claim, Finishers
<1>2. row'.status = "pending" /\ row.status = "pending" /\ row'.charged = row.charged /\ row'.claimant = w /\ row'.wait = Lease
  BY <1>1 DEF TypeOK, Pending
<1>3. Story'
  BY <1>1, <1>2, QuietStory DEF Quiet
<1>4. \A x \in Finishers : pc'[x] = IF x = w THEN "claimed" ELSE pc[x]
  BY <1>1 DEF TypeOK
<1>5. Reporting'
  BY <1>1, <1>2, <1>4, QuietReporting DEF Quiet
<1>6. NotBefore'
  BY <1>1, <1>2 DEF IInv, NotBefore
<1>7. Locked'
  <2>1. \A x \in Finishers : pc'[x] # "locked"
    BY <1>1, <1>4 DEF IInv, Locked, Finishers
  <2> QED
    BY <2>1 DEF Locked
<1>8. Known'
  BY <1>1, <1>4 DEF IInv, Known, Finishers
<1>9. Leased'
  <2>1. \A v \in Workers : pc[v] \notin {"claimed", "polling"}
    BY <1>1 DEF IInv, Leased, TypeOK, Finishers
  <2>2. left'[w] = ProcessTimeout /\ w \in scoped' /\ row'.wait > left'[w]
    BY <1>1, <1>2 DEF TypeOK
  <2>3. \A v \in Workers : v # w => pc'[v] \notin {"claimed", "polling"}
    BY <1>4, <2>1 DEF Finishers
  <2>4. OnePoller'
    BY <2>3 DEF OnePoller
  <2> QED
    BY <1>2, <2>2, <2>3, <2>4 DEF Leased
<1> QED
  BY <1>3, <1>5, <1>6, <1>7, <1>8, <1>9 DEF IInv

(* Leaving, or going to finish, touches the one finisher and takes it out  *)
(* of the places that the invariant speaks of.                             *)
LEMMA LeaveEffect ==
  ASSUME TypeOK, NEW x \in Finishers, Leave(x)
  PROVE  /\ \A y \in Finishers : pc'[y] = IF y = x THEN "idle" ELSE pc[y]
         /\ \A y \in Finishers : y # x => seen'[y] = seen[y] /\ plan'[y] = plan[y] /\ left'[y] = left[y]
         /\ seen'[x].outcome = "progress"
         /\ scoped' = scoped \ {x}
  BY DEF Leave, TypeOK, NothingSeen

LEMMA FinishEffect ==
  ASSUME TypeOK, NEW x \in Finishers, NEW outcome, Finish(x, outcome)
  PROVE  /\ \A y \in Finishers : pc'[y] = IF y = x THEN "finish" ELSE pc[y]
         /\ \A y \in Finishers : y # x => seen'[y] = seen[y]
         /\ seen'[x].outcome = outcome
  BY DEF Finish, TypeOK

(* One finisher steps back to idle or on to finish, and the row stays as it *)
(* is, but for a worker that puts it off under the lock.                    *)
LEMMA InvStep ==
  ASSUME IInv, TypeOK, Quiet, NEW x \in Finishers,
         ~(row.status = "absent" /\ pc'[x] # "idle"),
         row'.claimant = row.claimant,
         row' = row \/ pc[x] = "locked",
         lock' = lock \/ lock = x,
         pc'[x] \in {"idle", "finish"},
         \A y \in Finishers : y # x =>
            pc'[y] = pc[y] /\ seen'[y] = seen[y] /\ plan'[y] = plan[y] /\ left'[y] = left[y],
         scoped \ {x} \subseteq scoped' /\ scoped' \subseteq scoped,
         seen'[x].outcome \in Ends => job.outcome = seen'[x].outcome,
         x \in Callers /\ pc'[x] # "idle" => seen'[x].outcome \in Ends,
         row' # row => x \in Workers
  PROVE  IInv'
<1>1. /\ job' = job /\ request' = request /\ hold' = hold
      /\ row'.status = row.status /\ row'.charged = row.charged
  BY DEF Quiet
<1>2. Story'
  BY QuietStory
<1>3. Reporting'
  BY QuietReporting
<1>4. NotBefore'
  BY <1>1 DEF IInv, NotBefore
<1>5. Known'
  BY <1>1 DEF IInv, Known, Finishers
<1>6. Locked'
  <2> SUFFICES ASSUME NEW y \in Finishers, pc'[y] = "locked"
               PROVE  /\ lock' = y /\ Pending' /\ Fenced(y)'
                      /\ plan'[y].result \in {seen'[y].outcome, "timed_out"}
                      /\ ~plan'[y].held => ~Open'
    BY DEF Locked
  <2>1. y # x /\ pc[y] = "locked" /\ seen'[y] = seen[y] /\ plan'[y] = plan[y]
    OBVIOUS
  <2>2. /\ lock = y /\ Pending /\ Fenced(y) /\ plan[y].result \in {seen[y].outcome, "timed_out"}
        /\ ~plan[y].held => ~Open
    BY <2>1 DEF IInv, Locked
  <2>3. pc[x] # "locked"
    BY <2>1, <2>2 DEF IInv, Locked
  <2> QED
    BY <1>1, <2>1, <2>2, <2>3 DEF Pending, Open, Fenced
<1>7. Leased'
  <2>1. OnePoller'
    BY DEF IInv, Leased, OnePoller, Finishers
  <2>2. ASSUME NEW w \in Workers, pc'[w] \in {"claimed", "polling"}, Pending
        PROVE  row'.claimant = w /\ w \in scoped' /\ row'.wait > left'[w]
    <3>1. w # x /\ pc[w] = pc'[w] /\ left'[w] = left[w]
      BY <2>2 DEF Finishers
    <3>2. row.claimant = w /\ w \in scoped /\ row.wait > left[w]
      BY <2>2, <3>1 DEF IInv, Leased
    <3>3. row' = row
      BY <3>1, <3>2 DEF IInv, Locked, Fenced, Finishers
    <3> QED
      BY <3>1, <3>2, <3>3
  <2> QED
    BY <1>1, <2>1, <2>2 DEF Leased, Pending
<1> QED
  BY <1>2, <1>3, <1>4, <1>5, <1>6, <1>7 DEF IInv

LEMMA InvLeave ==
  ASSUME IInv, TypeOK, NEW x \in Finishers, Leave(x),
         UNCHANGED <<job, request, hold, row, events, archive>>,
         lock' = lock \/ lock = x
  PROVE  IInv'
<1>1. Quiet
  BY DEF Quiet
<1> QED
  BY <1>1, LeaveEffect, InvStep DEF Ends

LEMMA InvFinish ==
  ASSUME IInv, TypeOK, NEW x \in Finishers, NEW outcome, Finish(x, outcome),
         UNCHANGED <<job, request, hold, row, left, events, archive>>,
         \A y \in Finishers : y # x => plan'[y] = plan[y],
         scoped \ {x} \subseteq scoped' /\ scoped' \subseteq scoped,
         lock' = lock \/ lock = x,
         row.status # "absent",
         outcome \in Ends => job.outcome = outcome,
         x \in Callers => outcome \in Ends
  PROVE  IInv'
<1>1. Quiet
  BY DEF Quiet
<1> QED
  BY <1>1, FinishEffect, InvStep

LEMMA InvWork ==
  ASSUME IInv, TypeOK, NEW w \in Workers, Work(w)
  PROVE  IInv'
<1>1. w \in Finishers /\ w \notin Callers
  BY DEF Finishers
<1>2. pc[w] # "idle" => row.status # "absent"
  BY <1>1 DEF IInv, NotBefore
<1>3. CASE Claim(w)
  BY <1>3, InvClaim
<1>4. CASE Read(w)
  <2>1. pc[w] = "claimed" /\ UNCHANGED <<job, request, hold, row, age, lock, events, archive, faults>>
    BY <1>4 DEF Read
  <2>2. CASE Leave(w)
    BY <1>1, <2>1, <2>2, InvLeave
  <2>3. CASE Finish(w, "timed_out") /\ UNCHANGED <<plan, left, scoped>>
    BY <1>1, <1>2, <2>1, <2>3, InvFinish DEF Ends
  <2>4. CASE /\ Pending /\ Fenced(w)
             /\ pc' = [pc EXCEPT ![w] = "polling"] /\ UNCHANGED <<seen, plan, left, scoped>>
    <3>1. \A y \in Finishers : pc'[y] = IF y = w THEN "polling" ELSE pc[y]
      BY <2>4 DEF TypeOK
    <3>2. Quiet
      BY <2>1 DEF Quiet
    <3>3. Story' /\ Reporting'
      BY <2>4, <3>1, <3>2, QuietStory, QuietReporting
    <3>4. NotBefore' /\ Known' /\ Locked'
      BY <1>1, <1>2, <2>1, <2>4, <3>1 DEF IInv, NotBefore, Known, Locked, Pending, Open, Fenced, Finishers
    <3>5. OnePoller'
      <4>1. row.claimant = w
        BY <1>1, <2>4 DEF Fenced
      <4>2. \A v \in Workers : pc[v] = "polling" => v = w
        BY <2>4, <4>1 DEF IInv, Leased
      <4> QED
        BY <3>1, <4>2 DEF OnePoller, Finishers
    <3>6. Leased'
      BY <2>1, <2>4, <3>1, <3>5 DEF IInv, Leased, Pending, Finishers
    <3> QED
      BY <3>3, <3>4, <3>6 DEF IInv
  <2> QED
    BY <1>4, <2>2, <2>3, <2>4 DEF Read
<1>5. CASE TimesOut(w)
  <2>1. /\ Finish(w, "poll_error") /\ plan' = [plan EXCEPT ![w] = NoPlan] /\ scoped' = scoped \ {w}
        /\ lock' = lock \/ lock = w
        /\ UNCHANGED <<job, request, hold, row, left, events, archive>>
    BY <1>5 DEF TimesOut, Freed
  <2>2. \A y \in Finishers : y # w => plan'[y] = plan[y]
    BY <2>1 DEF TypeOK
  <2>3. row.status # "absent"
    BY <1>5 DEF TimesOut, IInv, NotBefore
  <2> QED
    BY <1>1, <2>1, <2>2, <2>3, InvFinish DEF Ends
<1>6. ASSUME NEW ok \in BOOLEAN, NEW said \in Answers \cup {"account_retired"}, Polled(w, ok, said)
      PROVE  IInv'
  <2>1. /\ pc[w] = "polling" /\ Finish(w, Evidence(ok, said))
        /\ UNCHANGED <<job, request, hold, row, age, lock, plan, left, scoped, events, archive, faults>>
    BY <1>6 DEF Polled
  <2>2. Evidence(ok, said) \in Ends => job.outcome = Evidence(ok, said)
    BY <1>6 DEF Polled, Evidence, Ends
  <2> QED
    BY <1>1, <1>2, <2>1, <2>2, InvFinish
<1> QED
  BY <1>3, <1>4, <1>5, <1>6 DEF Work

LEMMA InvObserve ==
  ASSUME IInv, TypeOK, NEW k \in Callers, Observe(k)
  PROVE  IInv'
<1>1. /\ k \in Finishers /\ Pending /\ job.outcome \in Ends /\ Finish(k, job.outcome)
      /\ UNCHANGED <<job, request, hold, row, age, lock, plan, left, scoped, events, archive, faults>>
  BY DEF Observe, Finishers
<1> QED
  BY <1>1, InvFinish DEF Pending

(* Under the lock the row is read afresh, and the hold looked up once.      *)
LEMMA InvLock ==
  ASSUME IInv, TypeOK, NEW x \in Finishers, Lock(x)
  PROVE  IInv'
<1>1. /\ pc[x] = "finish" /\ lock = None
      /\ UNCHANGED <<job, request, hold, row, age, events, archive, faults>>
  BY DEF Lock
<1>2. CASE Leave(x) /\ UNCHANGED lock
  BY <1>1, <1>2, InvLeave
<1>3. CASE /\ Finishable(x)
           /\ pc' = [pc EXCEPT ![x] = "locked"]
           /\ plan' = [plan EXCEPT ![x] = [result |-> Result(x), held |-> Open]]
           /\ lock' = x
           /\ UNCHANGED <<seen, left, scoped>>
  <2>1. /\ \A y \in Finishers : pc'[y] = IF y = x THEN "locked" ELSE pc[y]
        /\ \A y \in Finishers : y # x => plan'[y] = plan[y]
        /\ plan'[x].result = Result(x) /\ plan'[x].held = Open
    BY <1>3 DEF TypeOK
  <2>2. Quiet
    BY <1>1 DEF Quiet
  <2>3. Story' /\ Reporting'
    BY <1>3, <2>1, <2>2, QuietStory, QuietReporting
  <2>4. NotBefore' /\ Known'
    BY <1>1, <1>3, <2>1 DEF IInv, NotBefore, Known, Finishable, Pending, Finishers
  <2>5. Locked'
    <3>1. \A y \in Finishers : pc[y] # "locked"
      BY <1>1 DEF IInv, Locked, Finishers
    <3>2. Result(x) \in {seen[x].outcome, "timed_out"}
      BY DEF Result
    <3>3. Open' <=> Open
      BY <1>1 DEF Open
    <3>4. plan'[x].held <=> Open
      BY <2>1
    <3>5. Pending' /\ Fenced(x)' /\ lock' = x
      BY <1>1, <1>3 DEF Finishable, Pending, Fenced
    <3>6. plan'[x].result \in {seen'[x].outcome, "timed_out"}
      BY <1>3, <2>1, <3>2
    <3> QED
      BY <2>1, <3>1, <3>3, <3>4, <3>5, <3>6 DEF Locked
  <2>6. Leased'
    BY <1>1, <1>3, <2>1 DEF IInv, Leased, OnePoller, Pending, Finishers
  <2> QED
    BY <2>3, <2>4, <2>5, <2>6 DEF IInv
<1> QED
  BY <1>2, <1>3 DEF Lock

(* The commit that ends the row: the lock makes it the only one, and what   *)
(* it writes to the row is what it does to the hold.                        *)
LEMMA InvEnd ==
  ASSUME IInv, TypeOK, NEW x \in Finishers, pc[x] = "locked",
         NEW result \in {"settled", "released", "timed_out", "closed_hold"}, ToReport(x, result),
         row' = [row EXCEPT !.status = row'.status, !.charged = row'.charged],
         Over', ~Open',
         hold' = hold \/ (Open /\ hold'.by = "task"),
         row'.charged = "nothing" \/ hold' # hold,
         hold' # hold => (row'.charged # "nothing" <=> hold'.state = "settled"),
         hold'.state \in {"settled", "released"},
         hold' = [state |-> hold'.state, by |-> hold'.by],
         row'.charged # "nothing" => row'.status = "settled" /\ job.outcome \in Billable,
         result \in {"settled", "released"} => row'.status = result,
         result = "settled" =>
            (row'.charged = "usage" => seen[x].usage) /\ (row'.charged = "reserve" => ~seen[x].usage)
  PROVE  IInv'
<1>1. /\ \A y \in Finishers : pc'[y] = IF y = x THEN "report" ELSE pc[y]
      /\ \A y \in Finishers : y # x => plan'[y] = plan[y]
      /\ plan'[x].result = result
      /\ lock' = None
      /\ UNCHANGED <<job, request, age, seen, left, scoped, events, archive, faults>>
  BY DEF ToReport, TypeOK
<1>2. row.status = "pending" /\ row.charged = "nothing" /\ lock = x
  BY DEF IInv, Locked, Pending, Story, RowMatchesHold
<1>3. \A y \in Finishers : pc[y] # "report"
  BY <1>2 DEF IInv, Reporting, Over
<1>4. \A y \in Finishers : y # x => pc[y] # "locked"
  BY <1>2 DEF IInv, Locked
<1>5. events = 0 /\ archive = None
  BY <1>2 DEF IInv, Reporting, Over
<1>6. row'.status \notin {"absent", "pending"}
  BY DEF Over
<1>7. NotBefore'
  BY <1>1, <1>2, <1>6 DEF IInv, NotBefore
<1>8. Locked'
  BY <1>1, <1>4 DEF Locked
<1>9. Known'
  BY <1>1 DEF IInv, Known, Finishers
<1>10. Leased'
  BY <1>1, <1>6 DEF IInv, Leased, OnePoller, Pending, Finishers
<1>11. Reporting'
  BY <1>1, <1>3, <1>5 DEF IInv, Reporting, OneEnd
<1>12. Story'
  <2>1. hold.by # "task" /\ (Open <=> hold.by = "nobody")
    BY <1>2 DEF IInv, Story, RowMatchesHold, Pending
  <2>2. hold'.by # "nobody"
    BY <2>1 DEF Open
  <2>3. row'.charged # "nothing" <=> hold' = [state |-> "settled", by |-> "task"]
    BY <2>1
  <2>4. RowMatchesHold'
    BY <1>6, <2>3 DEF RowMatchesHold, Pending
  <2>5. ChargedOnEvidence'
    BY <1>1, <2>3 DEF ChargedOnEvidence
  <2> QED
    BY <2>2, <2>4, <2>5 DEF Story, Open
<1> QED
  BY <1>7, <1>8, <1>9, <1>10, <1>11, <1>12 DEF IInv

LEMMA InvCommit ==
  ASSUME IInv, TypeOK, NEW x \in Finishers, Commit(x)
  PROVE  IInv'
<1>1. pc[x] = "locked" /\ row.status = "pending" /\ lock = x /\ row.charged = "nothing"
  BY DEF Commit, CommitCharge, AwaitUsage, CommitReturn, CommitClosedHold, CommitBackOff, Deciding,
         IInv, Locked, Pending, Story, RowMatchesHold
<1>2. plan[x].result \in {seen[x].outcome, "timed_out"} /\ (~plan[x].held => ~Open)
  BY <1>1 DEF IInv, Locked
<1>3. hold.state \in {"open", "listed", "settled", "released"} /\ hold = [state |-> hold.state, by |-> hold.by]
  BY DEF TypeOK
<1>4. ASSUME NEW status \in {"settled", "released", "timed_out"}, NEW state \in {"settled", "released"},
             NEW charged \in {"nothing", "usage", "reserve"}, Ended(x, status, state, charged),
             charged # "nothing" <=> state = "settled",
             state = "settled" => status = "settled" /\ job.outcome \in Billable,
             status = "settled" => state = "settled",
             (charged = "usage" => seen[x].usage) /\ (charged = "reserve" => ~seen[x].usage)
      PROVE  IInv'
  <2> DEFINE paid == IF Open THEN charged ELSE "nothing"
  <2>1. /\ row' = [row EXCEPT !.status = status, !.charged = paid]
        /\ hold' = IF Open THEN [state |-> state, by |-> "task"] ELSE hold
        /\ ToReport(x, status)
    BY <1>4 DEF Ended
  <2>2. row'.status = status /\ row'.charged = paid
    BY <2>1 DEF TypeOK
  <2>3. hold'.state \in {"settled", "released"} /\ hold' = [state |-> hold'.state, by |-> hold'.by]
    BY <1>3, <2>1 DEF Open
  <2>4. Open => hold' # hold /\ hold'.by = "task" /\ hold'.state = state
    BY <2>1 DEF Open
  <2>5. ~Open => hold' = hold
    BY <2>1
  <2>6. Over' /\ ~Open'
    BY <2>2, <2>3 DEF Over, Open
  <2> QED
    BY <1>1, <1>4, <2>1, <2>2, <2>3, <2>4, <2>5, <2>6, InvEnd
<1>5. CASE CommitCharge(x)
  <2>1. plan[x].result \in Billable /\ Ended(x, "settled", "settled", IF seen[x].usage THEN "usage" ELSE "reserve")
    BY <1>5 DEF CommitCharge, Deciding
  <2>2. job.outcome \in Billable
    BY <1>2, <2>1 DEF IInv, Known, Billable, Ends
  <2> QED
    BY <1>4, <2>1, <2>2
<1>6. CASE CommitReturn(x)
  BY <1>4, <1>6 DEF CommitReturn
<1>7. CASE CommitClosedHold(x)
  <2>1. row' = [row EXCEPT !.status = "released"] /\ ToReport(x, "closed_hold") /\ hold' = hold /\ ~Open
    BY <1>2, <1>7 DEF CommitClosedHold
  <2>2. row'.status = "released" /\ row'.charged = "nothing"
        /\ row' = [row EXCEPT !.status = row'.status, !.charged = row'.charged]
    BY <1>1, <2>1 DEF TypeOK
  <2>3. Over' /\ ~Open' /\ hold'.state \in {"settled", "released"} /\ hold' = [state |-> hold'.state, by |-> hold'.by]
    BY <1>3, <2>1, <2>2 DEF Over, Open
  <2> QED
    BY <1>1, <2>1, <2>2, <2>3, InvEnd
<1>8. CASE AwaitUsage(x)
  BY <1>1, <1>8, InvLeave DEF AwaitUsage
<1>9. ASSUME NEW delay \in Delays, CommitBackOff(x, delay)
      PROVE  IInv'
  <2>1. /\ row' = [row EXCEPT !.wait = Until(Sooner(seen[x].age + delay, Window))]
        /\ Leave(x) /\ plan[x].result \in {"progress", "poll_error"}
        /\ UNCHANGED <<job, request, hold, age, events, archive, faults>>
    BY <1>9 DEF CommitBackOff, Deciding
  <2>2. Quiet /\ row'.claimant = row.claimant
    BY <2>1 DEF Quiet, TypeOK
  <2>3. x \in Workers
    BY <1>1, <1>2, <2>1 DEF IInv, Known, Finishers, Ends
  <2> QED
    BY <1>1, <2>1, <2>2, <2>3, LeaveEffect, InvStep DEF Ends
<1> QED
  BY <1>5, <1>6, <1>7, <1>8, <1>9 DEF Commit

LEMMA InvReport ==
  ASSUME IInv, TypeOK, NEW x \in Finishers, Report(x)
  PROVE  IInv'
<1>1. /\ pc[x] = "report" /\ events' = events + 1
      /\ archive' = IF Wins(x) THEN [outcome |-> seen[x].outcome, usage |-> seen[x].usage] ELSE archive
      /\ Leave(x)
      /\ UNCHANGED <<job, request, hold, row, age, lock, faults>>
  BY DEF Report
<1>2. /\ \A y \in Finishers : pc'[y] = IF y = x THEN "idle" ELSE pc[y]
      /\ \A y \in Finishers : y # x => seen'[y] = seen[y] /\ plan'[y] = plan[y] /\ left'[y] = left[y]
      /\ seen'[x].outcome = "progress"
      /\ scoped' = scoped \ {x}
  BY <1>1, LeaveEffect
<1>3. Over /\ events = 0 /\ archive = None /\ \A y \in Finishers : pc[y] = "report" => y = x
  BY <1>1 DEF IInv, Reporting
<1>4. Story'
  BY <1>1 DEF IInv, Story, RowMatchesHold, ChargedOnEvidence, Over, Open, Pending
<1>5. NotBefore' /\ Known'
  BY <1>1, <1>2 DEF IInv, NotBefore, Known, Finishers, Ends
<1>6. Locked'
  BY <1>1, <1>2 DEF IInv, Locked, Pending, Open, Fenced
<1>7. Leased'
  BY <1>1, <1>2 DEF IInv, Leased, OnePoller, Pending, Finishers
<1>8. Reporting'
  <2>1. Wins(x) => /\ seen[x].outcome \in Billable \cup {"failure"}
                   /\ row.status = IF seen[x].outcome \in Billable THEN "settled" ELSE "released"
                   /\ row.charged = "usage" => seen[x].usage
                   /\ row.charged = "reserve" => ~seen[x].usage
    BY <1>1 DEF IInv, Reporting, Wins, Story, RowMatchesHold, Billable
  <2>2. OneEnd'
    BY <1>1, <1>3, <2>1 DEF OneEnd
  <2> QED
    BY <1>1, <1>2, <1>3, <2>2 DEF Reporting, Over
<1> QED
  BY <1>4, <1>5, <1>6, <1>7, <1>8 DEF IInv

LEMMA InvNext == IInv /\ TypeOK /\ [Next]_vars => IInv'
<1> SUFFICES ASSUME IInv, TypeOK, [Next]_vars PROVE IInv'
  OBVIOUS
<1>1. ASSUME NEW x \in Finishers, Drop(x)
      PROVE  IInv'
  BY <1>1, InvLeave DEF Drop, Freed
<1>2. CASE UNCHANGED vars
  BY <1>2 DEF vars, finisher, IInv, NotBefore, Locked, Known, Story, Leased, Reporting, Over, Pending,
     Open, Fenced, RowMatchesHold, ChargedOnEvidence, OnePoller, OneEnd
<1> QED
  BY <1>1, <1>2, InvJob, InvRequest, InvTick, InvWork, InvObserve, InvLock, InvCommit, InvReport DEF Next

LEMMA Invariance == Spec => [](TypeOK /\ IInv)
  BY TypeInit, TypeStep, InvInit, InvNext, PTL DEF Spec

(* However leases, time-outs and crashes fall, no two workers poll the      *)
(* provider for one task: a poll is made inside the lease of the last claim.*)
THEOREM PollsOnce == Spec => []OnePoller
<1>1. IInv => OnePoller
  BY DEF IInv, Leased
<1> QED
  BY <1>1, Invariance, PTL

(* A task charges only when the provider said that its job ended billably.  *)
THEOREM ChargesOnEvidence == Spec => []ChargedOnEvidence
<1>1. IInv => ChargedOnEvidence
  BY DEF IInv, Story
<1> QED
  BY <1>1, Invariance, PTL

(* What the task row reports as charged is what was taken from the hold,    *)
(* whoever of the request, the reaper and the finishers closed it.          *)
THEOREM RowAndHoldAgree == Spec => []RowMatchesHold
<1>1. IInv => RowMatchesHold
  BY DEF IInv, Story
<1> QED
  BY <1>1, Invariance, PTL

(* The task ends once, with one event, and the evidence kept is the answer  *)
(* that decided the money.                                                  *)
THEOREM EndsOnce == Spec => []OneEnd
<1>1. IInv => OneEnd
  BY DEF IInv, Reporting
<1> QED
  BY <1>1, Invariance, PTL

=============================================================================
