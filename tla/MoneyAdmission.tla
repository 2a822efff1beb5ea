-------------------------- MODULE MoneyAdmission --------------------------
(***************************************************************************)
(* The queue in front of the money transactions.  A gate takes its         *)
(* process's own lock of each organization, then a lease per organization  *)
(* in Redis, and runs its transaction inside; a renewer extends the leases *)
(* beside it.  It is an optional queue: a gate that cannot get in runs the *)
(* transaction without it, except a reserve that waited too long, which is *)
(* refused.  Redis answers late, or never, and may still have obeyed.      *)
(*                                                                         *)
(* Time is a set of countdowns.  A process may be late for any of them:    *)
(* a countdown at zero enables a step and forces none.  A gate is its own  *)
(* token, which the code draws at random for every lease.                  *)
(***************************************************************************)
EXTENDS Integers, FiniteSets

CONSTANTS
  Gates,        \* the uses of admit()
  Procs,        \* processes
  Orgs,         \* organizations, by id
  None,         \* nobody
  TTL,          \* money_admission_lease_s
  ReserveWait,  \* money_admission_wait_s
  SettleWait    \* the wait of the other operations, which their caller may cap

ASSUME AdmissionAssumption ==
  /\ None \notin Gates
  /\ Orgs \subseteq Nat /\ IsFiniteSet(Orgs)
  /\ TTL \in Nat \ {0}
  /\ {ReserveWait, SettleWait} \subseteq Nat

VARIABLES
  gate,       \* the gates
  lease,      \* the leases in Redis: owner and time left
  wire,       \* requests for a lease that Redis has not seen, or never will
  down,       \* processes that died
  late,       \* gates whose request reached Redis after they had cleaned up
  outrun      \* gates that lost a lease to another while their transaction ran

vars == <<gate, lease, wire, down, late, outrun>>

-----------------------------------------------------------------------------
Free == [owner |-> None, left |-> 0]

(* why: how admit() goes on when the gate is released: the reserve is      *)
(* refused, the body runs without the queue (fallback), or it is over;     *)
(* tried: leases asked for; held: those confirmed, each with its own view  *)
(* of the time left; renewing: the renewer, off, asleep or at an org.      *)
NewGate == [pc |-> "idle", proc |-> None, ids |-> {}, why |-> "none",
            wait |-> 0, locals |-> {}, tried |-> {}, held |-> {}, valid |-> [o \in Orgs |-> 0],
            age |-> 0, reply |-> "none", again |-> FALSE, lost |-> FALSE, errors |-> FALSE,
            renewer |-> "off", at |-> None, rage |-> 0, rreply |-> "none"]

Init ==
  /\ gate = [g \in Gates |-> NewGate]
  /\ lease = [o \in Orgs |-> Free]
  /\ wire = {}
  /\ down = {} /\ late = {} /\ outrun = {}

(* The ids are sorted, taken from the first and released from the last.    *)
First(S) == {o \in S : \A u \in S : o <= u}
Last(S) == {o \in S : \A u \in S : u <= o}

Vacant(o) == lease[o].owner = None
Became(g, new) == gate' = [gate EXCEPT ![g] = new]

(* The gate no longer trusts a lease of its own.                           *)
OwnershipLost(G) == G.lost \/ \E o \in G.held : G.valid[o] = 0

(* The renewer ends, or goes back to sleep.                                *)
Resting(G) == [G EXCEPT !.renewer = "off", !.at = None, !.rage = 0, !.rreply = "none"]

(* release() begins: the renewer is cancelled, and every lease that may be *)
(* there has to go, confirmed or not.                                      *)
ConfirmedOnly(G) == G.held
Attempted(G) == G.tried

Cleaning(G, why) ==
  [Resting(G) EXCEPT !.pc = "clean", !.why = why, !.tried = Attempted(G), !.reply = "none",
                     !.age = 0, !.wait = 0, !.again = FALSE]

(* The gate is gone; its metrics stay.                                     *)
Gone(G, pc) == [NewGate EXCEPT !.pc = pc, !.lost = G.lost, !.errors = G.errors]

LostOne(G) == [G EXCEPT !.lost = TRUE]
FailedOne(G) == [G EXCEPT !.errors = TRUE]

-----------------------------------------------------------------------------
(* admit() with the queue on for an organization or two.                   *)
WaitBudget(op) == IF op = "reserve" THEN ReserveWait ELSE SettleWait
Unadmitted(op) == IF op = "reserve" THEN "refused" ELSE "fallback"

Admit(g, p, ids, op) ==
  /\ gate[g].pc = "idle" /\ p \notin down
  /\ Became(g, [gate[g] EXCEPT !.pc = "local", !.proc = p, !.ids = ids, !.why = Unadmitted(op),
                               !.wait = WaitBudget(op)])
  /\ UNCHANGED <<lease, wire, down, late, outrun>>

NextLocalAsGiven(G) ==
  IF G.why = "refused" THEN First(G.ids \ G.locals) ELSE Last(G.ids \ G.locals)
NextLocal(G) == First(G.ids \ G.locals)
NextLease(G) == First(G.ids \ G.held)
NextDelete(G) == Last(G.tried)

LocalTaken(p, o) == \E h \in Gates : gate[h].proc = p /\ o \in gate[h].locals

TakeLocal(g) ==
  /\ gate[g].pc = "local"
  /\ \E o \in NextLocal(gate[g]) :
     LET G == [gate[g] EXCEPT !.locals = @ \cup {o}] IN
     /\ ~ LocalTaken(gate[g].proc, o)
     /\ IF G.locals # G.ids THEN Became(g, G)
        ELSE \/ Became(g, [G EXCEPT !.pc = "ask"])
             \/ Became(g, Cleaning(G, "fallback"))      \* no key-value store
  /\ UNCHANGED <<lease, wire, down, late, outrun>>

(* Recorded before it is sent: an answer that gets lost may be a lease.    *)
Ask(g) ==
  /\ gate[g].pc = "ask"
  /\ \E o \in NextLease(gate[g]) :
     IF OwnershipLost(gate[g])
     THEN /\ Became(g, Cleaning([LostOne(gate[g]) EXCEPT !.tried = @ \cup {o}], "fallback"))
          /\ UNCHANGED wire
     ELSE /\ Became(g, [gate[g] EXCEPT !.pc = "asked", !.tried = @ \cup {o}, !.age = 0])
          /\ wire' = wire \cup {<<g, o>>}
  /\ UNCHANGED <<lease, down, late, outrun>>

Awaits(g, o) == gate[g].pc = "asked" /\ o \in NextLease(gate[g]) /\ gate[g].reply = "none"

(* The delete of this lease has been and gone.                             *)
GivenUp(g, o) ==
  \/ o \notin gate[g].tried
  \/ gate[g].pc = "clean" /\ o \in NextDelete(gate[g]) /\ gate[g].reply # "none"

(* SET NX PX.  A request that never arrives stays on the wire.             *)
SetApplied(g, o) ==
  /\ <<g, o>> \in wire
  /\ wire' = wire \ {<<g, o>>}
  /\ lease' = IF Vacant(o) THEN [lease EXCEPT ![o] = [owner |-> g, left |-> TTL]] ELSE lease
  /\ IF Awaits(g, o)
     THEN Became(g, [gate[g] EXCEPT !.reply = IF Vacant(o) THEN "acquired" ELSE "busy"])
     ELSE UNCHANGED gate
  /\ late' = IF Vacant(o) /\ GivenUp(g, o) THEN late \cup {g} ELSE late
  /\ outrun' = IF Vacant(o)
               THEN outrun \cup {h \in Gates \ {g} : gate[h].pc = "in" /\ o \in gate[h].held}
               ELSE outrun
  /\ UNCHANGED down

(* Valid from when the request left, not from when the answer came.        *)
ValidFromReply(age) == TTL
ValidFor(age) == TTL - age

SetAnswered(g) ==
  /\ gate[g].pc = "asked" /\ gate[g].reply # "none"
  /\ \E o \in NextLease(gate[g]) :
     LET G == [gate[g] EXCEPT !.reply = "none", !.age = 0]
         H == [G EXCEPT !.held = @ \cup {o}, !.valid[o] = ValidFor(gate[g].age)]
         R == IF H.renewer = "off" THEN [H EXCEPT !.renewer = "sleep"] ELSE H IN
     Became(g, IF gate[g].reply = "busy" THEN [G EXCEPT !.pc = "ask"]
               ELSE IF OwnershipLost(H) THEN Cleaning(LostOne(H), "fallback")
               ELSE IF R.held # R.ids THEN [R EXCEPT !.pc = "ask"]
               ELSE [R EXCEPT !.pc = "in", !.why = "over", !.wait = 0])
  /\ UNCHANGED <<lease, wire, down, late, outrun>>

(* Redis failed, or did not answer in time; it may obey yet.               *)
SetFails(g) ==
  /\ gate[g].pc = "asked"
  /\ Became(g, Cleaning(FailedOne(gate[g]), "fallback"))
  /\ UNCHANGED <<lease, wire, down, late, outrun>>

(* The budget is over: a reserve is refused, the others go in without.     *)
WaitOver(g) ==
  /\ gate[g].pc \in {"local", "ask", "asked"}
  /\ gate[g].wait = 0
  /\ Became(g, Cleaning(gate[g], gate[g].why))
  /\ UNCHANGED <<lease, wire, down, late, outrun>>

-----------------------------------------------------------------------------
(* The renewer.  When it wakes, and which lease it takes first, is open.   *)
Renew(g) ==
  /\ gate[g].renewer = "sleep"
  /\ IF OwnershipLost(gate[g]) THEN Became(g, Resting(LostOne(gate[g])))
     ELSE \E o \in gate[g].held :
            Became(g, [gate[g] EXCEPT !.renewer = "asks", !.at = o, !.rage = 0])
  /\ UNCHANGED <<lease, wire, down, late, outrun>>

(* The script extends the lease of its owner and never makes one.  It may  *)
(* run twice: the first answer may be lost and the request sent again.     *)
RenewApplied(g) ==
  /\ gate[g].renewer = "asks"
  /\ LET o == gate[g].at
         mine == lease[o].owner = g IN
     /\ lease' = IF mine THEN [lease EXCEPT ![o].left = TTL] ELSE lease
     /\ Became(g, [gate[g] EXCEPT !.rreply = IF mine THEN "renewed" ELSE "lost"])
  /\ UNCHANGED <<wire, down, late, outrun>>

RenewAnswered(g) ==
  /\ gate[g].renewer = "asks" /\ gate[g].rreply # "none"
  /\ LET G == gate[g]
         kept == G.rreply = "renewed" /\ ~ OwnershipLost(G) IN
     Became(g, IF kept THEN [Resting(G) EXCEPT !.renewer = "sleep",
                                                !.valid[G.at] = ValidFor(G.rage)]
               ELSE Resting(LostOne(G)))
  /\ UNCHANGED <<lease, wire, down, late, outrun>>

(* Out of reach, or not before the first lease ends: the transaction goes  *)
(* on, and nothing asks for the lease again.                               *)
RenewFails(g) ==
  /\ gate[g].renewer = "asks"
  /\ Became(g, Resting(LostOne(gate[g])))
  /\ UNCHANGED <<lease, wire, down, late, outrun>>

-----------------------------------------------------------------------------
(* The transaction is over, with or without an error.                      *)
Leave(g) ==
  /\ gate[g].pc = "in"
  /\ Became(g, Cleaning(gate[g], "over"))
  /\ UNCHANGED <<lease, wire, down, late, outrun>>

(* A cancellation also cleans up, and waits for a cleanup under way.       *)
AfterCancel(G) == IF G.pc = "clean" THEN [G EXCEPT !.why = "over"] ELSE Cleaning(G, "over")

Cancel(g) ==
  /\ gate[g].pc \in {"local", "ask", "asked", "in", "clean"}
  /\ Became(g, AfterCancel(gate[g]))
  /\ UNCHANGED <<lease, wire, down, late, outrun>>

(* The script deletes the lease of its owner only.                         *)
Deletes(g, o) == lease[o].owner = g

DeleteApplied(g) ==
  /\ gate[g].pc = "clean" /\ gate[g].tried # {}
  /\ gate[g].reply = "none"
  /\ \E o \in NextDelete(gate[g]) :
     /\ lease' = IF Deletes(g, o) THEN [lease EXCEPT ![o] = Free] ELSE lease
     /\ Became(g, [gate[g] EXCEPT !.reply = IF Deletes(g, o) THEN "deleted" ELSE "absent"])
  /\ UNCHANGED <<wire, down, late, outrun>>

Through(G) == [G EXCEPT !.tried = @ \ NextDelete(G), !.reply = "none", !.again = FALSE]

(* A confirmed lease that is not there any more was lost meanwhile, if the *)
(* script ran for the first time.                                          *)
NoticedOnRetry(G) == G.reply = "absent" /\ G.again /\ NextDelete(G) \subseteq G.held
Noticed(G) == G.reply = "absent" /\ ~ G.again /\ NextDelete(G) \subseteq G.held

DeleteAnswered(g) ==
  /\ gate[g].pc = "clean" /\ gate[g].tried # {} /\ gate[g].reply # "none"
  /\ Became(g, Through(IF Noticed(gate[g]) THEN LostOne(gate[g]) ELSE gate[g]))
  /\ UNCHANGED <<lease, wire, down, late, outrun>>

(* The answer is lost, before or after the script ran: once more, then the *)
(* lease is left to its TTL.                                               *)
DeleteFails(g) ==
  /\ gate[g].pc = "clean" /\ gate[g].tried # {}
  /\ LET G == FailedOne(gate[g]) IN
     \/ ~ G.again /\ Became(g, [G EXCEPT !.again = TRUE, !.reply = "none"])
     \/ Became(g, Through(G))
  /\ UNCHANGED <<lease, wire, down, late, outrun>>

(* The local locks are the last to go, and then admit() does what is left  *)
(* to do: refuse, run the body without the queue, or nothing.              *)
Released(g) ==
  /\ gate[g].pc = "clean" /\ gate[g].tried = {}
  /\ Became(g, Gone(gate[g], "done"))
  /\ UNCHANGED <<lease, wire, down, late, outrun>>

-----------------------------------------------------------------------------
Crash(p) ==
  /\ \E g \in Gates : gate[g].proc = p
  /\ down' = down \cup {p}
  /\ gate' = [g \in Gates |-> IF gate[g].proc = p THEN Gone(NewGate, "dead") ELSE gate[g]]
  /\ UNCHANGED <<lease, wire, late, outrun>>

Less(n) == IF n = 0 THEN 0 ELSE n - 1
More(n) == IF n = TTL THEN TTL ELSE n + 1

Aged(G) == [G EXCEPT !.wait = Less(@), !.valid = [o \in Orgs |-> Less(@[o])],
                     !.age = IF G.pc = "asked" THEN More(@) ELSE 0,
                     !.rage = IF G.renewer = "asks" THEN More(@) ELSE 0]

Tick ==
  /\ gate' = [g \in Gates |-> Aged(gate[g])]
  /\ lease' = [o \in Orgs |-> IF lease[o].left <= 1 THEN Free ELSE [lease[o] EXCEPT !.left = @ - 1]]
  /\ UNCHANGED <<wire, down, late, outrun>>

Next ==
  \/ \E g \in Gates, p \in Procs, ids \in (SUBSET Orgs) \ {{}}, op \in {"reserve", "settle"} : Admit(g, p, ids, op)
  \/ \E g \in Gates : TakeLocal(g) \/ Ask(g) \/ SetAnswered(g) \/ SetFails(g) \/ WaitOver(g)
  \/ \E g \in Gates, o \in Orgs : SetApplied(g, o)
  \/ \E g \in Gates : Renew(g) \/ RenewApplied(g) \/ RenewAnswered(g) \/ RenewFails(g)
  \/ \E g \in Gates : Leave(g) \/ Cancel(g) \/ DeleteApplied(g) \/ DeleteAnswered(g) \/ DeleteFails(g)
                      \/ Released(g)
  \/ \E p \in Procs : Crash(p)
  \/ Tick

Spec == Init /\ [][Next]_vars

-----------------------------------------------------------------------------
GateRecord ==
  [pc : {"idle", "local", "ask", "asked", "in", "clean", "done", "dead"},
   proc : Procs \cup {None}, ids : SUBSET Orgs,
   why : {"none", "fallback", "refused", "over"}, wait : Nat,
   locals : SUBSET Orgs, tried : SUBSET Orgs, held : SUBSET Orgs, valid : [Orgs -> 0 .. TTL],
   age : 0 .. TTL, reply : {"none", "acquired", "busy", "deleted", "absent"}, again : BOOLEAN,
   lost : BOOLEAN, errors : BOOLEAN, renewer : {"off", "sleep", "asks"},
   at : Orgs \cup {None}, rage : 0 .. TTL, rreply : {"none", "renewed", "lost"}]

(* Also: a gate locks and leases only what it was admitted for, and trusts *)
(* no lease for longer than it asked.                                      *)
TypeOK ==
  /\ gate \in [Gates -> GateRecord]
  /\ lease \in [Orgs -> [owner : Gates \cup {None}, left : 0 .. TTL]]
  /\ wire \subseteq Gates \X Orgs
  /\ down \subseteq Procs /\ late \subseteq Gates /\ outrun \subseteq Gates
  /\ \A g \in Gates : gate[g].held \subseteq gate[g].ids /\ gate[g].locals \subseteq gate[g].ids

(* A gate that still trusts its leases has them: nobody else is let in     *)
(* while it does, however late Redis answers and whoever cleans up.        *)
(* _Gate.valid_until, and the owner check of both scripts.                 *)
LeaseBacksBelief ==
  \A g \in Gates : gate[g].pc \in {"ask", "asked", "in"} /\ ~ OwnershipLost(gate[g]) =>
    \A o \in gate[g].held : lease[o].owner = g /\ gate[g].valid[o] <= lease[o].left

(* A gate that is released, whatever ended it, leaves no local lock and no *)
(* lease behind, not even one whose grant was never seen, unless a failure *)
(* of Redis was counted or the request came in after the delete.  What     *)
(* _Gate.attempted and _release_safely are for.                            *)
CleanEnd ==
  \A g \in Gates : gate[g].pc = "done" =>
    /\ gate[g].locals = {}
    /\ \A o \in Orgs : lease[o].owner = g => gate[g].errors \/ g \in late

(* A transaction that ran on after another got its lease says so: the loss *)
(* is in the metrics of admit(), or a failed command is.                   *)
OverrunReported ==
  \A g \in outrun : gate[g].pc = "done" => gate[g].lost \/ gate[g].errors

WaitsFor(g, h) ==
  \/ gate[g].pc = "local" /\ gate[h].proc = gate[g].proc /\ NextLocal(gate[g]) \subseteq gate[h].locals
  \/ gate[g].pc \in {"ask", "asked"} /\ g # h /\ (\E o \in NextLease(gate[g]) : lease[o].owner = h)

(* Gates of several organizations never wait for one another in a circle,  *)
(* neither for local locks nor for leases: ids are sorted, and all local   *)
(* locks come before the first lease.                                      *)
NoCircle ==
  \A S \in (SUBSET Gates) \ {{}} : \E g \in S : \A h \in S : ~ WaitsFor(g, h)
=============================================================================
