----------------------- MODULE MoneyAdmissionProofs -----------------------
(***************************************************************************)
(* That a gate which trusts a lease has it, for any number of gates,       *)
(* processes and organizations and any length of a lease.  What a gate     *)
(* knows of a lease is bounded by when it last asked, so three facts are   *)
(* carried: about a confirmed lease, about a grant on its way back, and    *)
(* about an extension on its way back.                                     *)
(*                                                                         *)
(* Then, that a gate leaves nothing behind, that an overrun is told, and   *)
(* that no gates wait in a circle: a gate takes locks and leases in the    *)
(* order of the ids and remembers what it asked for until it is deleted.   *)
(***************************************************************************)
EXTENDS MoneyAdmission, FiniteSetTheorems, TLAPS

Working == {"ask", "asked", "in"}

(* The shape of a gate: no lease before it asks for one; a renewer runs    *)
(* while it works, on a lease it holds.                                    *)
Sound(G) ==
  /\ G.pc \in {"idle", "local"} => G.held = {}
  /\ G.pc = "idle" => G.locals = {}
  /\ G.reply \in {"acquired", "busy"} => G.pc = "asked"
  /\ G.reply \in {"deleted", "absent"} => G.pc = "clean"
  /\ G.renewer # "off" => G.pc \in Working
  /\ G.renewer = "asks" => G.at \in G.held
  /\ G.renewer # "asks" => G.rreply = "none"

BeliefBacked(G, L, g) ==
  G.pc \in Working => \A o \in G.held : G.valid[o] > 0 => L[o].owner = g /\ G.valid[o] <= L[o].left

GrantBacked(G, L, g) ==
  G.pc = "asked" /\ G.reply = "acquired" /\ G.age < TTL =>
    \A o \in NextLease(G) : L[o].owner = g /\ TTL - G.age <= L[o].left

RenewalBacked(G, L, g) ==
  G.renewer = "asks" /\ G.rreply = "renewed" /\ G.rage < TTL =>
    L[G.at].owner = g /\ TTL - G.rage <= L[G.at].left

Backed(G, L, g) == BeliefBacked(G, L, g) /\ GrantBacked(G, L, g) /\ RenewalBacked(G, L, g)

IInv == TypeOK /\ \A g \in Gates : Sound(gate[g]) /\ Backed(gate[g], lease, g)

Leases == [Orgs -> [owner : Gates \cup {None}, left : 0 .. TTL]]

-----------------------------------------------------------------------------
(* A lease that stays with its owner, for as long or longer, still backs   *)
(* what its owner believes.                                                *)
LEMMA StillBacked ==
  ASSUME NEW g \in Gates, NEW G \in GateRecord, G.held \subseteq G.ids, Sound(G),
         NEW L \in Leases, NEW M \in Leases, Backed(G, L, g),
         \A o \in Orgs : L[o].owner = g => M[o].owner = g /\ L[o].left <= M[o].left
  PROVE  Backed(G, M, g)
<1>1. BeliefBacked(G, M, g)
  BY AdmissionAssumption DEF Backed, BeliefBacked, GateRecord, Leases
<1>2. GrantBacked(G, M, g)
  BY AdmissionAssumption DEF Backed, GrantBacked, NextLease, First, GateRecord, Leases
<1>3. RenewalBacked(G, M, g)
  <2> SUFFICES ASSUME G.renewer = "asks", G.rreply = "renewed", G.rage < TTL
               PROVE  M[G.at].owner = g /\ TTL - G.rage <= M[G.at].left
    BY DEF RenewalBacked
  <2>1. PICK o \in Orgs : o = G.at
    BY DEF Sound, GateRecord
  <2>2. L[o].owner = g /\ TTL - G.rage <= L[o].left
    BY <2>1 DEF Backed, RenewalBacked
  <2>3. L[o].left \in Nat /\ M[o].left \in Nat
    BY AdmissionAssumption DEF Leases
  <2>4. G.rage \in Nat
    BY DEF GateRecord
  <2>5. M[o].owner = g /\ L[o].left <= M[o].left
    BY <2>2
  <2>6. TTL \in Nat
    BY AdmissionAssumption
  <2>7. TTL - G.rage <= M[o].left
    BY <2>2, <2>3, <2>4, <2>5, <2>6
  <2> QED BY <2>1, <2>5, <2>7
<1> QED BY <1>1, <1>2, <1>3 DEF Backed

(* What to show of a step that replaces one gate by another record and     *)
(* takes no lease from the other gates.                                    *)
LEMMA OneGate ==
  ASSUME IInv, NEW g \in Gates, NEW G \in GateRecord, Became(g, G),
         lease' \in Leases, wire' \subseteq Gates \X Orgs,
         down' \subseteq Procs, late' \subseteq Gates, outrun' \subseteq Gates,
         G.held \subseteq G.ids, G.locals \subseteq G.ids,
         Sound(G), Backed(G, lease', g),
         \A h \in Gates \ {g}, o \in Orgs :
           lease[o].owner = h => lease'[o].owner = h /\ lease[o].left <= lease'[o].left
  PROVE  IInv'
<1>1. /\ gate \in [Gates -> GateRecord] /\ gate' = [gate EXCEPT ![g] = G] /\ lease \in Leases
      /\ \A h \in Gates : gate[h].held \subseteq gate[h].ids /\ gate[h].locals \subseteq gate[h].ids
  BY DEF IInv, TypeOK, Became, Leases
<1>2. gate'[g] = G /\ \A h \in Gates \ {g} : gate'[h] = gate[h]
  BY <1>1
<1>3. TypeOK'
  BY <1>1, <1>2 DEF TypeOK, Leases
<1>4. ASSUME NEW h \in Gates PROVE (Sound(gate[h]) /\ Backed(gate[h], lease, h))'
  <2>1. CASE h = g BY <1>2, <2>1 DEF Sound, Backed, BeliefBacked, GrantBacked, RenewalBacked
  <2>2. CASE h # g
    <3>1. Sound(gate[h]) /\ Backed(gate[h], lease, h) BY DEF IInv
    <3>2. Backed(gate[h], lease', h) BY <1>1, <2>2, <3>1, StillBacked
    <3> QED BY <1>2, <2>2, <3>1, <3>2
              DEF Sound, Backed, BeliefBacked, GrantBacked, RenewalBacked
  <2> QED BY <2>1, <2>2
<1> QED BY <1>3, <1>4 DEF IInv

(* A gate stays one when a field of it changes within its type.            *)
LEMMA SetField ==
  ASSUME NEW G \in GateRecord
  PROVE  /\ \A x \in {"idle", "local", "ask", "asked", "in", "clean", "done", "dead"} : [G EXCEPT !.pc = x] \in GateRecord
         /\ \A x \in Procs \cup {None} : [G EXCEPT !.proc = x] \in GateRecord
         /\ \A x \in SUBSET Orgs : [G EXCEPT !.ids = x] \in GateRecord
         /\ \A x \in {"none", "fallback", "refused", "over"} : [G EXCEPT !.why = x] \in GateRecord
         /\ \A x \in Nat : [G EXCEPT !.wait = x] \in GateRecord
         /\ \A x \in SUBSET Orgs : [G EXCEPT !.locals = x] \in GateRecord
         /\ \A x \in SUBSET Orgs : [G EXCEPT !.tried = x] \in GateRecord
         /\ \A x \in SUBSET Orgs : [G EXCEPT !.held = x] \in GateRecord
         /\ \A x \in [Orgs -> 0 .. TTL] : [G EXCEPT !.valid = x] \in GateRecord
         /\ \A x \in 0 .. TTL : [G EXCEPT !.age = x] \in GateRecord
         /\ \A x \in {"none", "acquired", "busy", "deleted", "absent"} : [G EXCEPT !.reply = x] \in GateRecord
         /\ \A x \in BOOLEAN : [G EXCEPT !.again = x] \in GateRecord
         /\ \A x \in BOOLEAN : [G EXCEPT !.lost = x] \in GateRecord
         /\ \A x \in BOOLEAN : [G EXCEPT !.errors = x] \in GateRecord
         /\ \A x \in {"off", "sleep", "asks"} : [G EXCEPT !.renewer = x] \in GateRecord
         /\ \A x \in Orgs \cup {None} : [G EXCEPT !.at = x] \in GateRecord
         /\ \A x \in 0 .. TTL : [G EXCEPT !.rage = x] \in GateRecord
         /\ \A x \in {"none", "renewed", "lost"} : [G EXCEPT !.rreply = x] \in GateRecord
<1>1. \A x \in {"idle", "local", "ask", "asked", "in", "clean", "done", "dead"} : [G EXCEPT !.pc = x] \in GateRecord
  BY DEF GateRecord
<1>2. \A x \in Procs \cup {None} : [G EXCEPT !.proc = x] \in GateRecord
  BY DEF GateRecord
<1>3. \A x \in SUBSET Orgs : [G EXCEPT !.ids = x] \in GateRecord
  BY DEF GateRecord
<1>4. \A x \in {"none", "fallback", "refused", "over"} : [G EXCEPT !.why = x] \in GateRecord
  BY DEF GateRecord
<1>5. \A x \in Nat : [G EXCEPT !.wait = x] \in GateRecord
  BY DEF GateRecord
<1>6. \A x \in SUBSET Orgs : [G EXCEPT !.locals = x] \in GateRecord
  BY DEF GateRecord
<1>7. \A x \in SUBSET Orgs : [G EXCEPT !.tried = x] \in GateRecord
  BY DEF GateRecord
<1>8. \A x \in SUBSET Orgs : [G EXCEPT !.held = x] \in GateRecord
  BY DEF GateRecord
<1>9. \A x \in [Orgs -> 0 .. TTL] : [G EXCEPT !.valid = x] \in GateRecord
  BY DEF GateRecord
<1>10. \A x \in 0 .. TTL : [G EXCEPT !.age = x] \in GateRecord
  BY DEF GateRecord
<1>11. \A x \in {"none", "acquired", "busy", "deleted", "absent"} : [G EXCEPT !.reply = x] \in GateRecord
  BY DEF GateRecord
<1>12. \A x \in BOOLEAN : [G EXCEPT !.again = x] \in GateRecord
  BY DEF GateRecord
<1>13. \A x \in BOOLEAN : [G EXCEPT !.lost = x] \in GateRecord
  BY DEF GateRecord
<1>14. \A x \in BOOLEAN : [G EXCEPT !.errors = x] \in GateRecord
  BY DEF GateRecord
<1>15. \A x \in {"off", "sleep", "asks"} : [G EXCEPT !.renewer = x] \in GateRecord
  BY DEF GateRecord
<1>16. \A x \in Orgs \cup {None} : [G EXCEPT !.at = x] \in GateRecord
  BY DEF GateRecord
<1>17. \A x \in 0 .. TTL : [G EXCEPT !.rage = x] \in GateRecord
  BY DEF GateRecord
<1>18. \A x \in {"none", "renewed", "lost"} : [G EXCEPT !.rreply = x] \in GateRecord
  BY DEF GateRecord
<1> QED BY <1>1, <1>2, <1>3, <1>4, <1>5, <1>6, <1>7, <1>8, <1>9, <1>10, <1>11, <1>12, <1>13, <1>14, <1>15, <1>16, <1>17, <1>18

(* A gate that cleans up, or is gone, believes nothing.                    *)
LEMMA CleaningBelievesNothing ==
  ASSUME NEW g \in Gates, NEW G \in GateRecord, NEW L,
         NEW why \in {"fallback", "refused", "over", "none"},
         G.held \subseteq G.ids, G.locals \subseteq G.ids
  PROVE  /\ Cleaning(G, why) \in GateRecord
         /\ Cleaning(G, why).held \subseteq Cleaning(G, why).ids
         /\ Cleaning(G, why).locals \subseteq Cleaning(G, why).ids
         /\ Sound(Cleaning(G, why)) /\ Backed(Cleaning(G, why), L, g)
<1> DEFINE C == Cleaning(G, why)
<1>1. C \in GateRecord
  <2>1. 0 \in 0 .. TTL /\ 0 \in Nat
    BY AdmissionAssumption
  <2>2. Resting(G) \in GateRecord
    BY <2>1, SetField DEF Resting
  <2>3. G.tried \in SUBSET Orgs
    BY DEF GateRecord
  <2> QED BY ZenonT(60), <2>1, <2>2, <2>3, SetField DEF Cleaning, Attempted
<1>2. /\ C.renewer = "off" /\ C.pc = "clean" /\ C.reply = "none" /\ C.rreply = "none"
      /\ C.held = G.held /\ C.ids = G.ids /\ C.locals = G.locals
  BY DEF Cleaning, Resting, GateRecord
<1> HIDE DEF C
<1>3. Sound(C) /\ Backed(C, L, g)
  BY <1>2 DEF Sound, Backed, BeliefBacked, GrantBacked, RenewalBacked, Working
<1> QED BY <1>1, <1>2, <1>3 DEF C

(* The steps that only send a gate into its cleanup.                       *)
LEMMA CleaningStep ==
  ASSUME IInv, NEW g \in Gates, NEW G \in GateRecord, G.held \subseteq G.ids, G.locals \subseteq G.ids,
         NEW why \in {"fallback", "refused", "over", "none"},
         Became(g, Cleaning(G, why)), UNCHANGED <<lease, wire, down, late, outrun>>
  PROVE  IInv'
<1>1. /\ lease \in Leases /\ wire \subseteq Gates \X Orgs
      /\ down \subseteq Procs /\ late \subseteq Gates /\ outrun \subseteq Gates
  BY DEF IInv, TypeOK, Leases
<1>2. \A h \in Gates, o \in Orgs : lease[o].left <= lease[o].left
  BY <1>1, AdmissionAssumption DEF Leases
<1> DEFINE C == Cleaning(G, why)
<1>3. /\ C \in GateRecord /\ C.held \subseteq C.ids /\ C.locals \subseteq C.ids
      /\ Sound(C) /\ Backed(C, lease, g)
  BY CleaningBelievesNothing
<1>4. Backed(C, lease', g)
  BY <1>3
<1>5. Became(g, C)
  OBVIOUS
<1> HIDE DEF C
<1> QED BY <1>1, <1>2, <1>3, <1>4, <1>5, OneGate

(* The metrics a gate counts say nothing of its leases.                    *)
LEMMA Counted ==
  ASSUME NEW G \in GateRecord
  PROVE  /\ LostOne(G) \in GateRecord /\ FailedOne(G) \in GateRecord
         /\ LostOne(G).held = G.held /\ LostOne(G).ids = G.ids /\ LostOne(G).locals = G.locals
         /\ FailedOne(G).held = G.held /\ FailedOne(G).ids = G.ids /\ FailedOne(G).locals = G.locals
<1>1. LostOne(G) \in GateRecord /\ FailedOne(G) \in GateRecord
  BY SetField DEF LostOne, FailedOne
<1> QED BY <1>1 DEF LostOne, FailedOne, GateRecord

(* What every step starts from.                                            *)
LEMMA Before ==
  ASSUME IInv, NEW g \in Gates
  PROVE  /\ gate[g] \in GateRecord /\ gate[g].held \subseteq gate[g].ids
         /\ gate[g].locals \subseteq gate[g].ids /\ gate[g].why \in {"none", "fallback", "refused", "over"}
         /\ Sound(gate[g]) /\ Backed(gate[g], lease, g)
         /\ lease \in Leases /\ wire \subseteq Gates \X Orgs
         /\ down \subseteq Procs /\ late \subseteq Gates /\ outrun \subseteq Gates
         /\ \A o \in Orgs : lease[o].left \in Nat /\ lease[o].left <= lease[o].left
<1>1. gate[g] \in GateRecord
  BY DEF IInv, TypeOK
<1>2. lease \in Leases
  BY DEF IInv, TypeOK, Leases
<1>3. \A o \in Orgs : lease[o].left \in Nat
  BY <1>2, AdmissionAssumption DEF Leases
<1>4. \A o \in Orgs : lease[o].left <= lease[o].left
  BY <1>3
<1> QED BY <1>1, <1>2, <1>3, <1>4 DEF IInv, TypeOK, GateRecord

-----------------------------------------------------------------------------
LEMMA AdmitKeeps ==
  ASSUME IInv, NEW g \in Gates, NEW p \in Procs, NEW ids \in (SUBSET Orgs) \ {{}},
         NEW op \in {"reserve", "settle"}, Admit(g, p, ids, op)
  PROVE  IInv'
<1> DEFINE H == [gate[g] EXCEPT !.pc = "local", !.proc = p, !.ids = ids, !.why = Unadmitted(op),
                                !.wait = WaitBudget(op)]
<1>1. gate[g].pc = "idle" /\ Became(g, H) /\ UNCHANGED <<lease, wire, down, late, outrun>>
  BY DEF Admit
<1>2. /\ gate[g] \in GateRecord /\ gate[g].held = {} /\ gate[g].locals = {}
      /\ gate[g].renewer = "off" /\ gate[g].rreply = "none" /\ gate[g].reply = "none"
  BY <1>1, Before DEF Sound, Working, GateRecord
<1>3. Unadmitted(op) \in {"none", "fallback", "refused", "over"} /\ WaitBudget(op) \in Nat
  BY AdmissionAssumption DEF Unadmitted, WaitBudget
<1>4. H \in GateRecord
  BY <1>2, <1>3, SetField
<1>5. /\ H.pc = "local" /\ H.held = {} /\ H.locals = {} /\ H.renewer = "off" /\ H.ids = ids
      /\ H.reply = "none" /\ H.rreply = "none"
  BY <1>2 DEF GateRecord
<1> HIDE DEF H
<1>6. Sound(H) /\ Backed(H, lease', g)
  BY <1>5 DEF Sound, Backed, BeliefBacked, GrantBacked, RenewalBacked, Working
<1>7. \A o \in Orgs : lease[o].left <= lease[o].left
  BY Before
<1> QED BY <1>1, <1>4, <1>5, <1>6, <1>7, Before, OneGate

LEMMA TakeLocalKeeps ==
  ASSUME IInv, NEW g \in Gates, TakeLocal(g) PROVE IInv'
<1>1. PICK o \in NextLocal(gate[g]) :
        LET G == [gate[g] EXCEPT !.locals = @ \cup {o}] IN
        IF G.locals # G.ids THEN Became(g, G)
        ELSE Became(g, [G EXCEPT !.pc = "ask"]) \/ Became(g, Cleaning(G, "fallback"))
  BY DEF TakeLocal
<1>2. gate[g].pc = "local" /\ UNCHANGED <<lease, wire, down, late, outrun>>
  BY DEF TakeLocal
<1>3. /\ gate[g] \in GateRecord /\ gate[g].held = {} /\ gate[g].renewer = "off"
      /\ gate[g].locals \subseteq gate[g].ids /\ o \in gate[g].ids
      /\ gate[g].reply = "none" /\ gate[g].rreply = "none"
      /\ gate[g].locals \cup {o} \in SUBSET Orgs
  BY <1>2, Before DEF Sound, Working, GateRecord, NextLocal, First
<1> DEFINE G == [gate[g] EXCEPT !.locals = @ \cup {o}]
           H == [G EXCEPT !.pc = "ask"]
<1>4. /\ G \in GateRecord /\ G.pc = "local" /\ G.held = {} /\ G.renewer = "off" /\ G.ids = gate[g].ids
      /\ G.locals \subseteq G.ids /\ G.reply = "none" /\ G.rreply = "none"
  <2>1. G \in GateRecord
    BY <1>3, SetField
  <2> QED BY <1>2, <1>3, <2>1 DEF GateRecord
<1>5. Became(g, G) \/ Became(g, H) \/ Became(g, Cleaning(G, "fallback"))
  BY <1>1
<1> HIDE DEF G
<1>6. /\ H \in GateRecord /\ H.pc = "ask" /\ H.held = {} /\ H.renewer = "off" /\ H.ids = G.ids
      /\ H.locals \subseteq H.ids /\ H.reply = "none" /\ H.rreply = "none"
  <2>1. H \in GateRecord
    BY <1>4, SetField
  <2> QED BY <1>4, <2>1 DEF GateRecord
<1> HIDE DEF H
<1>7. Sound(G) /\ Backed(G, lease', g) /\ Sound(H) /\ Backed(H, lease', g)
  BY <1>4, <1>6 DEF Sound, Backed, BeliefBacked, GrantBacked, RenewalBacked, Working
<1>8. \A u \in Orgs : lease[u].left <= lease[u].left
  BY Before
<1>9. CASE Became(g, G) BY <1>2, <1>4, <1>7, <1>8, <1>9, Before, OneGate
<1>10. CASE Became(g, H) BY <1>2, <1>6, <1>7, <1>8, <1>10, Before, OneGate
<1>11. CASE Became(g, Cleaning(G, "fallback")) BY <1>2, <1>4, <1>11, CleaningStep
<1> QED BY <1>5, <1>9, <1>10, <1>11

LEMMA AskKeeps ==
  ASSUME IInv, NEW g \in Gates, Ask(g) PROVE IInv'
<1>1. PICK o \in NextLease(gate[g]) :
        IF OwnershipLost(gate[g])
        THEN /\ Became(g, Cleaning([LostOne(gate[g]) EXCEPT !.tried = @ \cup {o}], "fallback"))
             /\ UNCHANGED wire
        ELSE /\ Became(g, [gate[g] EXCEPT !.pc = "asked", !.tried = @ \cup {o}, !.age = 0])
             /\ wire' = wire \cup {<<g, o>>}
  BY DEF Ask
<1>2. gate[g].pc = "ask" /\ UNCHANGED <<lease, down, late, outrun>>
  BY DEF Ask
<1>3. o \in Orgs
  BY Before DEF NextLease, First, GateRecord
<1>4. CASE OwnershipLost(gate[g])
  <2> DEFINE L == LostOne(gate[g])
             G == [L EXCEPT !.tried = @ \cup {o}]
  <2>1. L \in GateRecord /\ L.held \subseteq L.ids /\ L.locals \subseteq L.ids
    BY Before, Counted
  <2> HIDE DEF L
  <2>2. L.tried \cup {o} \in SUBSET Orgs
    BY <2>1, <1>3 DEF GateRecord
  <2>3. G \in GateRecord
    BY <2>1, <2>2, SetField
  <2>4. G.held \subseteq G.ids /\ G.locals \subseteq G.ids
    BY <2>1 DEF GateRecord
  <2>5. Became(g, Cleaning(G, "fallback")) /\ UNCHANGED <<lease, wire, down, late, outrun>>
    BY <1>1, <1>2, <1>4 DEF L
  <2> HIDE DEF G
  <2> QED BY <2>3, <2>4, <2>5, CleaningStep
<1>5. CASE ~ OwnershipLost(gate[g])
  <2> DEFINE H == [gate[g] EXCEPT !.pc = "asked", !.tried = @ \cup {o}, !.age = 0]
  <2>1. gate[g].reply = "none"
    BY <1>2, Before DEF Sound, GateRecord
  <2>2. gate[g].tried \cup {o} \in SUBSET Orgs /\ 0 \in 0 .. TTL
    BY <1>3, Before, AdmissionAssumption DEF GateRecord
  <2>3. H \in GateRecord
    BY <2>2, Before, SetField
  <2>4. /\ H.pc = "asked" /\ H.reply = "none" /\ H.held = gate[g].held /\ H.ids = gate[g].ids
        /\ H.locals = gate[g].locals /\ H.valid = gate[g].valid /\ H.renewer = gate[g].renewer
        /\ H.at = gate[g].at /\ H.rage = gate[g].rage /\ H.rreply = gate[g].rreply
    BY <2>1, Before DEF GateRecord
  <2>5. Became(g, H) /\ wire' = wire \cup {<<g, o>>}
    BY <1>1, <1>5
  <2> HIDE DEF H
  <2>6. Sound(H) /\ Backed(H, lease, g)
    BY <1>2, <2>4, Before DEF Sound, Backed, BeliefBacked, GrantBacked, RenewalBacked, Working
  <2>7. Backed(H, lease', g) /\ wire' \subseteq Gates \X Orgs
    BY <1>2, <1>3, <2>5, <2>6, Before
  <2> QED BY <1>2, <2>3, <2>4, <2>5, <2>6, <2>7, Before, OneGate
<1> QED BY <1>4, <1>5

LEMMA SetAppliedKeeps ==
  ASSUME IInv, NEW g \in Gates, NEW o \in Orgs, SetApplied(g, o) PROVE IInv'
<1> DEFINE reply == IF Vacant(o) THEN "acquired" ELSE "busy"
           H == IF Awaits(g, o) THEN [gate[g] EXCEPT !.reply = reply] ELSE gate[g]
<1>1. /\ wire' = wire \ {<<g, o>>} /\ down' = down
      /\ lease' = IF Vacant(o) THEN [lease EXCEPT ![o] = [owner |-> g, left |-> TTL]] ELSE lease
      /\ late' \subseteq Gates /\ outrun' \subseteq Gates
  BY Before DEF SetApplied
<1>2. Became(g, H)
  <2>1. CASE Awaits(g, o) BY <2>1 DEF SetApplied, Became
  <2>2. CASE ~ Awaits(g, o)
    <3>1. gate' = gate /\ gate \in [Gates -> GateRecord] BY <2>2 DEF SetApplied, IInv, TypeOK
    <3> QED BY <2>2, <3>1 DEF Became
  <2> QED BY <2>1, <2>2
<1>3. TTL \in 0 .. TTL /\ TTL \in Nat /\ None \notin Gates
  BY AdmissionAssumption
<1>4. lease' \in Leases
  BY <1>1, <1>3, Before DEF Leases
<1>5. \A h \in Gates, u \in Orgs :
        lease[u].owner = h => lease'[u].owner = h /\ lease[u].left <= lease'[u].left
  BY <1>1, <1>3, Before DEF Vacant, Leases
<1>6. H \in GateRecord
  BY Before, SetField
<1>7. Backed(gate[g], lease', g)
  BY <1>4, <1>5, Before, StillBacked
<1>8. /\ H.held = gate[g].held /\ H.ids = gate[g].ids /\ H.locals = gate[g].locals
      /\ H.valid = gate[g].valid /\ H.renewer = gate[g].renewer /\ H.at = gate[g].at
      /\ H.rage = gate[g].rage /\ H.rreply = gate[g].rreply /\ H.pc = gate[g].pc /\ H.age = gate[g].age
  BY Before DEF GateRecord
<1>9. CASE Awaits(g, o) /\ Vacant(o)
  <2>1. lease'[o] = [owner |-> g, left |-> TTL]
    BY <1>1, <1>9, Before DEF Leases
  <2>2. \A u \in NextLease(H) : u = o
    <3>1. gate[g].ids \subseteq Nat /\ o \in First(gate[g].ids \ gate[g].held)
      BY <1>9, Before, AdmissionAssumption DEF Awaits, NextLease, GateRecord
    <3>2. NextLease(H) = First(gate[g].ids \ gate[g].held)
      BY <1>8 DEF NextLease
    <3> HIDE DEF H
    <3> QED
      BY <3>1, <3>2 DEF First
  <2>3. H.age \in Nat
    BY <1>6 DEF GateRecord
  <2>4. GrantBacked(H, lease', g)
    BY <1>3, <2>1, <2>2, <2>3 DEF GrantBacked
  <2>5. H.pc = "asked" /\ H.reply = "acquired"
    BY <1>8, <1>9, Before DEF Awaits, GateRecord
  <2> HIDE DEF H
  <2>6. Sound(H) /\ BeliefBacked(H, lease', g) /\ RenewalBacked(H, lease', g)
    BY <1>7, <1>8, <2>5, Before DEF Sound, Backed, BeliefBacked, RenewalBacked, Working
  <2>7. Sound(H) /\ Backed(H, lease', g)
    BY <2>4, <2>6 DEF Backed
  <2> QED BY ZenonT(60), <1>1, <1>2, <1>4, <1>5, <1>6, <1>8, <2>7, Before, OneGate
<1>10. CASE ~ (Awaits(g, o) /\ Vacant(o))
  <2>1. H.reply = gate[g].reply \/ (H.reply = "busy" /\ H.pc = "asked")
    BY <1>8, <1>10, Before DEF Awaits, GateRecord
  <2> HIDE DEF H
  <2>2. Sound(H) /\ BeliefBacked(H, lease', g) /\ RenewalBacked(H, lease', g)
    BY <1>7, <1>8, <2>1, Before DEF Sound, Backed, BeliefBacked, RenewalBacked, Working
  <2>3. GrantBacked(H, lease', g)
    BY <1>7, <1>8, <2>1 DEF Backed, GrantBacked, NextLease
  <2>4. Sound(H) /\ Backed(H, lease', g)
    BY <2>2, <2>3 DEF Backed
  <2> QED BY ZenonT(60), <1>1, <1>2, <1>4, <1>5, <1>6, <1>8, <2>4, Before, OneGate
<1> QED BY <1>9, <1>10

LEMMA SetAnsweredKeeps ==
  ASSUME IInv, NEW g \in Gates, SetAnswered(g) PROVE IInv'
<1>1. PICK o \in NextLease(gate[g]) :
        LET G == [gate[g] EXCEPT !.reply = "none", !.age = 0]
            H == [G EXCEPT !.held = @ \cup {o}, !.valid[o] = ValidFor(gate[g].age)]
            R == IF H.renewer = "off" THEN [H EXCEPT !.renewer = "sleep"] ELSE H IN
        Became(g, IF gate[g].reply = "busy" THEN [G EXCEPT !.pc = "ask"]
                  ELSE IF OwnershipLost(H) THEN Cleaning(LostOne(H), "fallback")
                  ELSE IF R.held # R.ids THEN [R EXCEPT !.pc = "ask"]
                  ELSE [R EXCEPT !.pc = "in", !.why = "over", !.wait = 0])
  BY DEF SetAnswered
<1>2. gate[g].pc = "asked" /\ gate[g].reply # "none" /\ UNCHANGED <<lease, wire, down, late, outrun>>
  BY DEF SetAnswered
<1> DEFINE G == [gate[g] EXCEPT !.reply = "none", !.age = 0]
           H == [G EXCEPT !.held = @ \cup {o}, !.valid[o] = ValidFor(gate[g].age)]
           R == IF H.renewer = "off" THEN [H EXCEPT !.renewer = "sleep"] ELSE H
           A == [G EXCEPT !.pc = "ask"]
           B == [R EXCEPT !.pc = "ask"]
           C == [R EXCEPT !.pc = "in", !.why = "over", !.wait = 0]
<1>3. o \in Orgs /\ o \in gate[g].ids /\ 0 \in 0 .. TTL /\ 0 \in Nat /\ TTL \in Nat
  BY Before, AdmissionAssumption DEF NextLease, First, GateRecord
<1>4. gate[g].age \in 0 .. TTL /\ ValidFor(gate[g].age) \in 0 .. TTL
  BY <1>3, Before DEF ValidFor, GateRecord
<1>5. /\ G \in GateRecord /\ G.pc = "asked" /\ G.reply = "none" /\ G.held = gate[g].held
      /\ G.ids = gate[g].ids /\ G.locals = gate[g].locals /\ G.valid = gate[g].valid
      /\ G.renewer = gate[g].renewer /\ G.at = gate[g].at /\ G.rage = gate[g].rage
      /\ G.rreply = gate[g].rreply
  <2>1. G \in GateRecord BY <1>3, Before, SetField
  <2> QED BY <1>2, <2>1, Before DEF GateRecord
<1>6. /\ H \in GateRecord /\ H.pc = "asked" /\ H.reply = "none" /\ H.held = G.held \cup {o}
      /\ H.valid = [G.valid EXCEPT ![o] = ValidFor(gate[g].age)]
      /\ H.ids = G.ids /\ H.locals = G.locals /\ H.renewer = G.renewer /\ H.at = G.at
      /\ H.rage = G.rage /\ H.rreply = G.rreply
  <2>1. PICK M : M = [G EXCEPT !.held = @ \cup {o}] OBVIOUS
  <2>2. PICK v : v = [G.valid EXCEPT ![o] = ValidFor(gate[g].age)] OBVIOUS
  <2> HIDE DEF G
  <2>3. G.held \cup {o} \in SUBSET Orgs /\ v \in [Orgs -> 0 .. TTL]
    BY <1>3, <1>4, <1>5, <2>2 DEF GateRecord
  <2>4. M \in GateRecord
    BY <1>5, <2>1, <2>3, SetField
  <2>5. M.valid = G.valid
    BY <1>5, <2>1 DEF GateRecord
  <2>6. H = [M EXCEPT !.valid = v]
    BY <2>1, <2>2, <2>4, <2>5 DEF GateRecord
  <2>7. H \in GateRecord
    BY <2>3, <2>4, <2>6, SetField
  <2>8. M.held = G.held \cup {o} /\ M.pc = G.pc /\ M.reply = G.reply /\ M.ids = G.ids
        /\ M.locals = G.locals /\ M.renewer = G.renewer /\ M.at = G.at
        /\ M.rage = G.rage /\ M.rreply = G.rreply
    BY <1>5, <2>1 DEF GateRecord
  <2> HIDE DEF H
  <2>9. /\ H.held = M.held /\ H.pc = M.pc /\ H.reply = M.reply /\ H.ids = M.ids
        /\ H.locals = M.locals /\ H.renewer = M.renewer /\ H.at = M.at
        /\ H.rage = M.rage /\ H.rreply = M.rreply /\ H.valid = v
    BY <2>4, <2>6 DEF GateRecord
  <2> QED BY <1>5, <2>2, <2>7, <2>8, <2>9
<1>7. CASE gate[g].reply = "busy"
  <2>1. Became(g, A)
    BY <1>1, <1>7
  <2> HIDE DEF G
  <2>2. A \in GateRecord
    BY <1>5, SetField
  <2>3. /\ A.pc = "ask" /\ A.reply = "none" /\ A.held = G.held /\ A.ids = G.ids /\ A.locals = G.locals
        /\ A.valid = G.valid /\ A.renewer = G.renewer /\ A.at = G.at /\ A.rage = G.rage
        /\ A.rreply = G.rreply
    BY <1>5 DEF GateRecord
  <2> HIDE DEF A
  <2>4. Sound(A) /\ Backed(A, lease', g)
    BY <1>2, <1>5, <2>3, Before DEF Sound, Backed, BeliefBacked, GrantBacked, RenewalBacked, Working
  <2> QED BY <1>2, <1>5, <2>1, <2>2, <2>3, <2>4, Before, OneGate
<1>8. CASE gate[g].reply # "busy" /\ OwnershipLost(H)
  <2>1. Became(g, Cleaning(LostOne(H), "fallback"))
    BY <1>1, <1>8
  <2> HIDE DEF H
  <2>2. LostOne(H) \in GateRecord /\ LostOne(H).held \subseteq LostOne(H).ids
        /\ LostOne(H).locals \subseteq LostOne(H).ids
    BY <1>3, <1>5, <1>6, Before, Counted
  <2> QED BY <1>2, <2>1, <2>2, CleaningStep
<1>9. CASE gate[g].reply # "busy" /\ ~ OwnershipLost(H)
  <2>1. Became(g, B) \/ Became(g, C)
    BY <1>1, <1>9
  <2>2. gate[g].reply = "acquired"
    BY <1>2, <1>9, Before DEF Sound, GateRecord
  <2> HIDE DEF G, H
  <2>3. /\ R \in GateRecord /\ R.pc = "asked" /\ R.reply = "none" /\ R.held = H.held /\ R.valid = H.valid
        /\ R.ids = H.ids /\ R.locals = H.locals /\ (R.renewer = "asks" <=> H.renewer = "asks")
        /\ R.at = H.at /\ R.rage = H.rage /\ R.rreply = H.rreply
    <3>1. R \in GateRecord
      BY <1>6, SetField
    <3> QED BY <1>6, <3>1 DEF GateRecord
  <2> HIDE DEF R
  <2>4. B \in GateRecord /\ C \in GateRecord
    BY <1>3, <2>3, SetField
  <2>5. /\ B.pc \in Working \ {"asked"} /\ B.reply = "none" /\ B.held = R.held /\ B.valid = R.valid
        /\ B.ids = R.ids /\ B.locals = R.locals /\ B.renewer = R.renewer
        /\ B.at = R.at /\ B.rage = R.rage /\ B.rreply = R.rreply
    BY <2>3 DEF GateRecord, Working
  <2>6. /\ C.pc \in Working \ {"asked"} /\ C.reply = "none" /\ C.held = R.held /\ C.valid = R.valid
        /\ C.ids = R.ids /\ C.locals = R.locals /\ C.renewer = R.renewer
        /\ C.at = R.at /\ C.rage = R.rage /\ C.rreply = R.rreply
    BY <2>3 DEF GateRecord, Working
  <2> HIDE DEF B, C
  <2>7. ASSUME NEW u \in R.held, R.valid[u] > 0
        PROVE  lease[u].owner = g /\ R.valid[u] <= lease[u].left
    <3>0. /\ gate[g].valid \in [Orgs -> 0 .. TTL] /\ gate[g].held \subseteq Orgs
      BY Before DEF GateRecord
    <3>1. CASE u = o
      <4>1. R.valid[u] = TTL - gate[g].age
        BY <1>3, <1>5, <1>6, <2>3, <3>0, <3>1 DEF ValidFor
      <4>2. gate[g].age < TTL
        BY <1>3, <1>4, <2>7, <4>1
      <4>3. lease[o].owner = g /\ TTL - gate[g].age <= lease[o].left
        BY <1>1, <1>2, <2>2, <4>2, Before DEF Backed, GrantBacked
      <4> QED BY <3>1, <4>1, <4>3
    <3>2. CASE u # o
      <4>1. u \in gate[g].held /\ R.valid[u] = gate[g].valid[u]
        BY <1>3, <1>5, <1>6, <2>3, <3>0, <3>2
      <4> QED BY <1>2, <2>7, <4>1, Before DEF Backed, BeliefBacked, Working
    <3> QED BY <3>1, <3>2
  <2>8. /\ RenewalBacked(R, lease, g) /\ (R.renewer = "asks" => R.at \in R.held)
        /\ R.renewer # "asks" => R.rreply = "none"
    BY <1>5, <1>6, <2>3, Before DEF Backed, RenewalBacked, Sound
  <2>9. R.held \subseteq R.ids /\ R.locals \subseteq R.ids
    BY <1>3, <1>5, <1>6, <2>3, Before
  <2>10. \A o_1 \in Orgs : lease[o_1].left <= lease[o_1].left
    BY Before
  <2>11. CASE Became(g, B)
    <3>1. Sound(B) /\ Backed(B, lease, g)
      BY <2>5, <2>7, <2>8 DEF Sound, Backed, BeliefBacked, GrantBacked, RenewalBacked, Working
    <3>2. Backed(B, lease', g)
      BY <1>2, <3>1
    <3> QED BY <1>2, <2>4, <2>5, <2>9, <2>10, <2>11, <3>1, <3>2, Before, OneGate
  <2>12. CASE Became(g, C)
    <3>1. Sound(C) /\ Backed(C, lease, g)
      BY <2>6, <2>7, <2>8 DEF Sound, Backed, BeliefBacked, GrantBacked, RenewalBacked, Working
    <3>2. Backed(C, lease', g)
      BY <1>2, <3>1
    <3> QED BY <1>2, <2>4, <2>6, <2>9, <2>10, <2>12, <3>1, <3>2, Before, OneGate
  <2> QED BY <2>1, <2>11, <2>12
<1> QED BY <1>7, <1>8, <1>9

LEMMA SetFailsKeeps ==
  ASSUME IInv, NEW g \in Gates, SetFails(g) PROVE IInv'
<1>1. /\ Became(g, Cleaning(FailedOne(gate[g]), "fallback"))
      /\ UNCHANGED <<lease, wire, down, late, outrun>>
  BY DEF SetFails
<1>2. /\ FailedOne(gate[g]) \in GateRecord /\ FailedOne(gate[g]).held \subseteq FailedOne(gate[g]).ids
      /\ FailedOne(gate[g]).locals \subseteq FailedOne(gate[g]).ids
  BY Before, Counted
<1> QED BY <1>1, <1>2, CleaningStep

LEMMA WaitOverKeeps ==
  ASSUME IInv, NEW g \in Gates, WaitOver(g) PROVE IInv'
<1>1. /\ Became(g, Cleaning(gate[g], gate[g].why))
      /\ UNCHANGED <<lease, wire, down, late, outrun>>
  BY DEF WaitOver
<1> QED BY <1>1, Before, CleaningStep

LEMMA LeaveKeeps ==
  ASSUME IInv, NEW g \in Gates, Leave(g) PROVE IInv'
<1>1. /\ Became(g, Cleaning(gate[g], "over"))
      /\ UNCHANGED <<lease, wire, down, late, outrun>>
  BY DEF Leave
<1> QED BY <1>1, Before, CleaningStep

LEMMA CancelKeeps ==
  ASSUME IInv, NEW g \in Gates, Cancel(g) PROVE IInv'
<1>1. /\ Became(g, AfterCancel(gate[g]))
      /\ UNCHANGED <<lease, wire, down, late, outrun>>
  BY DEF Cancel
<1>2. CASE gate[g].pc = "clean"
  <2> DEFINE H == [gate[g] EXCEPT !.why = "over"]
  <2>1. Became(g, H)
    BY <1>1, <1>2 DEF AfterCancel
  <2>2. H \in GateRecord
    BY Before, SetField
  <2>3. /\ H.pc = "clean" /\ H.reply = gate[g].reply /\ H.held = gate[g].held /\ H.ids = gate[g].ids
        /\ H.locals = gate[g].locals /\ H.renewer = "off" /\ H.rreply = "none"
    BY <1>2, Before DEF Sound, Working, GateRecord
  <2> HIDE DEF H
  <2>4. Sound(H) /\ Backed(H, lease', g)
    BY <1>2, <2>3, Before DEF Sound, Backed, BeliefBacked, GrantBacked, RenewalBacked, Working
  <2> QED BY <1>1, <2>1, <2>2, <2>3, <2>4, Before, OneGate
<1>3. CASE gate[g].pc # "clean"
  <2>1. Became(g, Cleaning(gate[g], "over"))
    BY <1>1, <1>3 DEF AfterCancel
  <2> QED BY <1>1, <2>1, Before, CleaningStep
<1> QED BY <1>2, <1>3

-----------------------------------------------------------------------------
(* The renewer going to sleep, or ending with the loss on record.          *)
LEMMA RestingKeeps ==
  ASSUME IInv, NEW g \in Gates, gate[g].renewer # "off",
         Became(g, Resting(LostOne(gate[g]))), UNCHANGED <<lease, wire, down, late, outrun>>
  PROVE  IInv'
<1> DEFINE L == LostOne(gate[g])
           H == Resting(L)
<1>1. /\ L \in GateRecord /\ L.pc = gate[g].pc /\ L.held = gate[g].held /\ L.ids = gate[g].ids
      /\ L.locals = gate[g].locals /\ L.valid = gate[g].valid /\ L.reply = gate[g].reply
      /\ L.age = gate[g].age
  <2>1. L \in GateRecord BY Before, Counted
  <2> QED BY <2>1, Before DEF LostOne, GateRecord
<1>1a. Sound(gate[g]) /\ Backed(gate[g], lease, g)
  BY Before
<1> HIDE DEF L
<1>2. H \in GateRecord
  <2>1. 0 \in 0 .. TTL BY AdmissionAssumption
  <2> QED BY <1>1, <2>1, SetField DEF Resting
<1>3. /\ H.pc = L.pc /\ H.held = L.held /\ H.ids = L.ids /\ H.locals = L.locals /\ H.valid = L.valid
      /\ H.reply = L.reply /\ H.age = L.age /\ H.renewer = "off" /\ H.rreply = "none"
  BY <1>1 DEF Resting, GateRecord
<1>4. Became(g, H)
  BY DEF L
<1> HIDE DEF H
<1>5. Sound(H) /\ BeliefBacked(H, lease, g) /\ RenewalBacked(H, lease, g)
  BY <1>1, <1>1a, <1>3 DEF Sound, Backed, BeliefBacked, RenewalBacked, Working
<1>6. GrantBacked(H, lease, g)
  BY <1>1, <1>1a, <1>3 DEF Backed, GrantBacked, NextLease
<1>7. Backed(H, lease', g)
  BY <1>5, <1>6 DEF Backed
<1> QED BY <1>1, <1>2, <1>3, <1>4, <1>5, <1>7, Before, OneGate

LEMMA RenewFailsKeeps ==
  ASSUME IInv, NEW g \in Gates, RenewFails(g) PROVE IInv'
<1>1. /\ gate[g].renewer # "off" /\ Became(g, Resting(LostOne(gate[g])))
      /\ UNCHANGED <<lease, wire, down, late, outrun>>
  BY DEF RenewFails
<1> QED BY <1>1, RestingKeeps

LEMMA RenewKeeps ==
  ASSUME IInv, NEW g \in Gates, Renew(g) PROVE IInv'
<1>1. gate[g].renewer = "sleep" /\ UNCHANGED <<lease, wire, down, late, outrun>>
  BY DEF Renew
<1>2. CASE Became(g, Resting(LostOne(gate[g])))
  BY <1>1, <1>2, RestingKeeps
<1>3. CASE ~ Became(g, Resting(LostOne(gate[g])))
  <2>1. PICK o \in gate[g].held :
          Became(g, [gate[g] EXCEPT !.renewer = "asks", !.at = o, !.rage = 0])
    BY <1>3 DEF Renew
  <2> DEFINE H == [gate[g] EXCEPT !.renewer = "asks", !.at = o, !.rage = 0]
  <2>2. o \in Orgs \cup {None} /\ 0 \in 0 .. TTL
    BY <2>1, Before, AdmissionAssumption DEF GateRecord
  <2>3. H \in GateRecord
    BY <2>2, Before, SetField
  <2>4. /\ H.pc = gate[g].pc /\ H.held = gate[g].held /\ H.ids = gate[g].ids
        /\ H.locals = gate[g].locals /\ H.valid = gate[g].valid /\ H.reply = gate[g].reply
        /\ H.age = gate[g].age /\ H.renewer = "asks" /\ H.at = o /\ H.rreply = gate[g].rreply
    BY Before DEF GateRecord
  <2>5. Became(g, H) BY <2>1
  <2>6. gate[g].rreply = "none"
    BY <1>1, Before DEF Sound
  <2> HIDE DEF H
  <2>7. Sound(H) /\ BeliefBacked(H, lease, g) /\ RenewalBacked(H, lease, g)
    BY <1>1, <2>1, <2>4, <2>6, Before DEF Sound, Backed, BeliefBacked, RenewalBacked, Working
  <2>8. GrantBacked(H, lease, g)
    BY ZenonT(60), <2>4, Before DEF Backed, GrantBacked, NextLease
  <2>9. Backed(H, lease', g)
    BY <1>1, <2>7, <2>8 DEF Backed
  <2> QED BY <1>1, <2>3, <2>4, <2>5, <2>7, <2>9, Before, OneGate
<1> QED BY <1>2, <1>3

LEMMA RenewAppliedKeeps ==
  ASSUME IInv, NEW g \in Gates, RenewApplied(g) PROVE IInv'
<1> DEFINE o == gate[g].at
           mine == lease[o].owner = g
           answer == IF mine THEN "renewed" ELSE "lost"
           H == [gate[g] EXCEPT !.rreply = answer]
<1>1. /\ gate[g].renewer = "asks" /\ Became(g, H) /\ UNCHANGED <<wire, down, late, outrun>>
      /\ lease' = IF mine THEN [lease EXCEPT ![o].left = TTL] ELSE lease
  BY DEF RenewApplied
<1>2. o \in Orgs /\ o \in gate[g].held
  BY <1>1, Before DEF Sound, GateRecord
<1>3. TTL \in 0 .. TTL /\ TTL \in Nat
  BY AdmissionAssumption
<1> HIDE DEF o
<1>4. lease' \in Leases
  BY <1>1, <1>2, <1>3, Before DEF Leases
<1>5. \A h \in Gates, u \in Orgs :
        lease[u].owner = h => lease'[u].owner = h /\ lease[u].left <= lease'[u].left
  BY <1>1, <1>2, <1>3, Before DEF Leases
<1>6. Backed(gate[g], lease', g)
  BY <1>4, <1>5, Before, StillBacked
<1>7. H \in GateRecord
  BY Before, SetField
<1>8. /\ H.pc = gate[g].pc /\ H.held = gate[g].held /\ H.ids = gate[g].ids
      /\ H.locals = gate[g].locals /\ H.valid = gate[g].valid /\ H.reply = gate[g].reply
      /\ H.age = gate[g].age /\ H.renewer = "asks" /\ H.at = o /\ H.rage = gate[g].rage
      /\ H.rreply = answer
  BY <1>1, Before DEF o, GateRecord
<1>9. mine => lease'[o].owner = g /\ lease'[o].left = TTL
  BY <1>1, <1>2, Before DEF Leases
<1>10. gate[g].rage \in Nat
  BY Before DEF GateRecord
<1> HIDE DEF H
<1>11. Sound(H) /\ BeliefBacked(H, lease', g)
  BY <1>1, <1>2, <1>6, <1>8, Before DEF Sound, Backed, BeliefBacked, Working
<1>12. GrantBacked(H, lease', g)
  BY <1>6, <1>8 DEF Backed, GrantBacked, NextLease
<1>13. RenewalBacked(H, lease', g)
  BY <1>3, <1>8, <1>9, <1>10 DEF RenewalBacked
<1>14. Backed(H, lease', g)
  BY <1>11, <1>12, <1>13 DEF Backed
<1> QED BY <1>1, <1>4, <1>5, <1>7, <1>8, <1>11, <1>14, Before, OneGate

LEMMA RenewAnsweredKeeps ==
  ASSUME IInv, NEW g \in Gates, RenewAnswered(g) PROVE IInv'
<1> DEFINE R == Resting(gate[g])
           o == gate[g].at
           H == [R EXCEPT !.renewer = "sleep", !.valid[o] = ValidFor(gate[g].rage)]
           kept == gate[g].rreply = "renewed" /\ ~ OwnershipLost(gate[g])
<1>1. /\ gate[g].renewer = "asks" /\ UNCHANGED <<lease, wire, down, late, outrun>>
      /\ Became(g, IF kept THEN H ELSE Resting(LostOne(gate[g])))
  BY DEF RenewAnswered
<1>2. CASE ~ kept
  BY <1>1, <1>2, RestingKeeps
<1>3. CASE kept
  <2>1. Became(g, H)
    BY <1>1, <1>3
  <2>2. o \in Orgs /\ o \in gate[g].held /\ TTL \in Nat
    BY <1>1, Before, AdmissionAssumption DEF Sound, GateRecord
  <2>3. gate[g].rage \in 0 .. TTL /\ ValidFor(gate[g].rage) \in 0 .. TTL
    BY <2>2, Before DEF ValidFor, GateRecord
  <2>4. /\ R \in GateRecord /\ R.pc = gate[g].pc /\ R.held = gate[g].held /\ R.ids = gate[g].ids
        /\ R.locals = gate[g].locals /\ R.valid = gate[g].valid /\ R.reply = gate[g].reply
        /\ R.age = gate[g].age /\ R.renewer = "off" /\ R.rreply = "none"
    <3>1. 0 \in 0 .. TTL BY <2>2
    <3>2. R \in GateRecord BY <3>1, Before, SetField DEF Resting
    <3>3. /\ R.pc = gate[g].pc /\ R.held = gate[g].held /\ R.ids = gate[g].ids
          /\ R.locals = gate[g].locals /\ R.valid = gate[g].valid /\ R.reply = gate[g].reply
          /\ R.age = gate[g].age
      BY Before DEF Resting, GateRecord
    <3>4. R.renewer = "off" /\ R.rreply = "none"
      BY Before DEF Resting, GateRecord
    <3> QED BY <3>2, <3>3, <3>4
  <2>5. PICK v : v = [R.valid EXCEPT ![o] = ValidFor(gate[g].rage)] OBVIOUS
  <2>6. PICK S : S = [R EXCEPT !.renewer = "sleep"] OBVIOUS
  <2> HIDE DEF R, o
  <2>7. v \in [Orgs -> 0 .. TTL]
    BY <2>2, <2>3, <2>4, <2>5 DEF GateRecord
  <2>8. S \in GateRecord
    BY <2>4, <2>6, SetField
  <2>9. S.valid = R.valid
    BY <2>4, <2>6 DEF GateRecord
  <2>10. H = [S EXCEPT !.valid = v]
    BY <2>5, <2>6, <2>8, <2>9 DEF GateRecord
  <2>11. H \in GateRecord
    BY <2>7, <2>8, <2>10, SetField
  <2>12. /\ H.pc = gate[g].pc /\ H.held = gate[g].held /\ H.ids = gate[g].ids
         /\ H.locals = gate[g].locals /\ H.valid = v /\ H.reply = gate[g].reply
         /\ H.age = gate[g].age /\ H.renewer = "sleep" /\ H.rreply = "none"
    <3>1. /\ S.pc = R.pc /\ S.held = R.held /\ S.ids = R.ids /\ S.locals = R.locals
          /\ S.reply = R.reply /\ S.age = R.age /\ S.renewer = "sleep" /\ S.rreply = R.rreply
      BY <2>4, <2>6 DEF GateRecord
    <3> HIDE DEF H
    <3> QED BY <2>4, <2>8, <2>10, <3>1 DEF GateRecord
  <2> HIDE DEF H
  <2>13. ASSUME NEW u \in H.held, H.pc \in Working, H.valid[u] > 0
         PROVE  lease[u].owner = g /\ H.valid[u] <= lease[u].left
    <3>1. u \in Orgs /\ u \in gate[g].held
      BY <2>12, Before DEF GateRecord
    <3>2. CASE u = o
      <4>1. H.valid[u] = TTL - gate[g].rage
        BY <2>2, <2>4, <2>5, <2>12, <3>2 DEF ValidFor, GateRecord
      <4>2. gate[g].rage < TTL
        BY <2>2, <2>3, <2>13, <4>1
      <4> QED BY <1>1, <1>3, <3>2, <4>1, <4>2, Before DEF o, Backed, RenewalBacked
    <3>3. CASE u # o
      <4>1. H.valid[u] = gate[g].valid[u]
        BY <2>2, <2>4, <2>5, <2>12, <3>1, <3>3 DEF GateRecord
      <4> QED BY <2>12, <2>13, <3>1, <4>1, Before DEF Backed, BeliefBacked
    <3> QED BY <3>2, <3>3
  <2>14. Sound(H) /\ BeliefBacked(H, lease, g) /\ RenewalBacked(H, lease, g)
    BY <1>1, <2>12, <2>13, Before DEF Sound, BeliefBacked, RenewalBacked, Working
  <2>15. GrantBacked(H, lease, g)
    BY <2>12, Before DEF Backed, GrantBacked, NextLease
  <2>16. Backed(H, lease', g)
    BY <1>1, <2>14, <2>15 DEF Backed
  <2> QED BY <1>1, <2>1, <2>11, <2>12, <2>14, <2>16, Before, OneGate
<1> QED BY <1>2, <1>3

-----------------------------------------------------------------------------
(* A step of the cleanup that changes neither what the gate is for nor     *)
(* what it held.                                                           *)
LEMMA CleanupStep ==
  ASSUME IInv, NEW g \in Gates, gate[g].pc = "clean", NEW H \in GateRecord, Became(g, H),
         H.pc = "clean", H.held = gate[g].held, H.ids = gate[g].ids, H.locals = gate[g].locals,
         H.renewer = gate[g].renewer, H.rreply = gate[g].rreply, H.reply \notin {"acquired", "busy"},
         lease' \in Leases, UNCHANGED <<wire, down, late, outrun>>,
         \A h \in Gates \ {g}, o \in Orgs :
           lease[o].owner = h => lease'[o].owner = h /\ lease[o].left <= lease'[o].left
  PROVE  IInv'
<1>1. Sound(H) /\ Backed(H, lease', g)
  BY Before DEF Sound, Backed, BeliefBacked, GrantBacked, RenewalBacked, Working
<1> QED BY <1>1, Before, OneGate

LEMMA DeleteAppliedKeeps ==
  ASSUME IInv, NEW g \in Gates, DeleteApplied(g) PROVE IInv'
<1>1. gate[g].pc = "clean" /\ UNCHANGED <<wire, down, late, outrun>>
  BY DEF DeleteApplied
<1>2. PICK o \in NextDelete(gate[g]) :
        /\ lease' = IF Deletes(g, o) THEN [lease EXCEPT ![o] = Free] ELSE lease
        /\ Became(g, [gate[g] EXCEPT !.reply = IF Deletes(g, o) THEN "deleted" ELSE "absent"])
  BY DEF DeleteApplied
<1> DEFINE H == [gate[g] EXCEPT !.reply = IF Deletes(g, o) THEN "deleted" ELSE "absent"]
<1>3. o \in Orgs /\ 0 \in 0 .. TTL
  BY Before, AdmissionAssumption DEF NextDelete, Last, GateRecord
<1>4. lease' \in Leases
  BY <1>2, <1>3, Before DEF Leases, Free
<1>5. \A h \in Gates \ {g}, u \in Orgs :
        lease[u].owner = h => lease'[u].owner = h /\ lease[u].left <= lease'[u].left
  BY <1>2, <1>3, Before DEF Leases, Deletes
<1>6. H \in GateRecord
  BY Before, SetField
<1>7. /\ H.pc = "clean" /\ H.held = gate[g].held /\ H.ids = gate[g].ids /\ H.locals = gate[g].locals
      /\ H.renewer = gate[g].renewer /\ H.rreply = gate[g].rreply /\ H.reply \in {"deleted", "absent"}
  BY <1>1, Before DEF GateRecord
<1>8. Became(g, H)
  BY <1>2
<1> HIDE DEF H
<1> QED BY <1>1, <1>4, <1>5, <1>6, <1>7, <1>8, CleanupStep

LEMMA ThroughKeeps ==
  ASSUME IInv, NEW g \in Gates, gate[g].pc = "clean",
         NEW G \in {gate[g], LostOne(gate[g]), FailedOne(gate[g])},
         Became(g, Through(G)), UNCHANGED <<lease, wire, down, late, outrun>>
  PROVE  IInv'
<1> DEFINE H == Through(G)
<1>1. /\ G \in GateRecord /\ G.pc = "clean" /\ G.held = gate[g].held /\ G.ids = gate[g].ids
      /\ G.locals = gate[g].locals /\ G.renewer = gate[g].renewer /\ G.rreply = gate[g].rreply
  <2>1. G \in GateRecord
    BY Before, Counted
  <2> QED BY <2>1, Before DEF LostOne, FailedOne, GateRecord
<1>2. G.tried \ NextDelete(G) \in SUBSET Orgs
  BY <1>1 DEF GateRecord
<1>3. H \in GateRecord
  BY <1>1, <1>2, SetField DEF Through
<1>4. /\ H.pc = G.pc /\ H.held = G.held /\ H.ids = G.ids /\ H.locals = G.locals
      /\ H.renewer = G.renewer /\ H.rreply = G.rreply /\ H.reply = "none"
  BY <1>1 DEF Through, GateRecord
<1>5. /\ lease' \in Leases
      /\ \A h \in Gates \ {g}, u \in Orgs :
           lease[u].owner = h => lease'[u].owner = h /\ lease[u].left <= lease'[u].left
  BY Before
<1>6. Became(g, H)
  OBVIOUS
<1> HIDE DEF H
<1> QED BY <1>1, <1>3, <1>4, <1>5, <1>6, CleanupStep

LEMMA DeleteAnsweredKeeps ==
  ASSUME IInv, NEW g \in Gates, DeleteAnswered(g) PROVE IInv'
<1>1. /\ gate[g].pc = "clean" /\ UNCHANGED <<lease, wire, down, late, outrun>>
      /\ Became(g, Through(LostOne(gate[g]))) \/ Became(g, Through(gate[g]))
  BY DEF DeleteAnswered
<1> QED BY <1>1, ThroughKeeps

LEMMA DeleteFailsKeeps ==
  ASSUME IInv, NEW g \in Gates, DeleteFails(g) PROVE IInv'
<1> DEFINE F == FailedOne(gate[g])
           H == [F EXCEPT !.again = TRUE, !.reply = "none"]
<1>1. /\ gate[g].pc = "clean" /\ UNCHANGED <<lease, wire, down, late, outrun>>
      /\ Became(g, H) \/ Became(g, Through(F))
  BY DEF DeleteFails
<1>2. CASE Became(g, Through(F))
  BY <1>1, <1>2, ThroughKeeps
<1>3. CASE Became(g, H)
  <2>1. /\ F \in GateRecord /\ F.pc = "clean" /\ F.held = gate[g].held /\ F.ids = gate[g].ids
        /\ F.locals = gate[g].locals /\ F.renewer = gate[g].renewer /\ F.rreply = gate[g].rreply
    <3>1. F \in GateRecord
      BY Before, Counted
    <3> QED BY <1>1, <3>1, Before DEF FailedOne, GateRecord
  <2> HIDE DEF F
  <2>2. H \in GateRecord
    BY <2>1, SetField
  <2>3. /\ H.pc = F.pc /\ H.held = F.held /\ H.ids = F.ids /\ H.locals = F.locals
        /\ H.renewer = F.renewer /\ H.rreply = F.rreply /\ H.reply = "none"
    BY <2>1 DEF GateRecord
  <2>4. /\ lease' \in Leases
        /\ \A h \in Gates \ {g}, u \in Orgs :
             lease[u].owner = h => lease'[u].owner = h /\ lease[u].left <= lease'[u].left
    BY <1>1, Before
  <2> HIDE DEF H
  <2> QED BY <1>1, <1>3, <2>1, <2>2, <2>3, <2>4, CleanupStep
<1> QED BY <1>1, <1>2, <1>3

(* A gate that is gone has nothing.                                        *)
LEMMA GoneHasNothing ==
  ASSUME NEW g \in Gates, NEW G \in GateRecord, NEW pc \in {"done", "dead"}, NEW L
  PROVE  /\ Gone(G, pc) \in GateRecord /\ Gone(G, pc).held = {} /\ Gone(G, pc).locals = {}
         /\ Sound(Gone(G, pc)) /\ Backed(Gone(G, pc), L, g)
<1>1. NewGate \in GateRecord
  BY AdmissionAssumption DEF NewGate, GateRecord
<1>2. G.lost \in BOOLEAN /\ G.errors \in BOOLEAN
  BY DEF GateRecord
<1>3. Gone(G, pc) \in GateRecord
  BY <1>1, <1>2, SetField DEF Gone
<1>4. /\ Gone(G, pc).pc = pc /\ Gone(G, pc).held = {} /\ Gone(G, pc).locals = {}
      /\ Gone(G, pc).reply = "none" /\ Gone(G, pc).renewer = "off" /\ Gone(G, pc).rreply = "none"
  BY DEF Gone, NewGate
<1>5. Sound(Gone(G, pc)) /\ Backed(Gone(G, pc), L, g)
  BY <1>4 DEF Sound, Backed, BeliefBacked, GrantBacked, RenewalBacked, Working
<1> QED BY <1>3, <1>4, <1>5

LEMMA ReleasedKeeps ==
  ASSUME IInv, NEW g \in Gates, Released(g) PROVE IInv'
<1> DEFINE H == Gone(gate[g], "done")
<1>1. Became(g, H) /\ UNCHANGED <<lease, wire, down, late, outrun>>
  BY DEF Released
<1>2. /\ H \in GateRecord /\ H.held \subseteq H.ids /\ H.locals \subseteq H.ids
      /\ Sound(H) /\ Backed(H, lease', g)
  BY Before, GoneHasNothing
<1> HIDE DEF H
<1> QED BY <1>1, <1>2, Before, OneGate

LEMMA CrashKeeps ==
  ASSUME IInv, NEW p \in Procs, Crash(p) PROVE IInv'
<1>1. /\ gate' = [g \in Gates |-> IF gate[g].proc = p THEN Gone(NewGate, "dead") ELSE gate[g]]
      /\ down' = down \cup {p} /\ UNCHANGED <<lease, wire, late, outrun>>
  BY DEF Crash
<1>2. NewGate \in GateRecord
  BY AdmissionAssumption DEF NewGate, GateRecord
<1> DEFINE D == Gone(NewGate, "dead")
<1>3. \A g \in Gates : /\ D \in GateRecord /\ D.held = {} /\ D.locals = {}
                        /\ Sound(D) /\ Backed(D, lease, g)
  BY <1>2, GoneHasNothing
<1> HIDE DEF D
<1>4. \A g \in Gates : gate'[g] = D \/ gate'[g] = gate[g]
  BY <1>1 DEF D
<1>5. gate' \in [Gates -> GateRecord]
  BY <1>1, <1>3, Before DEF D
<1>6. ASSUME NEW g \in Gates
      PROVE  /\ gate'[g].held \subseteq gate'[g].ids /\ gate'[g].locals \subseteq gate'[g].ids
             /\ Sound(gate'[g]) /\ Backed(gate'[g], lease, g)
  BY <1>3, <1>4, Before
<1>7. TypeOK'
  BY <1>1, <1>5, <1>6 DEF IInv, TypeOK
<1>8. \A g \in Gates : (Sound(gate[g]) /\ Backed(gate[g], lease, g))'
  BY <1>1, <1>6 DEF Sound, Backed, BeliefBacked, GrantBacked, RenewalBacked
<1> QED BY <1>7, <1>8 DEF IInv

-----------------------------------------------------------------------------
(* Time takes the same from a lease and from what a gate believes of it.   *)
LEMMA LeasesAge ==
  ASSUME lease \in Leases, Tick
  PROVE  /\ lease' \in Leases
         /\ \A o \in Orgs : lease[o].left \in Nat /\ lease'[o].left \in Nat
         /\ \A o \in Orgs : lease[o].left > 1 =>
              lease'[o].owner = lease[o].owner /\ lease'[o].left = lease[o].left - 1
<1>1. TTL \in Nat
  BY AdmissionAssumption
<1>2. lease' = [o \in Orgs |-> IF lease[o].left <= 1 THEN Free ELSE [lease[o] EXCEPT !.left = @ - 1]]
  BY DEF Tick
<1>3. ASSUME NEW o \in Orgs
      PROVE  /\ lease'[o] \in [owner : Gates \cup {None}, left : 0 .. TTL]
             /\ lease[o].left \in Nat
             /\ lease[o].left > 1 =>
                  lease'[o].owner = lease[o].owner /\ lease'[o].left = lease[o].left - 1
  <2>1. lease[o] \in [owner : Gates \cup {None}, left : 0 .. TTL]
    BY DEF Leases
  <2>2. CASE lease[o].left <= 1
    BY <1>1, <1>2, <2>1, <2>2 DEF Free
  <2>3. CASE ~ (lease[o].left <= 1)
    <3>1. lease'[o] = [lease[o] EXCEPT !.left = lease[o].left - 1]
      BY <1>2, <2>3
    <3>2. lease[o].left - 1 \in 0 .. TTL
      BY <1>1, <2>1, <2>3
    <3> QED BY <1>1, <2>1, <3>1, <3>2
  <2> QED BY <2>2, <2>3
<1>4. lease' \in Leases
  BY <1>2, <1>3 DEF Leases
<1> QED BY <1>1, <1>3, <1>4 DEF Leases

LEMMA GateAges ==
  ASSUME NEW G \in GateRecord
  PROVE  /\ Aged(G) \in GateRecord
         /\ Aged(G).pc = G.pc /\ Aged(G).held = G.held /\ Aged(G).ids = G.ids
         /\ Aged(G).locals = G.locals /\ Aged(G).reply = G.reply
         /\ Aged(G).renewer = G.renewer /\ Aged(G).at = G.at /\ Aged(G).rreply = G.rreply
         /\ \A o \in Orgs : Aged(G).valid[o] = Less(G.valid[o])
         /\ G.pc = "asked" => Aged(G).age = More(G.age)
         /\ G.renewer = "asks" => Aged(G).rage = More(G.rage)
<1>1. TTL \in Nat /\ SettleWait \in Nat
  BY AdmissionAssumption
<1>2. PICK w : w = Less(G.wait) OBVIOUS
<1>3. PICK v : v = [o \in Orgs |-> Less(G.valid[o])] OBVIOUS
<1>4. PICK a : a = (IF G.pc = "asked" THEN More(G.age) ELSE 0) OBVIOUS
<1>5. PICK r : r = (IF G.renewer = "asks" THEN More(G.rage) ELSE 0) OBVIOUS
<1>6. w \in Nat
  BY <1>1, <1>2 DEF Less, GateRecord
<1>7. v \in [Orgs -> 0 .. TTL]
  <2>1. ASSUME NEW o \in Orgs PROVE Less(G.valid[o]) \in 0 .. TTL
    <3>1. G.valid[o] \in 0 .. TTL BY DEF GateRecord
    <3> QED BY <1>1, <3>1 DEF Less
  <2> QED BY <1>3, <2>1
<1>8. a \in 0 .. TTL
  BY <1>1, <1>4 DEF More, GateRecord
<1>9. r \in 0 .. TTL
  BY <1>1, <1>5 DEF More, GateRecord
<1> DEFINE A == [G EXCEPT !.wait = w]
           B == [A EXCEPT !.valid = v]
           C == [B EXCEPT !.age = a]
           D == [C EXCEPT !.rage = r]
<1>10. /\ A \in GateRecord /\ A.pc = G.pc /\ A.held = G.held /\ A.ids = G.ids /\ A.locals = G.locals
       /\ A.reply = G.reply /\ A.renewer = G.renewer /\ A.at = G.at /\ A.rreply = G.rreply
       /\ A.valid = G.valid
  <2>1. A \in GateRecord BY <1>6, SetField
  <2> QED BY <2>1 DEF GateRecord
<1>11. Aged(G) = [A EXCEPT !.valid = v, !.age = a, !.rage = r]
  BY <1>2, <1>3, <1>4, <1>5 DEF Aged, GateRecord
<1> HIDE DEF A
<1>12. /\ B \in GateRecord /\ B.pc = G.pc /\ B.held = G.held /\ B.ids = G.ids /\ B.locals = G.locals
       /\ B.reply = G.reply /\ B.renewer = G.renewer /\ B.at = G.at /\ B.rreply = G.rreply
       /\ B.valid = v
  <2>1. B \in GateRecord BY <1>7, <1>10, SetField
  <2> QED BY <1>10, <2>1 DEF GateRecord
<1>13. Aged(G) = [B EXCEPT !.age = a, !.rage = r]
  BY <1>10, <1>11 DEF GateRecord
<1> HIDE DEF B
<1>14. /\ C \in GateRecord /\ C.pc = G.pc /\ C.held = G.held /\ C.ids = G.ids /\ C.locals = G.locals
       /\ C.reply = G.reply /\ C.renewer = G.renewer /\ C.at = G.at /\ C.rreply = G.rreply
       /\ C.valid = v /\ C.age = a
  <2>1. C \in GateRecord BY <1>8, <1>12, SetField
  <2> QED BY <1>12, <2>1 DEF GateRecord
<1>15. Aged(G) = D
  BY <1>12, <1>13 DEF GateRecord
<1> HIDE DEF C
<1>16. /\ D \in GateRecord /\ D.pc = G.pc /\ D.held = G.held /\ D.ids = G.ids /\ D.locals = G.locals
       /\ D.reply = G.reply /\ D.renewer = G.renewer /\ D.at = G.at /\ D.rreply = G.rreply
       /\ D.valid = v /\ D.age = a /\ D.rage = r
  <2>1. D \in GateRecord BY <1>9, <1>14, SetField
  <2> QED BY <1>14, <2>1 DEF GateRecord
<1> QED BY <1>3, <1>4, <1>5, <1>15, <1>16

LEMMA TickKeeps ==
  ASSUME IInv, Tick PROVE IInv'
<1>1. TTL \in Nat
  BY AdmissionAssumption
<1>2. gate' = [g \in Gates |-> Aged(gate[g])] /\ UNCHANGED <<wire, down, late, outrun>>
  BY DEF Tick
<1>3. lease \in Leases /\ gate \in [Gates -> GateRecord]
  BY DEF IInv, TypeOK, Leases
<1>4. gate' \in [Gates -> GateRecord]
  BY <1>2, <1>3, GateAges
<1>5. ASSUME NEW g \in Gates
      PROVE  /\ gate'[g].held \subseteq gate'[g].ids /\ gate'[g].locals \subseteq gate'[g].ids
             /\ Sound(gate'[g]) /\ Backed(gate'[g], lease', g)
  <2> DEFINE G == gate[g]
             H == gate'[g]
  <2>1. /\ G \in GateRecord /\ G.held \subseteq G.ids /\ G.locals \subseteq G.ids
        /\ Sound(G) /\ Backed(G, lease, g)
    BY Before
  <2>2. /\ H.pc = G.pc /\ H.held = G.held /\ H.ids = G.ids /\ H.locals = G.locals
        /\ H.reply = G.reply /\ H.renewer = G.renewer /\ H.at = G.at /\ H.rreply = G.rreply
        /\ \A o \in Orgs : H.valid[o] = Less(G.valid[o])
        /\ G.pc = "asked" => H.age = More(G.age)
        /\ G.renewer = "asks" => H.rage = More(G.rage)
    BY <1>2, <2>1, GateAges
  <2>3. /\ G.held \subseteq Orgs /\ G.ids \subseteq Orgs /\ G.age \in 0 .. TTL /\ G.rage \in 0 .. TTL
        /\ \A o \in Orgs : G.valid[o] \in 0 .. TTL
    BY <2>1 DEF GateRecord
  <2> HIDE DEF G, H
  <2>4. Sound(H)
    BY <2>1, <2>2 DEF Sound
  <2>5. BeliefBacked(H, lease', g)
    <3> SUFFICES ASSUME H.pc \in Working, NEW o \in H.held, H.valid[o] > 0
                 PROVE  lease'[o].owner = g /\ H.valid[o] <= lease'[o].left
      BY DEF BeliefBacked
    <3>1. o \in Orgs /\ H.valid[o] = G.valid[o] - 1 /\ G.valid[o] > 1
      BY <2>2, <2>3 DEF Less
    <3>2. lease[o].owner = g /\ G.valid[o] <= lease[o].left
      BY <2>1, <2>2, <2>3, <3>1 DEF Backed, BeliefBacked
    <3>3. lease[o].left \in Nat
      BY <1>3, <3>1, LeasesAge
    <3>4. lease[o].left > 1
      BY <2>3, <3>1, <3>2, <3>3
    <3>5. lease'[o].owner = lease[o].owner /\ lease'[o].left = lease[o].left - 1
      BY <1>3, <3>1, <3>4, LeasesAge
    <3> QED BY <2>3, <3>1, <3>2, <3>3, <3>5
  <2>6. GrantBacked(H, lease', g)
    <3> SUFFICES ASSUME H.pc = "asked", H.reply = "acquired", H.age < TTL, NEW o \in NextLease(H)
                 PROVE  lease'[o].owner = g /\ TTL - H.age <= lease'[o].left
      BY DEF GrantBacked
    <3>1. H.age = G.age + 1 /\ G.age < TTL
      BY <1>1, <2>2, <2>3 DEF More
    <3>2. o \in NextLease(G) /\ o \in Orgs
      BY <2>2, <2>3 DEF NextLease, First
    <3>3. lease[o].owner = g /\ TTL - G.age <= lease[o].left
      BY <2>1, <2>2, <3>1, <3>2 DEF Backed, GrantBacked
    <3>4. lease[o].left \in Nat
      BY <1>3, <3>2, LeasesAge
    <3>5. lease[o].left > 1
      BY <1>1, <2>3, <3>1, <3>3, <3>4
    <3>6. lease'[o].owner = lease[o].owner /\ lease'[o].left = lease[o].left - 1
      BY <1>3, <3>2, <3>5, LeasesAge
    <3> QED BY <1>1, <2>3, <3>1, <3>3, <3>4, <3>6
  <2>7. RenewalBacked(H, lease', g)
    <3> SUFFICES ASSUME H.renewer = "asks", H.rreply = "renewed", H.rage < TTL
                 PROVE  lease'[H.at].owner = g /\ TTL - H.rage <= lease'[H.at].left
      BY DEF RenewalBacked
    <3>1. H.rage = G.rage + 1 /\ G.rage < TTL
      BY <1>1, <2>2, <2>3 DEF More
    <3>2. PICK o \in Orgs : o = G.at
      BY <2>1, <2>2, <2>3 DEF Sound
    <3>3. lease[o].owner = g /\ TTL - G.rage <= lease[o].left
      BY <2>1, <2>2, <3>1, <3>2 DEF Backed, RenewalBacked
    <3>4. lease[o].left \in Nat
      BY <1>3, <3>2, LeasesAge
    <3>5. lease[o].left > 1
      BY <1>1, <2>3, <3>1, <3>3, <3>4
    <3>6. lease'[o].owner = lease[o].owner /\ lease'[o].left = lease[o].left - 1
      BY <1>3, <3>2, <3>5, LeasesAge
    <3>7. TTL - H.rage <= lease'[o].left
      BY <1>1, <2>3, <3>1, <3>3, <3>4, <3>6
    <3> QED BY <2>2, <3>2, <3>3, <3>6, <3>7
  <2> QED BY <2>1, <2>2, <2>4, <2>5, <2>6, <2>7 DEF Backed, H
<1>6. lease' \in Leases
  BY <1>3, LeasesAge
<1>7. TypeOK'
  BY <1>2, <1>4, <1>5, <1>6 DEF IInv, TypeOK, Leases
<1>8. \A g \in Gates : (Sound(gate[g]) /\ Backed(gate[g], lease, g))'
  BY <1>5 DEF Sound, Backed, BeliefBacked, GrantBacked, RenewalBacked
<1> QED BY <1>7, <1>8 DEF IInv

-----------------------------------------------------------------------------
LEMMA Initially == Init => IInv
<1> SUFFICES ASSUME Init PROVE IInv
  OBVIOUS
<1>1. NewGate \in GateRecord
  BY AdmissionAssumption DEF NewGate, GateRecord
<1>2. Free \in [owner : Gates \cup {None}, left : 0 .. TTL]
  BY AdmissionAssumption DEF Free
<1>3. \A g \in Gates : gate[g] = NewGate
  BY DEF Init
<1>4. TypeOK
  BY <1>1, <1>2, <1>3 DEF Init, TypeOK, NewGate
<1>5. Sound(NewGate) /\ \A g \in Gates : Backed(NewGate, lease, g)
  BY DEF Sound, Backed, BeliefBacked, GrantBacked, RenewalBacked, NewGate, Working
<1> QED BY <1>3, <1>4, <1>5 DEF IInv

LEMMA Stutters == IInv /\ UNCHANGED vars => IInv'
BY DEF IInv, TypeOK, Sound, Backed, BeliefBacked, GrantBacked, RenewalBacked, vars

(* Whatever happens, the three facts stay.                                 *)
LEMMA Inductive == IInv /\ [Next]_vars => IInv'
<1> SUFFICES ASSUME IInv, [Next]_vars PROVE IInv'
  OBVIOUS
<1>1. ASSUME NEW g \in Gates, NEW p \in Procs, NEW ids \in (SUBSET Orgs) \ {{}},
             NEW op \in {"reserve", "settle"}, Admit(g, p, ids, op)
      PROVE  IInv'
  BY <1>1, AdmitKeeps
<1>2. ASSUME NEW g \in Gates,
             TakeLocal(g) \/ Ask(g) \/ SetAnswered(g) \/ SetFails(g) \/ WaitOver(g)
      PROVE  IInv'
  BY <1>2, TakeLocalKeeps, AskKeeps, SetAnsweredKeeps, SetFailsKeeps, WaitOverKeeps
<1>3. ASSUME NEW g \in Gates, NEW o \in Orgs, SetApplied(g, o) PROVE IInv'
  BY <1>3, SetAppliedKeeps
<1>4. ASSUME NEW g \in Gates, Renew(g) \/ RenewApplied(g) \/ RenewAnswered(g) \/ RenewFails(g)
      PROVE  IInv'
  BY <1>4, RenewKeeps, RenewAppliedKeeps, RenewAnsweredKeeps, RenewFailsKeeps
<1>5. ASSUME NEW g \in Gates,
             Leave(g) \/ Cancel(g) \/ DeleteApplied(g) \/ DeleteAnswered(g) \/ DeleteFails(g) \/ Released(g)
      PROVE  IInv'
  BY <1>5, LeaveKeeps, CancelKeeps, DeleteAppliedKeeps, DeleteAnsweredKeeps, DeleteFailsKeeps, ReleasedKeeps
<1>6. ASSUME NEW p \in Procs, Crash(p) PROVE IInv'
  BY <1>6, CrashKeeps
<1>7. CASE Tick
  BY <1>7, TickKeeps
<1>8. CASE UNCHANGED vars
  BY <1>8, Stutters
<1> QED BY <1>1, <1>2, <1>3, <1>4, <1>5, <1>6, <1>7, <1>8 DEF Next

(* While the gate works and has lost nothing, its belief is not over.      *)
LEMMA BeliefIsBacked == IInv => LeaseBacksBelief
<1> SUFFICES ASSUME IInv, NEW g \in Gates, gate[g].pc \in {"ask", "asked", "in"},
                    ~ OwnershipLost(gate[g]), NEW o \in gate[g].held
             PROVE  lease[o].owner = g /\ gate[g].valid[o] <= lease[o].left
  BY DEF LeaseBacksBelief
<1>1. gate[g].valid[o] \in Nat /\ gate[g].valid[o] # 0
  BY Before DEF OwnershipLost, GateRecord
<1>2. gate[g].valid[o] > 0
  BY <1>1
<1> QED BY <1>2, Before DEF Backed, BeliefBacked, Working

(* Every state of the queue is well typed, and a gate locks and leases     *)
(* only what it was admitted for.                                          *)
THEOREM TypeCorrect == Spec => []TypeOK
<1>1. IInv => TypeOK
  BY DEF IInv
<1> QED BY Initially, Inductive, <1>1, PTL DEF Spec

(* A gate that still trusts its leases has them, for as long as it trusts  *)
(* them: however late Redis answers, whatever it loses or repeats, whoever *)
(* dies, and for any TTL, any number of gates and organizations.           *)
(* _Gate.valid_until (infra/money_admission.py) against acquire_lease,     *)
(* renew_lease and release_lease (infra/kv.py).                            *)
THEOREM LeasesBackBelief == Spec => []LeaseBacksBelief
<1> QED BY Initially, Inductive, BeliefIsBacked, PTL DEF Spec

-----------------------------------------------------------------------------
(* Where a lease comes from *)

(* A gate takes locks and leases in the order of the ids, and remembers     *)
(* every lease it asked for until its delete is through.                    *)
Ordered(G) ==
  /\ G.pc \in {"idle", "done", "dead"} => G.locals = {} /\ G.ids = {}
  /\ G.pc \in {"idle", "local", "done", "dead"} => G.tried = {} /\ G.held = {}
  /\ G.pc = "local" => G.locals # G.ids
  /\ \A o \in G.locals, u \in G.ids \ G.locals : o < u
  /\ \A o \in G.held, u \in G.ids \ G.held : o < u
  /\ G.pc \in {"ask", "asked"} => G.tried \subseteq G.held \cup NextLease(G)
  /\ G.pc = "asked" => NextLease(G) \subseteq G.tried
  /\ G.pc \in Working => G.held \subseteq G.tried
  /\ G.again => G.errors

(* What is on the wire was asked for, and not yet answered.                 *)
OnWire(G, W, g) ==
  \A o \in Orgs : <<g, o>> \in W =>
    /\ o \notin G.held
    /\ G.pc \in {"idle", "local", "ask", "asked", "in"} => o \in G.tried
    /\ G.pc = "asked" /\ G.reply # "none" => o \notin NextLease(G)

(* The delete of a lease has been and gone.                                 *)
Deleted(G, o) ==
  o \notin G.tried \/ (G.pc = "clean" /\ o \in NextDelete(G) /\ G.reply # "none")

(* A lease is of a gate that remembers it, or tells.                        *)
Traced(G, L, l, g) ==
  \A o \in Orgs : L[o].owner = g =>
    /\ G.pc \in {"idle", "local", "ask", "asked", "in"} => o \in G.tried
    /\ G.pc = "dead" \/ G.errors \/ g \in l \/ ~ Deleted(G, o)

(* A gate that was outrun lacks a confirmed lease, until it tells.          *)
Overrun(G, L, g) ==
  \/ G.pc = "dead" \/ G.lost \/ G.errors
  \/ /\ G.pc \in {"in", "clean"}
     /\ \E o \in G.held \cap G.tried :
          /\ L[o].owner # g
          /\ G.pc = "clean" /\ o \in NextDelete(G) /\ G.reply # "none" => G.reply = "absent"

Orderly ==
  \A g \in Gates :
    /\ Ordered(gate[g])
    /\ OnWire(gate[g], wire, g)
    /\ Traced(gate[g], lease, late, g)
    /\ g \in outrun => Overrun(gate[g], lease, g)

(* A nonempty set of naturals has a least element, ...                     *)
LEMMA Least ==
  ASSUME NEW T, T \subseteq Nat, T # {}
  PROVE  \E x \in T : \A y \in T : x <= y
<1> DEFINE R == OpToRel(<, Nat)
<1>1. \A x, y \in Nat : x < y => <<x, y>> \in R
  BY DEF OpToRel
<1>2. IsWellFoundedOn(R, Nat)
  BY NatLessThanWellFounded
<1> HIDE DEF R
<1>3. \E x \in T : \A y \in T : ~ (<<y, x>> \in R)
  BY <1>2, WFMin
<1>4. PICK x \in T : \A y \in T : ~ (<<y, x>> \in R)
  BY <1>3
<1>5. \A y \in T : x \in Nat /\ y \in Nat /\ ~ (y < x)
  BY <1>1, <1>4
<1> QED
  BY <1>5

(* ... and if it is finite, a greatest.                                    *)
LEMMA Greatest ==
  ASSUME NEW S, S \subseteq Nat, IsFiniteSet(S), S # {}
  PROVE  \E x \in S : \A y \in S : y <= x
<1> DEFINE Topless(A) == A # {} /\ ~ \E x \in A : \A y \in A : y <= x
           Sizes == {n \in Nat : \E A \in SUBSET S : Topless(A) /\ Cardinality(A) = n}
<1> SUFFICES ASSUME Topless(S) PROVE FALSE
  OBVIOUS
<1>1. \A A \in SUBSET S : IsFiniteSet(A) /\ Cardinality(A) \in Nat
  BY FS_Subset, FS_CardinalityType
<1>2. Sizes # {} /\ Sizes \subseteq Nat
  BY <1>1
<1>3. PICK n \in Sizes : \A k \in Sizes : n <= k
  BY <1>2, Least
<1>4. PICK A \in SUBSET S : Topless(A) /\ Cardinality(A) = n
  BY <1>3
<1>5. PICK a \in A : TRUE
  BY <1>4
<1> DEFINE B == A \ {a}
<1>6. Cardinality(B) = n - 1 /\ B \in SUBSET S /\ n - 1 < n
  BY SMTT(60), <1>1, <1>4, <1>5, FS_RemoveElement
<1>7. ~ Topless(B)
  <2> SUFFICES ASSUME Topless(B) PROVE FALSE
    OBVIOUS
  <2>1. n \in Nat /\ Cardinality(B) \in Nat
    BY <1>1, <1>2, <1>6
  <2>2. Cardinality(B) \in Sizes
    BY <2>1, <1>6
  <2> HIDE DEF Sizes
  <2> QED
    BY <1>3, <1>6, <2>1, <2>2
<1>8. CASE B = {}
  BY <1>4, <1>5, <1>8
<1>9. ASSUME NEW x \in B, \A y \in B : y <= x PROVE FALSE
  BY <1>4, <1>5, <1>9
<1> QED
  BY <1>7, <1>8, <1>9

(* There is at most one next lease and one next delete.                    *)
LEMMA OneNext ==
  ASSUME NEW G \in GateRecord
  PROVE  /\ NextLease(G) \subseteq G.ids \ G.held /\ NextDelete(G) \subseteq G.tried
         /\ \A o, u \in NextLease(G) : o = u
         /\ \A o, u \in NextDelete(G) : o = u
         /\ \A o \in NextLease(G), u \in G.ids \ G.held : o <= u
         /\ NextLease(G) \subseteq Orgs /\ NextDelete(G) \subseteq Orgs
<1>1. \A o, u \in Orgs : o <= u /\ u <= o => o = u
  BY AdmissionAssumption
<1> QED
  BY <1>1 DEF NextLease, NextDelete, First, Last, GateRecord

(* Nothing of a gate that these facts are about has changed but that it     *)
(* counts a loss or a failure.                                              *)
Alike(G, H) ==
  /\ H.pc = G.pc /\ H.ids = G.ids /\ H.locals = G.locals /\ H.held = G.held /\ H.tried = G.tried
  /\ H.reply = G.reply /\ H.again = G.again
  /\ G.errors => H.errors
  /\ G.lost => H.lost

(* Such a change keeps the order and the traces, if no lease or request of *)
(* the gate is added.                                                      *)
LEMMA AlikeKeeps ==
  ASSUME NEW G, NEW H, Alike(G, H), NEW g, NEW W, NEW V, NEW L, NEW M, NEW l, NEW k,
         Ordered(G), OnWire(G, W, g), Traced(G, L, l, g),
         \A o \in Orgs : <<g, o>> \in V => <<g, o>> \in W,
         \A o \in Orgs : M[o].owner = g => L[o].owner = g,
         l \subseteq k
  PROVE  Ordered(H) /\ OnWire(H, V, g) /\ Traced(H, M, k, g)
<1>1. NextLease(H) = NextLease(G) /\ NextDelete(H) = NextDelete(G)
  BY DEF Alike, NextLease, NextDelete
<1>2. Ordered(H)
  BY <1>1 DEF Alike, Ordered
<1>3. OnWire(H, V, g)
  BY <1>1 DEF Alike, OnWire
<1>4. Traced(H, M, k, g)
  BY <1>1 DEF Alike, Traced, Deleted
<1> QED
  BY <1>2, <1>3, <1>4

(* ... and does not hide an overrun.                                       *)
LEMMA AlikeOverrun ==
  ASSUME NEW G \in GateRecord, NEW H, Alike(G, H), NEW g, NEW L, NEW M, Overrun(G, L, g),
         \A o \in Orgs : M[o].owner = g => L[o].owner = g
  PROVE  Overrun(H, M, g)
<1>1. NextDelete(H) = NextDelete(G) /\ G.held \subseteq Orgs
  BY DEF Alike, NextDelete, GateRecord
<1> QED
  BY <1>1 DEF Alike, Overrun

(* What to show of a step of one gate. *)
LEMMA OneMoves ==
  ASSUME IInv, Orderly, NEW g \in Gates, NEW G, Became(g, G),
         \A h \in Gates \ {g}, o \in Orgs : lease'[o].owner = h => lease[o].owner = h,
         \A h \in Gates \ {g}, o \in Orgs : <<h, o>> \in wire' => <<h, o>> \in wire,
         late \subseteq late',
         \A h \in Gates \ {g} : h \in outrun' => h \in outrun \/ Overrun(gate[h], lease', h),
         Ordered(G), OnWire(G, wire', g), Traced(G, lease', late', g),
         g \in outrun' => Overrun(G, lease', g)
  PROVE  Orderly'
<1>1. gate'[g] = G /\ \A h \in Gates \ {g} : gate'[h] = gate[h]
  BY DEF Became, IInv, TypeOK
<1>2. ASSUME NEW h \in Gates, h # g
      PROVE  /\ Ordered(gate[h]) /\ OnWire(gate[h], wire', h) /\ Traced(gate[h], lease', late', h)
             /\ h \in outrun' => Overrun(gate[h], lease', h)
  <2>1. Alike(gate[h], gate[h]) /\ gate[h] \in GateRecord
    BY <1>2, Before DEF Alike
  <2>2. /\ Ordered(gate[h]) /\ OnWire(gate[h], wire, h) /\ Traced(gate[h], lease, late, h)
        /\ h \in outrun => Overrun(gate[h], lease, h)
    BY DEF Orderly
  <2>3. /\ \A o \in Orgs : lease'[o].owner = h => lease[o].owner = h
        /\ \A o \in Orgs : <<h, o>> \in wire' => <<h, o>> \in wire
    BY <1>2
  <2>4. h \in outrun => Overrun(gate[h], lease', h)
    BY <2>1, <2>2, <2>3, AlikeOverrun
  <2> QED
    BY <1>2, <2>1, <2>2, <2>3, <2>4, AlikeKeeps
<1>3. \A h \in Gates : /\ Ordered(gate'[h]) /\ OnWire(gate'[h], wire', h) /\ Traced(gate'[h], lease', late', h)
                       /\ h \in outrun' => Overrun(gate'[h], lease', h)
  BY <1>1, <1>2
<1> QED
  BY ZenonT(60), <1>3 DEF Orderly, Ordered, OnWire, Traced, Overrun, Deleted, NextLease, NextDelete

(* A step of one gate that touches nothing of the others.                   *)
LEMMA QuietMove ==
  ASSUME IInv, Orderly, NEW g \in Gates, NEW G, Became(g, G), UNCHANGED <<lease, wire, late, outrun>>,
         Ordered(G), OnWire(G, wire, g), Traced(G, lease, late, g), g \in outrun => Overrun(G, lease, g)
  PROVE  Orderly'
BY OneMoves

(* A step of one gate that only counts.                                    *)
LEMMA AlikeMove ==
  ASSUME IInv, Orderly, NEW g \in Gates, NEW G, Became(g, G), UNCHANGED <<wire, late, outrun>>,
         \A o \in Orgs : lease'[o].owner = lease[o].owner,
         Alike(gate[g], G)
  PROVE  Orderly'
<1>1. /\ Ordered(gate[g]) /\ OnWire(gate[g], wire, g) /\ Traced(gate[g], lease, late, g)
      /\ g \in outrun => Overrun(gate[g], lease, g)
  BY DEF Orderly
<1>2. Ordered(G) /\ OnWire(G, wire', g) /\ Traced(G, lease', late', g)
  <2>1. /\ \A o \in Orgs : <<g, o>> \in wire' => <<g, o>> \in wire
        /\ \A o \in Orgs : lease'[o].owner = g => lease[o].owner = g
        /\ late \subseteq late'
    OBVIOUS
  <2> QED
    BY <1>1, <2>1, AlikeKeeps
<1>3. g \in outrun => Overrun(G, lease', g)
  BY <1>1, Before, AlikeOverrun
<1> QED
  BY <1>2, <1>3, OneMoves

(* What Cleaning and Gone set, and what they keep.                         *)
LEMMA CleaningFields ==
  ASSUME NEW G \in GateRecord, NEW why
  PROVE  LET C == Cleaning(G, why)
         IN  /\ C.pc = "clean" /\ C.ids = G.ids /\ C.locals = G.locals /\ C.held = G.held /\ C.tried = G.tried
             /\ C.reply = "none" /\ C.again = FALSE /\ C.errors = G.errors /\ C.lost = G.lost
BY DEF Cleaning, Attempted, Resting, GateRecord

(* A gate that begins to clean up forgets nothing that it asked for.        *)
LEMMA CleaningMove ==
  ASSUME IInv, Orderly, NEW g \in Gates, gate[g].pc \in {"local", "ask", "asked", "in"},
         NEW K \in GateRecord, NEW why, Became(g, Cleaning(K, why)), UNCHANGED <<lease, wire, late, outrun>>,
         K.ids = gate[g].ids, K.held = gate[g].held,
         \A o \in K.locals, u \in K.ids \ K.locals : o < u,
         gate[g].tried \subseteq K.tried, gate[g].errors => K.errors, gate[g].lost => K.lost
  PROVE  Orderly'
<1> DEFINE C == Cleaning(K, why)
<1>1. /\ C.pc = "clean" /\ C.ids = K.ids /\ C.locals = K.locals /\ C.held = K.held /\ C.tried = K.tried
      /\ C.reply = "none" /\ C.again = FALSE /\ C.errors = K.errors /\ C.lost = K.lost
  BY CleaningFields
<1>2. Became(g, C)
  OBVIOUS
<1> HIDE DEF C
<1>3. /\ Ordered(gate[g]) /\ OnWire(gate[g], wire, g) /\ Traced(gate[g], lease, late, g)
      /\ g \in outrun => Overrun(gate[g], lease, g)
  BY DEF Orderly
<1>4. Ordered(C)
  BY <1>1, <1>3 DEF Ordered, Working
<1>5. OnWire(C, wire, g)
  BY <1>1, <1>3 DEF OnWire
<1>6. Traced(C, lease, late, g)
  BY <1>1, <1>3 DEF Traced, Deleted
<1>7. g \in outrun => Overrun(C, lease, g)
  BY <1>1, <1>3 DEF Overrun
<1> QED
  BY <1>2, <1>4, <1>5, <1>6, <1>7, QuietMove

LEMMA OrderAdmit ==
  ASSUME IInv, Orderly, NEW g \in Gates, NEW p \in Procs, NEW ids \in (SUBSET Orgs) \ {{}},
         NEW op \in {"reserve", "settle"}, Admit(g, p, ids, op)
  PROVE  Orderly'
<1> DEFINE G == [gate[g] EXCEPT !.pc = "local", !.proc = p, !.ids = ids, !.why = Unadmitted(op),
                                !.wait = WaitBudget(op)]
<1>1. gate[g].pc = "idle" /\ Became(g, G) /\ UNCHANGED <<lease, wire, late, outrun>>
  BY DEF Admit
<1>2. /\ G.pc = "local" /\ G.ids = ids /\ G.locals = gate[g].locals /\ G.held = gate[g].held
      /\ G.tried = gate[g].tried /\ G.reply = gate[g].reply /\ G.again = gate[g].again
      /\ G.errors = gate[g].errors /\ G.lost = gate[g].lost
  BY Before DEF GateRecord
<1> HIDE DEF G
<1>3. /\ Ordered(gate[g]) /\ OnWire(gate[g], wire, g) /\ Traced(gate[g], lease, late, g)
      /\ g \in outrun => Overrun(gate[g], lease, g)
  BY DEF Orderly
<1>4. Ordered(G)
  <2>1. G.tried = {} /\ G.held = {} /\ G.locals = {} /\ G.ids # {}
    <3>1. ids # {}
      OBVIOUS
    <3> QED
      BY <1>1, <1>2, <1>3, <3>1 DEF Ordered
  <2> QED
    BY <1>2, <1>3, <2>1 DEF Ordered, Working
<1>5. OnWire(G, wire, g) /\ Traced(G, lease, late, g) /\ (g \in outrun => Overrun(G, lease, g))
  BY <1>1, <1>2, <1>3 DEF OnWire, Traced, Deleted, Overrun
<1> QED
  BY <1>1, <1>4, <1>5, QuietMove

LEMMA OrderTakeLocal ==
  ASSUME IInv, Orderly, NEW g \in Gates, TakeLocal(g)
  PROVE  Orderly'
<1>1. gate[g].pc = "local" /\ UNCHANGED <<lease, wire, late, outrun>>
  BY DEF TakeLocal
<1>2. PICK o \in NextLocal(gate[g]) :
     LET G == [gate[g] EXCEPT !.locals = @ \cup {o}] IN
        IF G.locals # G.ids THEN Became(g, G)
        ELSE \/ Became(g, [G EXCEPT !.pc = "ask"])
             \/ Became(g, Cleaning(G, "fallback"))
  BY DEF TakeLocal
<1> DEFINE G == [gate[g] EXCEPT !.locals = @ \cup {o}]
           H == [G EXCEPT !.pc = "ask"]
<1>3. o \in Orgs /\ o \in gate[g].ids /\ \A u \in gate[g].ids \ gate[g].locals : o <= u
  BY Before DEF NextLocal, First, GateRecord
<1>4. gate[g].locals \cup {o} \in SUBSET Orgs
  BY <1>3, Before DEF GateRecord
<1>5. G \in GateRecord /\ G.locals = gate[g].locals \cup {o} /\ G.pc = gate[g].pc
      /\ G.ids = gate[g].ids /\ G.held = gate[g].held
      /\ G.tried = gate[g].tried /\ G.reply = gate[g].reply /\ G.again = gate[g].again
      /\ G.errors = gate[g].errors /\ G.lost = gate[g].lost
  <2>1. G \in GateRecord
    BY <1>4, Before, SetField
  <2> QED
    BY <2>1, <1>4, Before DEF GateRecord
<1>6. (G.locals # G.ids /\ Became(g, G)) \/ Became(g, H) \/ Became(g, Cleaning(G, "fallback"))
  BY <1>2
<1> HIDE DEF G
<1>7. H.pc = "ask" /\ H.locals = G.locals /\ H.ids = G.ids /\ H.held = G.held /\ H.tried = G.tried
      /\ H.reply = G.reply /\ H.again = G.again /\ H.errors = G.errors /\ H.lost = G.lost
  BY <1>5 DEF GateRecord
<1> HIDE DEF H
<1>8. /\ Ordered(gate[g]) /\ OnWire(gate[g], wire, g) /\ Traced(gate[g], lease, late, g)
      /\ g \in outrun => Overrun(gate[g], lease, g)
  BY DEF Orderly
<1>9. \A a \in G.locals, u \in G.ids \ G.locals : a < u
  <2> SUFFICES ASSUME NEW a \in G.locals, NEW u \in G.ids \ G.locals PROVE a < u
    OBVIOUS
  <2>1. a \in Nat /\ u \in Nat /\ o \in Nat /\ u # o
    BY <1>3, <1>5, AdmissionAssumption DEF GateRecord
  <2>2. CASE a = o
    BY <1>3, <1>5, <2>1, <2>2
  <2>3. CASE a # o
    BY <1>5, <1>8, <2>1, <2>3 DEF Ordered
  <2> QED
    BY <2>2, <2>3
<1>10. CASE Became(g, Cleaning(G, "fallback"))
  <2>1. gate[g].pc \in {"local", "ask", "asked", "in"}
    BY <1>1
  <2> QED
    BY <1>1, <1>5, <1>9, <1>10, <2>1, CleaningMove
<1>11. CASE G.locals # G.ids /\ Became(g, G)
  <2>1. Ordered(G)
    BY <1>1, <1>5, <1>8, <1>9, <1>11 DEF Ordered, Working
  <2>2. OnWire(G, wire, g) /\ Traced(G, lease, late, g) /\ (g \in outrun => Overrun(G, lease, g))
    BY <1>1, <1>5, <1>8 DEF OnWire, Traced, Deleted, Overrun
  <2> QED
    BY <1>1, <1>11, <2>1, <2>2, QuietMove
<1>12. CASE Became(g, H)
  <2>1. Ordered(H)
    BY <1>1, <1>5, <1>7, <1>8, <1>9 DEF Ordered, Working
  <2>2. OnWire(H, wire, g) /\ Traced(H, lease, late, g) /\ (g \in outrun => Overrun(H, lease, g))
    BY <1>1, <1>5, <1>7, <1>8 DEF OnWire, Traced, Deleted, Overrun
  <2> QED
    BY <1>1, <1>12, <2>1, <2>2, QuietMove
<1> QED
  BY <1>6, <1>10, <1>11, <1>12

LEMMA OrderAsk ==
  ASSUME IInv, Orderly, NEW g \in Gates, Ask(g)
  PROVE  Orderly'
<1>1. PICK o \in NextLease(gate[g]) :
        IF OwnershipLost(gate[g])
        THEN /\ Became(g, Cleaning([LostOne(gate[g]) EXCEPT !.tried = @ \cup {o}], "fallback"))
             /\ UNCHANGED wire
        ELSE /\ Became(g, [gate[g] EXCEPT !.pc = "asked", !.tried = @ \cup {o}, !.age = 0])
             /\ wire' = wire \cup {<<g, o>>}
  BY DEF Ask
<1>2. gate[g].pc = "ask" /\ UNCHANGED <<lease, late, outrun>>
  BY DEF Ask
<1>3. o \in Orgs /\ gate[g].tried \cup {o} \in SUBSET Orgs /\ o \notin gate[g].held
  BY Before, OneNext DEF GateRecord
<1>8. /\ Ordered(gate[g]) /\ OnWire(gate[g], wire, g) /\ Traced(gate[g], lease, late, g)
      /\ g \in outrun => Overrun(gate[g], lease, g)
  BY DEF Orderly
<1>4. CASE OwnershipLost(gate[g])
  <2> DEFINE L == LostOne(gate[g])
             G == [L EXCEPT !.tried = @ \cup {o}]
  <2>1. /\ L \in GateRecord /\ L.ids = gate[g].ids /\ L.locals = gate[g].locals /\ L.held = gate[g].held
        /\ L.tried = gate[g].tried /\ L.errors = gate[g].errors /\ L.lost
    <3>1. L \in GateRecord
      BY Before, Counted
    <3> QED
      BY <3>1, Before DEF LostOne, GateRecord
  <2> HIDE DEF L
  <2>2. L.tried \cup {o} \in SUBSET Orgs
    BY <1>3, <2>1
  <2>3. /\ G \in GateRecord /\ G.ids = L.ids /\ G.locals = L.locals /\ G.held = L.held
        /\ G.tried = L.tried \cup {o} /\ G.errors = L.errors /\ G.lost
    <3>1. G \in GateRecord
      BY <2>1, <2>2, SetField
    <3> QED
      BY <3>1, <2>1, <2>2 DEF GateRecord
  <2>4. Became(g, Cleaning(G, "fallback")) /\ UNCHANGED <<lease, wire, late, outrun>>
    BY <1>1, <1>2, <1>4 DEF L
  <2> HIDE DEF G
  <2>5. \A a \in G.locals, u \in G.ids \ G.locals : a < u
    BY <1>8, <2>1, <2>3 DEF Ordered
  <2>6. gate[g].pc \in {"local", "ask", "asked", "in"}
    BY <1>2
  <2> QED
    BY <2>1, <2>3, <2>4, <2>5, <2>6, CleaningMove
<1>5. CASE ~ OwnershipLost(gate[g])
  <2> DEFINE H == [gate[g] EXCEPT !.pc = "asked", !.tried = @ \cup {o}, !.age = 0]
  <2>1. gate[g].reply = "none"
    BY <1>2, Before DEF Sound, GateRecord
  <2>2. /\ H.pc = "asked" /\ H.reply = "none" /\ H.held = gate[g].held /\ H.ids = gate[g].ids
        /\ H.locals = gate[g].locals /\ H.tried = gate[g].tried \cup {o} /\ H.again = gate[g].again
        /\ H.errors = gate[g].errors /\ H.lost = gate[g].lost
    BY <2>1, Before DEF GateRecord
  <2>3. Became(g, H) /\ wire' = wire \cup {<<g, o>>}
    BY <1>1, <1>5
  <2> HIDE DEF H
  <2>4. NextLease(H) = NextLease(gate[g]) /\ \A u \in NextLease(gate[g]) : u = o
    BY <2>2, Before, OneNext DEF NextLease
  <2>5. Ordered(H)
    BY <1>2, <1>8, <2>2, <2>4 DEF Ordered, Working
  <2>6. OnWire(H, wire', g)
    BY <1>2, <1>3, <1>8, <2>2, <2>3 DEF OnWire
  <2>7. Traced(H, lease, late, g)
    BY <1>2, <1>8, <2>2 DEF Traced, Deleted
  <2>8. g \in outrun => Overrun(H, lease, g)
    BY <1>2, <1>8, <2>2 DEF Overrun
  <2> QED
    BY <1>2, <2>3, <2>5, <2>6, <2>7, <2>8, OneMoves
<1> QED
  BY <1>4, <1>5

LEMMA OrderSetApplied ==
  ASSUME IInv, Orderly, NEW g \in Gates, NEW o \in Orgs, SetApplied(g, o)
  PROVE  Orderly'
<1> DEFINE R == IF Vacant(o) THEN "acquired" ELSE "busy"
           G == IF Awaits(g, o) THEN [gate[g] EXCEPT !.reply = R] ELSE gate[g]
<1>1. /\ <<g, o>> \in wire /\ wire' = wire \ {<<g, o>>}
      /\ lease' = IF Vacant(o) THEN [lease EXCEPT ![o] = [owner |-> g, left |-> TTL]] ELSE lease
      /\ late' = IF Vacant(o) /\ GivenUp(g, o) THEN late \cup {g} ELSE late
      /\ outrun' = IF Vacant(o)
                   THEN outrun \cup {h \in Gates \ {g} : gate[h].pc = "in" /\ o \in gate[h].held}
                   ELSE outrun
  BY DEF SetApplied
<1>2. gate[g] \in GateRecord /\ lease \in Leases /\ gate \in [Gates -> GateRecord]
  BY Before DEF IInv, TypeOK
<1>3. Became(g, G)
  BY <1>2 DEF SetApplied, Became
<1>4. /\ G.pc = gate[g].pc /\ G.held = gate[g].held /\ G.ids = gate[g].ids
      /\ G.locals = gate[g].locals /\ G.tried = gate[g].tried /\ G.again = gate[g].again
      /\ G.errors = gate[g].errors /\ G.lost = gate[g].lost
      /\ G.reply = IF Awaits(g, o) THEN R ELSE gate[g].reply
  BY <1>2 DEF GateRecord
<1> HIDE DEF G
<1>5. /\ Ordered(gate[g]) /\ OnWire(gate[g], wire, g) /\ Traced(gate[g], lease, late, g)
      /\ g \in outrun => Overrun(gate[g], lease, g)
  BY DEF Orderly
<1>6. NextLease(G) = NextLease(gate[g]) /\ NextDelete(G) = NextDelete(gate[g])
  BY <1>4 DEF NextLease, NextDelete
<1>7. Ordered(G)
  BY <1>4, <1>5, <1>6 DEF Ordered
<1>8. OnWire(G, wire', g)
  <2> SUFFICES ASSUME NEW u \in Orgs, <<g, u>> \in wire'
               PROVE  /\ u \notin G.held
                      /\ G.pc \in {"idle", "local", "ask", "asked", "in"} => u \in G.tried
                      /\ G.pc = "asked" /\ G.reply # "none" => u \notin NextLease(G)
    BY DEF OnWire
  <2>1. <<g, u>> \in wire /\ u # o
    BY <1>1
  <2>2. Awaits(g, o) => u \notin NextLease(G)
    BY <1>2, <1>6, <2>1, OneNext DEF Awaits
  <2> QED
    BY <1>4, <1>5, <1>6, <2>1, <2>2 DEF OnWire
<1>9. \A u \in Orgs : u # o => lease'[u] = lease[u]
  BY <1>1, <1>2 DEF Leases
<1>10. lease'[o].owner = IF Vacant(o) THEN g ELSE lease[o].owner
  BY <1>1, <1>2 DEF Leases
<1>11. Awaits(g, o) => G.pc # "clean"
  BY <1>4 DEF Awaits
<1>12. \A u \in Orgs : Deleted(G, u) => GivenUp(g, u) \/ gate[g].pc = "dead"
  BY <1>4, <1>6, <1>11 DEF Deleted, GivenUp
<1>13. Traced(G, lease', late', g)
  <2> SUFFICES ASSUME NEW u \in Orgs, lease'[u].owner = g
               PROVE  /\ G.pc \in {"idle", "local", "ask", "asked", "in"} => u \in G.tried
                      /\ G.pc = "dead" \/ G.errors \/ g \in late' \/ ~ Deleted(G, u)
    BY DEF Traced
  <2>1. CASE lease[u].owner = g
    <3>1. Deleted(G, u) => Deleted(gate[g], u)
      BY <1>4, <1>6, <1>11 DEF Deleted
    <3>2. late \subseteq late'
      BY <1>1
    <3> QED
      BY <1>4, <1>5, <2>1, <3>1, <3>2 DEF Traced
  <2>2. CASE lease[u].owner # g
    <3>1. u = o /\ Vacant(o)
      BY <1>9, <1>10, <2>2
    <3>2. G.pc \in {"idle", "local", "ask", "asked", "in"} => o \in G.tried
      BY <1>1, <1>4, <1>5 DEF OnWire
    <3>3. GivenUp(g, o) => g \in late'
      BY <1>1, <3>1
    <3> QED
      BY <1>4, <1>12, <3>1, <3>2, <3>3
  <2> QED
    BY <2>1, <2>2
<1>14. g \in outrun' => Overrun(G, lease', g)
  <2> SUFFICES ASSUME g \in outrun PROVE Overrun(G, lease', g)
    BY <1>1
  <2>1. Overrun(gate[g], lease, g)
    BY <1>5
  <2>2. ~ Awaits(g, o) \/ gate[g].pc \notin {"in", "clean"}
    BY DEF Awaits
  <2>3. gate[g].held \subseteq Orgs /\ o \notin gate[g].held
    BY <1>1, <1>2, <1>5 DEF OnWire, GateRecord
  <2>4. \A u \in gate[g].held : lease'[u] = lease[u]
    BY <1>9, <2>3
  <2> QED
    BY <1>4, <1>6, <2>1, <2>2, <2>4 DEF Overrun
<1>15. ASSUME NEW h \in Gates \ {g}, h \in outrun'
       PROVE  h \in outrun \/ Overrun(gate[h], lease', h)
  <2> SUFFICES ASSUME Vacant(o), gate[h].pc = "in", o \in gate[h].held PROVE Overrun(gate[h], lease', h)
    BY <1>1, <1>15
  <2>1. gate[h].held \subseteq gate[h].tried
    BY DEF Orderly, Ordered, Working
  <2>2. lease'[o].owner # h
    BY <1>10
  <2> QED
    BY <2>1, <2>2 DEF Overrun
<1>16. \A h \in Gates \ {g}, u \in Orgs : lease'[u].owner = h => lease[u].owner = h
  BY <1>9, <1>10
<1>17. (\A h \in Gates \ {g}, u \in Orgs : <<h, u>> \in wire' => <<h, u>> \in wire) /\ late \subseteq late'
  BY <1>1
<1> QED
  BY <1>3, <1>7, <1>8, <1>13, <1>14, <1>15, <1>16, <1>17, OneMoves

LEMMA OrderSetAnswered ==
  ASSUME IInv, Orderly, NEW g \in Gates, SetAnswered(g)
  PROVE  Orderly'
<1>1. gate[g].pc = "asked" /\ gate[g].reply # "none" /\ UNCHANGED <<lease, wire, late, outrun>>
  BY DEF SetAnswered
<1>2. PICK o \in NextLease(gate[g]) :
     LET G == [gate[g] EXCEPT !.reply = "none", !.age = 0]
         H == [G EXCEPT !.held = @ \cup {o}, !.valid[o] = ValidFor(gate[g].age)]
         R == IF H.renewer = "off" THEN [H EXCEPT !.renewer = "sleep"] ELSE H IN
     Became(g, IF gate[g].reply = "busy" THEN [G EXCEPT !.pc = "ask"]
               ELSE IF OwnershipLost(H) THEN Cleaning(LostOne(H), "fallback")
               ELSE IF R.held # R.ids THEN [R EXCEPT !.pc = "ask"]
               ELSE [R EXCEPT !.pc = "in", !.why = "over", !.wait = 0])
  BY DEF SetAnswered
<1> DEFINE G == [gate[g] EXCEPT !.reply = "none", !.age = 0]
           H == [G EXCEPT !.held = @ \cup {o}, !.valid[o] = ValidFor(gate[g].age)]
           R == IF H.renewer = "off" THEN [H EXCEPT !.renewer = "sleep"] ELSE H
           A == [G EXCEPT !.pc = "ask"]
           B == [R EXCEPT !.pc = "ask"]
           C == [R EXCEPT !.pc = "in", !.why = "over", !.wait = 0]
           D == LostOne(H)
<1>3. \/ Became(g, A)
      \/ Became(g, Cleaning(D, "fallback"))
      \/ R.held # R.ids /\ Became(g, B)
      \/ R.held = R.ids /\ Became(g, C)
  BY <1>2
<1>4. /\ o \in Orgs /\ \A u \in NextLease(gate[g]) : u = o
      /\ o \in gate[g].ids \ gate[g].held /\ \A u \in gate[g].ids \ gate[g].held : o <= u
  BY Before, OneNext
<1>5. /\ G.pc = "asked" /\ G.ids = gate[g].ids /\ G.locals = gate[g].locals /\ G.held = gate[g].held
      /\ G.tried = gate[g].tried /\ G.reply = "none" /\ G.again = gate[g].again
      /\ G.errors = gate[g].errors /\ G.lost = gate[g].lost
  BY <1>1, Before DEF GateRecord
<1>6. G \in GateRecord
  <2> DEFINE K == [gate[g] EXCEPT !.reply = "none"]
  <2>1. K \in GateRecord
    BY Before, SetField
  <2>4. 0 \in 0 .. TTL
    BY AdmissionAssumption
  <2>2. [K EXCEPT !.age = 0] \in GateRecord
    BY <2>1, <2>4, SetField
  <2>3. G = [K EXCEPT !.age = 0]
    BY Before DEF GateRecord, G
  <2> QED
    BY <2>2, <2>3
<1> HIDE DEF G
<1>7. ValidFor(gate[g].age) \in 0 .. TTL
  BY Before, AdmissionAssumption DEF ValidFor, GateRecord
<1>8. H \in GateRecord
  <2> DEFINE v == [G.valid EXCEPT ![o] = ValidFor(gate[g].age)]
             K == [G EXCEPT !.held = G.held \cup {o}]
  <2>1. v \in [Orgs -> 0 .. TTL] /\ G.held \cup {o} \in SUBSET Orgs
    BY <1>4, <1>6, <1>7 DEF GateRecord
  <2>2. K \in GateRecord /\ K.valid = G.valid
    <3>1. K \in GateRecord
      BY <1>6, <2>1, SetField
    <3> QED
      BY <1>6, <3>1 DEF GateRecord
  <2>3. [K EXCEPT !.valid = v] \in GateRecord
    BY <2>1, <2>2, SetField
  <2>4. H = [K EXCEPT !.valid = v]
    BY <1>6 DEF GateRecord
  <2> QED
    BY <2>3, <2>4
<1>9. /\ H.pc = "asked" /\ H.ids = gate[g].ids /\ H.locals = gate[g].locals /\ H.held = gate[g].held \cup {o}
      /\ H.tried = gate[g].tried /\ H.reply = "none" /\ H.again = gate[g].again
      /\ H.errors = gate[g].errors /\ H.lost = gate[g].lost
  BY <1>5, <1>6 DEF GateRecord
<1> HIDE DEF H
<1>10. /\ R.ids = gate[g].ids /\ R.locals = gate[g].locals /\ R.held = gate[g].held \cup {o}
       /\ R.tried = gate[g].tried /\ R.reply = "none" /\ R.again = gate[g].again
       /\ R.errors = gate[g].errors /\ R.lost = gate[g].lost /\ R \in GateRecord
  <2>1. R \in GateRecord
    BY <1>8, SetField
  <2> QED
    BY <1>8, <1>9, <2>1 DEF GateRecord
<1>11. /\ D.ids = gate[g].ids /\ D.locals = gate[g].locals /\ D.held = gate[g].held \cup {o}
       /\ D.tried = gate[g].tried /\ D.errors = gate[g].errors /\ D.lost /\ D \in GateRecord
  <2>1. D \in GateRecord
    BY <1>8, Counted
  <2> QED
    BY <1>8, <1>9, <2>1 DEF GateRecord, LostOne
<1> HIDE DEF R, D
<1>12. /\ A.pc = "ask" /\ A.ids = gate[g].ids /\ A.locals = gate[g].locals /\ A.held = gate[g].held
       /\ A.tried = gate[g].tried /\ A.reply = "none" /\ A.again = gate[g].again
       /\ A.errors = gate[g].errors /\ A.lost = gate[g].lost
  BY <1>5, <1>6 DEF GateRecord
<1>13. /\ B.pc = "ask" /\ C.pc = "in"
       /\ B.ids = gate[g].ids /\ B.locals = gate[g].locals /\ B.held = gate[g].held \cup {o}
       /\ C.ids = gate[g].ids /\ C.locals = gate[g].locals /\ C.held = gate[g].held \cup {o}
       /\ B.tried = gate[g].tried /\ B.reply = "none" /\ B.again = gate[g].again
       /\ C.tried = gate[g].tried /\ C.reply = "none" /\ C.again = gate[g].again
       /\ B.errors = gate[g].errors /\ B.lost = gate[g].lost
       /\ C.errors = gate[g].errors /\ C.lost = gate[g].lost
  BY <1>10 DEF GateRecord
<1> HIDE DEF A, B, C
<1>14. /\ Ordered(gate[g]) /\ OnWire(gate[g], wire, g) /\ Traced(gate[g], lease, late, g)
       /\ g \in outrun => Overrun(gate[g], lease, g)
  BY DEF Orderly
<1>15. o \in gate[g].tried /\ <<g, o>> \notin wire
  BY <1>1, <1>4, <1>14 DEF Ordered, OnWire
<1> DEFINE held == gate[g].held \cup {o}
<1>16. /\ \A a \in held, u \in gate[g].ids \ held : a < u
       /\ gate[g].tried \subseteq held /\ held \subseteq gate[g].tried
  <2>1. ASSUME NEW a \in held, NEW u \in gate[g].ids \ held PROVE a < u
    <3>1. a \in Nat /\ u \in Nat /\ u # o
      BY <1>4, Before, AdmissionAssumption DEF GateRecord
    <3> QED
      BY <1>4, <1>14, <3>1 DEF Ordered
  <2> QED
    BY <1>1, <1>4, <1>14, <1>15, <2>1 DEF Ordered, Working
<1> HIDE DEF held
<1>17. CASE Became(g, A)
  <2>1. NextLease(A) = NextLease(gate[g])
    BY <1>12 DEF NextLease
  <2>2. Ordered(A)
    BY <1>1, <1>12, <1>14, <2>1 DEF Ordered, Working
  <2>3. OnWire(A, wire, g) /\ Traced(A, lease, late, g) /\ (g \in outrun => Overrun(A, lease, g))
    BY <1>1, <1>12, <1>14 DEF OnWire, Traced, Deleted, Overrun
  <2> QED
    BY <1>1, <1>17, <2>2, <2>3, QuietMove
<1>18. ASSUME NEW K, Became(g, K), K.ids = gate[g].ids, K.locals = gate[g].locals, K.held = held,
              K.tried = gate[g].tried, K.reply = "none", K.again => gate[g].again, K.errors = gate[g].errors,
              gate[g].lost => K.lost, K.pc \in {"ask", "in", "clean"}
       PROVE  Orderly'
  <2>1. Ordered(K)
    BY <1>14, <1>16, <1>18 DEF Ordered
  <2>2. OnWire(K, wire, g)
    BY <1>1, <1>14, <1>15, <1>18 DEF OnWire, held
  <2>3. Traced(K, lease, late, g)
    BY <1>1, <1>14, <1>18 DEF Traced, Deleted
  <2>4. g \in outrun => Overrun(K, lease, g)
    BY <1>1, <1>14, <1>18 DEF Overrun
  <2> QED
    BY <1>1, <1>18, <2>1, <2>2, <2>3, <2>4, QuietMove
<1>19. CASE Became(g, B)
  BY <1>13, <1>18, <1>19 DEF held
<1>20. CASE Became(g, C)
  BY <1>13, <1>18, <1>20 DEF held
<1>21. CASE Became(g, Cleaning(D, "fallback"))
  <2> DEFINE K == Cleaning(D, "fallback")
  <2>1. /\ K.pc = "clean" /\ K.ids = D.ids /\ K.locals = D.locals /\ K.held = D.held /\ K.tried = D.tried
        /\ K.reply = "none" /\ K.again = FALSE /\ K.errors = D.errors /\ K.lost = D.lost
    BY <1>11, CleaningFields
  <2>2. Became(g, K)
    BY <1>21
  <2> HIDE DEF K
  <2> QED
    BY <1>11, <1>18, <2>1, <2>2 DEF held
<1> QED
  BY <1>3, <1>17, <1>19, <1>20, <1>21

LEMMA OrderLeaves ==
  ASSUME IInv, Orderly, NEW g \in Gates, SetFails(g) \/ WaitOver(g) \/ Leave(g) \/ Cancel(g)
  PROVE  Orderly'
<1>1. UNCHANGED <<lease, wire, late, outrun>>
  BY DEF SetFails, WaitOver, Leave, Cancel
<1>2. \A a \in gate[g].locals, u \in gate[g].ids \ gate[g].locals : a < u
  BY DEF Orderly, Ordered
<1>3. CASE gate[g].pc \in {"local", "ask", "asked", "in"} /\ \E why : Became(g, Cleaning(gate[g], why))
  BY <1>1, <1>2, <1>3, Before, CleaningMove
<1>4. CASE SetFails(g)
  <2> DEFINE K == FailedOne(gate[g])
  <2>1. K \in GateRecord
    BY Before, Counted
  <2>2. /\ K.ids = gate[g].ids /\ K.locals = gate[g].locals /\ K.held = gate[g].held
        /\ K.tried = gate[g].tried /\ K.errors /\ K.lost = gate[g].lost
    BY Before, <2>1 DEF FailedOne, GateRecord
  <2>3. Became(g, Cleaning(K, "fallback")) /\ gate[g].pc \in {"local", "ask", "asked", "in"}
    BY <1>4 DEF SetFails
  <2> HIDE DEF K
  <2> QED
    BY <1>1, <1>2, <2>1, <2>2, <2>3, CleaningMove
<1>5. CASE Cancel(g) /\ gate[g].pc = "clean"
  <2> DEFINE G == [gate[g] EXCEPT !.why = "over"]
  <2>1. Became(g, G)
    BY <1>5 DEF Cancel, AfterCancel
  <2>2. Alike(gate[g], G)
    BY Before DEF Alike, GateRecord
  <2> HIDE DEF G
  <2> QED
    BY <1>1, <2>1, <2>2, AlikeMove
<1>6. CASE Cancel(g) /\ gate[g].pc # "clean"
  BY <1>3, <1>6 DEF Cancel, AfterCancel
<1>7. CASE WaitOver(g) \/ Leave(g)
  BY <1>3, <1>7 DEF WaitOver, Leave
<1> QED
  BY <1>4, <1>5, <1>6, <1>7

LEMMA OrderRenews ==
  ASSUME IInv, Orderly, NEW g \in Gates, Renew(g) \/ RenewApplied(g) \/ RenewAnswered(g) \/ RenewFails(g)
  PROVE  Orderly'
<1>1. UNCHANGED <<wire, late, outrun>>
  BY DEF Renew, RenewApplied, RenewAnswered, RenewFails
<1>2. \A o \in Orgs : lease'[o].owner = lease[o].owner
  <2>1. CASE RenewApplied(g)
    <3>1. lease \in Leases
      BY Before
    <3> QED
      BY <2>1, <3>1 DEF RenewApplied, Leases
  <2> QED
    BY <2>1 DEF Renew, RenewAnswered, RenewFails
<1>3. gate[g] \in GateRecord
  BY Before
<1>4. LostOne(gate[g]) \in GateRecord
  BY <1>3, Counted
<1>5. Alike(gate[g], Resting(LostOne(gate[g])))
  BY <1>3, <1>4 DEF Alike, Resting, LostOne, GateRecord
<1>6. CASE Renew(g)
  <2>1. ASSUME NEW o, Became(g, [gate[g] EXCEPT !.renewer = "asks", !.at = o, !.rage = 0])
        PROVE  Orderly'
    <3>1. Alike(gate[g], [gate[g] EXCEPT !.renewer = "asks", !.at = o, !.rage = 0])
      BY <1>3 DEF Alike, GateRecord
    <3> QED
      BY <1>1, <1>2, <2>1, <3>1, AlikeMove
  <2>2. CASE Became(g, Resting(LostOne(gate[g])))
    BY <1>1, <1>2, <1>5, <2>2, AlikeMove
  <2> QED
    BY <1>6, <2>1, <2>2 DEF Renew
<1>7. CASE RenewApplied(g)
  <2>1. PICK x : Became(g, [gate[g] EXCEPT !.rreply = x])
    BY <1>7 DEF RenewApplied
  <2>2. Alike(gate[g], [gate[g] EXCEPT !.rreply = x])
    BY <1>3 DEF Alike, GateRecord
  <2> QED
    BY <1>1, <1>2, <2>1, <2>2, AlikeMove
<1>8. CASE RenewFails(g)
  BY <1>1, <1>2, <1>5, <1>8, AlikeMove DEF RenewFails
<1>9. CASE RenewAnswered(g)
  <2>1. CASE Became(g, Resting(LostOne(gate[g])))
    BY <1>1, <1>2, <1>5, <2>1, AlikeMove
  <2>2. CASE Became(g, [Resting(gate[g]) EXCEPT !.renewer = "sleep", !.valid[gate[g].at] = ValidFor(gate[g].rage)])
    <3>1. Alike(gate[g], [Resting(gate[g]) EXCEPT !.renewer = "sleep", !.valid[gate[g].at] = ValidFor(gate[g].rage)])
      BY <1>3 DEF Alike, Resting, GateRecord
    <3> QED
      BY <1>1, <1>2, <2>2, <3>1, AlikeMove
  <2> QED
    BY <1>9, <2>1, <2>2 DEF RenewAnswered
<1> QED
  BY <1>6, <1>7, <1>8, <1>9

LEMMA OrderDeletes ==
  ASSUME IInv, Orderly, NEW g \in Gates, DeleteApplied(g)
  PROVE  Orderly'
<1>1. gate[g].pc = "clean" /\ gate[g].reply = "none" /\ UNCHANGED <<wire, late, outrun>>
  BY DEF DeleteApplied
<1>2. PICK o \in NextDelete(gate[g]) :
        /\ lease' = IF Deletes(g, o) THEN [lease EXCEPT ![o] = Free] ELSE lease
        /\ Became(g, [gate[g] EXCEPT !.reply = IF Deletes(g, o) THEN "deleted" ELSE "absent"])
  BY DEF DeleteApplied
<1> DEFINE x == IF Deletes(g, o) THEN "deleted" ELSE "absent"
           G == [gate[g] EXCEPT !.reply = x]
<1>3. /\ o \in Orgs /\ lease \in Leases /\ gate[g] \in GateRecord
      /\ \A u \in NextDelete(gate[g]) : u = o
  BY <1>2, Before, OneNext
<1>4. /\ G.pc = "clean" /\ G.ids = gate[g].ids /\ G.locals = gate[g].locals /\ G.held = gate[g].held
      /\ G.tried = gate[g].tried /\ G.reply = x /\ G.again = gate[g].again
      /\ G.errors = gate[g].errors /\ G.lost = gate[g].lost
  BY <1>1, <1>3 DEF GateRecord
<1>5. Became(g, G)
  BY <1>2
<1> HIDE DEF G
<1>6. NextDelete(G) = NextDelete(gate[g])
  BY <1>4 DEF NextDelete
<1>7. lease'[o].owner # g /\ \A u \in Orgs : u # o => lease'[u] = lease[u]
  BY <1>2, <1>3, AdmissionAssumption DEF Leases, Deletes, Free
<1>8. \A h \in Gates, u \in Orgs : lease'[u].owner = h => lease[u].owner = h
  BY <1>2, <1>3, AdmissionAssumption DEF Leases, Free
<1>9. /\ Ordered(gate[g]) /\ OnWire(gate[g], wire, g) /\ Traced(gate[g], lease, late, g)
      /\ g \in outrun => Overrun(gate[g], lease, g)
  BY DEF Orderly
<1>10. Ordered(G)
  BY <1>1, <1>4, <1>9 DEF Ordered, Working
<1>11. OnWire(G, wire, g)
  BY <1>1, <1>4, <1>9 DEF OnWire
<1>12. Traced(G, lease', late, g)
  BY <1>1, <1>3, <1>4, <1>6, <1>7, <1>9 DEF Traced, Deleted
<1>13. ASSUME g \in outrun PROVE Overrun(G, lease', g)
  <2>1. Overrun(gate[g], lease, g)
    BY <1>9, <1>13
  <2>2. SUFFICES ASSUME NEW u \in gate[g].held \cap gate[g].tried, lease[u].owner # g
                 PROVE  lease'[u].owner # g /\ (u \in NextDelete(G) => G.reply = "absent")
    BY <1>1, <1>4, <2>1 DEF Overrun
  <2>3. u \in Orgs
    BY <1>3 DEF GateRecord
  <2>4. u \in NextDelete(G) => x = "absent"
    BY <1>3, <1>6, <2>2 DEF Deletes
  <2> QED
    BY <1>4, <1>8, <2>2, <2>3, <2>4
<1>14. /\ \A h \in Gates \ {g}, u \in Orgs : <<h, u>> \in wire' => <<h, u>> \in wire
       /\ late \subseteq late' /\ OnWire(G, wire', g) /\ Traced(G, lease', late', g)
       /\ \A h \in Gates \ {g} : h \in outrun' => h \in outrun \/ Overrun(gate[h], lease', h)
       /\ g \in outrun' => Overrun(G, lease', g)
  BY <1>1, <1>11, <1>12, <1>13
<1> QED
  BY <1>5, <1>8, <1>10, <1>14, OneMoves

(* A gate that goes on from a delete, having told what it found missing.    *)
LEMMA ThroughMove ==
  ASSUME IInv, Orderly, NEW g \in Gates, NEW K \in GateRecord, Became(g, Through(K)),
         gate[g].pc = "clean", K.pc = "clean", K.ids = gate[g].ids, K.locals = gate[g].locals,
         K.held = gate[g].held, K.tried = gate[g].tried,
         gate[g].errors => K.errors, gate[g].lost => K.lost,
         K.errors \/ gate[g].reply # "none",
         \/ K.errors \/ K.lost
         \/ ~(gate[g].reply = "absent" /\ ~ gate[g].again /\ NextDelete(gate[g]) \subseteq gate[g].held),
         UNCHANGED <<lease, wire, late, outrun>>
  PROVE  Orderly'
<1> DEFINE T == Through(K)
<1>1. K.tried \ NextDelete(K) \in SUBSET Orgs
  BY DEF GateRecord
<1>2. /\ T.pc = "clean" /\ T.ids = K.ids /\ T.locals = K.locals /\ T.held = K.held
      /\ T.tried = K.tried \ NextDelete(K) /\ T.reply = "none" /\ T.again = FALSE
      /\ T.errors = K.errors /\ T.lost = K.lost
  BY <1>1 DEF Through, GateRecord
<1>3. Became(g, T) /\ NextDelete(K) = NextDelete(gate[g])
  BY DEF NextDelete
<1> HIDE DEF T
<1>4. /\ Ordered(gate[g]) /\ OnWire(gate[g], wire, g) /\ Traced(gate[g], lease, late, g)
      /\ g \in outrun => Overrun(gate[g], lease, g)
  BY DEF Orderly
<1>5. Ordered(T)
  BY <1>2, <1>4 DEF Ordered, Working
<1>6. OnWire(T, wire, g)
  BY <1>2, <1>4 DEF OnWire
<1>7. Traced(T, lease, late, g)
  BY <1>2, <1>3, <1>4 DEF Traced, Deleted
<1>8. ASSUME g \in outrun PROVE Overrun(T, lease, g)
  <2>1. Overrun(gate[g], lease, g)
    BY <1>4, <1>8
  <2>2. CASE K.lost \/ K.errors
    BY <1>2, <2>2 DEF Overrun
  <2>3. CASE ~ K.lost /\ ~ K.errors
    <3>1. PICK o \in gate[g].held \cap gate[g].tried :
            lease[o].owner # g /\ (o \in NextDelete(gate[g]) => gate[g].reply = "absent")
      BY <2>1, <2>3 DEF Overrun
    <3>2. o \notin NextDelete(gate[g])
      <4> SUFFICES ASSUME o \in NextDelete(gate[g]) PROVE FALSE
        OBVIOUS
      <4>1. NextDelete(gate[g]) \subseteq gate[g].held
        BY <3>1, Before, OneNext
      <4>2. ~ gate[g].again
        BY <1>4, <2>3 DEF Ordered
      <4> QED
        BY <2>3, <3>1, <4>1, <4>2
    <3> QED
      BY <1>2, <1>3, <3>1, <3>2 DEF Overrun
  <2> QED
    BY <2>2, <2>3
<1> QED
  BY <1>3, <1>5, <1>6, <1>7, <1>8, QuietMove

LEMMA OrderDeleteAnswered ==
  ASSUME IInv, Orderly, NEW g \in Gates, DeleteAnswered(g)
  PROVE  Orderly'
<1> DEFINE K == IF Noticed(gate[g]) THEN LostOne(gate[g]) ELSE gate[g]
<1>1. /\ gate[g].pc = "clean" /\ gate[g].reply # "none" /\ Became(g, Through(K))
      /\ UNCHANGED <<lease, wire, late, outrun>>
  BY DEF DeleteAnswered
<1>2. K \in GateRecord
  BY Before, Counted
<1>3. /\ K.pc = "clean" /\ K.ids = gate[g].ids /\ K.locals = gate[g].locals /\ K.held = gate[g].held
      /\ K.tried = gate[g].tried /\ K.errors = gate[g].errors /\ (gate[g].lost => K.lost)
      /\ Noticed(gate[g]) => K.lost
  BY <1>1, Before DEF LostOne, GateRecord
<1> HIDE DEF K
<1> QED
  BY <1>1, <1>2, <1>3, ThroughMove DEF Noticed

LEMMA OrderDeleteFails ==
  ASSUME IInv, Orderly, NEW g \in Gates, DeleteFails(g)
  PROVE  Orderly'
<1> DEFINE K == FailedOne(gate[g])
           R == [K EXCEPT !.again = TRUE, !.reply = "none"]
<1>1. /\ gate[g].pc = "clean" /\ (Became(g, R) \/ Became(g, Through(K)))
      /\ UNCHANGED <<lease, wire, late, outrun>>
  BY DEF DeleteFails
<1>2. K \in GateRecord
  BY Before, Counted
<1>3. /\ K.pc = "clean" /\ K.ids = gate[g].ids /\ K.locals = gate[g].locals /\ K.held = gate[g].held
      /\ K.tried = gate[g].tried /\ K.errors /\ K.lost = gate[g].lost
  BY <1>1, <1>2, Before DEF FailedOne, GateRecord
<1> HIDE DEF K
<1>4. /\ R.pc = "clean" /\ R.ids = gate[g].ids /\ R.locals = gate[g].locals /\ R.held = gate[g].held
      /\ R.tried = gate[g].tried /\ R.errors /\ R.reply = "none"
  BY <1>2, <1>3 DEF GateRecord
<1> HIDE DEF R
<1>5. CASE Became(g, Through(K))
  BY <1>1, <1>2, <1>3, <1>5, ThroughMove
<1>6. CASE Became(g, R)
  <2>1. Ordered(gate[g]) /\ OnWire(gate[g], wire, g) /\ Traced(gate[g], lease, late, g)
    BY DEF Orderly
  <2>2. Ordered(R)
    BY <1>4, <2>1 DEF Ordered, Working
  <2>3. OnWire(R, wire, g) /\ Traced(R, lease, late, g) /\ Overrun(R, lease, g)
    BY <1>4, <2>1 DEF OnWire, Traced, Overrun
  <2> QED
    BY <1>1, <1>6, <2>2, <2>3, QuietMove
<1> QED
  BY <1>1, <1>5, <1>6

LEMMA GoneFields ==
  ASSUME NEW G \in GateRecord, NEW pc \in {"done", "dead"}
  PROVE  LET H == Gone(G, pc)
         IN  /\ H.pc = pc /\ H.ids = {} /\ H.locals = {} /\ H.held = {} /\ H.tried = {} /\ H.reply = "none"
             /\ H.again = FALSE /\ H.errors = G.errors /\ H.lost = G.lost
BY DEF Gone, NewGate

LEMMA OrderReleased ==
  ASSUME IInv, Orderly, NEW g \in Gates, Released(g)
  PROVE  Orderly'
<1> DEFINE H == Gone(gate[g], "done")
<1>1. /\ gate[g].pc = "clean" /\ gate[g].tried = {} /\ Became(g, H)
      /\ UNCHANGED <<lease, wire, late, outrun>>
  BY DEF Released
<1>2. /\ H.pc = "done" /\ H.ids = {} /\ H.locals = {} /\ H.held = {} /\ H.tried = {} /\ H.reply = "none"
      /\ H.again = FALSE /\ H.errors = gate[g].errors /\ H.lost = gate[g].lost
  BY Before, GoneFields
<1> HIDE DEF H
<1>3. /\ Ordered(gate[g]) /\ OnWire(gate[g], wire, g) /\ Traced(gate[g], lease, late, g)
      /\ g \in outrun => Overrun(gate[g], lease, g)
  BY DEF Orderly
<1>4. Ordered(H)
  BY <1>2 DEF Ordered, Working
<1>5. OnWire(H, wire, g)
  BY <1>2 DEF OnWire
<1>6. Traced(H, lease, late, g)
  BY <1>1, <1>2, <1>3 DEF Traced, Deleted
<1>7. g \in outrun => Overrun(H, lease, g)
  BY <1>1, <1>2, <1>3 DEF Overrun
<1> QED
  BY <1>1, <1>4, <1>5, <1>6, <1>7, QuietMove

LEMMA OrderCrash ==
  ASSUME IInv, Orderly, NEW p \in Procs, Crash(p)
  PROVE  Orderly'
<1> DEFINE D == Gone(NewGate, "dead")
<1>1. NewGate \in GateRecord
  BY AdmissionAssumption DEF NewGate, GateRecord
<1>2. /\ D.pc = "dead" /\ D.ids = {} /\ D.locals = {} /\ D.held = {} /\ D.tried = {} /\ D.reply = "none"
      /\ D.again = FALSE
  BY <1>1, GoneFields
<1> HIDE DEF D
<1>3. UNCHANGED <<lease, wire, late, outrun>>
  BY DEF Crash
<1>4. \A h \in Gates : gate'[h] = IF gate[h].proc = p THEN D ELSE gate[h]
  BY DEF Crash, D
<1>5. \A h \in Gates : Ordered(D) /\ OnWire(D, wire, h) /\ Traced(D, lease, late, h) /\ Overrun(D, lease, h)
  BY <1>2 DEF Ordered, OnWire, Traced, Overrun, Working
<1>6. \A h \in Gates :
         /\ Ordered(gate'[h]) /\ OnWire(gate'[h], wire', h) /\ Traced(gate'[h], lease', late', h)
         /\ h \in outrun' => Overrun(gate'[h], lease', h)
  BY <1>3, <1>4, <1>5 DEF Orderly
<1> QED
  BY ZenonT(60), <1>6 DEF Orderly, Ordered, OnWire, Traced, Overrun, Deleted, NextLease, NextDelete

LEMMA OrderTick ==
  ASSUME IInv, Orderly, Tick
  PROVE  Orderly'
<1>1. UNCHANGED <<wire, late, outrun>> /\ \A h \in Gates : gate'[h] = Aged(gate[h])
  BY DEF Tick
<1>2. \A h \in Gates, o \in Orgs : lease'[o].owner = h => lease[o].owner = h
  <2>1. lease \in Leases
    BY DEF IInv, TypeOK, Leases
  <2>2. \A o \in Orgs : lease'[o].owner = None \/ lease'[o].owner = lease[o].owner
    BY <2>1 DEF Tick, Free, Leases
  <2> QED
    BY <2>2, AdmissionAssumption
<1>3. ASSUME NEW h \in Gates
      PROVE  /\ Ordered(gate'[h]) /\ OnWire(gate'[h], wire', h) /\ Traced(gate'[h], lease', late', h)
             /\ h \in outrun' => Overrun(gate'[h], lease', h)
  <2> DEFINE H == gate'[h]
  <2>1. gate[h] \in GateRecord
    BY Before
  <2>2. Alike(gate[h], H)
    BY ZenonT(60), <1>1, <2>1 DEF Alike, Aged, GateRecord
  <2> HIDE DEF H
  <2>3. /\ Ordered(gate[h]) /\ OnWire(gate[h], wire, h) /\ Traced(gate[h], lease, late, h)
        /\ h \in outrun => Overrun(gate[h], lease, h)
    BY DEF Orderly
  <2>4. /\ \A o \in Orgs : <<h, o>> \in wire' => <<h, o>> \in wire
        /\ \A o \in Orgs : lease'[o].owner = h => lease[o].owner = h
        /\ late \subseteq late'
    BY <1>1, <1>2
  <2>5. NextLease(H) = NextLease(gate[h]) /\ NextDelete(H) = NextDelete(gate[h])
    BY <2>2 DEF Alike, NextLease, NextDelete
  <2>6. Ordered(H)
    BY <2>2, <2>3, <2>5 DEF Alike, Ordered
  <2>7. OnWire(H, wire', h)
    BY <2>2, <2>3, <2>4, <2>5 DEF Alike, OnWire
  <2>8. Traced(H, lease', late', h)
    BY <2>2, <2>3, <2>4, <2>5 DEF Alike, Traced, Deleted
  <2>9. h \in outrun => Overrun(H, lease', h)
    BY <2>1, <2>2, <2>3, <2>4, AlikeOverrun
  <2> QED
    BY <1>1, <2>6, <2>7, <2>8, <2>9 DEF H
<1> QED
  BY <1>3 DEF Orderly, Ordered, OnWire, Traced, Overrun, Deleted, NextLease, NextDelete

(* Orderly is inductive with IInv.                                         *)
LEMMA InOrder == Init => Orderly
<1> SUFFICES ASSUME Init, NEW g \in Gates
             PROVE  /\ Ordered(gate[g]) /\ OnWire(gate[g], wire, g) /\ Traced(gate[g], lease, late, g)
                    /\ g \in outrun => Overrun(gate[g], lease, g)
  BY DEF Orderly
<1>1. gate[g] = NewGate /\ wire = {} /\ outrun = {} /\ \A o \in Orgs : lease[o].owner = None
  BY DEF Init, Free
<1> QED
  BY <1>1, AdmissionAssumption DEF Ordered, OnWire, Traced, NewGate, Working

LEMMA StaysOrderly == IInv /\ Orderly /\ [Next]_vars => Orderly'
<1> SUFFICES ASSUME IInv, Orderly, [Next]_vars PROVE Orderly'
  OBVIOUS
<1>1. ASSUME NEW g \in Gates, NEW p \in Procs, NEW ids \in (SUBSET Orgs) \ {{}},
             NEW op \in {"reserve", "settle"}, Admit(g, p, ids, op)
      PROVE  Orderly'
  BY <1>1, OrderAdmit
<1>2. ASSUME NEW g \in Gates,
             TakeLocal(g) \/ Ask(g) \/ SetAnswered(g) \/ SetFails(g) \/ WaitOver(g)
      PROVE  Orderly'
  BY <1>2, OrderTakeLocal, OrderAsk, OrderSetAnswered, OrderLeaves
<1>3. ASSUME NEW g \in Gates, NEW o \in Orgs, SetApplied(g, o) PROVE Orderly'
  BY <1>3, OrderSetApplied
<1>4. ASSUME NEW g \in Gates, Renew(g) \/ RenewApplied(g) \/ RenewAnswered(g) \/ RenewFails(g)
      PROVE  Orderly'
  BY <1>4, OrderRenews
<1>5. ASSUME NEW g \in Gates,
             Leave(g) \/ Cancel(g) \/ DeleteApplied(g) \/ DeleteAnswered(g) \/ DeleteFails(g) \/ Released(g)
      PROVE  Orderly'
  BY <1>5, OrderLeaves, OrderDeletes, OrderDeleteAnswered, OrderDeleteFails, OrderReleased
<1>6. ASSUME NEW p \in Procs, Crash(p) PROVE Orderly'
  BY <1>6, OrderCrash
<1>7. CASE Tick
  BY <1>7, OrderTick
<1>8. CASE UNCHANGED vars
  <2>1. gate' = gate /\ lease' = lease /\ wire' = wire /\ late' = late /\ outrun' = outrun
    BY <1>8 DEF vars
  <2>2. \A g \in Gates :
          /\ Ordered(gate'[g]) /\ OnWire(gate'[g], wire', g) /\ Traced(gate'[g], lease', late', g)
          /\ g \in outrun' => Overrun(gate'[g], lease', g)
    BY <2>1 DEF Orderly
  <2> QED
    BY <2>2 DEF Orderly, Ordered, OnWire, Traced, Overrun, Deleted, NextLease, NextDelete
<1> QED BY <1>1, <1>2, <1>3, <1>4, <1>5, <1>6, <1>7, <1>8 DEF Next

(* _release_safely: a gate that ends leaves no lock behind, and no lease   *)
(* but one that a counted failure or a late request accounts for.          *)
THEOREM EndsClean == Spec => []CleanEnd
<1>1. IInv /\ Orderly => CleanEnd
  BY DEF Orderly, Ordered, Traced, Deleted, CleanEnd
<1> QED
  BY Initially, InOrder, Inductive, StaysOrderly, <1>1, PTL DEF Spec

(* A transaction that ran on after another had its lease has told so in    *)
(* the metrics of admit() when it is over.                                 *)
THEOREM OverrunIsReported == Spec => []OverrunReported
<1>1. IInv /\ Orderly => OverrunReported
  BY DEF IInv, TypeOK, Orderly, Overrun, OverrunReported
<1> QED
  BY Initially, InOrder, Inductive, StaysOrderly, <1>1, PTL DEF Spec

-----------------------------------------------------------------------------
(* Nobody waits in a circle *)

(* Of finitely many places, some gate stands at the highest.               *)
LEMMA LastNext ==
  ASSUME NEW S, S # {}, NEW f \in [S -> Orgs]
  PROVE  \E g \in S : \A h \in S : f[h] <= f[g]
<1> DEFINE T == {f[h] : h \in S}
<1>1. T \subseteq Orgs /\ T # {}
  OBVIOUS
<1>2. T \subseteq Nat /\ IsFiniteSet(T)
  BY <1>1, AdmissionAssumption, FS_Subset
<1> HIDE DEF T
<1>3. PICK x \in T : \A y \in T : y <= x
  BY <1>1, <1>2, Greatest
<1>4. PICK g \in S : x = f[g]
  BY <1>3 DEF T
<1>5. \A h \in S : f[h] <= f[g]
  BY <1>3, <1>4 DEF T
<1> QED
  BY <1>5

(* Whoever has a lease is past its local locks, and if it asks on, then for *)
(* one with a higher id.                                                    *)
LEMMA HolderAsksOn ==
  ASSUME IInv, Orderly, NEW h \in Gates, NEW o \in Orgs, lease[o].owner = h
  PROVE  /\ gate[h].pc # "local"
         /\ gate[h].pc \in {"ask", "asked"} =>
              \A u \in NextLease(gate[h]) : o < u \/ u = o
<1>1. Ordered(gate[h]) /\ Traced(gate[h], lease, late, h)
  BY DEF Orderly
<1>2. gate[h].pc # "local"
  BY <1>1 DEF Ordered, Traced
<1>3. ASSUME gate[h].pc \in {"ask", "asked"}, NEW u \in NextLease(gate[h]) PROVE o < u \/ u = o
  <2>1. o \in gate[h].held \cup NextLease(gate[h])
    BY <1>1, <1>3 DEF Ordered, Traced
  <2>2. u \in gate[h].ids \ gate[h].held /\ \A w \in NextLease(gate[h]) : w = u
    BY Before, OneNext
  <2> QED
    BY <1>1, <2>1, <2>2 DEF Ordered
<1> QED
  BY <1>2, <1>3

(* No circle of gates that wait for leases, ...                            *)
LEMMA LeasesInOrder ==
  ASSUME IInv, Orderly, NEW S \in SUBSET Gates,
         \A g \in S : \E h \in S : WaitsFor(g, h)
  PROVE  \A g \in S : gate[g].pc \notin {"ask", "asked"}
<1> DEFINE A == {g \in S : gate[g].pc \in {"ask", "asked"}}
<1> SUFFICES ASSUME A # {} PROVE FALSE
  OBVIOUS
<1>1. \A g \in A : \E o \in Orgs : o \in NextLease(gate[g]) /\ \E h \in A : g # h /\ lease[o].owner = h
  <2> SUFFICES ASSUME NEW g \in A
               PROVE  \E o \in Orgs : o \in NextLease(gate[g]) /\ \E h \in A : g # h /\ lease[o].owner = h
    OBVIOUS
  <2>1. PICK h \in S : WaitsFor(g, h)
    OBVIOUS
  <2>2. PICK o \in NextLease(gate[g]) : g # h /\ lease[o].owner = h
    BY <2>1 DEF WaitsFor
  <2>3. o \in Orgs
    BY <2>2, Before, OneNext
  <2>4. gate[h].pc # "local"
    BY <2>2, <2>3, HolderAsksOn
  <2>5. gate[h].pc \in {"ask", "asked"}
    BY <2>4 DEF WaitsFor
  <2> QED
    BY <2>2, <2>3, <2>5
<1> DEFINE f == [g \in A |-> CHOOSE o \in Orgs : o \in NextLease(gate[g]) /\ \E h \in A : g # h /\ lease[o].owner = h]
<1>2. \A g \in A : f[g] \in Orgs /\ f[g] \in NextLease(gate[g]) /\ \E h \in A : g # h /\ lease[f[g]].owner = h
  BY <1>1
<1>3. f \in [A -> Orgs]
  BY <1>2
<1> HIDE DEF f, A
<1>4. PICK g \in A : \A h \in A : f[h] <= f[g]
  BY <1>3, LastNext
<1>5. PICK h \in A : g # h /\ lease[f[g]].owner = h
  BY <1>2, <1>4
<1>6. PICK k \in A : h # k /\ lease[f[h]].owner = k
  BY <1>2, <1>5
<1>7. f[g] < f[h] \/ f[h] = f[g]
  BY <1>2, <1>5, HolderAsksOn DEF A
<1>8. f[h] # f[g]
  BY <1>5, <1>6
<1>9. f[g] \in Nat /\ f[h] \in Nat /\ f[h] <= f[g]
  BY <1>2, <1>4, <1>5, AdmissionAssumption
<1> QED
  BY <1>7, <1>8, <1>9

(* ... and none of gates that wait for the locks of their process.         *)
LEMMA LocalsInOrder ==
  ASSUME IInv, Orderly, NEW S \in SUBSET Gates, S # {}, \A g \in S : gate[g].pc = "local",
         \A g \in S : \E h \in S : WaitsFor(g, h)
  PROVE  FALSE
<1>1. \A g \in S : \E o \in Orgs : o \in NextLocal(gate[g])
  <2> SUFFICES ASSUME NEW g \in S PROVE \E o \in Orgs : o \in NextLocal(gate[g])
    OBVIOUS
  <2> DEFINE T == gate[g].ids \ gate[g].locals
  <2>1. gate[g].locals # gate[g].ids /\ gate[g].locals \subseteq gate[g].ids /\ gate[g].ids \subseteq Orgs
    <3>1. g \in Gates /\ gate[g].pc = "local"
      OBVIOUS
    <3>2. Ordered(gate[g])
      BY <3>1 DEF Orderly
    <3>3. gate[g].locals # gate[g].ids
      BY <3>1, <3>2 DEF Ordered
    <3>4. gate[g] \in GateRecord /\ gate[g].locals \subseteq gate[g].ids
      BY <3>1 DEF IInv, TypeOK
    <3> QED
      BY <3>3, <3>4 DEF GateRecord
  <2>2. T # {} /\ T \subseteq Nat
    BY <2>1, AdmissionAssumption
  <2>3. PICK o \in T : \A u \in T : o <= u
    BY <2>2, Least
  <2> QED
    BY <2>1, <2>3 DEF NextLocal, First
<1> DEFINE f == [g \in S |-> CHOOSE o \in Orgs : o \in NextLocal(gate[g])]
<1>2. \A g \in S : f[g] \in Orgs /\ f[g] \in NextLocal(gate[g])
  BY <1>1
<1>3. f \in [S -> Orgs]
  BY <1>2
<1> HIDE DEF f
<1>4. PICK g \in S : \A h \in S : f[h] <= f[g]
  BY <1>3, LastNext
<1>5. PICK h \in S : WaitsFor(g, h)
  BY <1>4
<1>6. f[g] \in gate[h].locals
  BY <1>2, <1>5 DEF WaitsFor
<1>7. f[h] \in gate[h].ids \ gate[h].locals
  BY <1>2 DEF NextLocal, First
<1>8. f[g] < f[h]
  BY <1>6, <1>7 DEF Orderly, Ordered
<1>9. f[g] \in Nat /\ f[h] \in Nat /\ f[h] <= f[g]
  BY <1>2, <1>4, AdmissionAssumption
<1> QED
  BY <1>8, <1>9

(* admit() sorts the ids and takes all local locks before the first lease: *)
(* no set of gates can wait for one another.                               *)
THEOREM NobodyWaitsInACircle == Spec => []NoCircle
<1>1. IInv /\ Orderly => NoCircle
  <2> SUFFICES ASSUME IInv, Orderly, NEW S \in (SUBSET Gates) \ {{}},
                      \A g \in S : \E h \in S : WaitsFor(g, h)
               PROVE  FALSE
    BY DEF NoCircle
  <2>1. S \in SUBSET Gates /\ S # {}
    OBVIOUS
  <2>2. \A g \in S : gate[g].pc \notin {"ask", "asked"}
    BY <2>1, LeasesInOrder
  <2>3. \A g \in S : gate[g].pc = "local"
    BY <2>2 DEF WaitsFor
  <2> QED
    BY <2>1, <2>3, LocalsInOrder
<1> QED
  BY Initially, InOrder, Inductive, StaysOrderly, <1>1, PTL DEF Spec
=============================================================================
