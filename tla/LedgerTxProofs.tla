--------------------------- MODULE LedgerTxProofs ---------------------------
(***************************************************************************)
(* The money transactions, statement by statement: types, that no set of   *)
(* them waits on each other, that the books balance whatever they          *)
(* interleave, and that within a day each commit is one step of Ledger,    *)
(* for any teams, calls, blocks and sessions.                              *)
(*                                                                         *)
(* What carries it is where a transaction stands: the statement it is at   *)
(* says which locks it can hold and which it still wants, and what it holds*)
(* comes before what it wants: a payment reference first, then holds by id,*)
(* then blocks by organization and id, then organizations by id.           *)
(***************************************************************************)
EXTENDS LedgerTx, TLAPS

(* What the jobs are given.                                                *)
CloseJobs == UNION {[op : {"close"}, settle : {S}, actual : [S -> Costs]] : S \in SUBSET Calls}
PayToJobs == [op : {"payTo"}, call : Calls, payee : Orgs, actual : Costs]
ReserveJobs == [op : {"reserve"}, call : Calls, org : Orgs, charged : Nat]
RevokeJobs == UNION {[op : {"revoke"}, org : Orgs, asked : [T -> Targets]] : T \in SUBSET Blocks}
FundJobs == [op : {"fund"}, org : Orgs, kind : L!Kinds, amount : Nat, ref : Refs \cup {None}]
NoJobs == [op : {"none"}]
JobSet == CloseJobs \cup PayToJobs \cup ReserveJobs \cup RevokeJobs \cup FundJobs \cup NoJobs

Stages == {"idle", "claim", "blocks", "orgs", "ref", "commit"}

TxRow ==
  [job : JobSet, pc : Stages, claim : SUBSET Calls, mine : SUBSET Calls, want : SUBSET Blocks,
   seen : [Blocks -> Nat], orgs : SUBSET Orgs, todo : SUBSET Calls, began : Nat, stamp : Nat]

(* ORDER BY org_id, id *)
Precedes(a, b) == block[a].org < block[b].org \/ (block[a].org = block[b].org /\ a < b)

(***************************************************************************)
(* Where a transaction stands.                                             *)
(***************************************************************************)

(* What is left of its statement, and nothing of any other.                *)
AtStatement(r) ==
  /\ r.pc = "idle" <=> r.job.op = "none"
  /\ r.pc = "claim" <=> r.claim # {}
  /\ r.pc = "blocks" <=> r.want # {}
  /\ r.pc = "orgs" <=> r.orgs # {}
  /\ r.pc = "ref" => r.job.op = "fund" /\ r.job.ref # None
  /\ r.pc \in {"idle", "ref"} => r.mine = {}
  /\ r.job.op \notin {"close", "payTo", "reserve"} => r.claim = {} /\ r.mine = {}
  /\ r.job.op = "payTo" => r.claim \cup r.mine = {r.job.call}

(* The holds it has claimed are the hold rows it has locked, and open.     *)
HoldsClaimed(t) ==
  /\ \A c \in Calls : lock[HoldKey(c)] = t <=> c \in tx[t].mine
  /\ \A c \in tx[t].mine : L!IsOpen(c)
  /\ \A c \in tx[t].mine : \A d \in tx[t].claim : c < d

(* It locks existing blocks, those it wants after those it has.            *)
BlocksLocked(t) ==
  /\ \A b \in tx[t].want : L!IsBlock(b)
  /\ \A b \in Blocks : lock[BlockKey(b)] = t =>
       /\ tx[t].pc \in {"blocks", "orgs", "commit"}
       /\ L!IsBlock(b)
       /\ \A x \in tx[t].want : Precedes(b, x)

OrgsLocked(t) ==
  \A o \in Orgs : lock[OrgKey(o)] = t =>
    /\ tx[t].pc \in {"orgs", "commit"}
    /\ \A p \in tx[t].orgs : o < p

RefLocked(t) ==
  \A f \in Refs : lock[RefKey(f)] = t => tx[t].pc \in {"orgs", "commit"}

Stands(t) ==
  /\ AtStatement(tx[t])
  /\ HoldsClaimed(t) /\ BlocksLocked(t) /\ OrgsLocked(t) /\ RefLocked(t)

TypeInv ==
  /\ L!TypeOK
  /\ lock \in [Keys -> Txs \cup {None}]
  /\ tx \in [Txs -> TxRow]

Invariant == TypeInv /\ \A t \in Txs : Stands(t)

LEMMA Base ==
  /\ L!LedgerAssumption
  /\ Orgs \subseteq Nat /\ Calls \subseteq Nat /\ None \notin Txs
  /\ None \notin Orgs /\ None \notin Refs /\ None \notin Nat
  /\ MaxBlocks \in Nat
  BY LedgerTxAssumption DEF L!LedgerAssumption

LEMMA SameBlocks == L!BlockIds = Blocks
  BY DEF L!BlockIds, Blocks

(* Each job has what its statements use.                                   *)
LEMMA JobFields ==
  ASSUME NEW j \in JobSet
  PROVE  /\ j.op \in {"close", "payTo", "reserve", "revoke", "fund", "none"}
         /\ j.op = "close" => j.settle \in SUBSET Calls /\ j.actual \in [j.settle -> Costs]
         /\ j.op = "payTo" => j.call \in Calls /\ j.payee \in Orgs /\ j.actual \in Costs
         /\ j.op = "reserve" => j.call \in Calls /\ j.org \in Orgs /\ j.charged \in Nat
         /\ j.op = "revoke" => j.org \in Orgs /\ DOMAIN j.asked \in SUBSET Blocks
                               /\ j.asked \in [DOMAIN j.asked -> Targets]
         /\ j.op = "fund" => j.org \in Orgs /\ j.kind \in L!Kinds /\ j.amount \in Nat
                             /\ j.ref \in Refs \cup {None}
<1>1. CASE j \in CloseJobs
  BY <1>1 DEF CloseJobs
<1>2. CASE j \in PayToJobs
  BY <1>2 DEF PayToJobs
<1>3. CASE j \in ReserveJobs
  BY <1>3 DEF ReserveJobs
<1>4. CASE j \in RevokeJobs
  BY <1>4 DEF RevokeJobs
<1>5. CASE j \in FundJobs
  BY <1>5 DEF FundJobs
<1>6. CASE j \in NoJobs
  BY <1>6 DEF NoJobs
<1> QED
  BY <1>1, <1>2, <1>3, <1>4, <1>5, <1>6 DEF JobSet

LEMMA RowFields ==
  ASSUME NEW r \in TxRow
  PROVE  /\ r.job \in JobSet /\ r.pc \in Stages
         /\ r.claim \subseteq Calls /\ r.mine \subseteq Calls /\ r.want \subseteq Blocks
         /\ r.seen \in [Blocks -> Nat] /\ r.orgs \subseteq Orgs /\ r.todo \subseteq Calls
         /\ r.began \in Nat /\ r.stamp \in Nat
  BY DEF TxRow

LEMMA IdleRow ==
  /\ Idle \in TxRow
  /\ Idle.job.op = "none" /\ Idle.pc = "idle" /\ Idle.claim = {} /\ Idle.mine = {}
  /\ Idle.want = {} /\ Idle.orgs = {} /\ Idle.todo = {}
  /\ Idle.seen = [b \in Blocks |-> 0] /\ Idle.began = 0 /\ Idle.stamp = 0
<1>1. /\ Idle.job = [op |-> "none"] /\ Idle.pc = "idle" /\ Idle.claim = {} /\ Idle.mine = {}
      /\ Idle.want = {} /\ Idle.orgs = {} /\ Idle.todo = {}
      /\ Idle.seen = [b \in Blocks |-> 0] /\ Idle.began = 0 /\ Idle.stamp = 0
  BY DEF Idle
<1>2. [op |-> "none"] \in JobSet
  BY DEF JobSet, NoJobs
<1>3. Idle \in TxRow
  BY <1>2 DEF Idle, TxRow, Stages
<1> QED
  BY <1>1, <1>3

-----------------------------------------------------------------------------
(* Locks *)

LEMMA KeyTypes ==
  /\ \A c \in Calls : HoldKey(c) \in Keys
  /\ \A b \in Blocks : BlockKey(b) \in Keys
  /\ \A o \in Orgs : OrgKey(o) \in Keys
  /\ \A f \in Refs : RefKey(f) \in Keys
  BY DEF Keys

LEMMA KeysDiffer ==
  /\ \A c, d : HoldKey(c) = HoldKey(d) <=> c = d
  /\ \A c, d : BlockKey(c) = BlockKey(d) <=> c = d
  /\ \A c, d : OrgKey(c) = OrgKey(d) <=> c = d
  /\ \A c, d : RefKey(c) = RefKey(d) <=> c = d
  /\ \A c, d : HoldKey(c) # BlockKey(d) /\ HoldKey(c) # OrgKey(d) /\ HoldKey(c) # RefKey(d)
  /\ \A c, d : BlockKey(c) # OrgKey(d) /\ BlockKey(c) # RefKey(d) /\ OrgKey(c) # RefKey(d)
  BY DEF HoldKey, BlockKey, OrgKey, RefKey

(* Another transaction's locks are its own: t takes a free lock or gives up *)
(* what it has.                                                            *)
OnlyMoves(t) == \A k \in Keys : \A u \in Txs \ {t} : lock'[k] = u <=> lock[k] = u

(* ... it takes the lock of k.                                             *)
Takes(t, k) == \A x \in Keys : lock'[x] = t <=> x = k \/ lock[x] = t

LEMMA LockTaken ==
  ASSUME TypeInv, NEW t \in Txs, NEW k \in Keys, Granted(t, k), lock' = Locked(t, k)
  PROVE  /\ lock' \in [Keys -> Txs \cup {None}]
         /\ Takes(t, k) /\ OnlyMoves(t)
<1>1. lock \in [Keys -> Txs \cup {None}] /\ lock' = [lock EXCEPT ![k] = t]
  BY DEF TypeInv, Locked
<1>2. lock[k] \in {None, t} /\ None \notin Txs
  BY Base DEF Granted
<1> QED
  BY <1>1, <1>2 DEF OnlyMoves, Takes

(* ... and what that does to the locks of each kind.                       *)
LEMMA LockKinds ==
  ASSUME NEW t, NEW k, Takes(t, k)
  PROVE  /\ \A c \in Calls : lock'[HoldKey(c)] = t <=> HoldKey(c) = k \/ lock[HoldKey(c)] = t
         /\ \A b \in Blocks : lock'[BlockKey(b)] = t <=> BlockKey(b) = k \/ lock[BlockKey(b)] = t
         /\ \A o \in Orgs : lock'[OrgKey(o)] = t <=> OrgKey(o) = k \/ lock[OrgKey(o)] = t
         /\ \A f \in Refs : lock'[RefKey(f)] = t <=> RefKey(f) = k \/ lock[RefKey(f)] = t
  BY KeyTypes DEF Takes

LEMMA LocksFreed ==
  ASSUME TypeInv, NEW t \in Txs, lock' = Unlocked(t)
  PROVE  /\ lock' \in [Keys -> Txs \cup {None}]
         /\ \A x \in Keys : lock'[x] # t
         /\ OnlyMoves(t)
<1>1. lock \in [Keys -> Txs \cup {None}]
  BY DEF TypeInv
<1>2. \A x \in Keys : lock'[x] = IF lock[x] = t THEN None ELSE lock[x]
  BY DEF Unlocked
<1>3. lock' = [x \in Keys |-> IF lock[x] = t THEN None ELSE lock[x]]
  BY DEF Unlocked
<1> QED
  BY <1>1, <1>2, <1>3, Base DEF OnlyMoves

LEMMA LocksKept ==
  ASSUME TypeInv, NEW t \in Txs, UNCHANGED lock
  PROVE  lock' \in [Keys -> Txs \cup {None}] /\ OnlyMoves(t)
  BY DEF TypeInv, OnlyMoves

-----------------------------------------------------------------------------
(* The order of locks *)

(* Any of the sessions are finitely many.                                  *)
LEMMA FiniteSessions ==
  ASSUME NEW A, A \subseteq Txs
  PROVE  L!IsFiniteSet(A)
<1>1. L!IsFiniteSet(Txs)
  BY LedgerTxAssumption DEF IsFiniteSet, L!IsFiniteSet
<1> QED
  BY <1>1, Base, L!FS_Subset

LEMMA FirstIsLeast ==
  ASSUME NEW S, S \subseteq Nat, S # {}
  PROVE  First(S) \in S /\ \A y \in S : First(S) <= y
<1>1. \E x \in S : \A y \in S : x <= y
  BY Base, L!Least
<1> QED
  BY <1>1 DEF First

(* Blocks that exist belong to somebody.                                   *)
LEMMA BlockOwner ==
  ASSUME TypeInv, NEW b \in Blocks
  PROVE  /\ L!IsBlock(b) => block[b].org \in Orgs /\ block[b].org \in Nat
         /\ block[b] \in L!BlockRow /\ block[b].remaining \in Nat
         /\ block[b].taken \in Nat /\ block[b].amount \in Nat /\ block[b].target \in Nat
  BY Base, SameBlocks DEF TypeInv, L!TypeOK, L!BlockRow, L!IsBlock

LEMMA NextBlockIsFirst ==
  ASSUME TypeInv, NEW r, r.want \subseteq Blocks, r.want # {}, \A b \in r.want : L!IsBlock(b)
  PROVE  /\ NextBlock(r) \in r.want
         /\ \A x \in r.want : x = NextBlock(r) \/ Precedes(NextBlock(r), x)
<1>1. \A b \in r.want : b \in Nat /\ block[b].org \in Nat
  BY BlockOwner DEF Blocks
<1> DEFINE owners == {block[b].org : b \in r.want}
<1>2. owners \subseteq Nat /\ owners # {}
  BY <1>1
<1>3. PICK o \in owners : \A p \in owners : o <= p
  BY <1>2, Base, L!Least
<1> DEFINE mine == {b \in r.want : block[b].org = o}
<1>4. mine \subseteq Nat /\ mine # {}
  BY <1>1
<1>5. PICK b \in mine : \A x \in mine : b <= x
  BY <1>4, Base, L!Least
<1>6. \A x \in r.want : block[b].org < block[x].org \/ (block[b].org = block[x].org /\ b <= x)
  <2> SUFFICES ASSUME NEW x \in r.want
               PROVE  block[b].org < block[x].org \/ (block[b].org = block[x].org /\ b <= x)
    OBVIOUS
  <2>1. block[b].org = o /\ o <= block[x].org /\ o \in Nat
    BY <1>2, <1>3, <1>5
  <2>2. block[x].org = o => b <= x
    BY <1>5
  <2> QED
    BY <2>1, <2>2, <1>1
<1> HIDE DEF owners, mine
<1>7. b \in r.want
  BY <1>5 DEF mine
<1> DEFINE P(y) == \A x \in r.want : block[y].org < block[x].org \/ (block[y].org = block[x].org /\ y <= x)
<1>8. NextBlock(r) = CHOOSE y \in r.want : P(y)
  BY DEF NextBlock
<1>9. P(b)
  BY <1>6
<1> HIDE DEF P
<1>10. NextBlock(r) \in r.want /\ P(NextBlock(r))
  BY <1>7, <1>8, <1>9
<1>11. \A x \in r.want : x # NextBlock(r) /\ NextBlock(r) <= x => NextBlock(r) < x
  BY <1>1, <1>10
<1> QED
  BY <1>10, <1>11 DEF P, Precedes

(* What a transaction waits for, by the statement it is at.                *)
LEMMA Needs ==
  ASSUME TypeInv, NEW t \in Txs, Stands(t), NeededKey(tx[t]) # None
  PROVE  /\ tx[t].pc \in {"claim", "blocks", "orgs", "ref"}
         /\ tx[t].pc = "claim" => /\ NeededKey(tx[t]) = HoldKey(NextHold(tx[t]))
                                  /\ NextHold(tx[t]) \in tx[t].claim /\ NextHold(tx[t]) \in Calls
         /\ tx[t].pc = "blocks" => /\ NeededKey(tx[t]) = BlockKey(NextBlock(tx[t]))
                                   /\ NextBlock(tx[t]) \in tx[t].want /\ NextBlock(tx[t]) \in Blocks
                                   /\ L!IsBlock(NextBlock(tx[t]))
         /\ tx[t].pc = "orgs" => /\ NeededKey(tx[t]) = OrgKey(NextOrg(tx[t]))
                                 /\ NextOrg(tx[t]) \in tx[t].orgs /\ NextOrg(tx[t]) \in Orgs
         /\ tx[t].pc = "ref" => \E f \in Refs : NeededKey(tx[t]) = RefKey(f)
<1> DEFINE r == tx[t]
<1>1. r \in TxRow /\ AtStatement(r)
  BY DEF TypeInv, Stands
<1>2. /\ r.pc \in Stages /\ r.claim \subseteq Calls /\ r.want \subseteq Blocks /\ r.orgs \subseteq Orgs
      /\ r.job \in JobSet
  BY <1>1, RowFields
<1>3. /\ r.pc = "claim" => NeededKey(r) = HoldKey(NextHold(r))
      /\ r.pc = "blocks" => NeededKey(r) = BlockKey(NextBlock(r))
      /\ r.pc = "orgs" => NeededKey(r) = OrgKey(NextOrg(r))
      /\ r.pc = "ref" => NeededKey(r) = RefKey(r.job.ref)
      /\ r.pc \in {"idle", "commit"} => NeededKey(r) = None
  BY DEF NeededKey
<1>4. r.pc \in {"claim", "blocks", "orgs", "ref"}
  BY <1>2, <1>3 DEF Stages
<1>5. r.pc = "claim" => NextHold(r) \in r.claim
  BY <1>1, <1>2, Base, FirstIsLeast DEF AtStatement, NextHold
<1>6. r.pc = "orgs" => NextOrg(r) \in r.orgs
  BY <1>1, <1>2, Base, FirstIsLeast DEF AtStatement, NextOrg
<1>7. r.pc = "blocks" => NextBlock(r) \in r.want /\ L!IsBlock(NextBlock(r))
  <2>1. \A b \in r.want : L!IsBlock(b)
    BY DEF Stands, BlocksLocked
  <2> QED
    BY <1>1, <1>2, <2>1, NextBlockIsFirst DEF AtStatement
<1>8. r.pc = "ref" => r.job.ref \in Refs
  BY <1>1, <1>2, JobFields DEF AtStatement
<1> HIDE DEF r
<1>9. /\ r.pc = "claim" => NextHold(r) \in Calls
      /\ r.pc = "orgs" => NextOrg(r) \in Orgs
      /\ r.pc = "blocks" => NextBlock(r) \in Blocks
  BY <1>2, <1>5, <1>6, <1>7
<1>10. r.pc = "ref" => \E f \in Refs : NeededKey(r) = RefKey(f)
  BY <1>3, <1>8
<1> QED
  BY <1>3, <1>4, <1>5, <1>6, <1>7, <1>9, <1>10 DEF r

(* A circle: everybody in T waits for a lock of another in T.              *)
Circle(T) == \A t \in T : NeededKey(tx[t]) # None /\ \E u \in T \ {t} : lock[NeededKey(tx[t])] = u

(* Of those that wait for organizations, the one that waits for the highest*)
(* waits for one that waits for a higher one still; ...                    *)
LEMMA NobodyAtOrgs ==
  ASSUME Invariant, NEW T \in SUBSET Txs, Circle(T)
  PROVE  \A t \in T : tx[t].pc # "orgs"
<1> DEFINE A == {t \in T : tx[t].pc = "orgs"}
           f == [t \in A |-> NextOrg(tx[t])]
<1> SUFFICES ASSUME A # {} PROVE FALSE
  OBVIOUS
<1>1. TypeInv /\ \A t \in Txs : Stands(t)
  BY DEF Invariant
<1>2. \A t \in A : /\ NeededKey(tx[t]) = OrgKey(NextOrg(tx[t]))
                   /\ NextOrg(tx[t]) \in tx[t].orgs /\ NextOrg(tx[t]) \in Orgs
  BY <1>1, Needs DEF Circle
<1>3. f \in [A -> Nat] /\ L!IsFiniteSet(A)
  BY <1>2, Base, FiniteSessions
<1>4. PICK t \in A : \A u \in A : f[u] <= f[t]
  BY <1>3, Base, L!Highest
<1>5. PICK u \in T \ {t} : lock[OrgKey(NextOrg(tx[t]))] = u
  BY <1>2, <1>4 DEF Circle
<1>6. Stands(u) /\ NeededKey(tx[u]) # None
  BY <1>1, <1>5 DEF Circle
<1>7. tx[u].pc \in {"orgs", "commit"} /\ \A p \in tx[u].orgs : NextOrg(tx[t]) < p
  BY <1>2, <1>4, <1>5, <1>6 DEF Stands, OrgsLocked
<1>8. tx[u].pc = "orgs"
  BY <1>1, <1>5, <1>6, <1>7, Needs
<1>9. u \in A /\ NextOrg(tx[t]) < NextOrg(tx[u])
  BY <1>2, <1>5, <1>7, <1>8
<1>10. f[u] <= f[t] /\ f[u] \in Nat /\ f[t] \in Nat /\ f[t] < f[u]
  BY <1>3, <1>4, <1>9
<1> QED
  BY <1>10

(* ... of those that wait for blocks, the one that waits for the last; ... *)
LEMMA NobodyAtBlocks ==
  ASSUME Invariant, NEW T \in SUBSET Txs, Circle(T), \A t \in T : tx[t].pc # "orgs"
  PROVE  \A t \in T : tx[t].pc # "blocks"
<1> DEFINE A == {t \in T : tx[t].pc = "blocks"}
           nb(t) == NextBlock(tx[t])
           f == [t \in A |-> block[nb(t)].org]
<1> SUFFICES ASSUME A # {} PROVE FALSE
  OBVIOUS
<1>1. TypeInv /\ \A t \in Txs : Stands(t)
  BY DEF Invariant
<1>2. \A t \in A : /\ NeededKey(tx[t]) = BlockKey(nb(t))
                   /\ nb(t) \in tx[t].want /\ nb(t) \in Blocks /\ L!IsBlock(nb(t))
  BY <1>1, Needs DEF Circle
<1>3. \A t \in A : nb(t) \in Nat /\ block[nb(t)].org \in Nat
  BY <1>1, <1>2, BlockOwner DEF Blocks
<1>4. L!IsFiniteSet(A)
  BY FiniteSessions
<1>5. f \in [A -> Nat]
  BY <1>3
<1>6. PICK g \in A : \A u \in A : f[u] <= f[g]
  BY <1>4, <1>5, Base, L!Highest
<1> DEFINE B == {t \in A : block[nb(t)].org = block[nb(g)].org}
           i == [t \in B |-> nb(t)]
<1>7. B # {} /\ L!IsFiniteSet(B) /\ i \in [B -> Nat]
  <2>1. B \subseteq A /\ g \in B
    BY <1>6
  <2> QED
    BY <2>1, <1>3, FiniteSessions
<1>8. PICK t \in B : \A u \in B : i[u] <= i[t]
  BY <1>7, Base, L!Highest
<1>9. PICK u \in T \ {t} : lock[BlockKey(nb(t))] = u
  BY <1>2, <1>8 DEF Circle
<1>10. Stands(u) /\ NeededKey(tx[u]) # None
  BY <1>1, <1>9 DEF Circle
<1>11. tx[u].pc \in {"blocks", "orgs", "commit"} /\ \A x \in tx[u].want : Precedes(nb(t), x)
  BY <1>2, <1>8, <1>9, <1>10 DEF Stands, BlocksLocked
<1>12. tx[u].pc = "blocks"
  BY <1>1, <1>9, <1>10, <1>11, Needs
<1>13. u \in A /\ Precedes(nb(t), nb(u))
  BY <1>2, <1>9, <1>11, <1>12
<1>14. block[nb(u)].org <= block[nb(t)].org
  BY <1>6, <1>8, <1>13
<1>15. block[nb(u)].org = block[nb(t)].org /\ nb(t) < nb(u)
  <2>1. t \in A /\ u \in A
    BY <1>8, <1>13
  <2> QED
    BY <2>1, <1>3, <1>13, <1>14 DEF Precedes
<1>16. u \in B /\ nb(u) <= nb(t)
  BY <1>8, <1>13, <1>15
<1>17. nb(u) \in Nat /\ nb(t) \in Nat
  BY <1>3, <1>8, <1>13
<1> QED
  BY <1>15, <1>16, <1>17

(* ... of those that wait for holds, the one that waits for the highest.   *)
LEMMA NobodyAtClaim ==
  ASSUME Invariant, NEW T \in SUBSET Txs, Circle(T), \A t \in T : tx[t].pc \notin {"orgs", "blocks"}
  PROVE  \A t \in T : tx[t].pc # "claim"
<1> DEFINE A == {t \in T : tx[t].pc = "claim"}
           f == [t \in A |-> NextHold(tx[t])]
<1> SUFFICES ASSUME A # {} PROVE FALSE
  OBVIOUS
<1>1. TypeInv /\ \A t \in Txs : Stands(t)
  BY DEF Invariant
<1>2. \A t \in A : /\ NeededKey(tx[t]) = HoldKey(NextHold(tx[t]))
                   /\ NextHold(tx[t]) \in tx[t].claim /\ NextHold(tx[t]) \in Calls
  BY <1>1, Needs DEF Circle
<1>3. f \in [A -> Nat] /\ L!IsFiniteSet(A)
  BY <1>2, Base, FiniteSessions
<1>4. PICK t \in A : \A u \in A : f[u] <= f[t]
  BY <1>3, Base, L!Highest
<1>5. PICK u \in T \ {t} : lock[HoldKey(NextHold(tx[t]))] = u
  BY <1>2, <1>4 DEF Circle
<1>6. Stands(u) /\ NeededKey(tx[u]) # None
  BY <1>1, <1>5 DEF Circle
<1>7. NextHold(tx[t]) \in tx[u].mine
  BY <1>2, <1>4, <1>5, <1>6 DEF Stands, HoldsClaimed
<1>8. tx[u].pc \notin {"ref", "orgs", "blocks"}
  BY <1>5, <1>6, <1>7 DEF Stands, AtStatement
<1>9. tx[u].pc = "claim"
  BY <1>1, <1>5, <1>6, <1>8, Needs
<1>10. u \in A /\ NextHold(tx[t]) < NextHold(tx[u])
  BY <1>2, <1>5, <1>6, <1>7, <1>9 DEF Stands, HoldsClaimed
<1>11. f[u] <= f[t] /\ f[u] \in Nat /\ f[t] \in Nat /\ f[t] < f[u]
  BY <1>3, <1>4, <1>10
<1> QED
  BY <1>11

LEMMA NoCircles == Invariant => NoDeadlock
<1> SUFFICES ASSUME Invariant, NEW T \in SUBSET Txs, T # {},
                    \A t \in T : /\ NeededKey(tx[t]) # None
                                 /\ lock[NeededKey(tx[t])] \in T \ {t}
             PROVE  FALSE
  BY DEF NoDeadlock
<1>1. Circle(T)
  BY DEF Circle
<1>2. \A t \in T : tx[t].pc # "orgs"
  BY <1>1, NobodyAtOrgs
<1>3. \A t \in T : tx[t].pc # "blocks"
  BY <1>1, <1>2, NobodyAtBlocks
<1>4. \A t \in T : tx[t].pc # "claim"
  BY <1>1, <1>2, <1>3, NobodyAtClaim
<1>5. PICK t \in T : TRUE
  OBVIOUS
<1>6. TypeInv /\ \A u \in Txs : Stands(u)
  BY DEF Invariant
<1>7. PICK f \in Refs : NeededKey(tx[t]) = RefKey(f)
  BY <1>2, <1>3, <1>4, <1>5, <1>6, Needs
<1>8. PICK u \in T : lock[RefKey(f)] = u
  BY <1>5, <1>7
<1>9. tx[u].pc \in {"orgs", "commit"} /\ NeededKey(tx[u]) # None
  BY <1>6, <1>8 DEF Stands, RefLocked
<1>10. tx[u].pc \notin {"commit"}
  BY <1>6, <1>9, Needs
<1> QED
  BY <1>2, <1>9, <1>10

-----------------------------------------------------------------------------
(* What a transaction computes *)

LEMMA SumOfCalls ==
  ASSUME NEW S \in SUBSET Calls, NEW f \in [S -> Nat]
  PROVE  L!Sum(f) \in Nat
<1>1. L!IsFiniteSet(S)
  BY Base, L!FiniteRows, L!FS_Subset
<1> QED
  BY Base, <1>1, L!SumType

LEMMA SumOfBlocks ==
  ASSUME NEW S \in SUBSET Blocks, NEW f \in [S -> Nat]
  PROVE  L!Sum(f) \in Nat
<1>1. L!IsFiniteSet(S)
  BY Base, SameBlocks, L!FiniteRows, L!FS_Subset
<1> QED
  BY Base, <1>1, L!SumType

LEMMA HoldFields ==
  ASSUME TypeInv, NEW c \in Calls
  PROVE  /\ hold[c].org \in Orgs \cup {None} /\ hold[c].amount \in Nat /\ hold[c].day \in Nat
         /\ L!IsOpen(c) => hold[c].org \in Orgs
  BY DEF TypeInv, L!TypeOK, L!HoldRow, L!IsOpen

(* What a settle asks of its organization's blocks.                        *)
Settling(r, o) == {x \in r.mine : hold[x].org = o /\ Settles(r, x)}

LEMMA DuesType ==
  ASSUME TypeInv, NEW r \in TxRow, NEW o
  PROVE  /\ Dues(r, o) \in [Settling(r, o) -> Nat] /\ L!Sum(Dues(r, o)) \in Nat
         /\ Settling(r, o) \in SUBSET Calls /\ DOMAIN Dues(r, o) = Settling(r, o)
<1>1. r.job \in JobSet /\ r.mine \subseteq Calls
  BY RowFields
<1>2. ASSUME NEW c \in r.mine, Settles(r, c) PROVE Due(r.job, c) \in Nat
  <2>1. c \in Calls /\ hold[c].amount \in Nat
    BY <1>1, HoldFields
  <2>2. CASE r.job.op = "payTo"
    <3>1. r.job.actual \in Nat \cup {None}
      BY <1>1, <2>2, JobFields, Base, LedgerTxAssumption DEF L!LedgerAssumption
    <3> QED
      BY <2>1, <2>2, <3>1 DEF Due, L!Lesser
  <2>3. CASE r.job.op # "payTo"
    <3>1. r.job.op = "close" /\ c \in r.job.settle
      BY <1>2, <2>3 DEF Settles
    <3>2. r.job.actual[c] \in Costs
      BY <1>1, <3>1, JobFields
    <3>3. L!Settled(c, r.job.actual[c]) \in Nat
      BY <2>1, <3>2, Base, L!SettledType, LedgerTxAssumption DEF TypeInv
    <3> QED
      BY <2>3, <3>3 DEF Due
  <2> QED
    BY <2>2, <2>3
<1>3. Dues(r, o) \in [Settling(r, o) -> Nat] /\ Settling(r, o) \in SUBSET Calls
  BY <1>1, <1>2 DEF Dues, Settling
<1> QED
  BY <1>3, SumOfCalls

LEMMA ReadType ==
  ASSUME NEW r \in TxRow, NEW o
  PROVE  Read(r, o) \in [Blocks -> Nat] /\ L!Sum(Read(r, o)) \in Nat
<1>1. Read(r, o) \in [Blocks -> Nat]
  BY RowFields DEF Read
<1> QED
  BY <1>1, SumOfBlocks

LEMMA ConsumedType ==
  ASSUME TypeInv, NEW r \in TxRow, NEW o
  PROVE  /\ Consumed(r, o) \in [Settling(r, o) -> Nat] /\ L!Sum(Consumed(r, o)) \in Nat
         /\ \A c \in Settling(r, o) : Consumed(r, o)[c] <= Dues(r, o)[c]
         /\ L!Sum(Consumed(r, o)) = L!Lesser(L!Sum(Read(r, o)), L!Sum(Dues(r, o)))
<1> DEFINE D == Dues(r, o)
           S == Settling(r, o)
           rank == [c \in S |-> c]
           n == L!Sum(Read(r, o))
<1>1. D \in [S -> Nat] /\ S \in SUBSET Calls /\ DOMAIN D = S
  BY DuesType
<1>2. rank \in [S -> Int] /\ \A x, y \in S : rank[x] = rank[y] => x = y
  <2> HIDE DEF S
  <2>1. \A x \in S : x \in Nat
    BY <1>1, Base
  <2> QED
    BY <2>1
<1>3. L!IsFiniteSet(S)
  BY <1>1, Base, L!FiniteRows, L!FS_Subset
<1>4. n \in Nat
  BY ReadType
<1>5. Consumed(r, o) = L!Spread(D, rank, n)
  BY <1>1 DEF Consumed
<1> HIDE DEF D, S, rank, n
<1>6. L!Spread(D, rank, n) \in [S -> Nat] /\ \A x \in S : L!Spread(D, rank, n)[x] <= D[x]
  BY <1>1, <1>2, <1>3, <1>4, Base, L!SpreadType
<1>7. L!Sum(L!Spread(D, rank, n)) = L!Lesser(n, L!Sum(D))
  <2>1. D \in [S -> Nat] /\ rank \in [S -> Int] /\ n \in Nat /\ L!IsFiniteSet(S)
    BY <1>1, <1>2, <1>3, <1>4
  <2>2. \A x, y \in S : rank[x] = rank[y] => x = y
    BY <1>2
  <2> QED
    BY <2>1, <2>2, Base, L!SpreadTotal
<1>8. L!Sum(Consumed(r, o)) \in Nat
  BY <1>1, <1>5, <1>6, SumOfCalls
<1> QED
  BY <1>5, <1>6, <1>7, <1>8 DEF D, S, n

LEMMA TakeType ==
  ASSUME TypeInv, NEW r \in TxRow, NEW o
  PROVE  /\ Take(r, o) \in [Blocks -> Nat]
         /\ \A b \in Blocks : Take(r, o)[b] <= Read(r, o)[b]
         /\ L!Sum(Take(r, o)) = L!Lesser(L!Sum(Dues(r, o)), L!Sum(Read(r, o)))
<1>1. Read(r, o) \in [Blocks -> Nat] /\ L!Sum(Dues(r, o)) \in Nat
  BY ReadType, DuesType
<1>2. L!IsFiniteSet(Blocks)
  BY Base, SameBlocks, L!FiniteRows
<1>3. L!BurnRank \in [Blocks -> Int] /\ \A x, y \in Blocks : L!BurnRank[x] = L!BurnRank[y] => x = y
  BY Base, SameBlocks, L!BurnRankOrder DEF TypeInv
<1> DEFINE cap == Read(r, o)
           rank == L!BurnRank
           n == L!Sum(Dues(r, o))
<1>4. Take(r, o) = L!Spread(cap, rank, n)
  BY DEF Take
<1> HIDE DEF cap, rank, n
<1>5. cap \in [Blocks -> Nat] /\ n \in Nat
  BY <1>1 DEF cap, n
<1>6. rank \in [Blocks -> Int] /\ \A x, y \in Blocks : rank[x] = rank[y] => x = y
  BY <1>3 DEF rank
<1>7. L!Spread(cap, rank, n) \in [Blocks -> Nat] /\ \A x \in Blocks : L!Spread(cap, rank, n)[x] <= cap[x]
  BY <1>2, <1>5, <1>6, Base, L!SpreadType
<1>8. L!Sum(L!Spread(cap, rank, n)) = L!Lesser(n, L!Sum(cap))
  BY <1>2, <1>5, <1>6, Base, L!SpreadTotal
<1> QED
  BY <1>4, <1>7, <1>8 DEF cap, n

LEMMA DrawnType ==
  ASSUME TypeInv, NEW r \in TxRow, NEW c \in r.mine
  PROVE  /\ Drawn(r, c) \in Nat
         /\ Settles(r, c) => c \in Settling(r, hold[c].org)
                             /\ Drawn(r, c) = Consumed(r, hold[c].org)[c]
  BY ConsumedType DEF Drawn, Settling

(* A transaction that may go on to its organizations.                      *)
Equipped(r) ==
  /\ r.job.op # "none"
  /\ \A c \in r.mine : L!IsOpen(c)
  /\ r.job.op = "payTo" => r.mine = {r.job.call}

LEMMA OrgsOfType ==
  ASSUME TypeInv, NEW r \in TxRow, Equipped(r)
  PROVE  OrgsOf(r) \subseteq Orgs
<1>1. r.job \in JobSet /\ r.mine \subseteq Calls
  BY RowFields
<1>2. \A c \in r.mine : hold[c].org \in Orgs
  BY <1>1, HoldFields DEF Equipped
<1>3. CASE r.job.op = "close" \/ (r.mine # {} /\ r.job.op = "reserve")
  <2>1. OrgsOf(r) = {hold[c].org : c \in {x \in r.mine : Moves(r, x)}}
    BY <1>3 DEF OrgsOf
  <2> QED
    BY <1>2, <2>1
<1>4. CASE r.job.op = "payTo"
  <2>1. OrgsOf(r) = (IF Moves(r, r.job.call) THEN {hold[r.job.call].org} ELSE {})
                    \cup (IF Drawn(r, r.job.call) > 0 THEN {r.job.payee} ELSE {})
    BY <1>4 DEF OrgsOf
  <2>2. r.job.payee \in Orgs /\ r.job.call \in r.mine
    BY <1>1, <1>4, JobFields DEF Equipped
  <2> QED
    BY <1>2, <2>1, <2>2
<1>5. CASE r.job.op \notin {"close", "payTo"} /\ ~(r.mine # {} /\ r.job.op = "reserve")
  <2>1. OrgsOf(r) = {r.job.org}
    BY <1>5 DEF OrgsOf
  <2>2. r.job.org \in Orgs
    BY <1>1, <1>5, JobFields DEF Equipped
  <2> QED
    BY <2>1, <2>2
<1> QED
  BY <1>3, <1>4, <1>5

(* Two rows of a transaction that differ in the statement it is at.        *)
SameWork(r, s) ==
  /\ s.job = r.job /\ s.mine = r.mine /\ s.seen = r.seen /\ s.todo = r.todo /\ s.claim = r.claim

LEMMA ToOrgsRow ==
  ASSUME TypeInv, NEW r \in TxRow, Equipped(r), r.orgs = {}
  PROVE  /\ ToOrgs(r) \in TxRow /\ SameWork(r, ToOrgs(r))
         /\ ToOrgs(r).want = r.want /\ ToOrgs(r).began = r.began /\ ToOrgs(r).stamp = today
         /\ ToOrgs(r).pc \in {"orgs", "commit"}
         /\ ToOrgs(r).pc = "orgs" <=> ToOrgs(r).orgs # {}
         /\ ToOrgs(r).orgs = OrgsOf([r EXCEPT !.stamp = today])
<1> DEFINE s == [r EXCEPT !.stamp = today]
<1>1. today \in Nat
  BY DEF TypeInv, L!TypeOK
<1>2. s \in TxRow
  BY <1>1 DEF TxRow
<1>3. /\ s.job = r.job /\ s.mine = r.mine /\ s.seen = r.seen /\ s.todo = r.todo /\ s.claim = r.claim
      /\ s.want = r.want /\ s.began = r.began /\ s.stamp = today /\ s.orgs = {}
  BY DEF TxRow
<1>4. ToOrgs(r) = IF OrgsOf(s) = {} THEN [s EXCEPT !.pc = "commit"]
                  ELSE [s EXCEPT !.pc = "orgs", !.orgs = OrgsOf(s)]
  BY DEF ToOrgs
<1> HIDE DEF s
<1>5. Equipped(s)
  BY <1>3 DEF Equipped
<1>6. OrgsOf(s) \subseteq Orgs
  BY <1>2, <1>5, OrgsOfType
<1> DEFINE T == OrgsOf(s)
<1> HIDE DEF T
<1>7. T \subseteq Orgs /\ ToOrgs(r) = IF T = {} THEN [s EXCEPT !.pc = "commit"]
                                      ELSE [s EXCEPT !.pc = "orgs", !.orgs = T]
  BY <1>4, <1>6 DEF T
<1>8. CASE T = {}
  <2>1. ToOrgs(r) = [s EXCEPT !.pc = "commit"]
    BY <1>7, <1>8
  <2>2. ToOrgs(r) \in TxRow
    BY <1>2, <2>1 DEF TxRow, Stages
  <2>3. /\ ToOrgs(r).pc = "commit" /\ ToOrgs(r).orgs = s.orgs /\ ToOrgs(r).job = s.job
        /\ ToOrgs(r).mine = s.mine /\ ToOrgs(r).seen = s.seen /\ ToOrgs(r).todo = s.todo
        /\ ToOrgs(r).claim = s.claim /\ ToOrgs(r).want = s.want /\ ToOrgs(r).began = s.began
        /\ ToOrgs(r).stamp = s.stamp
    BY <1>2, <2>1 DEF TxRow
  <2>4. ToOrgs(r).orgs = T
    BY <1>3, <1>8, <2>3
  <2> QED
    BY <1>3, <1>8, <2>2, <2>3, <2>4 DEF SameWork, T, s
<1>9. CASE T # {}
  <2>1. ToOrgs(r) = [s EXCEPT !.pc = "orgs", !.orgs = T]
    BY <1>7, <1>9
  <2>2. ToOrgs(r) \in TxRow
    BY <1>2, <1>7, <2>1 DEF TxRow, Stages
  <2>3. /\ ToOrgs(r).pc = "orgs" /\ ToOrgs(r).orgs = T /\ ToOrgs(r).job = s.job
        /\ ToOrgs(r).mine = s.mine /\ ToOrgs(r).seen = s.seen /\ ToOrgs(r).todo = s.todo
        /\ ToOrgs(r).claim = s.claim /\ ToOrgs(r).want = s.want /\ ToOrgs(r).began = s.began
        /\ ToOrgs(r).stamp = s.stamp
    BY <1>2, <2>1 DEF TxRow
  <2> QED
    BY <1>3, <1>9, <2>2, <2>3 DEF SameWork, T, s
<1> QED
  BY <1>8, <1>9

(* A draw wants existing blocks only: nobody owes a block without an owner.*)
LEMMA SpendableType ==
  ASSUME TypeInv, NEW r \in TxRow, Equipped(r)
  PROVE  Spendable(r) \subseteq Blocks /\ \A b \in Spendable(r) : L!IsBlock(b)
<1>1. Spendable(r) \subseteq Blocks
  BY DEF Spendable
<1>2. ASSUME NEW b \in Spendable(r), ~L!IsBlock(b) PROVE FALSE
  <2>1. block[b].org = None /\ L!Sum(Dues(r, block[b].org)) > 0
    BY <1>2 DEF L!IsBlock, Spendable
  <2>2. Settling(r, None) = {}
    BY RowFields DEF Equipped, Settling, L!IsOpen
  <2>3. L!Sum(Dues(r, None)) = 0
    <3>1. Dues(r, None) \in [Settling(r, None) -> Nat]
      BY DuesType
    <3>2. \A x \in Settling(r, None) : Dues(r, None)[x] = 0
      BY <2>2
    <3> QED
      BY <3>1, <3>2, Base, L!SumZero
  <2> QED
    BY <2>1, <2>3
<1> QED
  BY <1>1, <1>2

(* Of the blocks a claim goes on to, nothing is known yet but what it wants.*)
LEMMA ToBlocksRow ==
  ASSUME TypeInv, NEW r \in TxRow, Equipped(r), r.orgs = {}, r.want = {}
  PROVE  /\ ToBlocks(r) \in TxRow /\ SameWork(r, ToBlocks(r))
         /\ ToBlocks(r).pc \in {"blocks", "orgs", "commit"}
         /\ ToBlocks(r).pc = "blocks" <=> ToBlocks(r).want # {}
         /\ ToBlocks(r).pc = "orgs" <=> ToBlocks(r).orgs # {}
         /\ \A b \in ToBlocks(r).want : L!IsBlock(b)
         /\ ToBlocks(r).began = today
         /\ ToBlocks(r).want = Spendable(r)
         /\ ToBlocks(r).want = {} => /\ ToBlocks(r).stamp = today
                                     /\ ToBlocks(r) = ToOrgs([r EXCEPT !.began = today])
<1> DEFINE s == [r EXCEPT !.began = today]
<1>1. today \in Nat
  BY DEF TypeInv, L!TypeOK
<1>2. s \in TxRow
  BY <1>1 DEF TxRow
<1>3. /\ s.job = r.job /\ s.mine = r.mine /\ s.seen = r.seen /\ s.todo = r.todo /\ s.claim = r.claim
      /\ s.want = {} /\ s.began = today /\ s.orgs = {}
  BY DEF TxRow
<1>4. ToBlocks(r) = IF Spendable(s) = {} THEN ToOrgs(s) ELSE [s EXCEPT !.pc = "blocks", !.want = Spendable(s)]
  BY DEF ToBlocks
<1>5. Spendable(s) = Spendable(r)
  BY <1>3 DEF Spendable, Dues, Settles
<1> HIDE DEF s
<1>6. Equipped(s)
  BY <1>3 DEF Equipped
<1> DEFINE W == Spendable(r)
<1>7. W \subseteq Blocks /\ \A b \in W : L!IsBlock(b)
  BY SpendableType
<1> HIDE DEF W
<1>8. CASE W = {}
  <2>1. ToBlocks(r) = ToOrgs(s)
    BY <1>4, <1>5, <1>8 DEF W
  <2>2. /\ ToOrgs(s) \in TxRow /\ SameWork(s, ToOrgs(s))
        /\ ToOrgs(s).want = s.want /\ ToOrgs(s).began = s.began /\ ToOrgs(s).stamp = today
        /\ ToOrgs(s).pc \in {"orgs", "commit"}
        /\ ToOrgs(s).pc = "orgs" <=> ToOrgs(s).orgs # {}
    BY <1>2, <1>3, <1>6, ToOrgsRow
  <2> QED
    BY <1>3, <1>8, <2>1, <2>2 DEF SameWork, W, s
<1>9. CASE W # {}
  <2>1. ToBlocks(r) = [s EXCEPT !.pc = "blocks", !.want = W]
    BY <1>4, <1>5, <1>9 DEF W
  <2>2. ToBlocks(r) \in TxRow
    BY <1>2, <1>7, <2>1 DEF TxRow, Stages
  <2>3. /\ ToBlocks(r).pc = "blocks" /\ ToBlocks(r).orgs = s.orgs /\ ToBlocks(r).job = s.job
        /\ ToBlocks(r).mine = s.mine /\ ToBlocks(r).seen = s.seen /\ ToBlocks(r).todo = s.todo
        /\ ToBlocks(r).claim = s.claim /\ ToBlocks(r).want = W /\ ToBlocks(r).began = s.began
    BY <1>2, <2>1 DEF TxRow
  <2> QED
    BY <1>3, <1>7, <1>9, <2>2, <2>3 DEF SameWork, W
<1> QED
  BY <1>8, <1>9

LEMMA ToGateRow ==
  ASSUME TypeInv, NEW r \in TxRow, r.job.op = "reserve", r.orgs = {}, r.want = {}, r.claim = {}
  PROVE  /\ ToGate(r) \in TxRow
         /\ ToGate(r).job = r.job /\ ToGate(r).mine = {} /\ ToGate(r).todo = r.todo
         /\ ToGate(r).want = {} /\ ToGate(r).seen = r.seen
         /\ ToGate(r).pc \in {"claim", "orgs", "commit"}
         /\ ToGate(r).pc = "claim" <=> ToGate(r).claim # {}
         /\ ToGate(r).pc = "orgs" <=> ToGate(r).orgs # {}
         /\ r.todo # {} => ToGate(r).claim = {First(r.todo)} /\ First(r.todo) \in r.todo
         /\ r.todo = {} => /\ ToGate(r).claim = {} /\ ToGate(r).stamp = today
                           /\ ToGate(r).orgs = {r.job.org}
<1>1. CASE r.todo = {}
  <2> DEFINE s == [r EXCEPT !.mine = {}]
  <2>1. s \in TxRow /\ ToGate(r) = ToOrgs(s)
    BY <1>1 DEF TxRow, ToGate
  <2>2. /\ s.job = r.job /\ s.mine = {} /\ s.todo = r.todo /\ s.want = {} /\ s.claim = {}
        /\ s.orgs = {} /\ s.seen = r.seen
    BY DEF TxRow
  <2> HIDE DEF s
  <2>3. Equipped(s)
    BY <2>2 DEF Equipped
  <2>4. /\ ToOrgs(s) \in TxRow /\ SameWork(s, ToOrgs(s))
        /\ ToOrgs(s).want = s.want /\ ToOrgs(s).stamp = today
        /\ ToOrgs(s).pc \in {"orgs", "commit"}
        /\ ToOrgs(s).pc = "orgs" <=> ToOrgs(s).orgs # {}
        /\ ToOrgs(s).orgs = OrgsOf([s EXCEPT !.stamp = today])
    BY <2>1, <2>2, <2>3, ToOrgsRow
  <2>5. OrgsOf([s EXCEPT !.stamp = today]) = {r.job.org}
    <3> DEFINE q == [s EXCEPT !.stamp = today]
    <3>1. q.job = r.job /\ q.mine = {}
      BY <2>1, <2>2 DEF TxRow
    <3> HIDE DEF q
    <3>2. OrgsOf(q) = {q.job.org}
      BY <3>1 DEF OrgsOf
    <3> QED
      BY <3>1, <3>2 DEF q
  <2> QED
    BY <1>1, <2>1, <2>2, <2>4, <2>5 DEF SameWork
<1>2. CASE r.todo # {}
  <2> DEFINE f == First(r.todo)
  <2>1. f \in r.todo /\ f \in Calls
    BY <1>2, RowFields, Base, FirstIsLeast
  <2> HIDE DEF f
  <2>2. ToGate(r) = [r EXCEPT !.pc = "claim", !.claim = {f}, !.mine = {}]
    BY <1>2 DEF ToGate, f
  <2> DEFINE F == {f}
  <2>5. F \in SUBSET Calls /\ {} \in SUBSET Calls
    BY <2>1
  <2>6. ToGate(r) = [r EXCEPT !.pc = "claim", !.claim = F, !.mine = {}]
    BY <2>2
  <2> HIDE DEF F
  <2>3. ToGate(r) \in TxRow
    BY <2>5, <2>6 DEF TxRow, Stages
  <2>4. /\ ToGate(r).pc = "claim" /\ ToGate(r).claim = {f} /\ ToGate(r).mine = {}
        /\ ToGate(r).job = r.job /\ ToGate(r).todo = r.todo /\ ToGate(r).want = r.want
        /\ ToGate(r).orgs = r.orgs /\ ToGate(r).seen = r.seen
    BY <2>2 DEF TxRow
  <2> QED
    BY <1>2, <2>1, <2>3, <2>4 DEF f
<1> QED
  BY <1>1, <1>2

-----------------------------------------------------------------------------
(* What a step leaves alone *)

LEMMA ReservingType ==
  ASSUME NEW x \in [Txs -> TxRow]
  PROVE  [c \in Calls |->
           IF \E t \in Txs : x[t].job.op = "reserve" /\ x[t].job.call = c
           THEN LET r == x[CHOOSE u \in Txs : x[u].job.op = "reserve" /\ x[u].job.call = c]
                IN  [org |-> r.job.org, charged |-> r.job.charged, todo |-> r.todo]
           ELSE [org |-> None, charged |-> 0, todo |-> {}]] \in [Calls -> L!ReserveRow]
<1>1. ASSUME NEW t \in Txs, x[t].job.op = "reserve"
      PROVE  x[t].job.org \in Orgs /\ x[t].job.charged \in Nat /\ x[t].todo \subseteq Calls
  <2>1. x[t] \in TxRow
    OBVIOUS
  <2> QED
    BY <1>1, <2>1, RowFields, JobFields
<1>2. ASSUME NEW c \in Calls, \E t \in Txs : x[t].job.op = "reserve" /\ x[t].job.call = c,
             NEW v, v = CHOOSE u \in Txs : x[u].job.op = "reserve" /\ x[u].job.call = c
      PROVE  [org |-> x[v].job.org, charged |-> x[v].job.charged, todo |-> x[v].todo] \in L!ReserveRow
  <2>1. v \in Txs /\ x[v].job.op = "reserve"
    BY <1>2
  <2>2. x[v].job.org \in Orgs /\ x[v].job.charged \in Nat /\ x[v].todo \subseteq Calls
    BY <1>1, <2>1
  <2> QED
    BY <2>2 DEF L!ReserveRow
<1>3. [org |-> None, charged |-> 0, todo |-> {}] \in L!ReserveRow
  BY DEF L!ReserveRow
<1> QED
  BY <1>2, <1>3

LEMMA TypeNext ==
  ASSUME block' \in [Blocks -> L!BlockRow], balance' \in [Orgs -> Int],
         spent' \in [Orgs -> [day : Nat \cup {None}, micro : Int]],
         hold' \in [Calls -> L!HoldRow], closing' \in [Calls -> L!EntryRow],
         tag' \in [Calls -> L!TagRow], today' \in Nat,
         lock' \in [Keys -> Txs \cup {None}], tx' \in [Txs -> TxRow]
  PROVE  TypeInv'
<1>1. Reserving' \in [Calls -> L!ReserveRow]
  BY ReservingType DEF Reserving
<1>2. L!TypeOK'
  BY <1>1, SameBlocks DEF L!TypeOK
<1> QED
  BY <1>2 DEF TypeInv

LEMMA TypeKept ==
  ASSUME TypeInv, UNCHANGED db, UNCHANGED today,
         lock' \in [Keys -> Txs \cup {None}], tx' \in [Txs -> TxRow]
  PROVE  TypeInv'
<1>1. /\ block \in [Blocks -> L!BlockRow] /\ balance \in [Orgs -> Int]
      /\ spent \in [Orgs -> [day : Nat \cup {None}, micro : Int]]
      /\ hold \in [Calls -> L!HoldRow] /\ closing \in [Calls -> L!EntryRow]
      /\ tag \in [Calls -> L!TagRow] /\ today \in Nat
  BY SameBlocks DEF TypeInv, L!TypeOK
<1>2. /\ block' = block /\ balance' = balance /\ spent' = spent /\ hold' = hold
      /\ closing' = closing /\ tag' = tag
  BY DEF db
<1> QED
  BY <1>1, <1>2, TypeNext

(* A transaction stands where it stood when nobody touches its row, its    *)
(* locks or the holds it has claimed: blocks stay whose they are.          *)
BlocksStay == \A b \in Blocks : L!IsBlock(b) => L!IsBlock(b)' /\ block'[b].org = block[b].org

LEMMA StandsStill ==
  ASSUME TypeInv, NEW u \in Txs, Stands(u), tx'[u] = tx[u],
         \A k \in Keys : lock'[k] = u <=> lock[k] = u,
         \A c \in tx[u].mine : L!IsOpen(c)', BlocksStay
  PROVE  Stands(u)'
<1>1. AtStatement(tx[u])'
  BY DEF Stands, AtStatement
<1>2. HoldsClaimed(u)'
  BY KeyTypes DEF Stands, HoldsClaimed
<1>3. tx[u].want \subseteq Blocks
  BY RowFields DEF TypeInv
<1>4. \A b, x \in Blocks : L!IsBlock(b) /\ L!IsBlock(x) /\ Precedes(b, x) => Precedes(b, x)'
  BY DEF BlocksStay, Precedes
<1>5. BlocksLocked(u)'
  <2>1. \A b \in tx[u].want : L!IsBlock(b) /\ L!IsBlock(b)' /\ b \in Blocks
    BY <1>3 DEF Stands, BlocksLocked, BlocksStay
  <2>2. \A b \in tx'[u].want : L!IsBlock(b)'
    BY <2>1
  <2>3. ASSUME NEW b \in Blocks, lock'[BlockKey(b)] = u
        PROVE  /\ tx'[u].pc \in {"blocks", "orgs", "commit"} /\ L!IsBlock(b)'
               /\ \A x \in tx'[u].want : Precedes(b, x)'
    <3>1. lock[BlockKey(b)] = u
      BY <2>3, KeyTypes
    <3>2. /\ tx[u].pc \in {"blocks", "orgs", "commit"} /\ L!IsBlock(b)
          /\ \A x \in tx[u].want : Precedes(b, x)
      BY <3>1 DEF Stands, BlocksLocked
    <3>3. L!IsBlock(b)'
      BY <3>2 DEF BlocksStay
    <3>4. \A x \in tx[u].want : Precedes(b, x)'
      BY <1>4, <2>1, <3>2
    <3> QED
      BY <3>2, <3>3, <3>4
  <2> QED
    BY <2>2, <2>3 DEF BlocksLocked
<1>6. OrgsLocked(u)' /\ RefLocked(u)'
  BY KeyTypes DEF Stands, OrgsLocked, RefLocked
<1> QED
  BY <1>1, <1>2, <1>5, <1>6 DEF Stands

(* A step of t leaves the others where they stand: it closes no hold that  *)
(* another has claimed.                                                    *)
OthersKept(t) ==
  /\ OnlyMoves(t)
  /\ \A u \in Txs \ {t} : tx'[u] = tx[u]
  /\ \A c \in Calls : L!IsOpen(c) /\ lock[HoldKey(c)] # t => L!IsOpen(c)'
  /\ BlocksStay

LEMMA OthersStand ==
  ASSUME Invariant, NEW t \in Txs, OthersKept(t), TypeInv', Stands(t)'
  PROVE  Invariant'
<1>1. ASSUME NEW u \in Txs \ {t} PROVE Stands(u)'
  <2>1. TypeInv /\ Stands(u) /\ tx[u].mine \subseteq Calls
    BY RowFields DEF Invariant, TypeInv
  <2>2. \A c \in tx[u].mine : lock[HoldKey(c)] = u /\ L!IsOpen(c)
    BY <2>1 DEF Stands, HoldsClaimed
  <2>3. \A c \in tx[u].mine : L!IsOpen(c)'
    BY <2>1, <2>2 DEF OthersKept
  <2>4. \A k \in Keys : lock'[k] = u <=> lock[k] = u
    BY DEF OthersKept, OnlyMoves
  <2> QED
    BY <2>1, <2>3, <2>4, StandsStill DEF OthersKept
<1> QED
  BY <1>1 DEF Invariant

(* A statement changes no row of the database.                             *)
LEMMA StatementKeeps ==
  ASSUME Invariant, NEW t \in Txs, UNCHANGED <<db, today>>,
         NEW s \in TxRow, tx' = [tx EXCEPT ![t] = s],
         lock' \in [Keys -> Txs \cup {None}], OnlyMoves(t), Stands(t)'
  PROVE  Invariant'
<1>1. tx \in [Txs -> TxRow]
  BY DEF Invariant, TypeInv
<1>2. tx' \in [Txs -> TxRow] /\ \A u \in Txs \ {t} : tx'[u] = tx[u]
  BY <1>1
<1>3. UNCHANGED db /\ UNCHANGED today /\ block' = block /\ hold' = hold
  BY DEF db
<1>4. TypeInv'
  BY <1>2, <1>3, TypeKept DEF Invariant
<1>5. OthersKept(t)
  BY <1>2, <1>3 DEF OthersKept, BlocksStay, L!IsOpen, L!IsBlock
<1> QED
  BY <1>4, <1>5, OthersStand

(* A transaction that is over has nothing.                                 *)
LEMMA FinishStands ==
  ASSUME TypeInv, NEW t \in Txs, Finish(t)
  PROVE  /\ tx' \in [Txs -> TxRow] /\ \A u \in Txs \ {t} : tx'[u] = tx[u]
         /\ lock' \in [Keys -> Txs \cup {None}] /\ OnlyMoves(t)
         /\ Stands(t)'
<1>1. tx' = [tx EXCEPT ![t] = Idle] /\ lock' = Unlocked(t)
  BY DEF Finish
<1>2. tx \in [Txs -> TxRow]
  BY DEF TypeInv
<1>3. tx' \in [Txs -> TxRow] /\ tx'[t] = Idle /\ \A u \in Txs \ {t} : tx'[u] = tx[u]
  BY <1>1, <1>2, IdleRow
<1>4. /\ lock' \in [Keys -> Txs \cup {None}] /\ OnlyMoves(t)
      /\ \A k \in Keys : lock'[k] # t
  BY <1>1, LocksFreed
<1>5. AtStatement(tx'[t])
  <2>1. AtStatement(Idle)
    BY IdleRow DEF AtStatement
  <2> QED
    BY <1>3, <2>1
<1>6. HoldsClaimed(t)'
  BY <1>3, <1>4, IdleRow, KeyTypes DEF HoldsClaimed
<1>7. BlocksLocked(t)' /\ OrgsLocked(t)' /\ RefLocked(t)'
  BY <1>3, <1>4, IdleRow, KeyTypes DEF BlocksLocked, OrgsLocked, RefLocked
<1> QED
  BY <1>3, <1>4, <1>5, <1>6, <1>7 DEF Stands

LEMMA FinishKeeps ==
  ASSUME Invariant, NEW t \in Txs, Finish(t), UNCHANGED <<db, today>>
  PROVE  Invariant'
<1>1. TypeInv
  BY DEF Invariant
<1>2. tx' = [tx EXCEPT ![t] = Idle]
  BY DEF Finish
<1> QED
  BY <1>1, <1>2, FinishStands, StatementKeeps, IdleRow

-----------------------------------------------------------------------------
(* Starting *)

LEMMA BeginKeeps ==
  ASSUME Invariant, NEW t \in Txs, NEW r \in TxRow, Begin(t, r),
         AtStatement(r), r.mine = {}, \A b \in r.want : L!IsBlock(b)
  PROVE  Invariant'
<1>1. /\ TypeInv /\ Stands(t) /\ tx[t] = Idle /\ tx' = [tx EXCEPT ![t] = r]
      /\ UNCHANGED <<db, today>> /\ UNCHANGED lock
  BY DEF Invariant, Begin
<1>2. tx[t].pc = "idle" /\ tx[t].mine = {}
  BY <1>1, IdleRow
<1>3. tx'[t] = r
  BY <1>1 DEF TypeInv
<1>4. lock' \in [Keys -> Txs \cup {None}] /\ OnlyMoves(t)
  BY <1>1, LocksKept
<1>5. HoldsClaimed(t)'
  BY <1>1, <1>2, <1>3 DEF HoldsClaimed, Stands
<1>6. \A b \in r.want : L!IsBlock(b)'
  BY <1>1 DEF db, L!IsBlock
<1>7. \A b \in Blocks : lock[BlockKey(b)] # t
  BY <1>1, <1>2 DEF BlocksLocked, Stands
<1>8. \A o \in Orgs : lock[OrgKey(o)] # t
  BY <1>1, <1>2 DEF OrgsLocked, Stands
<1>9. \A f \in Refs : lock[RefKey(f)] # t
  BY <1>1, <1>2 DEF RefLocked, Stands
<1>10. BlocksLocked(t)' /\ OrgsLocked(t)' /\ RefLocked(t)'
  BY <1>1, <1>3, <1>6, <1>7, <1>8, <1>9 DEF BlocksLocked, OrgsLocked, RefLocked
<1>11. AtStatement(tx'[t])
  BY <1>3
<1>12. Stands(t)'
  BY <1>5, <1>10, <1>11 DEF Stands
<1> QED
  BY <1>1, <1>4, <1>12, StatementKeeps

LEMMA BeginCloseKeeps ==
  ASSUME Invariant, NEW t \in Txs, NEW S \in SUBSET Calls, NEW R \in SUBSET Calls, S \cup R # {},
         NEW actual \in [S -> Costs], BeginClose(t, S, R, actual)
  PROVE  Invariant'
<1> DEFINE j == [op |-> "close", settle |-> S, actual |-> actual]
           C == S \cup R
           r == [Idle EXCEPT !.job = j, !.pc = "claim", !.claim = C]
<1>1. j \in JobSet /\ j.op = "close"
  BY DEF JobSet, CloseJobs
<1>2. C \in SUBSET Calls /\ C # {}
  OBVIOUS
<1>3. Begin(t, r)
  BY DEF BeginClose
<1> HIDE DEF j, C
<1>4. r \in TxRow
  BY <1>1, <1>2, IdleRow DEF TxRow, Stages
<1>5. /\ r.job = j /\ r.pc = "claim" /\ r.claim = C /\ r.mine = {} /\ r.want = {} /\ r.orgs = {}
  BY IdleRow DEF TxRow
<1> HIDE DEF r
<1>6. AtStatement(r)
  BY <1>1, <1>2, <1>5 DEF AtStatement
<1> QED
  BY <1>3, <1>4, <1>5, <1>6, BeginKeeps

LEMMA BeginPayToKeeps ==
  ASSUME Invariant, NEW t \in Txs, NEW c \in Calls, NEW payee \in Orgs, NEW a \in Costs,
         BeginPayTo(t, c, payee, a)
  PROVE  Invariant'
<1> DEFINE j == [op |-> "payTo", call |-> c, payee |-> payee, actual |-> a]
           C == {c}
           r == [Idle EXCEPT !.job = j, !.pc = "claim", !.claim = C]
<1>1. j \in JobSet /\ j.op = "payTo" /\ j.call = c
  BY DEF JobSet, PayToJobs
<1>2. C \in SUBSET Calls /\ C = {c} /\ C # {}
  OBVIOUS
<1>3. Begin(t, r)
  BY DEF BeginPayTo
<1> HIDE DEF j, C
<1>4. r \in TxRow
  BY <1>1, <1>2, IdleRow DEF TxRow, Stages
<1>5. /\ r.job = j /\ r.pc = "claim" /\ r.claim = C /\ r.mine = {} /\ r.want = {} /\ r.orgs = {}
  BY IdleRow DEF TxRow
<1> HIDE DEF r
<1>6. AtStatement(r)
  BY <1>1, <1>2, <1>5 DEF AtStatement
<1> QED
  BY <1>3, <1>4, <1>5, <1>6, BeginKeeps

LEMMA BeginReserveKeeps ==
  ASSUME Invariant, NEW t \in Txs, NEW c \in Calls, NEW o \in Orgs, NEW est \in Estimates,
         BeginReserve(t, c, o, est)
  PROVE  Invariant'
<1> DEFINE n == L!WithMargin(est, Margin)
           j == [op |-> "reserve", call |-> c, org |-> o, charged |-> n]
           T == L!Reapable(o)
           r == [Idle EXCEPT !.job = j, !.todo = T]
<1>1. n \in Nat
  <2>1. est \in Nat /\ Margin \in Nat
    BY Base DEF L!LedgerAssumption
  <2> QED
    BY <2>1, Base, L!MarginType
<1>2. Begin(t, ToGate(r))
  BY DEF BeginReserve
<1> HIDE DEF n
<1>3. j \in JobSet /\ j.op = "reserve"
  BY <1>1 DEF JobSet, ReserveJobs
<1>4. T \in SUBSET Calls
  BY DEF L!Reapable
<1> HIDE DEF j, T
<1>5. r \in TxRow
  BY <1>3, <1>4, IdleRow DEF TxRow
<1>6. r.job = j /\ r.claim = {} /\ r.mine = {} /\ r.want = {} /\ r.orgs = {}
  BY IdleRow DEF TxRow
<1> HIDE DEF r
<1>7. TypeInv
  BY DEF Invariant
<1> DEFINE g == ToGate(r)
<1>8. /\ g \in TxRow /\ g.job = j /\ g.mine = {} /\ g.want = {}
      /\ g.pc \in {"claim", "orgs", "commit"}
      /\ g.pc = "claim" <=> g.claim # {}
      /\ g.pc = "orgs" <=> g.orgs # {}
  BY <1>3, <1>5, <1>6, <1>7, ToGateRow
<1> HIDE DEF g
<1>9. AtStatement(g)
  BY <1>3, <1>8 DEF AtStatement
<1>10. Begin(t, g)
  BY <1>2 DEF g
<1> QED
  BY <1>8, <1>9, <1>10, BeginKeeps

LEMMA BeginRevokeKeeps ==
  ASSUME Invariant, NEW t \in Txs, NEW o \in Orgs, NEW T \in SUBSET L!Refundable(o), T # {},
         NEW asked \in [T -> Targets], BeginRevoke(t, o, asked)
  PROVE  Invariant'
<1> DEFINE j == [op |-> "revoke", org |-> o, asked |-> asked]
           r == [Idle EXCEPT !.job = j, !.pc = "blocks", !.want = T]
<1>1. T \in SUBSET Blocks /\ \A b \in T : L!IsBlock(b)
  BY Base, SameBlocks DEF L!Refundable, L!IsBlock
<1>2. j \in JobSet /\ j.op = "revoke"
  BY <1>1 DEF JobSet, RevokeJobs
<1>3. Begin(t, r)
  BY DEF BeginRevoke
<1> HIDE DEF j
<1>4. r \in TxRow
  BY <1>1, <1>2, IdleRow DEF TxRow, Stages
<1>5. /\ r.job = j /\ r.pc = "blocks" /\ r.claim = {} /\ r.mine = {} /\ r.want = T /\ r.orgs = {}
  BY IdleRow DEF TxRow
<1> HIDE DEF r
<1>6. AtStatement(r)
  BY <1>2, <1>5 DEF AtStatement
<1> QED
  BY <1>1, <1>3, <1>4, <1>5, <1>6, BeginKeeps

LEMMA BeginTopupKeeps ==
  ASSUME Invariant, NEW t \in Txs, NEW o \in Orgs, NEW n \in Credits, NEW ref \in Refs,
         BeginTopup(t, o, n, ref)
  PROVE  Invariant'
<1> DEFINE j == [op |-> "fund", org |-> o, kind |-> "purchased", amount |-> n, ref |-> ref]
           r == [Idle EXCEPT !.job = j, !.pc = "ref"]
<1>1. j \in JobSet /\ j.op = "fund" /\ j.ref # None
  <2>1. n \in Nat /\ ref # None /\ "purchased" \in L!Kinds
    BY Base DEF L!LedgerAssumption, L!Kinds
  <2>2. j \in FundJobs
    BY <2>1 DEF FundJobs
  <2> QED
    BY <2>1, <2>2 DEF JobSet
<1>2. Begin(t, r)
  BY DEF BeginTopup
<1> HIDE DEF j
<1>3. r \in TxRow
  BY <1>1, IdleRow DEF TxRow, Stages
<1>4. /\ r.job = j /\ r.pc = "ref" /\ r.claim = {} /\ r.mine = {} /\ r.want = {} /\ r.orgs = {}
  BY IdleRow DEF TxRow
<1> HIDE DEF r
<1>5. AtStatement(r)
  BY <1>1, <1>4 DEF AtStatement
<1> QED
  BY <1>2, <1>3, <1>4, <1>5, BeginKeeps

LEMMA BeginGrantKeeps ==
  ASSUME Invariant, NEW t \in Txs, NEW o \in Orgs, NEW n \in Credits, BeginGrant(t, o, n)
  PROVE  Invariant'
<1> DEFINE j == [op |-> "fund", org |-> o, kind |-> "promotional", amount |-> n, ref |-> None]
           r == [Idle EXCEPT !.job = j]
<1>1. j \in JobSet /\ j.op = "fund"
  <2>1. n \in Nat /\ "promotional" \in L!Kinds
    BY Base DEF L!LedgerAssumption, L!Kinds
  <2>2. j \in FundJobs
    BY <2>1 DEF FundJobs
  <2> QED
    BY <2>2 DEF JobSet
<1>2. Begin(t, ToOrgs(r))
  BY DEF BeginGrant
<1> HIDE DEF j
<1>3. r \in TxRow
  BY <1>1, IdleRow DEF TxRow
<1>4. r.job = j /\ r.claim = {} /\ r.mine = {} /\ r.want = {} /\ r.orgs = {}
  BY IdleRow DEF TxRow
<1> HIDE DEF r
<1>5. TypeInv /\ Equipped(r)
  BY <1>1, <1>4 DEF Invariant, Equipped
<1> DEFINE g == ToOrgs(r)
<1>6. /\ g \in TxRow /\ SameWork(r, g) /\ g.want = {} /\ g.pc \in {"orgs", "commit"}
      /\ g.pc = "orgs" <=> g.orgs # {}
  BY <1>3, <1>4, <1>5, ToOrgsRow
<1> HIDE DEF g
<1>7. AtStatement(g)
  BY <1>1, <1>4, <1>6 DEF AtStatement, SameWork
<1>8. Begin(t, g)
  BY <1>2 DEF g
<1> QED
  BY <1>4, <1>6, <1>7, <1>8, BeginKeeps DEF SameWork

LEMMA StartKeeps ==
  ASSUME Invariant, NEW t \in Txs, Start(t)
  PROVE  Invariant'
<1>1. ASSUME NEW C \in SUBSET Calls, NEW S \in SUBSET C, NEW actual \in [S -> Costs],
             C # {}, BeginClose(t, S, C \ S, actual)
      PROVE  Invariant'
  <2>1. S \in SUBSET Calls /\ C \ S \in SUBSET Calls /\ S \cup (C \ S) # {}
    BY <1>1
  <2> QED
    BY <1>1, <2>1, BeginCloseKeeps
<1>2. ASSUME NEW c \in Calls, NEW payee \in Orgs, NEW a \in Costs, BeginPayTo(t, c, payee, a)
      PROVE  Invariant'
  BY <1>2, BeginPayToKeeps
<1>3. ASSUME NEW c \in Calls, NEW o \in Orgs, NEW est \in Estimates, BeginReserve(t, c, o, est)
      PROVE  Invariant'
  BY <1>3, BeginReserveKeeps
<1>4. ASSUME NEW o \in Orgs, NEW T \in SUBSET L!Refundable(o), NEW asked \in [T -> Targets],
             T # {}, BeginRevoke(t, o, asked)
      PROVE  Invariant'
  BY <1>4, BeginRevokeKeeps
<1>5. ASSUME NEW o \in Orgs, NEW n \in Credits, BeginGrant(t, o, n) PROVE Invariant'
  BY <1>5, BeginGrantKeeps
<1>6. ASSUME NEW o \in Orgs, NEW n \in Credits, NEW ref \in Refs, BeginTopup(t, o, n, ref)
      PROVE  Invariant'
  BY <1>6, BeginTopupKeeps
<1> QED
  BY <1>1, <1>2, <1>3, <1>4, <1>5, <1>6 DEF Start

-----------------------------------------------------------------------------
(* Acquiring locks *)

(* At its claims a transaction holds nothing but claims.                   *)
LEMMA NothingElseAt ==
  ASSUME Invariant, NEW t \in Txs, tx[t].pc \in {"idle", "claim", "ref"}
  PROVE  /\ \A b \in Blocks : lock[BlockKey(b)] # t
         /\ \A o \in Orgs : lock[OrgKey(o)] # t
         /\ \A f \in Refs : lock[RefKey(f)] # t
<1>1. BlocksLocked(t) /\ OrgsLocked(t) /\ RefLocked(t)
  BY DEF Invariant, Stands
<1> QED
  BY <1>1 DEF BlocksLocked, OrgsLocked, RefLocked

(* Where it stands after a statement of which only its own holds are known.*)
LEMMA ClaimsStand ==
  ASSUME Invariant, NEW t \in Txs, tx[t].pc = "claim", UNCHANGED <<db, today>>,
         NEW s \in TxRow, tx' = [tx EXCEPT ![t] = s], AtStatement(s),
         lock' \in [Keys -> Txs \cup {None}], OnlyMoves(t),
         \A c \in Calls : lock'[HoldKey(c)] = t <=> c \in s.mine,
         \A k \in Keys : (\A c \in Calls : k # HoldKey(c)) => lock'[k] = lock[k],
         \A c \in s.mine : L!IsOpen(c) /\ \A d \in s.claim : c < d,
         \A b \in s.want : L!IsBlock(b)
  PROVE  Invariant'
<1>1. tx'[t] = s
  BY DEF Invariant, TypeInv
<1>2. block' = block /\ hold' = hold
  BY DEF db
<1>3. HoldsClaimed(t)'
  BY <1>1, <1>2 DEF HoldsClaimed, L!IsOpen
<1>4. \A b \in s.want : L!IsBlock(b)'
  BY <1>2 DEF L!IsBlock
<1>5. /\ \A b \in Blocks : lock[BlockKey(b)] # t
      /\ \A o \in Orgs : lock[OrgKey(o)] # t
      /\ \A f \in Refs : lock[RefKey(f)] # t
  BY NothingElseAt
<1>6. ASSUME NEW k \in Keys, \A c \in Calls : k # HoldKey(c) PROVE lock'[k] = lock[k]
  BY <1>6
<1>7. /\ \A b \in Blocks : lock'[BlockKey(b)] = lock[BlockKey(b)]
      /\ \A o \in Orgs : lock'[OrgKey(o)] = lock[OrgKey(o)]
      /\ \A f \in Refs : lock'[RefKey(f)] = lock[RefKey(f)]
  <2>1. ASSUME NEW b \in Blocks PROVE lock'[BlockKey(b)] = lock[BlockKey(b)]
    <3>1. BlockKey(b) \in Keys /\ \A c \in Calls : BlockKey(b) # HoldKey(c)
      BY KeyTypes, KeysDiffer
    <3> QED
      BY <1>6, <3>1
  <2>2. ASSUME NEW o \in Orgs PROVE lock'[OrgKey(o)] = lock[OrgKey(o)]
    <3>1. OrgKey(o) \in Keys /\ \A c \in Calls : OrgKey(o) # HoldKey(c)
      BY KeyTypes, KeysDiffer
    <3> QED
      BY <1>6, <3>1
  <2>3. ASSUME NEW f \in Refs PROVE lock'[RefKey(f)] = lock[RefKey(f)]
    <3>1. RefKey(f) \in Keys /\ \A c \in Calls : RefKey(f) # HoldKey(c)
      BY KeyTypes, KeysDiffer
    <3> QED
      BY <1>6, <3>1
  <2> QED
    BY <2>1, <2>2, <2>3
<1>8. BlocksLocked(t)' /\ OrgsLocked(t)' /\ RefLocked(t)'
  BY <1>1, <1>4, <1>5, <1>7 DEF BlocksLocked, OrgsLocked, RefLocked
<1>9. Stands(t)'
  BY <1>1, <1>3, <1>8 DEF Stands
<1> QED
  BY <1>9, StatementKeeps

LEMMA ClaimKeeps ==
  ASSUME Invariant, NEW t \in Txs, Claim(t)
  PROVE  Invariant'
<1> DEFINE r == tx[t]
           c == NextHold(r)
           m == IF L!IsOpen(c) THEN r.mine \cup {c} ELSE r.mine
           s == [r EXCEPT !.claim = r.claim \ {c}, !.mine = m]
<1>1. TypeInv /\ r \in TxRow /\ AtStatement(r) /\ HoldsClaimed(t)
  BY DEF Invariant, TypeInv, Stands
<1>2. r.pc = "claim" /\ Granted(t, HoldKey(c)) /\ UNCHANGED <<db, today>>
  BY DEF Claim
<1>3. /\ r.claim \subseteq Calls /\ r.mine \subseteq Calls /\ r.todo \subseteq Calls /\ r.job \in JobSet
      /\ r.claim \subseteq Nat
  BY <1>1, RowFields, Base
<1>4. c \in r.claim /\ \A d \in r.claim : c <= d
  <2>1. r.claim # {}
    BY <1>1, <1>2 DEF AtStatement
  <2> QED
    BY <1>3, <2>1, FirstIsLeast DEF NextHold
<1>5. \/ /\ s.claim # {} \/ s.mine # {}
         /\ tx' = [tx EXCEPT ![t] = IF s.claim # {} THEN s ELSE ToBlocks(s)]
         /\ lock' = IF L!IsOpen(c) THEN Locked(t, HoldKey(c)) ELSE lock
      \/ /\ s.claim = {} /\ s.mine = {} /\ r.job.op = "reserve"
         /\ tx' = [tx EXCEPT ![t] = ToGate([s EXCEPT !.todo = @ \ {c}])]
         /\ UNCHANGED lock
      \/ /\ s.claim = {} /\ s.mine = {} /\ r.job.op # "reserve"
         /\ Finish(t)
  BY DEF Claim
<1>6. r.want = {} /\ r.orgs = {} /\ r.job.op \in {"close", "payTo", "reserve"}
  BY <1>1, <1>2, <1>4 DEF AtStatement
<1> HIDE DEF c, r
<1>7. m \subseteq Calls
  BY <1>3, <1>4
<1> DEFINE q == r.claim \ {c}
<1>8. q \in SUBSET Calls /\ m \in SUBSET Calls
  BY <1>3, <1>7
<1>9. s = [r EXCEPT !.claim = q, !.mine = m]
  OBVIOUS
<1> HIDE DEF m, q, s
<1>10. s \in TxRow
  BY <1>1, <1>8, <1>9 DEF TxRow
<1>11. /\ s.job = r.job /\ s.pc = r.pc /\ s.claim = q /\ s.mine = m /\ s.want = {} /\ s.orgs = {}
       /\ s.todo = r.todo
  BY <1>1, <1>6, <1>9 DEF TxRow
<1>12. /\ \A x \in m : L!IsOpen(x) /\ (x \in r.mine \/ x = c)
       /\ r.job.op = "payTo" => q \cup m \subseteq {r.job.call}
       /\ \A x \in m : \A d \in q : x < d
  <2>1. \A x \in m : L!IsOpen(x) /\ (x \in r.mine \/ x = c)
    BY <1>1 DEF HoldsClaimed, m, r
  <2>2. r.job.op = "payTo" => q \cup m \subseteq {r.job.call}
    BY <1>1, <1>4, <2>1 DEF AtStatement, q
  <2>3. ASSUME NEW x \in m, NEW d \in q PROVE x < d
    <3>1. d \in r.claim /\ d # c /\ c <= d /\ c \in Nat /\ d \in Nat
      BY <1>3, <1>4 DEF q
    <3>2. x \in r.mine => x < d
      BY <1>1, <3>1 DEF HoldsClaimed, r
    <3> QED
      BY <2>1, <3>1, <3>2
  <2> QED
    BY <2>1, <2>2, <2>3
(* The lock it takes.                                                       *)
<1>13. ASSUME lock' = IF L!IsOpen(c) THEN Locked(t, HoldKey(c)) ELSE lock
       PROVE  /\ lock' \in [Keys -> Txs \cup {None}] /\ OnlyMoves(t)
              /\ \A x \in Calls : lock'[HoldKey(x)] = t <=> x \in m
              /\ \A k \in Keys : (\A x \in Calls : k # HoldKey(x)) => lock'[k] = lock[k]
  <2>1. HoldKey(c) \in Keys /\ c \in Calls
    BY <1>3, <1>4, KeyTypes
  <2>2. \A x \in Calls : lock[HoldKey(x)] = t <=> x \in r.mine
    BY <1>1 DEF HoldsClaimed, r
  <2>3. CASE L!IsOpen(c)
    <3>1. lock' = Locked(t, HoldKey(c)) /\ m = r.mine \cup {c}
      BY <1>13, <2>3 DEF m
    <3>2. /\ lock' \in [Keys -> Txs \cup {None}] /\ OnlyMoves(t)
          /\ Takes(t, HoldKey(c))
      BY <1>1, <1>2, <2>1, <3>1, LockTaken
    <3>3. \A x \in Calls : lock'[HoldKey(x)] = t <=> x = c \/ lock[HoldKey(x)] = t
      BY <3>2, LockKinds, KeysDiffer
    <3>4. \A k \in Keys : k # HoldKey(c) => lock'[k] = lock[k]
      BY <1>1, <2>1, <3>1 DEF TypeInv, Locked
    <3> QED
      BY <2>1, <2>2, <3>1, <3>2, <3>3, <3>4
  <2>4. CASE ~L!IsOpen(c)
    <3>1. lock' = lock /\ m = r.mine
      BY <1>13, <2>4 DEF m
    <3> QED
      BY <1>1, <2>2, <3>1, LocksKept
  <2> QED
    BY <2>3, <2>4
<1>14. CASE /\ s.claim # {}
            /\ tx' = [tx EXCEPT ![t] = IF s.claim # {} THEN s ELSE ToBlocks(s)]
            /\ lock' = IF L!IsOpen(c) THEN Locked(t, HoldKey(c)) ELSE lock
  <2>1. tx' = [tx EXCEPT ![t] = s]
    BY <1>14
  <2>2. AtStatement(s)
    <3>1. r.job.op = "payTo" => q = {}
      BY <1>1, <1>4 DEF AtStatement, q
    <3> QED
      BY <1>1, <1>2, <1>6, <1>11, <1>14, <3>1 DEF AtStatement
  <2> QED
    BY <1>2, <1>10, <1>11, <1>12, <1>13, <1>14, <2>1, <2>2, ClaimsStand DEF r
<1>15. CASE /\ s.claim = {} /\ s.mine # {}
            /\ tx' = [tx EXCEPT ![t] = IF s.claim # {} THEN s ELSE ToBlocks(s)]
            /\ lock' = IF L!IsOpen(c) THEN Locked(t, HoldKey(c)) ELSE lock
  <2> DEFINE g == ToBlocks(s)
  <2>1. tx' = [tx EXCEPT ![t] = g]
    BY <1>15
  <2>2. Equipped(s)
    BY <1>6, <1>11, <1>12, <1>15 DEF Equipped
  <2>3. /\ g \in TxRow /\ SameWork(s, g) /\ g.pc \in {"blocks", "orgs", "commit"}
        /\ g.pc = "blocks" <=> g.want # {}
        /\ g.pc = "orgs" <=> g.orgs # {}
        /\ \A b \in g.want : L!IsBlock(b)
    BY <1>1, <1>10, <1>11, <2>2, ToBlocksRow
  <2> HIDE DEF g
  <2>4. g.job = r.job /\ g.mine = m /\ g.claim = {}
    BY <1>11, <1>15, <2>3 DEF SameWork
  <2>5. AtStatement(g)
    <3>1. r.job.op = "payTo" => m = {r.job.call}
      BY <1>11, <1>12, <1>15
    <3> QED
      BY <1>6, <2>3, <2>4, <3>1 DEF AtStatement
  <2> QED
    BY <1>2, <1>12, <1>13, <1>15, <2>1, <2>3, <2>4, <2>5, ClaimsStand DEF r
<1>16. CASE /\ s.claim = {} /\ s.mine = {} /\ r.job.op = "reserve"
            /\ tx' = [tx EXCEPT ![t] = ToGate([s EXCEPT !.todo = @ \ {c}])]
            /\ UNCHANGED lock
  <2> DEFINE T == s.todo \ {c}
             p == [s EXCEPT !.todo = T]
             g == ToGate(p)
  <2>1. tx' = [tx EXCEPT ![t] = g]
    BY <1>16
  <2>2. p \in TxRow
    <3>1. T \in SUBSET Calls
      BY <1>3, <1>11
    <3> HIDE DEF T
    <3> QED
      BY <1>10, <3>1 DEF TxRow
  <2>3. p.job = r.job /\ p.claim = {} /\ p.mine = {} /\ p.want = {} /\ p.orgs = {}
    BY <1>10, <1>11, <1>16 DEF TxRow
  <2> HIDE DEF p
  <2>4. /\ g \in TxRow /\ g.job = r.job /\ g.mine = {} /\ g.want = {}
        /\ g.pc \in {"claim", "orgs", "commit"}
        /\ g.pc = "claim" <=> g.claim # {}
        /\ g.pc = "orgs" <=> g.orgs # {}
    BY <1>1, <1>16, <2>2, <2>3, ToGateRow
  <2> HIDE DEF g
  <2>5. AtStatement(g)
    BY <1>16, <2>4 DEF AtStatement
  <2>6. m = {} /\ r.mine = {}
    BY <1>11, <1>16 DEF m
  <2>7. lock' \in [Keys -> Txs \cup {None}] /\ OnlyMoves(t)
    BY <1>1, <1>16, LocksKept
  <2>8. \A x \in Calls : lock'[HoldKey(x)] = t <=> x \in g.mine
    BY <1>1, <1>16, <2>4, <2>6 DEF HoldsClaimed, r
  <2> QED
    BY <1>2, <1>16, <2>1, <2>4, <2>5, <2>7, <2>8, ClaimsStand DEF r
<1>17. CASE Finish(t)
  BY <1>2, <1>17, FinishKeeps
<1> QED
  BY <1>5, <1>14, <1>15, <1>16, <1>17

LEMMA LockBlockKeeps ==
  ASSUME Invariant, NEW t \in Txs, LockBlock(t)
  PROVE  Invariant'
<1> DEFINE r == tx[t]
           b == NextBlock(r)
           w == r.want \ {b}
           v == [r.seen EXCEPT ![b] = block[b].remaining]
           s == [r EXCEPT !.want = w, !.seen = v]
<1>1. TypeInv /\ r \in TxRow /\ AtStatement(r) /\ Stands(t)
  BY DEF Invariant, TypeInv, Stands
<1>2. /\ r.pc = "blocks" /\ Granted(t, BlockKey(b)) /\ UNCHANGED <<db, today>>
      /\ lock' = Locked(t, BlockKey(b))
      /\ tx' = [tx EXCEPT ![t] = IF s.want # {} THEN s ELSE ToOrgs(s)]
  BY DEF LockBlock
<1>3. /\ r.want \subseteq Blocks /\ r.seen \in [Blocks -> Nat] /\ r.want # {}
      /\ \A x \in r.want : L!IsBlock(x)
  BY <1>1, <1>2, RowFields DEF AtStatement, Stands, BlocksLocked
<1>4. b \in r.want /\ \A x \in r.want : x = b \/ Precedes(b, x)
  BY <1>1, <1>3, NextBlockIsFirst
<1>5. r.claim = {} /\ r.orgs = {}
  BY <1>1, <1>2 DEF AtStatement
<1> HIDE DEF b
<1>6. w \in SUBSET Blocks /\ v \in [Blocks -> Nat]
  BY <1>1, <1>3, <1>4, BlockOwner
<1> HIDE DEF v, w
<1>7. s \in TxRow
  BY <1>1, <1>6 DEF TxRow
<1>8. /\ s.job = r.job /\ s.pc = r.pc /\ s.claim = {} /\ s.mine = r.mine /\ s.want = w /\ s.orgs = {}
      /\ s.seen = v /\ s.todo = r.todo
  BY <1>1, <1>5 DEF TxRow
<1> HIDE DEF s
<1>9. BlockKey(b) \in Keys /\ b \in Blocks
  BY <1>3, <1>4, KeyTypes
<1>10. /\ lock' \in [Keys -> Txs \cup {None}] /\ OnlyMoves(t)
       /\ Takes(t, BlockKey(b))
  BY <1>1, <1>2, <1>9, LockTaken
<1>11. /\ \A c \in Calls : lock'[HoldKey(c)] = t <=> lock[HoldKey(c)] = t
       /\ \A x \in Blocks : lock'[BlockKey(x)] = t <=> x = b \/ lock[BlockKey(x)] = t
       /\ \A o \in Orgs : lock'[OrgKey(o)] = t <=> lock[OrgKey(o)] = t
       /\ \A f \in Refs : lock'[RefKey(f)] = t <=> lock[RefKey(f)] = t
  BY <1>10, LockKinds, KeysDiffer
<1>12. block' = block /\ hold' = hold
  BY <1>2 DEF db
<1> DEFINE g == IF w # {} THEN s ELSE ToOrgs(s)
<1>13. /\ g \in TxRow /\ g.job = r.job /\ g.mine = r.mine /\ g.claim = {} /\ g.want = w
       /\ g.pc \in {"blocks", "orgs", "commit"}
       /\ g.pc = "blocks" <=> w # {}
       /\ g.pc = "orgs" <=> g.orgs # {}
  <2>1. CASE w # {}
    BY <1>2, <1>7, <1>8, <2>1
  <2>2. CASE w = {}
    <3>1. Equipped(s)
      <4>1. r.job.op \notin {"none"}
        BY <1>1, <1>2 DEF AtStatement
      <4>2. \A c \in r.mine : L!IsOpen(c)
        BY <1>1 DEF Stands, HoldsClaimed
      <4>3. r.job.op = "payTo" => r.mine = {r.job.call}
        BY <1>1, <1>5 DEF AtStatement
      <4> QED
        BY <1>8, <4>1, <4>2, <4>3 DEF Equipped
    <3>2. /\ ToOrgs(s) \in TxRow /\ SameWork(s, ToOrgs(s)) /\ ToOrgs(s).want = s.want
          /\ ToOrgs(s).pc \in {"orgs", "commit"}
          /\ ToOrgs(s).pc = "orgs" <=> ToOrgs(s).orgs # {}
      BY <1>1, <1>7, <1>8, <3>1, ToOrgsRow
    <3> QED
      BY <1>8, <2>2, <3>2 DEF SameWork
  <2> QED
    BY <2>1, <2>2
<1>14. tx' = [tx EXCEPT ![t] = g] /\ tx'[t] = g
  <2>1. tx' = [tx EXCEPT ![t] = g]
    BY <1>2, <1>8
  <2> QED
    BY <1>1, <2>1 DEF TypeInv
<1> HIDE DEF g
<1>15. AtStatement(tx'[t])
  BY <1>1, <1>2, <1>5, <1>13, <1>14 DEF AtStatement
<1>16. HoldsClaimed(t)'
  BY <1>1, <1>11, <1>12, <1>13, <1>14 DEF Stands, HoldsClaimed, L!IsOpen
<1>17. BlocksLocked(t)'
  <2>1. \A x \in w : L!IsBlock(x) /\ x \in r.want /\ x # b
    BY <1>3 DEF w
  <2>2. ASSUME NEW y \in Blocks, lock'[BlockKey(y)] = t
        PROVE  L!IsBlock(y) /\ \A x \in w : Precedes(y, x)
    <3>1. CASE y = b
      BY <1>3, <1>4, <2>1, <3>1
    <3>2. CASE y # b
      <4>1. lock[BlockKey(y)] = t
        BY <1>11, <2>2, <3>2
      <4> QED
        BY <1>1, <2>1, <4>1 DEF Stands, BlocksLocked
    <3> QED
      BY <3>1, <3>2
  <2> QED
    BY <1>12, <1>13, <1>14, <2>1, <2>2 DEF BlocksLocked, L!IsBlock, Precedes
<1>18. OrgsLocked(t)'
  <2>1. \A o \in Orgs : lock[OrgKey(o)] # t
    BY <1>1, <1>2 DEF Stands, OrgsLocked
  <2> QED
    BY <1>11, <2>1 DEF OrgsLocked
<1>19. RefLocked(t)'
  <2>1. \A f \in Refs : lock[RefKey(f)] # t
    BY <1>1, <1>2 DEF Stands, RefLocked
  <2> QED
    BY <1>11, <2>1 DEF RefLocked
<1>20. Stands(t)'
  BY <1>15, <1>16, <1>17, <1>18, <1>19 DEF Stands
<1> QED
  BY <1>2, <1>10, <1>13, <1>14, <1>20, StatementKeeps

LEMMA InsertRefKeeps ==
  ASSUME Invariant, NEW t \in Txs, InsertRef(t)
  PROVE  Invariant'
<1> DEFINE r == tx[t]
           f == r.job.ref
           g == ToOrgs(r)
<1>1. TypeInv /\ r \in TxRow /\ AtStatement(r) /\ Stands(t)
  BY DEF Invariant, TypeInv, Stands
<1>2. /\ r.pc = "ref" /\ Granted(t, RefKey(f)) /\ UNCHANGED <<db, today>>
      /\ \/ lock' = Locked(t, RefKey(f)) /\ tx' = [tx EXCEPT ![t] = g]
         \/ Finish(t)
  BY DEF InsertRef
<1>3. CASE Finish(t)
  BY <1>2, <1>3, FinishKeeps
<1>4. CASE lock' = Locked(t, RefKey(f)) /\ tx' = [tx EXCEPT ![t] = g]
  <2>1. /\ r.job.op = "fund" /\ f # None /\ r.mine = {} /\ r.claim = {} /\ r.want = {} /\ r.orgs = {}
    BY <1>1, <1>2 DEF AtStatement
  <2>2. f \in Refs /\ RefKey(f) \in Keys
    <3>1. r.job \in JobSet
      BY <1>1, RowFields
    <3> QED
      BY <2>1, <3>1, JobFields, KeyTypes
  <2>3. Equipped(r)
    BY <2>1 DEF Equipped
  <2>4. /\ g \in TxRow /\ SameWork(r, g) /\ g.want = r.want /\ g.pc \in {"orgs", "commit"}
        /\ g.pc = "orgs" <=> g.orgs # {}
    BY <1>1, <2>1, <2>3, ToOrgsRow
  <2> HIDE DEF f, g
  <2>5. tx'[t] = g
    BY <1>1, <1>4 DEF TypeInv
  <2>6. /\ lock' \in [Keys -> Txs \cup {None}] /\ OnlyMoves(t)
        /\ Takes(t, RefKey(f))
    BY <1>1, <1>2, <1>4, <2>2, LockTaken
  <2>7. /\ \A c \in Calls : lock'[HoldKey(c)] = t <=> lock[HoldKey(c)] = t
        /\ \A b \in Blocks : lock'[BlockKey(b)] = t <=> lock[BlockKey(b)] = t
        /\ \A o \in Orgs : lock'[OrgKey(o)] = t <=> lock[OrgKey(o)] = t
    <3>1. /\ \A c \in Calls : lock'[HoldKey(c)] = t <=> HoldKey(c) = RefKey(f) \/ lock[HoldKey(c)] = t
          /\ \A b \in Blocks : lock'[BlockKey(b)] = t <=> BlockKey(b) = RefKey(f) \/ lock[BlockKey(b)] = t
          /\ \A o \in Orgs : lock'[OrgKey(o)] = t <=> OrgKey(o) = RefKey(f) \/ lock[OrgKey(o)] = t
      BY <2>6, LockKinds
    <3>2. \A x : HoldKey(x) # RefKey(f) /\ BlockKey(x) # RefKey(f) /\ OrgKey(x) # RefKey(f)
      BY KeysDiffer
    <3> QED
      BY <3>1, <3>2
  <2>8. /\ \A b \in Blocks : lock[BlockKey(b)] # t
        /\ \A o \in Orgs : lock[OrgKey(o)] # t
    BY <1>2, NothingElseAt
  <2>9. AtStatement(g)
    BY <2>1, <2>4 DEF AtStatement, SameWork
  <2>10. HoldsClaimed(t)'
    BY <1>1, <2>1, <2>4, <2>5, <2>7 DEF Stands, HoldsClaimed, SameWork
  <2>11. BlocksLocked(t)' /\ OrgsLocked(t)' /\ RefLocked(t)'
    BY <2>1, <2>4, <2>5, <2>7, <2>8 DEF BlocksLocked, OrgsLocked, RefLocked
  <2>12. Stands(t)'
    BY <2>5, <2>9, <2>10, <2>11 DEF Stands
  <2> QED
    BY <1>2, <1>4, <2>4, <2>6, <2>12, StatementKeeps
<1> QED
  BY <1>2, <1>3, <1>4

LEMMA LockOrgKeeps ==
  ASSUME Invariant, NEW t \in Txs, LockOrg(t)
  PROVE  Invariant'
<1> DEFINE r == tx[t]
           o == NextOrg(r)
           gate == r.job.op = "reserve" /\ r.mine = {}
           q == r.orgs \ {o}
           s == [r EXCEPT !.orgs = q]
           e == IF gate THEN today ELSE s.began
           g == IF q # {} THEN s ELSE [s EXCEPT !.pc = "commit", !.began = e]
<1>1. TypeInv /\ r \in TxRow /\ AtStatement(r) /\ Stands(t)
  BY DEF Invariant, TypeInv, Stands
<1>2. s.orgs = q
  BY <1>1 DEF TxRow
<1>3. /\ r.pc = "orgs" /\ Granted(t, OrgKey(o)) /\ UNCHANGED <<db, today>>
      /\ \/ lock' = Locked(t, OrgKey(o)) /\ tx' = [tx EXCEPT ![t] = g]
         \/ Finish(t)
  BY <1>2 DEF LockOrg
<1>4. CASE Finish(t)
  BY <1>3, <1>4, FinishKeeps
<1>5. CASE lock' = Locked(t, OrgKey(o)) /\ tx' = [tx EXCEPT ![t] = g]
  <2>1. /\ r.orgs \subseteq Orgs /\ r.orgs # {} /\ r.claim = {} /\ r.want = {}
    BY <1>1, <1>3, RowFields DEF AtStatement
  <2>2. o \in r.orgs /\ o \in Orgs /\ \A p \in r.orgs : o <= p
    BY <2>1, Base, FirstIsLeast DEF NextOrg
  <2> HIDE DEF o
  <2>3. q \in SUBSET Orgs /\ \A p \in q : o < p
    <3>1. \A p \in q : p \in r.orgs /\ p # o /\ p \in Nat /\ o \in Nat
      BY <2>1, <2>2, Base
    <3> QED
      BY <2>1, <2>2, <3>1
  <2> HIDE DEF q
  <2>4. s \in TxRow
    BY <1>1, <2>3 DEF TxRow
  <2>5. s.job = r.job /\ s.pc = r.pc /\ s.mine = r.mine /\ s.claim = {} /\ s.want = {}
    BY <1>1, <2>1 DEF TxRow
  <2> HIDE DEF s
  <2>6. e \in Nat
    BY <1>1, <2>4, RowFields DEF TypeInv, L!TypeOK
  <2> HIDE DEF e
  <2>7. /\ g \in TxRow /\ g.job = r.job /\ g.mine = r.mine /\ g.claim = {} /\ g.want = {} /\ g.orgs = q
        /\ g.pc = IF q # {} THEN "orgs" ELSE "commit"
    <3>1. CASE q # {}
      BY <1>2, <1>3, <2>4, <2>5, <3>1
    <3>2. CASE q = {}
      <4>1. g = [s EXCEPT !.pc = "commit", !.began = e]
        BY <3>2
      <4>2. g \in TxRow
        BY <2>4, <2>6, <4>1 DEF TxRow, Stages
      <4>3. /\ g.job = s.job /\ g.mine = s.mine /\ g.claim = s.claim /\ g.want = s.want
            /\ g.orgs = s.orgs /\ g.pc = "commit"
        BY <2>4, <4>1 DEF TxRow
      <4> QED
        BY <1>2, <2>5, <3>2, <4>2, <4>3
    <3> QED
      BY <3>1, <3>2
  <2> HIDE DEF g
  <2>8. tx'[t] = g
    BY <1>1, <1>5 DEF TypeInv
  <2>9. /\ lock' \in [Keys -> Txs \cup {None}] /\ OnlyMoves(t)
        /\ Takes(t, OrgKey(o))
    BY <1>1, <1>3, <1>5, <2>2, LockTaken, KeyTypes
  <2>10. /\ \A c \in Calls : lock'[HoldKey(c)] = t <=> lock[HoldKey(c)] = t
         /\ \A b \in Blocks : lock'[BlockKey(b)] = t <=> lock[BlockKey(b)] = t
         /\ \A p \in Orgs : lock'[OrgKey(p)] = t <=> p = o \/ lock[OrgKey(p)] = t
         /\ \A f \in Refs : lock'[RefKey(f)] = t <=> lock[RefKey(f)] = t
    BY <2>9, LockKinds, KeysDiffer
  <2>11. block' = block /\ hold' = hold
    BY <1>3 DEF db
  <2>12. g.pc \in {"orgs", "commit"} /\ (g.pc = "orgs" <=> q # {})
    BY <2>7
  <2>13. AtStatement(g)
    BY <1>1, <1>3, <2>1, <2>7, <2>12 DEF AtStatement
  <2>14. HoldsClaimed(t)'
    BY <1>1, <2>7, <2>8, <2>10, <2>11 DEF Stands, HoldsClaimed, L!IsOpen
  <2>15. BlocksLocked(t)'
    BY <1>1, <2>7, <2>8, <2>10, <2>11, <2>12 DEF Stands, BlocksLocked, L!IsBlock
  <2>16. OrgsLocked(t)'
    <3>1. \A p \in Orgs : lock[OrgKey(p)] = t => \A x \in r.orgs : p < x
      BY <1>1 DEF Stands, OrgsLocked
    <3>2. q \subseteq r.orgs
      BY DEF q
    <3> QED
      BY <2>3, <2>7, <2>8, <2>10, <2>12, <3>1, <3>2 DEF OrgsLocked
  <2>17. RefLocked(t)'
    BY <2>8, <2>12 DEF RefLocked
  <2>18. Stands(t)'
    BY <2>8, <2>13, <2>14, <2>15, <2>16, <2>17 DEF Stands
  <2> QED
    BY <1>3, <1>5, <2>7, <2>9, <2>18, StatementKeeps
<1> QED
  BY <1>3, <1>4, <1>5

-----------------------------------------------------------------------------
(* Committing *)

(* A commit closes no holds but its own, and blocks stay whose they are.   *)
LEMMA CommitKeeps ==
  ASSUME Invariant, NEW t \in Txs, Finish(t), UNCHANGED today,
         block' \in [Blocks -> L!BlockRow], balance' \in [Orgs -> Int],
         spent' \in [Orgs -> [day : Nat \cup {None}, micro : Int]],
         hold' \in [Calls -> L!HoldRow], closing' \in [Calls -> L!EntryRow],
         tag' \in [Calls -> L!TagRow],
         \A c \in Calls : L!IsOpen(c) /\ c \notin tx[t].mine => L!IsOpen(c)',
         BlocksStay
  PROVE  Invariant'
<1>1. TypeInv /\ HoldsClaimed(t) /\ today \in Nat
  BY DEF Invariant, Stands, TypeInv, L!TypeOK
<1>2. /\ tx' \in [Txs -> TxRow] /\ \A u \in Txs \ {t} : tx'[u] = tx[u]
      /\ lock' \in [Keys -> Txs \cup {None}] /\ OnlyMoves(t)
      /\ Stands(t)'
  BY <1>1, FinishStands
<1>3. today' \in Nat
  BY <1>1
<1>4. TypeInv'
  BY <1>2, <1>3, TypeNext
<1>5. \A c \in Calls : L!IsOpen(c) /\ lock[HoldKey(c)] # t => L!IsOpen(c)'
  BY <1>1 DEF HoldsClaimed
<1>6. OthersKept(t)
  BY <1>2, <1>5 DEF OthersKept
<1> QED
  BY <1>2, <1>4, <1>6, OthersStand

LEMMA DrawnBlocksType ==
  ASSUME TypeInv, NEW r \in TxRow
  PROVE  /\ DrawnBlocks(r) \in [Blocks -> L!BlockRow]
         /\ \A b \in Blocks : DrawnBlocks(r)[b].org = block[b].org
<1>1. r.seen \in [Blocks -> Nat]
  BY RowFields
<1>2. ASSUME NEW b \in Blocks
      PROVE  /\ DrawnBlocks(r)[b] \in L!BlockRow
             /\ DrawnBlocks(r)[b].org = block[b].org
  <2> DEFINE n == Take(r, block[b].org)[b]
             left == r.seen[b] - n
  <2>1. n \in Nat /\ n <= Read(r, block[b].org)[b]
    BY TakeType
  <2>2. Read(r, block[b].org)[b] = r.seen[b] /\ r.seen[b] \in Nat
    BY <1>1 DEF Read
  <2> HIDE DEF n
  <2>3. left \in Nat
    BY <2>1, <2>2
  <2>4. block[b] \in L!BlockRow
    BY BlockOwner
  <2>5. DrawnBlocks(r)[b] = IF L!IsBlock(b) /\ n > 0 THEN [block[b] EXCEPT !.remaining = left] ELSE block[b]
    BY DEF DrawnBlocks, n
  <2> HIDE DEF left
  <2> QED
    BY <2>3, <2>4, <2>5 DEF L!BlockRow
<1> QED
  BY <1>2 DEF DrawnBlocks

LEMMA RefundedType ==
  ASSUME TypeInv, NEW r \in TxRow
  PROVE  Refunded(r) \in [Orgs -> Int]
<1>1. r.mine \subseteq Calls /\ balance \in [Orgs -> Int]
  BY RowFields DEF TypeInv, L!TypeOK
<1>2. ASSUME NEW o \in Orgs
      PROVE  L!Sum([c \in {x \in r.mine : hold[x].org = o} |-> hold[c].amount]) \in Nat
  <2> DEFINE S == {x \in r.mine : hold[x].org = o}
  <2>1. S \in SUBSET Calls
    BY <1>1
  <2> HIDE DEF S
  <2>2. [c \in S |-> hold[c].amount] \in [S -> Nat]
    BY <2>1, HoldFields
  <2>3. L!Sum([c \in S |-> hold[c].amount]) \in Nat
    BY <2>1, <2>2, SumOfCalls
  <2> QED
    BY <2>3 DEF S
<1>3. ASSUME NEW o \in Orgs PROVE Refunded(r)[o] \in Int
  <2> DEFINE p == L!Sum([c \in {x \in r.mine : hold[x].org = o} |-> hold[c].amount])
             q == L!Sum(Consumed(r, o))
  <2>1. p \in Nat /\ q \in Nat /\ balance[o] \in Int
    BY <1>1, <1>2, ConsumedType
  <2>2. Refunded(r)[o] = balance[o] + p - q
    BY DEF Refunded
  <2> HIDE DEF p, q
  <2> QED
    BY <2>1, <2>2
<1> QED
  BY <1>3 DEF Refunded

LEMMA AddSpentType ==
  ASSUME NEW s \in [day : Nat \cup {None}, micro : Int], NEW day \in Nat, NEW delta \in Int
  PROVE  AddSpent(s, day, delta) \in [day : Nat \cup {None}, micro : Int]
  BY DEF AddSpent

LEMMA CloseMineType ==
  ASSUME TypeInv, NEW r \in TxRow, \A c \in r.mine : L!IsOpen(c), CloseMine(r)
  PROVE  /\ hold' \in [Calls -> L!HoldRow] /\ closing' \in [Calls -> L!EntryRow]
         /\ tag' \in [Calls -> L!TagRow]
         /\ spent' \in [Orgs -> [day : Nat \cup {None}, micro : Int]]
         /\ \A c \in Calls : L!IsOpen(c) /\ c \notin r.mine => L!IsOpen(c)'
<1>1. /\ r.mine \subseteq Calls /\ r.began \in Nat /\ r.stamp \in Nat
  BY RowFields
<1>2. /\ hold \in [Calls -> L!HoldRow] /\ closing \in [Calls -> L!EntryRow]
      /\ tag \in [Calls -> L!TagRow]
      /\ spent \in [Orgs -> [day : Nat \cup {None}, micro : Int]]
  BY DEF TypeInv, L!TypeOK
<1>3. hold' = [c \in Calls |-> IF c \in r.mine THEN L!NoHold ELSE hold[c]]
  BY Zenon DEF CloseMine
<1>4. hold' \in [Calls -> L!HoldRow]
  BY <1>2, <1>3, Base, L!RowTypes
<1>5. \A c \in Calls : L!IsOpen(c) /\ c \notin r.mine => L!IsOpen(c)'
  BY <1>3 DEF L!IsOpen
<1>6. closing' \in [Calls -> L!EntryRow]
  <2> DEFINE entry(c) == [kind |-> IF Settles(r, c) THEN "settle" ELSE "release",
                          org |-> hold[c].org, reserved |-> hold[c].amount,
                          amount |-> IF Settles(r, c) THEN Drawn(r, c) ELSE hold[c].amount,
                          day |-> r.began]
  <2>1. closing' = [c \in Calls |-> IF c \in r.mine THEN entry(c) ELSE closing[c]]
    BY Zenon DEF CloseMine
  <2>2. ASSUME NEW c \in r.mine PROVE entry(c) \in L!EntryRow
    <3>1. Drawn(r, c) \in Nat /\ hold[c].amount \in Nat /\ hold[c].org \in Orgs \cup {None}
      BY <1>1, DrawnType, HoldFields
    <3> QED
      BY <1>1, <3>1 DEF L!EntryRow
  <2> HIDE DEF entry
  <2> QED
    BY <1>2, <2>1, <2>2
<1>7. tag' \in [Calls -> L!TagRow]
  <2> DEFINE row(c) == IF ~Settles(r, c) \/ tag[c].org = None THEN L!NoTag
                       ELSE [tag[c] EXCEPT !.amount = Drawn(r, c), !.settled = TRUE, !.day = r.began]
  <2>1. tag' = [c \in Calls |-> IF c \in r.mine THEN row(c) ELSE tag[c]]
    BY Zenon DEF CloseMine
  <2>2. ASSUME NEW c \in r.mine PROVE row(c) \in L!TagRow
    <3> DEFINE n == Drawn(r, c)
    <3>1. n \in Nat /\ tag[c] \in L!TagRow
      BY <1>1, <1>2, DrawnType
    <3>2. row(c) = IF ~Settles(r, c) \/ tag[c].org = None THEN L!NoTag
                   ELSE [tag[c] EXCEPT !.amount = n, !.settled = TRUE, !.day = r.began]
      OBVIOUS
    <3> HIDE DEF n, row
    <3>3. [tag[c] EXCEPT !.amount = n, !.settled = TRUE, !.day = r.began] \in L!TagRow
      BY <1>1, <3>1 DEF L!TagRow
    <3>4. L!NoTag \in L!TagRow
      BY Base, L!RowTypes
    <3> QED
      BY <3>2, <3>3, <3>4
  <2> HIDE DEF row
  <2> QED
    BY <1>2, <2>1, <2>2
<1>8. spent' \in [Orgs -> [day : Nat \cup {None}, micro : Int]]
  <2> DEFINE back(o) == L!Sum([c \in {x \in r.mine : hold[x].org = o} |-> Counted(r, c)])
             delta(o) == L!Sum(Consumed(r, o)) - back(o)
             moved(o) == \E c \in {x \in r.mine : hold[x].org = o} : SpentDelta(r, c) # 0
  <2>1. spent' = [o \in Orgs |-> IF moved(o) THEN AddSpent(spent[o], r.stamp, delta(o)) ELSE spent[o]]
    BY Zenon DEF CloseMine
  <2>2. ASSUME NEW o \in Orgs PROVE back(o) \in Nat
    <3> DEFINE S == {x \in r.mine : hold[x].org = o}
    <3>1. S \in SUBSET Calls
      BY <1>1
    <3> HIDE DEF S
    <3>2. [c \in S |-> Counted(r, c)] \in [S -> Nat]
      BY <3>1, HoldFields DEF Counted
    <3>3. L!Sum([c \in S |-> Counted(r, c)]) \in Nat
      BY <3>1, <3>2, SumOfCalls
    <3> QED
      BY <3>3 DEF S
  <2> HIDE DEF back
  <2>3. ASSUME NEW o \in Orgs PROVE delta(o) \in Int
    <3>1. L!Sum(Consumed(r, o)) \in Nat
      BY ConsumedType
    <3> QED
      BY <2>2, <3>1
  <2> HIDE DEF delta, moved
  <2>4. \A o \in Orgs : AddSpent(spent[o], r.stamp, delta(o)) \in [day : Nat \cup {None}, micro : Int]
    BY <1>1, <1>2, <2>3, AddSpentType
  <2> QED
    BY <1>2, <2>1, <2>4
<1> QED
  BY <1>4, <1>5, <1>6, <1>7, <1>8

LEMMA CommitCloseKeeps ==
  ASSUME Invariant, NEW t \in Txs, CommitClose(t)
  PROVE  Invariant'
<1> DEFINE r == tx[t]
<1>1. TypeInv /\ r \in TxRow /\ \A c \in r.mine : L!IsOpen(c)
  BY DEF Invariant, TypeInv, Stands, HoldsClaimed
<1>2. /\ block' = DrawnBlocks(r) /\ balance' = Refunded(r) /\ CloseMine(r)
      /\ Finish(t) /\ UNCHANGED today
  BY DEF CommitClose
<1>3. block' \in [Blocks -> L!BlockRow] /\ BlocksStay
  BY <1>1, <1>2, DrawnBlocksType DEF BlocksStay, L!IsBlock
<1>4. balance' \in [Orgs -> Int]
  BY <1>1, <1>2, RefundedType
<1>5. /\ hold' \in [Calls -> L!HoldRow] /\ closing' \in [Calls -> L!EntryRow]
      /\ tag' \in [Calls -> L!TagRow]
      /\ spent' \in [Orgs -> [day : Nat \cup {None}, micro : Int]]
      /\ \A c \in Calls : L!IsOpen(c) /\ c \notin r.mine => L!IsOpen(c)'
  BY <1>1, <1>2, CloseMineType
<1> QED
  BY <1>2, <1>3, <1>4, <1>5, CommitKeeps

(* A block that is created was nobody's, so nobody has locked or wants it. *)
LEMMA BlockCreated ==
  ASSUME TypeInv, NEW old \in [Blocks -> L!BlockRow], \A b \in Blocks : old[b].org = block[b].org,
         NEW b \in Blocks, L!NextBlock(b),
         NEW o \in Orgs, NEW kind \in L!Kinds, NEW n \in Nat, NEW ref \in Refs \cup {None},
         block' = [old EXCEPT ![b] = L!NewBlock(o, kind, n, ref)]
  PROVE  block' \in [Blocks -> L!BlockRow] /\ BlocksStay
<1>1. L!NewBlock(o, kind, n, ref) \in L!BlockRow
  BY Base, L!NewBlockType
<1>2. block' \in [Blocks -> L!BlockRow] /\ \A x \in Blocks : x # b => block'[x] = old[x]
  BY <1>1
<1>3. ~L!IsBlock(b)
  BY DEF L!NextBlock
<1>4. BlocksStay
  BY <1>2, <1>3 DEF BlocksStay, L!IsBlock
<1> QED
  BY <1>2, <1>4

LEMMA CommitPayToKeeps ==
  ASSUME Invariant, NEW t \in Txs, CommitPayTo(t)
  PROVE  Invariant'
<1> DEFINE r == tx[t]
           n == Drawn(r, r.job.call)
           payee == r.job.payee
<1>1. TypeInv /\ r \in TxRow /\ \A c \in r.mine : L!IsOpen(c)
  BY DEF Invariant, TypeInv, Stands, HoldsClaimed
<1>2. /\ r.pc = "commit" /\ r.job.op = "payTo" /\ CloseMine(r)
      /\ Finish(t) /\ UNCHANGED today
      /\ \/ n = 0 /\ block' = DrawnBlocks(r) /\ balance' = Refunded(r)
         \/ /\ n > 0
            /\ \E b \in Blocks :
                 /\ L!NextBlock(b)
                 /\ block' = [DrawnBlocks(r) EXCEPT ![b] = L!NewBlock(payee, "earned", n, None)]
            /\ balance' = [Refunded(r) EXCEPT ![payee] = @ + n]
  BY DEF CommitPayTo
<1>3. AtStatement(r)
  BY DEF Invariant, Stands
<1>4. r.job.call \in r.mine
  BY <1>2, <1>3 DEF AtStatement
<1>5. n \in Nat
  BY <1>1, <1>4, DrawnType
<1>6. payee \in Orgs
  BY <1>1, <1>2, RowFields, JobFields
<1>7. /\ DrawnBlocks(r) \in [Blocks -> L!BlockRow]
      /\ \A b \in Blocks : DrawnBlocks(r)[b].org = block[b].org
      /\ Refunded(r) \in [Orgs -> Int]
  BY <1>1, DrawnBlocksType, RefundedType
<1>8. /\ hold' \in [Calls -> L!HoldRow] /\ closing' \in [Calls -> L!EntryRow]
      /\ tag' \in [Calls -> L!TagRow]
      /\ spent' \in [Orgs -> [day : Nat \cup {None}, micro : Int]]
      /\ \A c \in Calls : L!IsOpen(c) /\ c \notin r.mine => L!IsOpen(c)'
  BY <1>1, <1>2, CloseMineType
<1> HIDE DEF n, payee
<1>9. block' \in [Blocks -> L!BlockRow] /\ BlocksStay /\ balance' \in [Orgs -> Int]
  <2>1. CASE block' = DrawnBlocks(r) /\ balance' = Refunded(r)
    BY <1>7, <2>1 DEF BlocksStay, L!IsBlock
  <2>2. CASE /\ \E b \in Blocks :
                  /\ L!NextBlock(b)
                  /\ block' = [DrawnBlocks(r) EXCEPT ![b] = L!NewBlock(payee, "earned", n, None)]
             /\ balance' = [Refunded(r) EXCEPT ![payee] = @ + n]
    <3>1. PICK b \in Blocks :
            /\ L!NextBlock(b)
            /\ block' = [DrawnBlocks(r) EXCEPT ![b] = L!NewBlock(payee, "earned", n, None)]
      BY <2>2
    <3>2. "earned" \in L!Kinds
      BY DEF L!Kinds
    <3>3. block' \in [Blocks -> L!BlockRow] /\ BlocksStay
      BY <1>1, <1>5, <1>6, <1>7, <3>1, <3>2, BlockCreated
    <3>4. balance' \in [Orgs -> Int]
      BY <1>5, <1>6, <1>7, <2>2
    <3> QED
      BY <3>3, <3>4
  <2> QED
    BY <1>2, <2>1, <2>2
<1> QED
  BY <1>2, <1>8, <1>9, CommitKeeps

(* The sweep commits one release at a time: its locks go with each.        *)
LEMMA CommitReapKeeps ==
  ASSUME Invariant, NEW t \in Txs, CommitReap(t)
  PROVE  Invariant'
<1> DEFINE r == tx[t]
           left == r.todo \ r.mine
           s == [r EXCEPT !.todo = left]
           g == ToGate(s)
<1>1. TypeInv /\ r \in TxRow /\ AtStatement(r) /\ HoldsClaimed(t)
  BY DEF Invariant, TypeInv, Stands
<1>2. /\ r.pc = "commit" /\ r.job.op = "reserve"
      /\ balance' = Refunded(r) /\ CloseMine(r)
      /\ lock' = Unlocked(t) /\ tx' = [tx EXCEPT ![t] = g]
      /\ block' = block /\ today' = today
  BY DEF CommitReap
<1>3. r.claim = {} /\ r.want = {} /\ r.orgs = {} /\ \A c \in r.mine : L!IsOpen(c)
  BY <1>1, <1>2 DEF AtStatement, HoldsClaimed
<1>4. left \in SUBSET Calls
  BY <1>1, RowFields
<1> HIDE DEF left
<1>5. s \in TxRow
  BY <1>1, <1>4 DEF TxRow
<1>6. s.job = r.job /\ s.claim = {} /\ s.want = {} /\ s.orgs = {}
  BY <1>1, <1>3 DEF TxRow
<1> HIDE DEF s
<1>7. /\ g \in TxRow /\ g.job = r.job /\ g.mine = {} /\ g.want = {}
      /\ g.pc \in {"claim", "orgs", "commit"}
      /\ g.pc = "claim" <=> g.claim # {}
      /\ g.pc = "orgs" <=> g.orgs # {}
  BY <1>1, <1>2, <1>5, <1>6, ToGateRow
<1> HIDE DEF g
<1>8. AtStatement(g)
  BY <1>2, <1>7 DEF AtStatement
<1>9. /\ lock' \in [Keys -> Txs \cup {None}] /\ OnlyMoves(t)
      /\ \A k \in Keys : lock'[k] # t
  BY <1>1, <1>2, LocksFreed
<1>10. tx' \in [Txs -> TxRow] /\ tx'[t] = g /\ \A u \in Txs \ {t} : tx'[u] = tx[u]
  BY <1>1, <1>2, <1>7 DEF TypeInv
<1>11. HoldsClaimed(t)'
  BY <1>7, <1>9, <1>10, KeyTypes DEF HoldsClaimed
<1>12. BlocksLocked(t)' /\ OrgsLocked(t)' /\ RefLocked(t)'
  BY <1>7, <1>9, <1>10, KeyTypes DEF BlocksLocked, OrgsLocked, RefLocked
<1>13. AtStatement(tx'[t])
  BY <1>8, <1>10
<1>14. Stands(t)'
  BY <1>11, <1>12, <1>13 DEF Stands
<1>15. /\ hold' \in [Calls -> L!HoldRow] /\ closing' \in [Calls -> L!EntryRow]
       /\ tag' \in [Calls -> L!TagRow]
       /\ spent' \in [Orgs -> [day : Nat \cup {None}, micro : Int]]
       /\ \A c \in Calls : L!IsOpen(c) /\ c \notin r.mine => L!IsOpen(c)'
  BY <1>1, <1>2, <1>3, CloseMineType
<1>16. balance' \in [Orgs -> Int] /\ block' \in [Blocks -> L!BlockRow] /\ today' \in Nat
  BY <1>1, <1>2, RefundedType, SameBlocks DEF TypeInv, L!TypeOK
<1>17. TypeInv'
  BY <1>9, <1>10, <1>15, <1>16, TypeNext
<1>18. BlocksStay
  BY <1>2 DEF BlocksStay, L!IsBlock
<1>19. \A c \in Calls : L!IsOpen(c) /\ lock[HoldKey(c)] # t => L!IsOpen(c)'
  BY <1>1, <1>15 DEF HoldsClaimed
<1>20. OthersKept(t)
  BY <1>9, <1>10, <1>18, <1>19 DEF OthersKept
<1> QED
  BY <1>14, <1>17, <1>20, OthersStand

LEMMA CommitReserveKeeps ==
  ASSUME Invariant, NEW t \in Txs, CommitReserve(t)
  PROVE  Invariant'
<1> DEFINE r == tx[t]
           c == r.job.call
           o == r.job.org
           n == r.job.charged
           h == [org |-> o, amount |-> n, day |-> r.began, stale |-> FALSE, known |-> L!Funded]
           row == [org |-> o, amount |-> n, settled |-> FALSE, day |-> r.began]
<1>1. TypeInv /\ r \in TxRow
  BY DEF Invariant, TypeInv
<1>2. /\ r.job.op = "reserve"
      /\ balance' = [balance EXCEPT ![o] = @ - n]
      /\ spent' = [spent EXCEPT ![o] = AddSpent(@, r.stamp, n)]
      /\ hold' = [hold EXCEPT ![c] = h]
      /\ tag' = IF c \in Tagged THEN [tag EXCEPT ![c] = row] ELSE tag
      /\ Finish(t) /\ block' = block /\ closing' = closing /\ today' = today
  BY DEF CommitReserve
<1>3. c \in Calls /\ o \in Orgs /\ n \in Nat /\ r.began \in Nat /\ r.stamp \in Nat
  BY <1>1, <1>2, RowFields, JobFields
<1> HIDE DEF c, o, n
<1>4. /\ block \in [Blocks -> L!BlockRow] /\ balance \in [Orgs -> Int]
      /\ spent \in [Orgs -> [day : Nat \cup {None}, micro : Int]]
      /\ hold \in [Calls -> L!HoldRow] /\ closing \in [Calls -> L!EntryRow]
      /\ tag \in [Calls -> L!TagRow]
  BY <1>1, SameBlocks DEF TypeInv, L!TypeOK
<1>5. h \in L!HoldRow /\ row \in L!TagRow /\ h.org # None
  <2>1. L!Funded \in Nat
    BY <1>1, Base, L!FundedType DEF TypeInv
  <2> QED
    BY <1>3, <2>1, Base DEF L!HoldRow, L!TagRow
<1> HIDE DEF h, row
<1>6. balance' \in [Orgs -> Int]
  BY <1>2, <1>3, <1>4
<1>7. AddSpent(spent[o], r.stamp, n) \in [day : Nat \cup {None}, micro : Int]
  <2>1. spent[o] \in [day : Nat \cup {None}, micro : Int] /\ r.stamp \in Nat /\ n \in Int
    BY <1>3, <1>4
  <2> QED
    BY <2>1, AddSpentType
<1>8. spent' \in [Orgs -> [day : Nat \cup {None}, micro : Int]]
  BY <1>2, <1>3, <1>4, <1>7
<1>9. hold' \in [Calls -> L!HoldRow] /\ tag' \in [Calls -> L!TagRow]
  BY <1>2, <1>3, <1>4, <1>5
<1>10. \A x \in Calls : L!IsOpen(x) => L!IsOpen(x)'
  BY <1>2, <1>3, <1>4, <1>5 DEF L!IsOpen
<1>11. BlocksStay
  BY <1>2 DEF BlocksStay, L!IsBlock
<1> QED
  BY <1>2, <1>4, <1>6, <1>8, <1>9, <1>10, <1>11, CommitKeeps

LEMMA CommitFundKeeps ==
  ASSUME Invariant, NEW t \in Txs, CommitFund(t)
  PROVE  Invariant'
<1> DEFINE j == tx[t].job
<1>1. TypeInv /\ tx[t] \in TxRow
  BY DEF Invariant, TypeInv
<1>2. /\ j.op = "fund"
      /\ \E b \in Blocks : L!NextBlock(b) /\ block' = [block EXCEPT ![b] = L!NewBlock(j.org, j.kind, j.amount, j.ref)]
      /\ balance' = [balance EXCEPT ![j.org] = @ + j.amount]
      /\ Finish(t) /\ UNCHANGED <<spent, hold, closing, tag, today>>
  BY DEF CommitFund
<1>3. j.org \in Orgs /\ j.kind \in L!Kinds /\ j.amount \in Nat /\ j.ref \in Refs \cup {None}
  BY <1>1, <1>2, RowFields, JobFields
<1> HIDE DEF j
<1>4. /\ block \in [Blocks -> L!BlockRow] /\ balance \in [Orgs -> Int]
      /\ spent \in [Orgs -> [day : Nat \cup {None}, micro : Int]]
      /\ hold \in [Calls -> L!HoldRow] /\ closing \in [Calls -> L!EntryRow]
      /\ tag \in [Calls -> L!TagRow]
  BY <1>1, SameBlocks DEF TypeInv, L!TypeOK
<1>5. PICK b \in Blocks :
        L!NextBlock(b) /\ block' = [block EXCEPT ![b] = L!NewBlock(j.org, j.kind, j.amount, j.ref)]
  BY <1>2
<1>6. block' \in [Blocks -> L!BlockRow] /\ BlocksStay
  BY <1>1, <1>3, <1>4, <1>5, BlockCreated
<1>7. balance' \in [Orgs -> Int]
  BY <1>2, <1>3, <1>4
<1>8. \A x \in Calls : L!IsOpen(x) => L!IsOpen(x)'
  BY <1>2 DEF L!IsOpen
<1> QED
  BY <1>2, <1>4, <1>6, <1>7, <1>8, CommitKeeps

LEMMA CommitRevokeKeeps ==
  ASSUME Invariant, NEW t \in Txs, CommitRevoke(t)
  PROVE  Invariant'
<1> DEFINE r == tx[t]
           o == r.job.org
           asked == r.job.asked
           T == DOMAIN asked
           goal == [b \in T |-> L!Lesser(asked[b], block[b].amount)]
           cap == [b \in T |-> OnBlock(r, b, goal[b])]
           rank == [b \in T |-> b]
           n == L!Unheld(o)
           take == L!Spread(cap, rank, n)
           recorded(b) == take[b] > 0 \/ goal[b] > block[b].target
<1>1. TypeInv /\ r \in TxRow
  BY DEF Invariant, TypeInv
<1>2. /\ r.job.op = "revoke"
      /\ block' = [b \in Blocks |->
           IF b \in T /\ recorded(b)
           THEN [block[b] EXCEPT !.remaining = r.seen[b] - take[b], !.taken = @ + take[b],
                                 !.target = IF goal[b] > @ THEN goal[b] ELSE @]
           ELSE block[b]]
      /\ balance' = [balance EXCEPT ![o] = @ - L!Sum(take)]
      /\ Finish(t) /\ UNCHANGED <<spent, hold, closing, tag, today>>
  BY ZenonT(30) DEF CommitRevoke
<1>3. /\ o \in Orgs /\ T \in SUBSET Blocks /\ asked \in [T -> Targets] /\ r.seen \in [Blocks -> Nat]
  BY <1>1, <1>2, RowFields, JobFields, Zenon
<1>4. /\ block \in [Blocks -> L!BlockRow] /\ balance \in [Orgs -> Int]
      /\ spent \in [Orgs -> [day : Nat \cup {None}, micro : Int]]
      /\ hold \in [Calls -> L!HoldRow] /\ closing \in [Calls -> L!EntryRow]
      /\ tag \in [Calls -> L!TagRow]
  BY <1>1, SameBlocks DEF TypeInv, L!TypeOK
<1> HIDE DEF o, T, asked
<1>5. \A b \in T : goal[b] \in Nat
  <2>1. \A b \in T : asked[b] \in Nat /\ block[b].amount \in Nat
    BY <1>1, <1>3, Base, BlockOwner DEF L!LedgerAssumption
  <2> QED
    BY <2>1 DEF L!Lesser
<1> HIDE DEF goal
<1>6. \A b \in T : OnBlock(r, b, goal[b]) \in Nat /\ OnBlock(r, b, goal[b]) <= r.seen[b]
  <2>1. \A b \in T : block[b].taken \in Nat /\ r.seen[b] \in Nat
    BY <1>1, <1>3, BlockOwner
  <2>2. \A b \in T : L!Owed(b, goal[b]) \in Nat
    BY <1>5, <2>1 DEF L!Owed, L!NonNeg
  <2> QED
    BY <2>1, <2>2 DEF OnBlock, L!Lesser
<1>7. cap \in [T -> Nat] /\ \A b \in T : cap[b] <= r.seen[b]
  BY <1>6
<1>8. rank \in [T -> Int] /\ \A x, y \in T : rank[x] = rank[y] => x = y
  <2>1. \A x \in T : x \in Int
    BY <1>3 DEF Blocks
  <2> QED
    BY <2>1
<1>9. n \in Nat
  BY <1>3, <1>4 DEF L!Unheld, L!NonNeg
<1>10. L!IsFiniteSet(T)
  BY <1>3, Base, SameBlocks, L!FiniteRows, L!FS_Subset
<1> HIDE DEF cap, rank, n
<1>11. take \in [T -> Nat] /\ \A b \in T : take[b] <= cap[b]
  BY <1>7, <1>8, <1>9, <1>10, Base, L!SpreadType
<1> HIDE DEF take
<1>12. L!Sum(take) \in Nat
  BY <1>3, <1>11, SumOfBlocks
<1> DEFINE total == L!Sum(take)
<1>13. balance' \in [Orgs -> Int]
  <2>1. balance' = [balance EXCEPT ![o] = @ - total] /\ total \in Nat
    BY <1>2, <1>12, Zenon
  <2> HIDE DEF total
  <2> QED
    BY <1>3, <1>4, <2>1
<1>14. ASSUME NEW b \in Blocks
       PROVE  block'[b] \in L!BlockRow /\ block'[b].org = block[b].org
  <2>1. CASE b \in T /\ recorded(b)
    <3> DEFINE x == r.seen[b] - take[b]
               y == block[b].taken + take[b]
               z == IF goal[b] > block[b].target THEN goal[b] ELSE block[b].target
    <3>1. x \in Nat
      <4>1. take[b] \in Nat /\ cap[b] \in Nat /\ r.seen[b] \in Nat
        BY <1>3, <1>7, <1>11, <2>1
      <4>2. take[b] <= cap[b] /\ cap[b] <= r.seen[b]
        BY <1>7, <1>11, <2>1
      <4> QED
        BY <4>1, <4>2
    <3>2. y \in Nat /\ z \in Nat /\ block[b] \in L!BlockRow
      BY <1>1, <1>5, <1>11, <2>1, BlockOwner
    <3>3. block'[b] = [block[b] EXCEPT !.remaining = x, !.taken = y, !.target = z]
      BY <1>2, <2>1, Zenon
    <3> DEFINE row == block[b]
    <3> HIDE DEF x, y, z, row
    <3>4. /\ [row EXCEPT !.remaining = x, !.taken = y, !.target = z] \in L!BlockRow
          /\ [row EXCEPT !.remaining = x, !.taken = y, !.target = z].org = row.org
      <4>1. row \in L!BlockRow
        BY <3>2 DEF row
      <4> QED
        BY <3>1, <3>2, <4>1 DEF L!BlockRow
    <3> QED
      BY <3>3, <3>4 DEF row
  <2>2. CASE ~(b \in T /\ recorded(b))
    BY <1>2, <1>4, <2>2, ZenonT(30)
  <2> QED
    BY <2>1, <2>2
<1>15. block' \in [Blocks -> L!BlockRow]
  BY <1>2, <1>14, Zenon
<1>16. BlocksStay
  BY <1>14 DEF BlocksStay, L!IsBlock
<1>17. \A x \in Calls : L!IsOpen(x) => L!IsOpen(x)'
  BY <1>2, Zenon DEF L!IsOpen
<1> QED
  BY <1>2, <1>4, <1>13, <1>15, <1>16, <1>17, CommitKeeps, ZenonT(30)

-----------------------------------------------------------------------------
(* Everything else that happens is a step of Ledger that leaves every      *)
(* session where it is.                                                    *)

LEMMA LedgerKeeps ==
  ASSUME Invariant, UNCHANGED <<lock, tx>>, L!Next,
         \A c \in Calls : L!IsOpen(c) => L!IsOpen(c)', BlocksStay
  PROVE  Invariant'
<1>1. TypeInv /\ lock' = lock /\ tx' = tx
  BY DEF Invariant
<1>2. L!TypeOK'
  BY <1>1, Base, L!TypeStep DEF TypeInv
<1>3. TypeInv'
  BY <1>1, <1>2 DEF TypeInv
<1>4. ASSUME NEW u \in Txs PROVE Stands(u)'
  <2>1. Stands(u) /\ tx[u].mine \subseteq Calls
    BY <1>1, RowFields DEF Invariant, TypeInv
  <2>2. \A c \in tx[u].mine : L!IsOpen(c)'
    BY <2>1 DEF Stands, HoldsClaimed
  <2> QED
    BY <1>1, <2>1, <2>2, StandsStill
<1> QED
  BY <1>3, <1>4 DEF Invariant

LEMMA SignupKeeps ==
  ASSUME Invariant, NEW o \in Orgs, Signup(o)
  PROVE  Invariant'
<1>1. PICK n \in Credits : L!Grant(o, "promotional", n)
  BY DEF Signup
<1>2. L!Next
  BY <1>1 DEF L!Next, L!GrantKinds
<1>3. PICK b \in L!BlockIds : L!NextBlock(b) /\ block' = [block EXCEPT ![b] = L!NewBlock(o, "promotional", n, None)]
  BY <1>1 DEF L!Grant, L!Fund
<1>4. block \in [Blocks -> L!BlockRow]
  BY SameBlocks DEF Invariant, TypeInv, L!TypeOK
<1>5. ~L!IsBlock(b) /\ \A x \in Blocks : x # b => block'[x] = block[x]
  BY <1>3, <1>4 DEF L!NextBlock
<1>6. BlocksStay
  BY <1>5 DEF BlocksStay, L!IsBlock
<1>7. hold' = hold /\ UNCHANGED <<lock, tx>>
  BY <1>1 DEF Signup, L!Grant, L!Fund
<1>8. \A c \in Calls : L!IsOpen(c) => L!IsOpen(c)'
  BY <1>7 DEF L!IsOpen
<1> QED
  BY <1>2, <1>6, <1>7, <1>8, LedgerKeeps

LEMMA AgeKeeps ==
  ASSUME Invariant, NEW c \in Calls, Age(c)
  PROVE  Invariant'
<1>1. L!Age(c) /\ UNCHANGED <<lock, tx>>
  BY DEF Age
<1>2. L!Next
  BY <1>1 DEF L!Next
<1>3. block' = block /\ hold' = [hold EXCEPT ![c].stale = TRUE]
  BY <1>1 DEF L!Age
<1>4. hold \in [Calls -> L!HoldRow]
  BY DEF Invariant, TypeInv, L!TypeOK
<1>5. \A d \in Calls : hold'[d].org = hold[d].org
  BY <1>3, <1>4 DEF L!HoldRow
<1>6. \A d \in Calls : L!IsOpen(d) => L!IsOpen(d)'
  BY <1>5 DEF L!IsOpen
<1>7. BlocksStay
  BY <1>3 DEF BlocksStay, L!IsBlock
<1> QED
  BY <1>1, <1>2, <1>6, <1>7, LedgerKeeps

LEMMA MidnightKeeps ==
  ASSUME Invariant, Midnight
  PROVE  Invariant'
<1>1. L!Midnight /\ UNCHANGED <<lock, tx>>
  BY DEF Midnight
<1>2. L!Next
  BY <1>1 DEF L!Next
<1>3. block' = block /\ hold' = hold
  BY <1>1 DEF L!Midnight
<1>4. BlocksStay /\ \A d \in Calls : L!IsOpen(d) => L!IsOpen(d)'
  BY <1>3 DEF BlocksStay, L!IsBlock, L!IsOpen
<1> QED
  BY <1>1, <1>2, <1>4, LedgerKeeps

-----------------------------------------------------------------------------
LEMMA InvariantInit == Init => Invariant
<1> SUFFICES ASSUME Init PROVE Invariant
  OBVIOUS
<1>1. lock = [k \in Keys |-> None] /\ tx = [t \in Txs |-> Idle] /\ L!Init
  BY DEF Init
<1>2. L!TypeOK
  BY <1>1, Base, L!TypeInit
<1>3. TypeInv
  BY <1>1, <1>2, IdleRow DEF TypeInv
<1>4. ASSUME NEW t \in Txs PROVE Stands(t)
  <2>1. tx[t] = Idle /\ \A k \in Keys : lock[k] # t
    BY <1>1, Base
  <2>2. AtStatement(Idle)
    BY IdleRow DEF AtStatement
  <2>3. HoldsClaimed(t)
    BY <2>1, IdleRow, KeyTypes DEF HoldsClaimed
  <2>4. BlocksLocked(t) /\ OrgsLocked(t) /\ RefLocked(t)
    BY <2>1, IdleRow, KeyTypes DEF BlocksLocked, OrgsLocked, RefLocked
  <2> QED
    BY <2>1, <2>2, <2>3, <2>4 DEF Stands
<1> QED
  BY <1>3, <1>4 DEF Invariant

LEMMA InvariantStep == Invariant /\ [Next]_vars => Invariant'
<1> SUFFICES ASSUME Invariant, [Next]_vars PROVE Invariant'
  OBVIOUS
<1>1. CASE UNCHANGED vars
  <2>1. /\ UNCHANGED db /\ UNCHANGED today /\ block' = block /\ hold' = hold
        /\ lock' = lock /\ tx' = tx
    BY <1>1 DEF vars, db
  <2>2. TypeInv'
    BY <2>1, TypeKept DEF Invariant, TypeInv
  <2>3. ASSUME NEW u \in Txs PROVE Stands(u)'
    <3>1. TypeInv /\ Stands(u)
      BY DEF Invariant
    <3>2. BlocksStay /\ \A c \in tx[u].mine : L!IsOpen(c)'
      BY <2>1, <3>1 DEF BlocksStay, L!IsBlock, L!IsOpen, Stands, HoldsClaimed
    <3> QED
      BY <2>1, <3>1, <3>2, StandsStill
  <2> QED
    BY <2>2, <2>3 DEF Invariant
<1>2. ASSUME NEW t \in Txs, Start(t) PROVE Invariant'
  BY <1>2, StartKeeps
<1>3. ASSUME NEW t \in Txs, Step(t) PROVE Invariant'
  <2>1. CASE Claim(t) \/ LockBlock(t) \/ InsertRef(t) \/ LockOrg(t)
    BY <2>1, ClaimKeeps, LockBlockKeeps, InsertRefKeeps, LockOrgKeeps
  <2>2. CASE CommitClose(t) \/ CommitReap(t) \/ CommitPayTo(t)
    BY <2>2, CommitCloseKeeps, CommitReapKeeps, CommitPayToKeeps
  <2>3. CASE CommitReserve(t) \/ CommitFund(t) \/ CommitRevoke(t)
    BY <2>3, CommitReserveKeeps, CommitFundKeeps, CommitRevokeKeeps
  <2> QED
    BY <1>3, <2>1, <2>2, <2>3 DEF Step
<1>4. ASSUME NEW t \in Txs, Rollback(t) PROVE Invariant'
  BY <1>4, FinishKeeps DEF Rollback
<1>5. ASSUME NEW o \in Orgs, Signup(o) PROVE Invariant'
  BY <1>5, SignupKeeps
<1>6. ASSUME NEW c \in Calls, Age(c) PROVE Invariant'
  BY <1>6, AgeKeeps
<1>7. CASE Midnight
  BY <1>7, MidnightKeeps
<1> QED
  BY <1>1, <1>2, <1>3, <1>4, <1>5, <1>6, <1>7 DEF Next

(* Where every transaction stands, at every moment.                        *)
THEOREM InvariantHolds == Spec => []Invariant
  BY InvariantInit, InvariantStep, PTL DEF Spec

LEMMA InvariantTypes == Invariant => TypeOK
<1> SUFFICES ASSUME Invariant PROVE TypeOK
  OBVIOUS
<1>1. TypeInv
  BY DEF Invariant
<1>2. ASSUME NEW t \in Txs
      PROVE  /\ tx[t].pc \in {"idle", "claim", "blocks", "orgs", "ref", "commit"}
             /\ tx[t].seen \in [Blocks -> Nat]
             /\ tx[t].mine \subseteq Calls
  BY <1>1, RowFields DEF TypeInv, Stages
<1> QED
  BY <1>1, <1>2 DEF TypeInv, TypeOK

(* Every row of the ledger, every lock and every transaction has its type, *)
(* whatever the statements of the sessions interleave to: a draw written   *)
(* back as an absolute value never leaves a block below zero.              *)
THEOREM TypeCorrect == Spec => []TypeOK
  BY InvariantHolds, InvariantTypes, PTL

(* "Lock order is independent of consumption priority": settles, batches,  *)
(* payouts, reserves with their sweeps, refunds, top-ups and grants, any   *)
(* number at a time, never all wait on each other.                         *)
THEOREM NobodyWaitsInCircle == Spec => []NoDeadlock
  BY InvariantHolds, NoCircles, PTL

-----------------------------------------------------------------------------
(***************************************************************************)
(* The money of the transactions.  A transaction computes what it writes   *)
(* from rows it read earlier; the locks it took with them make what it     *)
(* read what is there.                                                     *)
(***************************************************************************)

(* Of a block it has locked it knows what is left, of any other nothing.   *)
AsLocked(t) ==
  \A b \in Blocks : tx[t].seen[b] = IF lock[BlockKey(b)] = t THEN block[b].remaining ELSE 0

(* A reserve, sweeping or at its gate, draws on no block.                  *)
ReserveDrawsNothing(t) ==
  tx[t].job.op = "reserve" => tx[t].want = {} /\ \A b \in Blocks : lock[BlockKey(b)] # t

(* A refund locks every block it was asked about, all of one organization. *)
RefundRead(t) ==
  tx[t].job.op = "revoke" =>
    \A b \in DOMAIN tx[t].job.asked :
      /\ block[b].org = tx[t].job.org
      /\ b \in tx[t].want \/ lock[BlockKey(b)] = t

(* It has locked, or is about to lock, the organizations it moves.         *)
Reached(t) ==
  tx[t].pc \in {"orgs", "commit"} =>
    /\ tx[t].orgs \subseteq OrgsOf(tx[t])
    /\ \A o \in OrgsOf(tx[t]) : o \in tx[t].orgs \/ lock[OrgKey(o)] = t

(* A reserve that passed the gate can still pay at its commit.             *)
Admitted(t) ==
  tx[t].pc = "commit" /\ tx[t].job.op = "reserve" /\ tx[t].mine = {} =>
    balance[tx[t].job.org] >= tx[t].job.charged

(* One reserve at most opens the hold of a call, and no call twice.        *)
Alone(t) ==
  tx[t].job.op = "reserve" =>
    /\ ~L!IsOpen(tx[t].job.call) /\ closing[tx[t].job.call].kind = "none"
    /\ \A u \in Txs \ {t} : tx[u].job.op = "reserve" => tx[u].job.call # tx[t].job.call

Informed(t) ==
  AsLocked(t) /\ ReserveDrawsNothing(t) /\ RefundRead(t) /\ Reached(t) /\ Admitted(t)

Accounts ==
  /\ \A t \in Txs : Informed(t) /\ Alone(t)
  /\ L!ClosesOnce /\ L!Books

(* What r moves depends on its own rows only.                              *)
OrgsOfArgs(r, s) == s.job = r.job /\ s.mine = r.mine /\ s.seen = r.seen /\ s.stamp = r.stamp

LEMMA SameOrgs ==
  ASSUME NEW r, NEW s, OrgsOfArgs(r, s)
  PROVE  OrgsOf(s) = OrgsOf(r)
<1>1. \A c : Settles(s, c) <=> Settles(r, c)
  BY DEF OrgsOfArgs, Settles
<1>2. \A o : Dues(s, o) = Dues(r, o) /\ Read(s, o) = Read(r, o)
  BY <1>1 DEF OrgsOfArgs, Dues, Read
<1>3. \A o : Consumed(s, o) = Consumed(r, o)
  BY <1>2 DEF Consumed
<1>4. \A c : Drawn(s, c) = Drawn(r, c) /\ Counted(s, c) = Counted(r, c)
  BY <1>1, <1>3 DEF Drawn, Counted, OrgsOfArgs
<1>5. \A c : Moves(s, c) <=> Moves(r, c)
  BY <1>1, <1>4 DEF Moves, SpentDelta
<1> QED
  BY <1>4, <1>5 DEF OrgsOf, OrgsOfArgs

LEMMA ToOrgsReaches ==
  ASSUME TypeInv, NEW r \in TxRow, Equipped(r), r.orgs = {}
  PROVE  OrgsOf(ToOrgs(r)) = ToOrgs(r).orgs
<1> DEFINE s == [r EXCEPT !.stamp = today]
           g == ToOrgs(r)
<1>1. s.job = r.job /\ s.mine = r.mine /\ s.seen = r.seen /\ s.stamp = today
  BY DEF TxRow
<1>2. SameWork(r, g) /\ g.stamp = today /\ g.orgs = OrgsOf(s)
  BY ToOrgsRow
<1> HIDE DEF g, s
<1>3. OrgsOfArgs(s, g)
  BY <1>1, <1>2 DEF OrgsOfArgs, SameWork
<1>4. OrgsOf(g) = OrgsOf(s)
  BY <1>3, SameOrgs
<1> QED
  BY <1>2, <1>4 DEF g

(* ... and those rows are its own: others leave them as it read them.      *)
RowsKept(r) ==
  /\ \A c \in r.mine : /\ hold'[c].org = hold[c].org /\ hold'[c].amount = hold[c].amount
                       /\ hold'[c].day = hold[c].day
  /\ \A b \in Blocks : r.seen[b] = 0 \/ block'[b].org = block[b].org
  /\ r.job.op = "payTo" => r.job.call \in r.mine

LEMMA OrgsOfKept ==
  ASSUME NEW r, RowsKept(r)
  PROVE  OrgsOf(r)' = OrgsOf(r)
<1>1. \A c \in r.mine : Due(r.job, c)' = Due(r.job, c)
  BY DEF RowsKept, Due, L!Settled
<1>2. ASSUME NEW o
      PROVE  Dues(r, o)' = Dues(r, o)
  <2> DEFINE S == {x \in r.mine : hold[x].org = o /\ Settles(r, x)}
             T == {x \in r.mine : hold'[x].org = o /\ Settles(r, x)}
  <2>1. S = T
    BY DEF RowsKept
  <2>2. Dues(r, o) = [c \in S |-> Due(r.job, c)]
    BY DEF Dues
  <2>3. Dues(r, o)' = [c \in T |-> Due(r.job, c)']
    BY DEF Dues, Settles
  <2>4. \A c \in S : c \in r.mine
    OBVIOUS
  <2> HIDE DEF S, T
  <2> QED
    BY <1>1, <2>1, <2>2, <2>3, <2>4
<1>3. ASSUME NEW o
      PROVE  Read(r, o)' = Read(r, o)
  BY DEF RowsKept, Read
<1>4. ASSUME NEW o
      PROVE  Consumed(r, o)' = Consumed(r, o)
  BY <1>2, <1>3 DEF Consumed
<1>5. ASSUME NEW c \in r.mine
      PROVE  Moves(r, c)' = Moves(r, c) /\ Drawn(r, c)' = Drawn(r, c)
  <2>1. hold'[c].org = hold[c].org /\ hold'[c].amount = hold[c].amount /\ hold'[c].day = hold[c].day
    BY DEF RowsKept
  <2>2. Drawn(r, c)' = Drawn(r, c)
    BY <1>4, <2>1 DEF Drawn, Settles
  <2>3. Counted(r, c)' = Counted(r, c)
    BY <2>1 DEF Counted
  <2> QED
    BY <2>1, <2>2, <2>3 DEF Moves, SpentDelta, Settles
<1>6. {hold'[c].org : c \in {x \in r.mine : Moves(r, x)'}} = {hold[c].org : c \in {x \in r.mine : Moves(r, x)}}
  BY <1>5 DEF RowsKept
<1> QED
  BY <1>5, <1>6 DEF OrgsOf, RowsKept

-----------------------------------------------------------------------------
(* What the others know stays so *)

(* A step changes nothing that u has locked; it may put money into an      *)
(* organization that u has locked, but takes none out.                     *)
Spares(u) ==
  /\ \A b \in Blocks : lock[BlockKey(b)] = u => block'[b].remaining = block[b].remaining
  /\ \A c \in Calls : lock[HoldKey(c)] = u =>
       hold'[c].org = hold[c].org /\ hold'[c].amount = hold[c].amount /\ hold'[c].day = hold[c].day
  /\ \A o \in Orgs : lock[OrgKey(o)] = u => balance'[o] >= balance[o]

LEMMA GateLocked ==
  ASSUME TypeInv, NEW u \in Txs, Stands(u), Informed(u),
         tx[u].pc = "commit", tx[u].job.op = "reserve", tx[u].mine = {}
  PROVE  tx[u].job.org \in Orgs /\ lock[OrgKey(tx[u].job.org)] = u
<1>1. tx[u].job.org \in Orgs
  BY RowFields, JobFields DEF TypeInv
<1>2. tx[u].orgs = {}
  BY DEF Stands, AtStatement
<1>3. OrgsOf(tx[u]) = {tx[u].job.org}
  BY DEF OrgsOf
<1> QED
  BY <1>1, <1>2, <1>3 DEF Informed, Reached

LEMMA StaysInformed ==
  ASSUME TypeInv, NEW u \in Txs, Stands(u), Informed(u), tx'[u] = tx[u],
         \A k \in Keys : lock'[k] = u <=> lock[k] = u, BlocksStay, Spares(u),
         \A o \in Orgs : balance[o] \in Int /\ balance'[o] \in Int
  PROVE  Informed(u)'
<1> DEFINE r == tx[u]
<1>1. r \in TxRow /\ r.job \in JobSet /\ r.mine \subseteq Calls /\ r.seen \in [Blocks -> Nat]
  BY RowFields DEF TypeInv
<1>2. /\ \A b \in Blocks : lock'[BlockKey(b)] = u <=> lock[BlockKey(b)] = u
      /\ \A o \in Orgs : lock'[OrgKey(o)] = u <=> lock[OrgKey(o)] = u
  BY KeyTypes
<1>3. AsLocked(u)'
  BY <1>2 DEF Informed, AsLocked, Spares
<1>4. ReserveDrawsNothing(u)'
  BY <1>2 DEF Informed, ReserveDrawsNothing
<1>5. RefundRead(u)'
  <2> SUFFICES ASSUME r.job.op = "revoke", NEW b \in DOMAIN r.job.asked
               PROVE  /\ block'[b].org = r.job.org
                      /\ b \in r.want \/ lock'[BlockKey(b)] = u
    BY DEF RefundRead
  <2>1. b \in Blocks /\ r.job.org \in Orgs
    BY <1>1, JobFields
  <2>2. block[b].org = r.job.org /\ (b \in r.want \/ lock[BlockKey(b)] = u)
    BY DEF Informed, RefundRead
  <2>3. L!IsBlock(b)
    BY <2>1, <2>2, Base DEF L!IsBlock
  <2> QED
    BY <1>2, <2>1, <2>2, <2>3 DEF BlocksStay
<1>6. ASSUME NEW c \in r.mine
      PROVE  /\ hold'[c].org = hold[c].org /\ hold'[c].amount = hold[c].amount
             /\ hold'[c].day = hold[c].day
  <2>1. c \in Calls /\ lock[HoldKey(c)] = u
    BY <1>1 DEF Stands, HoldsClaimed
  <2> QED
    BY <2>1 DEF Spares
<1>7. Reached(u)'
  <2> SUFFICES ASSUME r.pc \in {"orgs", "commit"}
               PROVE  /\ r.orgs \subseteq OrgsOf(r)'
                      /\ \A o \in OrgsOf(r)' : o \in r.orgs \/ lock'[OrgKey(o)] = u
    BY DEF Reached
  <2>1. /\ r.claim = {} /\ r.job.op # "none"
        /\ r.job.op = "payTo" => r.mine = {r.job.call}
    BY DEF Stands, AtStatement
  <2>2. \A b \in Blocks : r.seen[b] = 0 \/ block'[b].org = block[b].org
    BY DEF Informed, AsLocked, Stands, BlocksLocked, BlocksStay
  <2>3. OrgsOf(r)' = OrgsOf(r)
    BY <1>6, <2>1, <2>2, OrgsOfKept DEF RowsKept
  <2>4. OrgsOf(r) \subseteq Orgs
    <3>1. Equipped(r)
      BY <2>1 DEF Equipped, Stands, HoldsClaimed
    <3> QED
      BY <1>1, <3>1, OrgsOfType
  <2>5. r.orgs \subseteq OrgsOf(r) /\ \A o \in OrgsOf(r) : o \in r.orgs \/ lock[OrgKey(o)] = u
    BY DEF Informed, Reached
  <2> QED
    BY <1>2, <2>3, <2>4, <2>5
<1>8. Admitted(u)'
  <2> SUFFICES ASSUME r.pc = "commit", r.job.op = "reserve", r.mine = {}
               PROVE  balance'[r.job.org] >= r.job.charged
    BY DEF Admitted
  <2>1. r.job.org \in Orgs /\ lock[OrgKey(r.job.org)] = u
    BY GateLocked
  <2>2. r.job.charged \in Nat
    BY <1>1, JobFields
  <2>3. balance[r.job.org] >= r.job.charged /\ balance'[r.job.org] >= balance[r.job.org]
    BY <2>1 DEF Informed, Admitted, Spares
  <2> QED
    BY <2>1, <2>2, <2>3
<1> QED
  BY <1>3, <1>4, <1>5, <1>7, <1>8 DEF Informed

-----------------------------------------------------------------------------
(* What every step keeps *)

Funding ==
  \E o \in Orgs, kind \in L!Kinds, n \in Nat, ref \in Refs \cup {None}, x \in L!BlockIds :
    L!FundShape(o, kind, n, ref, x)
Refunding ==
  \E o \in Orgs, T \in SUBSET L!BlockIds : \E take \in [T -> Nat] : L!RevokeShape(o, T, take)
Closing ==
  \E S, R \in SUBSET Calls, n \in L!Amounts, take \in L!Takes :
    L!HoldsClosed(S, R, n) /\ L!MoneyDrawn(S, R, n, take)

(* Every step but a reserve's commit.                                      *)
OpensNothing == L!Unmoved \/ Funding \/ Refunding \/ Closing

LEMMA CallsRest ==
  ASSUME TypeInv, OpensNothing
  PROVE  /\ \A c \in Calls : ~L!IsOpen(c) => ~L!IsOpen(c)' /\ closing'[c] = closing[c]
         /\ L!ClosesOnce => L!ClosesOnce'
         /\ L!MoneyStep
<1>1. CASE L!Unmoved
  BY <1>1 DEF L!Unmoved, L!IsOpen, L!ClosesOnce, L!MoneyStep
<1>2. CASE Funding
  BY <1>2 DEF Funding, L!FundShape, L!IsOpen, L!ClosesOnce, L!MoneyStep
<1>3. CASE Refunding
  BY <1>3 DEF Refunding, L!RevokeShape, L!IsOpen, L!ClosesOnce, L!MoneyStep
<1>4. CASE Closing
  <2>1. PICK S \in SUBSET Calls, R \in SUBSET Calls, n \in L!Amounts : L!HoldsClosed(S, R, n)
    BY <1>4 DEF Closing
  <2>2. \A c \in Calls : \/ c \notin S \cup R /\ hold'[c] = hold[c] /\ closing'[c] = closing[c]
                         \/ c \in S \cup R /\ hold[c].org # None /\ hold'[c].org = None
    BY <2>1 DEF L!HoldsClosed, L!IsOpen, L!NoHold
  <2>3. L!MoneyStep
    BY <1>4 DEF Closing, L!MoneyStep
  <2> QED
    BY <2>2, <2>3 DEF L!IsOpen, L!ClosesOnce
<1> QED
  BY <1>1, <1>2, <1>3, <1>4 DEF OpensNothing

LEMMA AccountsStep ==
  ASSUME Invariant, Accounts, Invariant', NEW t \in Txs,
         \A u \in Txs \ {t} : tx'[u] = tx[u], OnlyMoves(t), BlocksStay,
         \A u \in Txs \ {t} : Spares(u), Informed(t)',
         L!MoneyStep, \A u \in Txs : Alone(u)', L!ClosesOnce'
  PROVE  Accounts'
<1>1. TypeInv /\ L!TypeOK /\ L!TypeOK'
  BY DEF Invariant, TypeInv
<1>2. L!Books'
  BY <1>1, Base, L!BooksKept DEF Accounts
<1>3. \A o \in Orgs : balance[o] \in Int /\ balance'[o] \in Int
  BY <1>1 DEF L!TypeOK
<1>4. ASSUME NEW u \in Txs \ {t} PROVE Informed(u)'
  <2>1. Stands(u) /\ Informed(u) /\ tx'[u] = tx[u] /\ Spares(u)
    BY DEF Invariant, Accounts
  <2>2. \A k \in Keys : lock'[k] = u <=> lock[k] = u
    BY DEF OnlyMoves
  <2> QED
    BY <1>1, <1>3, <2>1, <2>2, StaysInformed
<1> QED
  BY <1>2, <1>4 DEF Accounts

LEMMA AccountsKept ==
  ASSUME Invariant, Accounts, Invariant', NEW t \in Txs,
         \A u \in Txs \ {t} : tx'[u] = tx[u], OnlyMoves(t), BlocksStay,
         \A u \in Txs \ {t} : Spares(u), Informed(t)',
         OpensNothing, tx'[t].job = tx[t].job \/ tx'[t].job.op # "reserve"
  PROVE  Accounts'
<1>1. /\ \A c \in Calls : ~L!IsOpen(c) => ~L!IsOpen(c)' /\ closing'[c] = closing[c]
      /\ L!MoneyStep /\ L!ClosesOnce'
  BY CallsRest DEF Invariant, Accounts
<1>2. ASSUME NEW u \in Txs, tx'[u].job.op = "reserve"
      PROVE  tx'[u].job = tx[u].job /\ tx[u].job.call \in Calls
  <2>1. tx'[u].job = tx[u].job
    BY <1>2
  <2> QED
    BY <1>2, <2>1, RowFields, JobFields DEF Invariant, TypeInv
<1>3. ASSUME NEW u \in Txs PROVE Alone(u)'
  <2> SUFFICES ASSUME tx'[u].job.op = "reserve"
               PROVE  /\ hold'[tx'[u].job.call].org = None /\ closing'[tx'[u].job.call].kind = "none"
                      /\ \A v \in Txs \ {u} : tx'[v].job.op = "reserve" => tx'[v].job.call # tx'[u].job.call
    BY DEF Alone, L!IsOpen
  <2>1. tx'[u].job = tx[u].job /\ tx[u].job.call \in Calls /\ Alone(u)
    BY <1>2 DEF Accounts
  <2> QED
    BY <1>1, <1>2, <2>1 DEF Alone, L!IsOpen
<1> QED
  BY <1>1, <1>3, AccountsStep

(* A statement writes nothing.                                             *)
LEMMA StatementCalm ==
  ASSUME TypeInv, NEW t \in Txs, UNCHANGED <<db, today>>, NEW s, tx' = [tx EXCEPT ![t] = s]
  PROVE  /\ tx'[t] = s /\ \A u \in Txs \ {t} : tx'[u] = tx[u]
         /\ BlocksStay /\ \A u \in Txs : Spares(u)
         /\ L!Unmoved
<1>1. /\ block' = block /\ hold' = hold /\ balance' = balance /\ closing' = closing
  BY DEF db
<1>2. tx'[t] = s /\ \A u \in Txs \ {t} : tx'[u] = tx[u]
  BY DEF TypeInv
<1>3. \A o \in Orgs : balance[o] \in Int
  BY DEF TypeInv, L!TypeOK
<1> QED
  BY <1>1, <1>2, <1>3 DEF BlocksStay, Spares, L!Unmoved, L!IsBlock

LEMMA StatementAccounts ==
  ASSUME Invariant, Accounts, Invariant', NEW t \in Txs, UNCHANGED <<db, today>>,
         NEW s, tx' = [tx EXCEPT ![t] = s], OnlyMoves(t), Informed(t)',
         s.job = tx[t].job \/ s.job.op # "reserve"
  PROVE  Accounts'
<1>1. TypeInv
  BY DEF Invariant
<1>2. /\ tx'[t] = s /\ \A u \in Txs \ {t} : tx'[u] = tx[u]
      /\ BlocksStay /\ \A u \in Txs : Spares(u)
      /\ L!Unmoved
  BY <1>1, StatementCalm
<1> QED
  BY <1>2, AccountsKept DEF OpensNothing

LEMMA FinishInformed ==
  ASSUME TypeInv, NEW t \in Txs, Finish(t)
  PROVE  Informed(t)' /\ tx'[t].job.op = "none"
<1>1. tx'[t] = Idle
  BY DEF Finish, TypeInv
<1>2. \A k \in Keys : lock'[k] # t
  BY LocksFreed DEF Finish
<1>3. AsLocked(t)'
  BY <1>1, <1>2, KeyTypes, IdleRow DEF AsLocked
<1> QED
  BY <1>1, <1>3, IdleRow DEF Informed, ReserveDrawsNothing, RefundRead, Reached, Admitted

LEMMA FinishAccounts ==
  ASSUME Invariant, Accounts, Invariant', NEW t \in Txs, Finish(t), UNCHANGED <<db, today>>
  PROVE  Accounts'
<1>1. TypeInv /\ tx' = [tx EXCEPT ![t] = Idle]
  BY DEF Invariant, Finish
<1>2. Informed(t)' /\ OnlyMoves(t)
  BY <1>1, FinishInformed, FinishStands
<1>3. Idle.job.op # "reserve"
  BY IdleRow
<1> QED
  BY <1>1, <1>2, <1>3, StatementAccounts

-----------------------------------------------------------------------------
(* Starting *)

(* A transaction that starts has read nothing and locked nothing.          *)
LEMMA BeginInformed ==
  ASSUME Invariant, Accounts, NEW t \in Txs, NEW r \in TxRow, Begin(t, r),
         \A b \in Blocks : r.seen[b] = 0,
         r.job.op = "reserve" => r.want = {},
         r.job.op = "revoke" => \A b \in DOMAIN r.job.asked : b \in r.want /\ block[b].org = r.job.org,
         r.pc \in {"orgs", "commit"} => r.pc = "orgs" /\ r.mine = {} /\ OrgsOf(r) = r.orgs /\ r.job.op # "payTo"
  PROVE  Informed(t)' /\ OnlyMoves(t) /\ tx' = [tx EXCEPT ![t] = r] /\ UNCHANGED <<db, today>>
<1>1. TypeInv /\ Stands(t) /\ tx[t] = Idle /\ tx' = [tx EXCEPT ![t] = r] /\ UNCHANGED <<db, today>> /\ UNCHANGED lock
  BY DEF Invariant, Begin
<1>2. tx'[t] = r /\ block' = block /\ hold' = hold
  BY <1>1 DEF TypeInv, db
<1>3. OnlyMoves(t)
  BY <1>1, LocksKept
<1>4. \A b \in Blocks : lock'[BlockKey(b)] # t
  <2>1. tx[t].pc = "idle"
    BY <1>1, IdleRow
  <2> QED
    BY <1>1, <2>1, NothingElseAt
<1>5. AsLocked(t)' /\ ReserveDrawsNothing(t)'
  BY <1>2, <1>4 DEF AsLocked, ReserveDrawsNothing
<1>6. RefundRead(t)'
  BY <1>2 DEF RefundRead
<1>7. Reached(t)'
  <2>1. OrgsOf(r)' = OrgsOf(r) \/ r.pc \notin {"orgs", "commit"}
    BY <1>2, OrgsOfKept DEF RowsKept
  <2> QED
    BY <1>2, <2>1 DEF Reached
<1>8. Admitted(t)'
  BY <1>2 DEF Admitted
<1> QED
  BY <1>1, <1>3, <1>5, <1>6, <1>7, <1>8 DEF Informed

LEMMA BeginAccounts ==
  ASSUME Invariant, Accounts, Invariant', NEW t \in Txs, NEW r \in TxRow, Begin(t, r),
         \A b \in Blocks : r.seen[b] = 0, r.job.op # "reserve",
         r.job.op = "revoke" => \A b \in DOMAIN r.job.asked : b \in r.want /\ block[b].org = r.job.org,
         r.pc \in {"orgs", "commit"} => r.pc = "orgs" /\ r.mine = {} /\ OrgsOf(r) = r.orgs /\ r.job.op # "payTo"
  PROVE  Accounts'
<1>1. Informed(t)' /\ OnlyMoves(t) /\ tx' = [tx EXCEPT ![t] = r] /\ UNCHANGED <<db, today>>
  BY BeginInformed
<1> QED
  BY <1>1, StatementAccounts

LEMMA BeginCloseAccounts ==
  ASSUME Invariant, Accounts, Invariant', NEW t \in Txs, NEW S \in SUBSET Calls, NEW R \in SUBSET Calls,
         NEW actual \in [S -> Costs], BeginClose(t, S, R, actual)
  PROVE  Accounts'
<1> DEFINE j == [op |-> "close", settle |-> S, actual |-> actual]
           C == S \cup R
           r == [Idle EXCEPT !.job = j, !.pc = "claim", !.claim = C]
<1>1. j \in JobSet /\ j.op = "close"
  BY DEF JobSet, CloseJobs
<1>2. C \in SUBSET Calls
  OBVIOUS
<1>3. Begin(t, r)
  BY DEF BeginClose
<1> HIDE DEF j, C
<1>4. r \in TxRow
  BY <1>1, <1>2, IdleRow DEF TxRow, Stages
<1>5. r.job = j /\ r.pc = "claim" /\ r.seen = Idle.seen
  BY IdleRow DEF TxRow
<1>6. \A b \in Blocks : r.seen[b] = 0
  BY <1>5, IdleRow
<1> HIDE DEF r
<1> QED
  BY <1>1, <1>3, <1>4, <1>5, <1>6, BeginAccounts

LEMMA BeginPayToAccounts ==
  ASSUME Invariant, Accounts, Invariant', NEW t \in Txs, NEW c \in Calls, NEW payee \in Orgs,
         NEW a \in Costs, BeginPayTo(t, c, payee, a)
  PROVE  Accounts'
<1> DEFINE j == [op |-> "payTo", call |-> c, payee |-> payee, actual |-> a]
           C == {c}
           r == [Idle EXCEPT !.job = j, !.pc = "claim", !.claim = C]
<1>1. j \in JobSet /\ j.op = "payTo"
  BY DEF JobSet, PayToJobs
<1>2. C \in SUBSET Calls
  OBVIOUS
<1>3. Begin(t, r)
  BY DEF BeginPayTo
<1> HIDE DEF j, C
<1>4. r \in TxRow
  BY <1>1, <1>2, IdleRow DEF TxRow, Stages
<1>5. r.job = j /\ r.pc = "claim" /\ r.seen = Idle.seen
  BY IdleRow DEF TxRow
<1>6. \A b \in Blocks : r.seen[b] = 0
  BY <1>5, IdleRow
<1> HIDE DEF r
<1> QED
  BY <1>1, <1>3, <1>4, <1>5, <1>6, BeginAccounts

LEMMA BeginRevokeAccounts ==
  ASSUME Invariant, Accounts, Invariant', NEW t \in Txs, NEW o \in Orgs,
         NEW T \in SUBSET L!Refundable(o), NEW asked \in [T -> Targets], BeginRevoke(t, o, asked)
  PROVE  Accounts'
<1> DEFINE j == [op |-> "revoke", org |-> o, asked |-> asked]
           r == [Idle EXCEPT !.job = j, !.pc = "blocks", !.want = T]
<1>1. T \in SUBSET Blocks /\ \A b \in T : block[b].org = o
  BY Base, SameBlocks DEF L!Refundable
<1>2. j \in JobSet /\ j.op = "revoke" /\ j.org = o /\ j.asked = asked /\ DOMAIN asked = T
  BY <1>1 DEF JobSet, RevokeJobs
<1>3. Begin(t, r)
  BY <1>2 DEF BeginRevoke
<1> HIDE DEF j
<1>4. r \in TxRow
  BY <1>1, <1>2, IdleRow DEF TxRow, Stages
<1>5. r.job = j /\ r.pc = "blocks" /\ r.seen = Idle.seen /\ r.want = T
  BY IdleRow DEF TxRow
<1>6. \A b \in Blocks : r.seen[b] = 0
  BY <1>5, IdleRow
<1> HIDE DEF r
<1> QED
  BY <1>1, <1>2, <1>3, <1>4, <1>5, <1>6, BeginAccounts

LEMMA BeginTopupAccounts ==
  ASSUME Invariant, Accounts, Invariant', NEW t \in Txs, NEW o \in Orgs, NEW n \in Credits,
         NEW ref \in Refs, BeginTopup(t, o, n, ref)
  PROVE  Accounts'
<1> DEFINE j == [op |-> "fund", org |-> o, kind |-> "purchased", amount |-> n, ref |-> ref]
           r == [Idle EXCEPT !.job = j, !.pc = "ref"]
<1>1. j \in JobSet /\ j.op = "fund"
  <2>1. n \in Nat /\ "purchased" \in L!Kinds
    BY Base DEF L!LedgerAssumption, L!Kinds
  <2>2. j \in FundJobs
    BY <2>1 DEF FundJobs
  <2> QED
    BY <2>1, <2>2 DEF JobSet
<1>2. Begin(t, r)
  BY DEF BeginTopup
<1> HIDE DEF j
<1>3. r \in TxRow
  BY <1>1, IdleRow DEF TxRow, Stages
<1>4. r.job = j /\ r.pc = "ref" /\ r.seen = Idle.seen
  BY IdleRow DEF TxRow
<1>5. \A b \in Blocks : r.seen[b] = 0
  BY <1>4, IdleRow
<1> HIDE DEF r
<1> QED
  BY <1>1, <1>2, <1>3, <1>4, <1>5, BeginAccounts

LEMMA BeginGrantAccounts ==
  ASSUME Invariant, Accounts, Invariant', NEW t \in Txs, NEW o \in Orgs, NEW n \in Credits,
         BeginGrant(t, o, n)
  PROVE  Accounts'
<1> DEFINE j == [op |-> "fund", org |-> o, kind |-> "promotional", amount |-> n, ref |-> None]
           r == [Idle EXCEPT !.job = j]
           g == ToOrgs(r)
<1>1. j \in JobSet /\ j.op = "fund"
  <2>1. n \in Nat /\ "promotional" \in L!Kinds
    BY Base DEF L!LedgerAssumption, L!Kinds
  <2>2. j \in FundJobs
    BY <2>1 DEF FundJobs
  <2> QED
    BY <2>2 DEF JobSet
<1>2. Begin(t, g)
  BY DEF BeginGrant
<1> HIDE DEF j
<1>3. r \in TxRow
  BY <1>1, IdleRow DEF TxRow
<1>4. r.job = j /\ r.mine = {} /\ r.orgs = {} /\ r.seen = Idle.seen
  BY IdleRow DEF TxRow
<1> HIDE DEF r
<1>5. TypeInv /\ Equipped(r)
  BY <1>1, <1>4 DEF Invariant, Equipped
<1>6. /\ g \in TxRow /\ SameWork(r, g)
      /\ g.pc \in {"orgs", "commit"} /\ (g.pc = "orgs" <=> g.orgs # {})
      /\ OrgsOf(g) = g.orgs
  BY <1>3, <1>4, <1>5, ToOrgsRow, ToOrgsReaches
<1> HIDE DEF g
<1>7. OrgsOf(g) # {} /\ g.mine = {} /\ g.job = j
  <2>1. g.mine = {} /\ g.job = j
    BY <1>4, <1>6 DEF SameWork
  <2> QED
    BY <1>1, <2>1 DEF OrgsOf
<1>8. \A b \in Blocks : g.seen[b] = 0
  BY <1>4, <1>6, IdleRow DEF SameWork
<1>9. g.pc = "orgs"
  BY <1>6, <1>7
<1> QED
  BY <1>1, <1>2, <1>6, <1>7, <1>8, <1>9, BeginAccounts

LEMMA ToGateReaches ==
  ASSUME TypeInv, NEW r \in TxRow, r.job.op = "reserve", r.orgs = {}, r.want = {}, r.claim = {},
         ToGate(r).pc \in {"orgs", "commit"}
  PROVE  ToGate(r).pc = "orgs" /\ OrgsOf(ToGate(r)) = ToGate(r).orgs
<1> DEFINE g == ToGate(r)
<1>1. /\ g.job = r.job /\ g.mine = {}
      /\ g.pc = "claim" <=> g.claim # {}
      /\ g.pc = "orgs" <=> g.orgs # {}
      /\ r.todo # {} => g.claim = {First(r.todo)}
      /\ r.todo = {} => g.orgs = {r.job.org}
  BY ToGateRow
<1> HIDE DEF g
<1>2. g.pc # "claim"
  BY DEF g
<1>3. g.orgs = {r.job.org} /\ g.pc = "orgs"
  BY <1>1, <1>2
<1>4. OrgsOf(g) = {r.job.org}
  BY <1>1 DEF OrgsOf
<1> QED
  BY <1>3, <1>4 DEF g

(* A call that no hold, no journal entry and no session knows is nobody's. *)
LEMMA FreshIsNobodys ==
  ASSUME TypeInv, NEW c \in Calls, L!Fresh(c), NEW u \in Txs, tx[u].job.op = "reserve"
  PROVE  tx[u].job.call # c
<1> SUFFICES ASSUME tx[u].job.call = c PROVE FALSE
  OBVIOUS
<1> DEFINE v == CHOOSE w \in Txs : tx[w].job.op = "reserve" /\ tx[w].job.call = c
<1>1. v \in Txs /\ tx[v].job.op = "reserve"
  OBVIOUS
<1>2. tx[v].job.org \in Orgs
  BY <1>1, RowFields, JobFields DEF TypeInv
<1>3. Reserving[c] = [org |-> tx[v].job.org, charged |-> tx[v].job.charged, todo |-> tx[v].todo]
  BY Zenon DEF Reserving
<1> HIDE DEF v
<1>4. Reserving[c] = L!NoReserve
  BY DEF L!Fresh
<1>5. Reserving[c].org = tx[v].job.org /\ L!NoReserve.org = None
  BY <1>3 DEF L!NoReserve
<1> QED
  BY <1>2, <1>4, <1>5, Base

LEMMA BeginReserveAccounts ==
  ASSUME Invariant, Accounts, Invariant', NEW t \in Txs, NEW c \in Calls, NEW o \in Orgs,
         NEW est \in Estimates, BeginReserve(t, c, o, est)
  PROVE  Accounts'
<1> DEFINE n == L!WithMargin(est, Margin)
           j == [op |-> "reserve", call |-> c, org |-> o, charged |-> n]
           T == L!Reapable(o)
           r == [Idle EXCEPT !.job = j, !.todo = T]
           g == ToGate(r)
<1>1. n \in Nat
  <2>1. est \in Nat /\ Margin \in Nat
    BY Base DEF L!LedgerAssumption
  <2> QED
    BY <2>1, Base, L!MarginType
<1>2. Begin(t, g) /\ L!Fresh(c)
  BY DEF BeginReserve
<1> HIDE DEF n
<1>3. j \in JobSet /\ j.op = "reserve" /\ j.call = c
  BY <1>1 DEF JobSet, ReserveJobs
<1>4. T \in SUBSET Calls
  BY DEF L!Reapable
<1> HIDE DEF j, T
<1>5. r \in TxRow
  BY <1>3, <1>4, IdleRow DEF TxRow
<1>6. /\ r.job = j /\ r.claim = {} /\ r.mine = {} /\ r.want = {} /\ r.orgs = {}
      /\ r.seen = Idle.seen
  BY IdleRow DEF TxRow
<1> HIDE DEF r
<1>7. TypeInv
  BY DEF Invariant
<1>8. /\ g \in TxRow /\ g.job = j /\ g.mine = {} /\ g.want = {} /\ g.seen = r.seen
      /\ g.pc \in {"orgs", "commit"} => g.pc = "orgs" /\ OrgsOf(g) = g.orgs
  <2>1. g \in TxRow /\ g.job = j /\ g.mine = {} /\ g.want = {} /\ g.seen = r.seen
    BY <1>3, <1>5, <1>6, <1>7, ToGateRow
  <2>2. g.pc \in {"orgs", "commit"} => g.pc = "orgs" /\ OrgsOf(g) = g.orgs
    BY <1>3, <1>5, <1>6, <1>7, ToGateReaches
  <2> QED
    BY <2>1, <2>2
<1> HIDE DEF g
<1>9. \A b \in Blocks : g.seen[b] = 0
  BY <1>6, <1>8, IdleRow
<1>10. Informed(t)' /\ OnlyMoves(t) /\ tx' = [tx EXCEPT ![t] = g] /\ UNCHANGED <<db, today>>
  BY <1>2, <1>3, <1>8, <1>9, BeginInformed
<1>11. /\ tx'[t] = g /\ \A u \in Txs \ {t} : tx'[u] = tx[u]
       /\ BlocksStay /\ \A u \in Txs : Spares(u)
       /\ L!Unmoved
  BY <1>7, <1>10, StatementCalm
<1>12. L!MoneyStep /\ L!ClosesOnce'
  BY <1>7, <1>11, CallsRest DEF OpensNothing, Accounts
<1>13. ASSUME NEW u \in Txs PROVE Alone(u)'
  <2>1. hold' = hold /\ closing' = closing
    BY <1>10 DEF db
  <2>2. hold[c].org = None /\ closing[c].kind = "none"
    BY <1>2 DEF L!Fresh, L!IsOpen
  <2>3. \A v \in Txs : tx[v].job.op = "reserve" => tx[v].job.call # c
    BY <1>2, <1>7, FreshIsNobodys
  <2>4. Alone(u)
    BY DEF Accounts
  <2>5. CASE u = t
    BY <1>3, <1>8, <1>11, <2>1, <2>2, <2>3, <2>5 DEF Alone, L!IsOpen
  <2>6. CASE u # t
    BY <1>3, <1>8, <1>11, <2>1, <2>3, <2>4, <2>6 DEF Alone, L!IsOpen
  <2> QED
    BY <2>5, <2>6
<1> QED
  BY <1>10, <1>11, <1>12, <1>13, AccountsStep

LEMMA StartAccounts ==
  ASSUME Invariant, Accounts, Invariant', NEW t \in Txs, Start(t)
  PROVE  Accounts'
<1>1. ASSUME NEW C \in SUBSET Calls, NEW S \in SUBSET C, NEW actual \in [S -> Costs],
             BeginClose(t, S, C \ S, actual)
      PROVE  Accounts'
  <2>1. S \in SUBSET Calls /\ C \ S \in SUBSET Calls
    OBVIOUS
  <2> QED
    BY <1>1, <2>1, BeginCloseAccounts
<1>2. ASSUME NEW c \in Calls, NEW payee \in Orgs, NEW a \in Costs, BeginPayTo(t, c, payee, a)
      PROVE  Accounts'
  BY <1>2, BeginPayToAccounts
<1>3. ASSUME NEW c \in Calls, NEW o \in Orgs, NEW est \in Estimates, BeginReserve(t, c, o, est)
      PROVE  Accounts'
  BY <1>3, BeginReserveAccounts
<1>4. ASSUME NEW o \in Orgs, NEW T \in SUBSET L!Refundable(o), NEW asked \in [T -> Targets],
             BeginRevoke(t, o, asked)
      PROVE  Accounts'
  BY <1>4, BeginRevokeAccounts
<1>5. ASSUME NEW o \in Orgs, NEW n \in Credits, BeginGrant(t, o, n) PROVE Accounts'
  BY <1>5, BeginGrantAccounts
<1>6. ASSUME NEW o \in Orgs, NEW n \in Credits, NEW ref \in Refs, BeginTopup(t, o, n, ref)
      PROVE  Accounts'
  BY <1>6, BeginTopupAccounts
<1> QED
  BY <1>1, <1>2, <1>3, <1>4, <1>5, <1>6 DEF Start

-----------------------------------------------------------------------------
(* Acquiring locks *)

(* A row that goes on to its organizations from what it has read.          *)
LEMMA ReachesOrgs ==
  ASSUME NEW t \in Txs, NEW g, tx'[t] = g, UNCHANGED <<db, today>>,
         g.job.op = "payTo" => g.job.call \in g.mine,
         g.pc \in {"orgs", "commit"} =>
           /\ g.orgs \subseteq OrgsOf(g)
           /\ \A o \in OrgsOf(g) : o \in g.orgs \/ lock'[OrgKey(o)] = t
  PROVE  Reached(t)'
<1>1. block' = block /\ hold' = hold
  BY DEF db
<1>2. OrgsOf(g)' = OrgsOf(g)
  BY <1>1, OrgsOfKept DEF RowsKept
<1> QED
  BY <1>2 DEF Reached

LEMMA ClaimInformed ==
  ASSUME Invariant, Accounts, NEW t \in Txs, tx[t].pc = "claim", UNCHANGED <<db, today>>,
         NEW g \in TxRow, tx' = [tx EXCEPT ![t] = g], g.job = tx[t].job, g.seen = tx[t].seen,
         \A b \in Blocks : lock'[BlockKey(b)] # t,
         g.job.op = "reserve" => g.want = {},
         g.pc \in {"orgs", "commit"} => /\ OrgsOf(g) = g.orgs
                                        /\ g.job.op = "payTo" => g.job.call \in g.mine,
         g.pc = "commit" => g.mine # {}
  PROVE  Informed(t)'
<1>1. TypeInv /\ Stands(t) /\ Informed(t)
  BY DEF Invariant, Accounts
<1>2. tx'[t] = g
  BY <1>1 DEF TypeInv
<1>3. g.job.op \in {"close", "payTo", "reserve"}
  BY <1>1 DEF Stands, AtStatement
<1>4. \A b \in Blocks : g.seen[b] = 0
  BY <1>1, NothingElseAt DEF Informed, AsLocked
<1>5. AsLocked(t)' /\ ReserveDrawsNothing(t)' /\ RefundRead(t)' /\ Admitted(t)'
  BY <1>2, <1>3, <1>4 DEF AsLocked, ReserveDrawsNothing, RefundRead, Admitted
<1>6. Reached(t)'
  <2>1. CASE g.pc \in {"orgs", "commit"}
    BY <1>2, <2>1, ReachesOrgs
  <2>2. CASE g.pc \notin {"orgs", "commit"}
    BY <1>2, <2>2 DEF Reached
  <2> QED
    BY <2>1, <2>2
<1> QED
  BY <1>5, <1>6 DEF Informed

(* A sweep wants no blocks: it settles nothing.                            *)
LEMMA SweepSpendsNothing ==
  ASSUME TypeInv, NEW r \in TxRow, r.job.op = "reserve"
  PROVE  Spendable(r) = {}
<1>1. ASSUME NEW o PROVE L!Sum(Dues(r, o)) = 0
  <2>1. Settling(r, o) = {}
    BY DEF Settling, Settles
  <2>2. Dues(r, o) \in [Settling(r, o) -> Nat] /\ \A x \in Settling(r, o) : Dues(r, o)[x] = 0
    BY <2>1, DuesType
  <2> QED
    BY <2>2, Base, L!SumZero
<1> QED
  BY <1>1 DEF Spendable

LEMMA ClaimAccounts ==
  ASSUME Invariant, Accounts, Invariant', NEW t \in Txs, Claim(t)
  PROVE  Accounts'
<1> DEFINE r == tx[t]
           c == NextHold(r)
           m == IF L!IsOpen(c) THEN r.mine \cup {c} ELSE r.mine
           q == r.claim \ {c}
           s == [r EXCEPT !.claim = q, !.mine = m]
<1>1. TypeInv /\ r \in TxRow /\ AtStatement(r) /\ HoldsClaimed(t)
  BY DEF Invariant, TypeInv, Stands
<1>2. r.pc = "claim" /\ Granted(t, HoldKey(c)) /\ UNCHANGED <<db, today>>
  BY DEF Claim
<1>3. /\ r.claim \subseteq Calls /\ r.mine \subseteq Calls /\ r.todo \subseteq Calls /\ r.job \in JobSet
      /\ r.claim \subseteq Nat
  BY <1>1, RowFields, Base
<1>4. c \in r.claim
  <2>1. r.claim # {}
    BY <1>1, <1>2 DEF AtStatement
  <2> QED
    BY <1>3, <2>1, FirstIsLeast DEF NextHold
<1>5. \/ /\ s.claim # {} \/ s.mine # {}
         /\ tx' = [tx EXCEPT ![t] = IF s.claim # {} THEN s ELSE ToBlocks(s)]
         /\ lock' = IF L!IsOpen(c) THEN Locked(t, HoldKey(c)) ELSE lock
      \/ /\ s.claim = {} /\ s.mine = {} /\ r.job.op = "reserve"
         /\ tx' = [tx EXCEPT ![t] = ToGate([s EXCEPT !.todo = @ \ {c}])]
         /\ UNCHANGED lock
      \/ /\ s.claim = {} /\ s.mine = {} /\ r.job.op # "reserve"
         /\ Finish(t)
  BY DEF Claim
<1>6. r.want = {} /\ r.orgs = {} /\ r.job.op \in {"close", "payTo", "reserve"}
  BY <1>1, <1>2, <1>4 DEF AtStatement
<1>7. \A b \in Blocks : lock[BlockKey(b)] # t
  BY <1>2, NothingElseAt
<1>8. /\ \A x \in m : L!IsOpen(x)
      /\ r.job.op = "payTo" => q \cup m \subseteq {r.job.call}
  BY <1>1, <1>4 DEF HoldsClaimed, AtStatement
<1> HIDE DEF c, r
<1>9. q \in SUBSET Calls /\ m \in SUBSET Calls
  BY <1>3, <1>4
<1> HIDE DEF m, q
<1>10. s \in TxRow
  BY <1>1, <1>9 DEF TxRow
<1>11. /\ s.job = r.job /\ s.pc = r.pc /\ s.claim = q /\ s.mine = m /\ s.want = {} /\ s.orgs = {}
       /\ s.todo = r.todo /\ s.seen = r.seen
  BY <1>1, <1>6 DEF TxRow
<1> HIDE DEF s
(* The lock it takes is no block's.                                         *)
<1>12. ASSUME lock' = IF L!IsOpen(c) THEN Locked(t, HoldKey(c)) ELSE lock
       PROVE  OnlyMoves(t) /\ \A b \in Blocks : lock'[BlockKey(b)] # t
  <2>1. HoldKey(c) \in Keys
    BY <1>3, <1>4, KeyTypes
  <2>2. CASE L!IsOpen(c)
    <3>1. Takes(t, HoldKey(c)) /\ OnlyMoves(t)
      BY <1>1, <1>2, <1>12, <2>1, <2>2, LockTaken
    <3> QED
      BY <1>7, <3>1, LockKinds, KeysDiffer
  <2>3. CASE ~L!IsOpen(c)
    BY <1>1, <1>7, <1>12, <2>3, LocksKept
  <2> QED
    BY <2>2, <2>3
<1>13. CASE /\ s.claim # {}
            /\ tx' = [tx EXCEPT ![t] = IF s.claim # {} THEN s ELSE ToBlocks(s)]
            /\ lock' = IF L!IsOpen(c) THEN Locked(t, HoldKey(c)) ELSE lock
  <2>1. tx' = [tx EXCEPT ![t] = s]
    BY <1>13
  <2>2. Informed(t)'
    BY <1>2, <1>10, <1>11, <1>12, <1>13, <2>1, ClaimInformed DEF r
  <2> QED
    BY <1>2, <1>11, <1>12, <1>13, <2>1, <2>2, StatementAccounts DEF r
<1>14. CASE /\ s.claim = {} /\ s.mine # {}
            /\ tx' = [tx EXCEPT ![t] = IF s.claim # {} THEN s ELSE ToBlocks(s)]
            /\ lock' = IF L!IsOpen(c) THEN Locked(t, HoldKey(c)) ELSE lock
  <2> DEFINE g == ToBlocks(s)
  <2>1. tx' = [tx EXCEPT ![t] = g]
    BY <1>14
  <2>2. Equipped(s) /\ (r.job.op = "payTo" => s.mine = {r.job.call})
    BY <1>6, <1>8, <1>11, <1>14 DEF Equipped
  <2>3. /\ g \in TxRow /\ SameWork(s, g) /\ g.want = Spendable(s)
        /\ g.pc \in {"blocks", "orgs", "commit"}
        /\ g.pc = "blocks" <=> g.want # {}
        /\ g.want = {} => g = ToOrgs([s EXCEPT !.began = today])
    BY <1>1, <1>10, <1>11, <2>2, ToBlocksRow
  <2>4. g.want = {} => OrgsOf(g) = g.orgs
    <3> DEFINE p == [s EXCEPT !.began = today]
    <3>1. p \in TxRow
      BY <1>1, <1>10 DEF TxRow, TypeInv, L!TypeOK
    <3>2. p.job = s.job /\ p.mine = s.mine /\ p.orgs = {}
      BY <1>10, <1>11 DEF TxRow
    <3> HIDE DEF p
    <3>3. Equipped(p)
      BY <2>2, <3>2 DEF Equipped
    <3>4. OrgsOf(ToOrgs(p)) = ToOrgs(p).orgs
      BY <1>1, <3>1, <3>2, <3>3, ToOrgsReaches
    <3> QED
      BY <2>3, <3>4 DEF p
  <2>5. s.job.op = "reserve" => g.want = {}
    BY <1>1, <1>10, <2>3, SweepSpendsNothing
  <2> HIDE DEF g
  <2>6. /\ g.job = r.job /\ g.seen = r.seen /\ g.mine = s.mine
        /\ g.pc \in {"orgs", "commit"} => OrgsOf(g) = g.orgs
    BY <1>11, <2>3, <2>4 DEF SameWork
  <2>7. g.pc \in {"orgs", "commit"} => /\ OrgsOf(g) = g.orgs
                                      /\ (g.job.op = "payTo" => g.job.call \in g.mine)
    BY <2>2, <2>6
  <2>8. (g.job.op = "reserve" => g.want = {}) /\ g.mine # {}
    BY <1>11, <1>14, <2>5, <2>6
  <2>9. Informed(t)'
    BY <1>2, <1>12, <1>14, <2>1, <2>3, <2>6, <2>7, <2>8, ClaimInformed DEF r
  <2> QED
    BY <1>2, <1>12, <1>14, <2>1, <2>6, <2>9, StatementAccounts DEF r
<1>15. CASE /\ s.claim = {} /\ s.mine = {} /\ r.job.op = "reserve"
            /\ tx' = [tx EXCEPT ![t] = ToGate([s EXCEPT !.todo = @ \ {c}])]
            /\ UNCHANGED lock
  <2> DEFINE T == s.todo \ {c}
             p == [s EXCEPT !.todo = T]
             g == ToGate(p)
  <2>1. tx' = [tx EXCEPT ![t] = g]
    BY <1>15
  <2>2. p \in TxRow
    <3>1. T \in SUBSET Calls
      BY <1>3, <1>11
    <3> HIDE DEF T
    <3> QED
      BY <1>10, <3>1 DEF TxRow
  <2>3. p.job = r.job /\ p.claim = {} /\ p.want = {} /\ p.orgs = {} /\ p.seen = r.seen
    BY <1>10, <1>11, <1>15 DEF TxRow
  <2> HIDE DEF p
  <2>4. /\ g \in TxRow /\ g.job = r.job /\ g.mine = {} /\ g.want = {} /\ g.seen = r.seen
    BY <1>1, <1>15, <2>2, <2>3, ToGateRow
  <2>5. g.pc \in {"orgs", "commit"} => g.pc = "orgs" /\ OrgsOf(g) = g.orgs
    BY <1>1, <1>15, <2>2, <2>3, ToGateReaches
  <2> HIDE DEF g
  <2>6. OnlyMoves(t) /\ \A b \in Blocks : lock'[BlockKey(b)] # t
    BY <1>1, <1>7, <1>15, LocksKept
  <2>7. Informed(t)'
    BY <1>2, <1>15, <2>1, <2>4, <2>5, <2>6, ClaimInformed DEF r
  <2> QED
    BY <1>2, <2>1, <2>4, <2>6, <2>7, StatementAccounts DEF r
<1>16. CASE Finish(t)
  BY <1>2, <1>16, FinishAccounts
<1> QED
  BY <1>5, <1>13, <1>14, <1>15, <1>16

LEMMA LockBlockAccounts ==
  ASSUME Invariant, Accounts, Invariant', NEW t \in Txs, LockBlock(t)
  PROVE  Accounts'
<1> DEFINE r == tx[t]
           b == NextBlock(r)
           w == r.want \ {b}
           v == [r.seen EXCEPT ![b] = block[b].remaining]
           s == [r EXCEPT !.want = w, !.seen = v]
           g == IF w # {} THEN s ELSE ToOrgs(s)
<1>1. TypeInv /\ r \in TxRow /\ AtStatement(r) /\ Stands(t) /\ Informed(t)
  BY DEF Invariant, TypeInv, Stands, Accounts
<1>2. /\ r.pc = "blocks" /\ Granted(t, BlockKey(b)) /\ UNCHANGED <<db, today>>
      /\ lock' = Locked(t, BlockKey(b))
      /\ tx' = [tx EXCEPT ![t] = IF s.want # {} THEN s ELSE ToOrgs(s)]
  BY DEF LockBlock
<1>3. /\ r.want \subseteq Blocks /\ r.seen \in [Blocks -> Nat] /\ r.want # {}
      /\ \A x \in r.want : L!IsBlock(x)
  BY <1>1, <1>2, RowFields DEF AtStatement, Stands, BlocksLocked
<1>4. b \in r.want /\ b \in Blocks /\ BlockKey(b) \in Keys
  BY <1>1, <1>3, NextBlockIsFirst, KeyTypes
<1>5. r.orgs = {} /\ r.claim = {} /\ r.job.op # "none"
  BY <1>1, <1>2 DEF AtStatement
<1>6. r.job.op # "reserve"
  BY <1>1, <1>4 DEF Informed, ReserveDrawsNothing
<1> HIDE DEF b
<1>7. w \in SUBSET Blocks /\ v \in [Blocks -> Nat]
  BY <1>1, <1>3, <1>4, BlockOwner
<1> HIDE DEF w
<1>8. s \in TxRow
  <2> HIDE DEF v
  <2> QED
    BY <1>1, <1>7 DEF TxRow
<1>9. s.job = r.job /\ s.pc = r.pc /\ s.mine = r.mine /\ s.want = w /\ s.orgs = {} /\ s.seen = v
  <2> HIDE DEF v
  <2> QED
    BY <1>1, <1>5 DEF TxRow
<1> HIDE DEF s
<1>10. /\ OnlyMoves(t)
       /\ \A x \in Blocks : lock'[BlockKey(x)] = t <=> x = b \/ lock[BlockKey(x)] = t
  BY <1>1, <1>2, <1>4, LockTaken, LockKinds, KeysDiffer
<1>11. block' = block
  BY <1>2 DEF db
<1>12. Equipped(s) /\ (r.job.op = "payTo" => s.mine = {r.job.call})
  BY <1>1, <1>5, <1>9 DEF Equipped, Stands, HoldsClaimed, AtStatement
<1>13. /\ g.job = r.job /\ g.seen = v /\ g.mine = s.mine /\ g.want = w
       /\ g.pc \in {"orgs", "commit"} => OrgsOf(g) = g.orgs
       /\ g.pc # "commit" \/ g.job.op # "reserve"
  <2>1. CASE w # {}
    BY <1>2, <1>9, <2>1
  <2>2. CASE w = {}
    <3>1. SameWork(s, ToOrgs(s)) /\ ToOrgs(s).want = s.want /\ OrgsOf(ToOrgs(s)) = ToOrgs(s).orgs
      BY <1>1, <1>8, <1>9, <1>12, ToOrgsRow, ToOrgsReaches
    <3> QED
      BY <1>6, <1>9, <2>2, <3>1 DEF SameWork
  <2> QED
    BY <2>1, <2>2
<1>14. tx' = [tx EXCEPT ![t] = g] /\ tx'[t] = g
  BY <1>1, <1>2, <1>9 DEF TypeInv
<1> HIDE DEF g
<1>15. AsLocked(t)'
  <2>1. ASSUME NEW x \in Blocks
        PROVE  v[x] = IF lock'[BlockKey(x)] = t THEN block[x].remaining ELSE 0
    BY <1>1, <1>3, <1>10 DEF Informed, AsLocked
  <2> QED
    BY <1>11, <1>13, <1>14, <2>1 DEF AsLocked
<1> HIDE DEF v
<1>16. RefundRead(t)'
  <2> SUFFICES ASSUME r.job.op = "revoke", NEW x \in DOMAIN r.job.asked
               PROVE  block[x].org = r.job.org /\ (x \in w \/ lock'[BlockKey(x)] = t)
    BY <1>11, <1>13, <1>14 DEF RefundRead
  <2>1. x \in Blocks
    BY <1>1, RowFields, JobFields
  <2>2. block[x].org = r.job.org /\ (x \in r.want \/ lock[BlockKey(x)] = t)
    BY <1>1 DEF Informed, RefundRead
  <2> QED
    BY <1>10, <2>1, <2>2 DEF w
<1>17. Reached(t)'
  BY <1>2, <1>9, <1>12, <1>13, <1>14, ReachesOrgs
<1>18. ReserveDrawsNothing(t)' /\ Admitted(t)'
  BY <1>6, <1>13, <1>14 DEF ReserveDrawsNothing, Admitted
<1>19. Informed(t)'
  BY <1>15, <1>16, <1>17, <1>18 DEF Informed
<1> QED
  BY <1>2, <1>10, <1>13, <1>14, <1>19, StatementAccounts

LEMMA InsertRefAccounts ==
  ASSUME Invariant, Accounts, Invariant', NEW t \in Txs, InsertRef(t)
  PROVE  Accounts'
<1> DEFINE r == tx[t]
           f == r.job.ref
           g == ToOrgs(r)
<1>1. TypeInv /\ r \in TxRow /\ AtStatement(r) /\ Stands(t) /\ Informed(t)
  BY DEF Invariant, TypeInv, Stands, Accounts
<1>2. /\ r.pc = "ref" /\ Granted(t, RefKey(f)) /\ UNCHANGED <<db, today>>
      /\ \/ lock' = Locked(t, RefKey(f)) /\ tx' = [tx EXCEPT ![t] = g]
         \/ Finish(t)
  BY DEF InsertRef
<1>3. CASE Finish(t)
  BY <1>2, <1>3, FinishAccounts
<1>4. CASE lock' = Locked(t, RefKey(f)) /\ tx' = [tx EXCEPT ![t] = g]
  <2>1. r.job.op = "fund" /\ f # None /\ r.mine = {} /\ r.orgs = {}
    BY <1>1, <1>2 DEF AtStatement
  <2>2. f \in Refs /\ RefKey(f) \in Keys
    <3>1. r.job \in JobSet
      BY <1>1, RowFields
    <3> QED
      BY <2>1, <3>1, JobFields, KeyTypes
  <2>3. Equipped(r)
    BY <2>1 DEF Equipped
  <2>4. SameWork(r, g) /\ OrgsOf(g) = g.orgs
    BY <1>1, <2>1, <2>3, ToOrgsRow, ToOrgsReaches
  <2> HIDE DEF f, g
  <2>5. tx'[t] = g /\ block' = block
    BY <1>1, <1>2, <1>4 DEF TypeInv, db
  <2>6. /\ OnlyMoves(t)
        /\ \A b \in Blocks : lock'[BlockKey(b)] = t <=> lock[BlockKey(b)] = t
    BY <1>1, <1>2, <1>4, <2>2, LockTaken, LockKinds, KeysDiffer
  <2>7. AsLocked(t)'
    BY <1>1, <2>4, <2>5, <2>6 DEF Informed, AsLocked, SameWork
  <2>8. Reached(t)'
    BY <1>2, <2>1, <2>4, <2>5, ReachesOrgs DEF SameWork
  <2>9. ReserveDrawsNothing(t)' /\ RefundRead(t)' /\ Admitted(t)'
    BY <2>1, <2>4, <2>5 DEF SameWork, ReserveDrawsNothing, RefundRead, Admitted
  <2>10. Informed(t)'
    BY <2>7, <2>8, <2>9 DEF Informed
  <2> QED
    BY <1>2, <1>4, <2>4, <2>6, <2>10, StatementAccounts DEF SameWork
<1> QED
  BY <1>2, <1>3, <1>4

LEMMA LockOrgAccounts ==
  ASSUME Invariant, Accounts, Invariant', NEW t \in Txs, LockOrg(t)
  PROVE  Accounts'
<1> DEFINE r == tx[t]
           o == NextOrg(r)
           gate == r.job.op = "reserve" /\ r.mine = {}
           q == r.orgs \ {o}
           s == [r EXCEPT !.orgs = q]
           e == IF gate THEN today ELSE s.began
           g == IF q # {} THEN s ELSE [s EXCEPT !.pc = "commit", !.began = e]
<1>1. TypeInv /\ r \in TxRow /\ AtStatement(r) /\ Stands(t) /\ Informed(t)
  BY DEF Invariant, TypeInv, Stands, Accounts
<1>2. s.orgs = q
  BY <1>1 DEF TxRow
<1>3. /\ r.pc = "orgs" /\ Granted(t, OrgKey(o)) /\ UNCHANGED <<db, today>>
      /\ \/ /\ gate => L!Affords(o, r.job.charged)
            /\ lock' = Locked(t, OrgKey(o)) /\ tx' = [tx EXCEPT ![t] = g]
         \/ Finish(t)
  BY <1>2 DEF LockOrg
<1>4. CASE Finish(t)
  BY <1>3, <1>4, FinishAccounts
<1>5. CASE /\ gate => L!Affords(o, r.job.charged)
           /\ lock' = Locked(t, OrgKey(o)) /\ tx' = [tx EXCEPT ![t] = g]
  <2>1. r.orgs \subseteq Orgs /\ r.orgs # {} /\ r.claim = {} /\ r.want = {} /\ r.job.op # "none"
    BY <1>1, <1>3, RowFields DEF AtStatement
  <2>2. o \in r.orgs /\ o \in Orgs
    BY <2>1, Base, FirstIsLeast DEF NextOrg
  <2> HIDE DEF o
  <2>3. s.job = r.job /\ s.pc = r.pc /\ s.mine = r.mine /\ s.seen = r.seen /\ s.want = r.want
        /\ s.stamp = r.stamp
    BY <1>1 DEF TxRow
  <2>4. s \in TxRow
    BY <1>1, <2>1 DEF TxRow
  <2> HIDE DEF s, e, q
  <2>5. /\ g.job = r.job /\ g.mine = r.mine /\ g.seen = r.seen /\ g.want = r.want
        /\ g.stamp = r.stamp /\ g.orgs = q
        /\ g.pc = "commit" => q = {}
    <3>1. CASE q # {}
      BY <1>2, <1>3, <2>3, <3>1
    <3>2. CASE q = {}
      <4>1. g = [s EXCEPT !.pc = "commit", !.began = e]
        BY <3>2
      <4>2. /\ g.job = s.job /\ g.mine = s.mine /\ g.seen = s.seen /\ g.want = s.want
            /\ g.stamp = s.stamp /\ g.orgs = s.orgs
        BY <2>4, <4>1 DEF TxRow
      <4> QED
        BY <1>2, <2>3, <3>2, <4>2
    <3> QED
      BY <3>1, <3>2
  <2> HIDE DEF g
  <2>6. tx'[t] = g /\ block' = block /\ balance' = balance
    BY <1>1, <1>3, <1>5 DEF TypeInv, db
  <2>7. /\ OnlyMoves(t)
        /\ \A b \in Blocks : lock'[BlockKey(b)] = t <=> lock[BlockKey(b)] = t
        /\ \A p \in Orgs : lock'[OrgKey(p)] = t <=> p = o \/ lock[OrgKey(p)] = t
    BY <1>1, <1>3, <1>5, <2>2, LockTaken, LockKinds, KeysDiffer, KeyTypes
  <2>8. OrgsOf(g) = OrgsOf(r)
    BY <2>5, SameOrgs DEF OrgsOfArgs
  <2>9. Equipped(r) /\ (r.job.op = "payTo" => r.mine = {r.job.call})
    BY <1>1, <2>1 DEF Equipped, Stands, HoldsClaimed, AtStatement
  <2>10. Reached(t)'
    <3>1. OrgsOf(r) \subseteq Orgs
      BY <1>1, <2>9, OrgsOfType
    <3>2. r.orgs \subseteq OrgsOf(r) /\ \A p \in OrgsOf(r) : p \in r.orgs \/ lock[OrgKey(p)] = t
      BY <1>1, <1>3 DEF Informed, Reached
    <3>3. g.orgs \subseteq OrgsOf(g) /\ \A p \in OrgsOf(g) : p \in g.orgs \/ lock'[OrgKey(p)] = t
      BY <2>5, <2>7, <2>8, <3>1, <3>2 DEF q
    <3> QED
      BY <1>3, <2>5, <2>6, <2>9, <3>3, ReachesOrgs
  <2>11. Admitted(t)'
    <3> SUFFICES ASSUME g.pc = "commit", gate
                 PROVE  balance[r.job.org] >= r.job.charged
      BY <2>5, <2>6 DEF Admitted
    <3>1. OrgsOf(r) = {r.job.org}
      BY DEF OrgsOf
    <3>2. r.job.org = o
      BY <1>1, <1>3, <2>2, <3>1 DEF Informed, Reached
    <3> QED
      BY <1>5, <3>2 DEF L!Affords
  <2>12. AsLocked(t)' /\ ReserveDrawsNothing(t)' /\ RefundRead(t)'
    <3>1. AsLocked(t)'
      BY <1>1, <2>5, <2>6, <2>7 DEF Informed, AsLocked
    <3>2. ReserveDrawsNothing(t)'
      BY <1>1, <2>5, <2>6, <2>7 DEF Informed, ReserveDrawsNothing
    <3>3. ASSUME r.job.op = "revoke", NEW x \in DOMAIN r.job.asked
          PROVE  x \in Blocks /\ block[x].org = r.job.org /\ (x \in r.want \/ lock[BlockKey(x)] = t)
      <4>1. x \in Blocks
        BY <1>1, <3>3, RowFields, JobFields
      <4> QED
        BY <1>1, <3>3, <4>1 DEF Informed, RefundRead
    <3>4. RefundRead(t)'
      BY <2>5, <2>6, <2>7, <3>3 DEF RefundRead
    <3> QED
      BY <3>1, <3>2, <3>4
  <2>13. Informed(t)'
    BY <2>10, <2>11, <2>12 DEF Informed
  <2> QED
    BY <1>3, <1>5, <2>5, <2>7, <2>13, StatementAccounts
<1> QED
  BY <1>3, <1>4, <1>5

-----------------------------------------------------------------------------
(* Committing *)

(* A close as Ledger sees it: what it settles and releases, what it charges*)
(* and what it takes from the blocks.                                      *)
SettledBy(r) == {c \in r.mine : Settles(r, c)}
ReleasedBy(r) == r.mine \ SettledBy(r)
ChargedBy(r) == [c \in Calls |-> IF c \in SettledBy(r) THEN Drawn(r, c) ELSE 0]
TakenBy(r) == [b \in L!BlockIds |-> IF L!IsBlock(b) THEN Take(r, block[b].org)[b] ELSE 0]

LEMMA CloseParts ==
  ASSUME TypeInv, NEW r \in TxRow
  PROVE  /\ SettledBy(r) \in SUBSET Calls /\ ReleasedBy(r) \in SUBSET Calls
         /\ SettledBy(r) \cap ReleasedBy(r) = {} /\ SettledBy(r) \cup ReleasedBy(r) = r.mine
         /\ ChargedBy(r) \in L!Amounts /\ TakenBy(r) \in L!Takes
<1>1. r.mine \subseteq Calls
  BY RowFields
<1>2. ChargedBy(r) \in [Calls -> Nat]
  BY <1>1, DrawnType DEF ChargedBy, SettledBy
<1>3. TakenBy(r) \in [L!BlockIds -> Nat]
  BY TakeType, SameBlocks DEF TakenBy
<1> QED
  BY <1>1, <1>2, <1>3 DEF SettledBy, ReleasedBy, L!Amounts, L!Takes

(* What is taken from the blocks of an organization is what its holds are  *)
(* charged: both loops stop at the lesser of what is due and what is there.*)
LEMMA TakenIsCharged ==
  ASSUME TypeInv, NEW r \in TxRow, NEW o \in Orgs
  PROVE  /\ L!Sum(L!TakenFrom(TakenBy(r), o)) = L!Sum(Consumed(r, o))
         /\ L!Sum(L!ChargedTo(SettledBy(r), ChargedBy(r), o)) = L!Sum(Consumed(r, o))
         /\ L!Sum(Consumed(r, o)) \in Nat
<1> DEFINE f == L!TakenFrom(TakenBy(r), o)
           g == L!ChargedTo(SettledBy(r), ChargedBy(r), o)
           S == Settling(r, o)
<1>1. /\ Take(r, o) \in [Blocks -> Nat] /\ \A b \in Blocks : Take(r, o)[b] <= Read(r, o)[b]
      /\ L!Sum(Take(r, o)) = L!Lesser(L!Sum(Dues(r, o)), L!Sum(Read(r, o)))
  BY TakeType
<1>2. /\ Consumed(r, o) \in [S -> Nat] /\ S \in SUBSET Calls
      /\ L!Sum(Consumed(r, o)) = L!Lesser(L!Sum(Read(r, o)), L!Sum(Dues(r, o)))
  BY ConsumedType, DuesType
<1>3. L!Sum(Read(r, o)) \in Nat /\ L!Sum(Dues(r, o)) \in Nat
  BY ReadType, DuesType
<1>4. L!Sum(Take(r, o)) = L!Sum(Consumed(r, o)) /\ L!Sum(Consumed(r, o)) \in Nat
  BY <1>1, <1>2, <1>3 DEF L!Lesser
<1>5. f = Take(r, o)
  <2>1. ASSUME NEW b \in Blocks PROVE f[b] = Take(r, o)[b]
    <3>1. CASE block[b].org = o
      <4>1. L!IsBlock(b)
        BY <3>1, Base DEF L!IsBlock
      <4> QED
        BY <3>1, <4>1, SameBlocks DEF L!TakenFrom, TakenBy
    <3>2. CASE block[b].org # o
      <4>1. Read(r, o)[b] = 0
        BY <3>2 DEF Read
      <4>2. Take(r, o)[b] = 0
        BY <1>1, <4>1
      <4> QED
        BY <3>2, <4>2, SameBlocks DEF L!TakenFrom
    <3> QED
      BY <3>1, <3>2
  <2>2. f = [b \in Blocks |-> f[b]]
    BY SameBlocks DEF L!TakenFrom
  <2> HIDE DEF f
  <2> QED
    BY <1>1, <2>1, <2>2
<1>6. ASSUME NEW c \in Calls
      PROVE  g[c] = IF c \in S THEN Consumed(r, o)[c] ELSE 0
  BY DEF L!ChargedTo, SettledBy, ChargedBy, Settling, Drawn
<1>7. g \in [Calls -> Nat]
  <2>1. g = [c \in Calls |-> g[c]]
    BY DEF L!ChargedTo
  <2> HIDE DEF g
  <2> QED
    BY <1>2, <1>6, <2>1
<1> HIDE DEF g, S
<1>8. L!Sum(g) = L!Sum(Consumed(r, o))
  <2> DEFINE h == Consumed(r, o)
  <2>1. h \in [S -> Nat] /\ S \in SUBSET Calls
    BY <1>2
  <2>2. \A c \in S : h[c] = g[c]
    BY <1>2, <1>6
  <2>3. \A c \in Calls \ S : g[c] = 0
    BY <1>6
  <2> HIDE DEF h
  <2>4. L!Restricts(g, Calls, h, S)
    BY <1>7, <2>1, <2>2, <2>3 DEF L!Restricts
  <2> QED
    BY <2>4, Base, L!SumRestricted DEF h
<1> QED
  BY <1>4, <1>5, <1>8 DEF g

LEMMA RefundedAsKept ==
  ASSUME TypeInv, NEW r \in TxRow, NEW o \in Orgs
  PROVE  Refunded(r)[o] = L!Kept(SettledBy(r), ReleasedBy(r), ChargedBy(r), o)
<1> DEFINE S == {x \in r.mine : hold[x].org = o}
           f == [c \in S |-> hold[c].amount]
           g == L!FreedOf(r.mine, o)
<1>1. r.mine \subseteq Calls /\ S \in SUBSET Calls
  BY RowFields
<1>2. f \in [S -> Nat]
  BY <1>1, HoldFields
<1>3. g \in [Calls -> Nat]
  BY HoldFields DEF L!FreedOf
<1>4. /\ \A c \in S : f[c] = g[c]
      /\ \A c \in Calls \ S : g[c] = 0
  BY <1>1 DEF L!FreedOf
<1> HIDE DEF f, g
<1>5. L!Sum(f) = L!Sum(g)
  <2>1. S \in SUBSET Calls
    BY <1>1
  <2> HIDE DEF S
  <2>2. L!Restricts(g, Calls, f, S)
    BY <1>2, <1>3, <1>4, <2>1 DEF L!Restricts
  <2> QED
    BY <2>2, Base, L!SumRestricted
<1>6. SettledBy(r) \cup ReleasedBy(r) = r.mine
  BY CloseParts
<1>7. L!Sum(L!ChargedTo(SettledBy(r), ChargedBy(r), o)) = L!Sum(Consumed(r, o))
  BY TakenIsCharged
<1>8. Refunded(r)[o] = balance[o] + L!Sum(f) - L!Sum(Consumed(r, o))
  BY DEF Refunded, f
<1> QED
  BY <1>5, <1>6, <1>7, <1>8 DEF L!Kept, g

(* Remaining credit is written back as an absolute value, the value it     *)
(* still has less what was taken: the block has been locked since.         *)
LEMMA TakenFromLocked ==
  ASSUME TypeInv, NEW t \in Txs, AsLocked(t), NEW b \in Blocks
  PROVE  /\ TakenBy(tx[t])[b] \in Nat /\ TakenBy(tx[t])[b] <= block[b].remaining
         /\ ~L!IsBlock(b) => TakenBy(tx[t])[b] = 0
         /\ TakenBy(tx[t])[b] > 0 => lock[BlockKey(b)] = t
         /\ DrawnBlocks(tx[t])[b] = [block[b] EXCEPT !.remaining = block[b].remaining - TakenBy(tx[t])[b]]
<1> DEFINE r == tx[t]
           n == TakenBy(r)[b]
<1>1. r \in TxRow /\ block[b] \in L!BlockRow /\ block[b].remaining \in Nat
  BY BlockOwner DEF TypeInv
<1>2. r.seen[b] \in Nat /\ r.seen[b] = IF lock[BlockKey(b)] = t THEN block[b].remaining ELSE 0
  BY <1>1, RowFields DEF AsLocked
<1>3. n = IF L!IsBlock(b) THEN Take(r, block[b].org)[b] ELSE 0
  BY SameBlocks DEF TakenBy
<1>4. /\ Take(r, block[b].org)[b] \in Nat
      /\ Take(r, block[b].org)[b] <= r.seen[b]
  BY <1>1, TakeType DEF Read
<1>5. DrawnBlocks(r)[b] = IF L!IsBlock(b) /\ Take(r, block[b].org)[b] > 0
                          THEN [block[b] EXCEPT !.remaining = r.seen[b] - Take(r, block[b].org)[b]]
                          ELSE block[b]
  BY DEF DrawnBlocks
<1> HIDE DEF n, r
<1>6. n \in Nat /\ n <= r.seen[b] /\ (~L!IsBlock(b) => n = 0)
  BY <1>2, <1>3, <1>4
<1>7. n > 0 => lock[BlockKey(b)] = t /\ r.seen[b] = block[b].remaining
  BY <1>2, <1>6
<1>8. n <= block[b].remaining
  BY <1>1, <1>2, <1>6, <1>7
<1>9. DrawnBlocks(r)[b] = [block[b] EXCEPT !.remaining = block[b].remaining - n]
  <2>1. CASE n > 0
    BY <1>3, <1>5, <1>7, <2>1
  <2>2. CASE n = 0
    <3>1. DrawnBlocks(r)[b] = block[b]
      BY <1>3, <1>4, <1>5, <2>2
    <3>2. block[b].remaining - n = block[b].remaining
      BY <1>1, <2>2
    <3> QED
      BY <1>1, <3>1, <3>2 DEF L!BlockRow
  <2> QED
    BY <1>6, <2>1, <2>2
<1> QED
  BY <1>6, <1>7, <1>8, <1>9 DEF n, r

LEMMA DrawnAsTaken ==
  ASSUME TypeInv, NEW t \in Txs, AsLocked(t)
  PROVE  DrawnBlocks(tx[t]) = L!Drawn(TakenBy(tx[t]))
<1> DEFINE new == DrawnBlocks(tx[t])
<1>1. new = [b \in Blocks |-> new[b]]
  BY DEF DrawnBlocks
<1> HIDE DEF new
<1>2. \A b \in Blocks : new[b] = [block[b] EXCEPT !.remaining = block[b].remaining - TakenBy(tx[t])[b]]
  BY TakenFromLocked DEF new
<1>3. new = [b \in Blocks |-> [block[b] EXCEPT !.remaining = block[b].remaining - TakenBy(tx[t])[b]]]
  BY <1>1, <1>2
<1> QED
  BY <1>3, SameBlocks DEF L!Drawn, new

LEMMA CloseRows ==
  ASSUME TypeInv, NEW r \in TxRow, \A c \in r.mine : L!IsOpen(c), CloseMine(r)
  PROVE  L!HoldsClosed(SettledBy(r), ReleasedBy(r), ChargedBy(r))
<1>1. /\ SettledBy(r) \cap ReleasedBy(r) = {} /\ SettledBy(r) \cup ReleasedBy(r) = r.mine
      /\ SettledBy(r) \subseteq Calls /\ r.mine \subseteq Calls
  BY CloseParts, RowFields
<1>2. hold' = [c \in Calls |-> IF c \in r.mine THEN L!NoHold ELSE hold[c]]
  BY Zenon DEF CloseMine
<1> DEFINE entry(c) == [kind |-> IF Settles(r, c) THEN "settle" ELSE "release",
                        org |-> hold[c].org, reserved |-> hold[c].amount,
                        amount |-> IF Settles(r, c) THEN Drawn(r, c) ELSE hold[c].amount,
                        day |-> r.began]
<1>3. closing' = [c \in Calls |-> IF c \in r.mine THEN entry(c) ELSE closing[c]]
  BY Zenon DEF CloseMine
<1>4. ASSUME NEW c \in SettledBy(r)
      PROVE  /\ closing'[c].kind = "settle" /\ closing'[c].org = hold[c].org
             /\ closing'[c].reserved = hold[c].amount /\ closing'[c].amount = ChargedBy(r)[c]
  <2>1. c \in r.mine /\ c \in Calls /\ Settles(r, c) /\ ChargedBy(r)[c] = Drawn(r, c)
    BY <1>1 DEF SettledBy, ChargedBy
  <2>2. closing'[c] = entry(c)
    BY <1>3, <2>1
  <2> QED
    BY <2>1, <2>2
<1>5. ASSUME NEW c \in ReleasedBy(r)
      PROVE  closing'[c].kind = "release"
  <2>1. c \in r.mine /\ c \in Calls /\ ~Settles(r, c)
    BY <1>1 DEF SettledBy, ReleasedBy
  <2>2. closing'[c] = entry(c)
    BY <1>3, <2>1
  <2> QED
    BY <2>1, <2>2
<1> HIDE DEF entry
<1>6. \A c \in Calls \ r.mine : closing'[c] = closing[c]
  BY <1>3
<1> QED
  BY <1>1, <1>2, <1>4, <1>5, <1>6 DEF L!HoldsClosed

(* The money of a close: what its blocks lose is what its holds are        *)
(* charged, and the rest of what was held is paid back.                    *)
LEMMA DrawnMoney ==
  ASSUME TypeInv, NEW t \in Txs, AsLocked(t),
         block' = DrawnBlocks(tx[t]), \A o \in Orgs : balance'[o] = Refunded(tx[t])[o]
  PROVE  L!MoneyDrawn(SettledBy(tx[t]), ReleasedBy(tx[t]), ChargedBy(tx[t]), TakenBy(tx[t]))
<1>1. tx[t] \in TxRow
  BY DEF TypeInv
<1>2. /\ \A b \in L!BlockIds : /\ TakenBy(tx[t])[b] <= block[b].remaining
                               /\ ~L!IsBlock(b) => TakenBy(tx[t])[b] = 0
      /\ block' = L!Drawn(TakenBy(tx[t]))
  BY TakenFromLocked, DrawnAsTaken, SameBlocks
<1>3. \A o \in Orgs : L!Sum(L!TakenFrom(TakenBy(tx[t]), o))
                      = L!Sum(L!ChargedTo(SettledBy(tx[t]), ChargedBy(tx[t]), o))
  BY <1>1, TakenIsCharged
<1>4. \A o \in Orgs : balance'[o] = L!Kept(SettledBy(tx[t]), ReleasedBy(tx[t]), ChargedBy(tx[t]), o)
  BY <1>1, RefundedAsKept
<1> QED
  BY <1>2, <1>3, <1>4 DEF L!MoneyDrawn

(* ... and what a seller earns becomes a block of its own.                 *)
LEMMA EarnedMoney ==
  ASSUME TypeInv, NEW t \in Txs, AsLocked(t), NEW payee \in Orgs, NEW n \in Nat,
         NEW b \in Blocks, L!NextBlock(b),
         block' = [DrawnBlocks(tx[t]) EXCEPT ![b] = L!NewBlock(payee, "earned", n, None)],
         balance' = [Refunded(tx[t]) EXCEPT ![payee] = @ + n]
  PROVE  /\ L!MoneyDrawn(SettledBy(tx[t]), ReleasedBy(tx[t]), ChargedBy(tx[t]), TakenBy(tx[t]))
         /\ \A o \in Orgs : balance'[o] = Refunded(tx[t])[o] + IF o = payee THEN n ELSE 0
<1>1. tx[t] \in TxRow
  BY DEF TypeInv
<1>2. /\ \A x \in L!BlockIds : /\ TakenBy(tx[t])[x] <= block[x].remaining
                               /\ ~L!IsBlock(x) => TakenBy(tx[t])[x] = 0
      /\ DrawnBlocks(tx[t]) = L!Drawn(TakenBy(tx[t]))
  BY TakenFromLocked, DrawnAsTaken, SameBlocks
<1>3. \A o \in Orgs : L!Sum(L!TakenFrom(TakenBy(tx[t]), o))
                      = L!Sum(L!ChargedTo(SettledBy(tx[t]), ChargedBy(tx[t]), o))
  BY <1>1, TakenIsCharged
<1>4. \A o \in Orgs : /\ Refunded(tx[t])[o] = L!Kept(SettledBy(tx[t]), ReleasedBy(tx[t]), ChargedBy(tx[t]), o)
                      /\ Refunded(tx[t])[o] \in Int
  BY <1>1, RefundedAsKept, RefundedType
<1>5. \A o \in Orgs : balance'[o] = Refunded(tx[t])[o] + IF o = payee THEN n ELSE 0
  <2> DEFINE back == Refunded(tx[t])
  <2>1. back \in [Orgs -> Int]
    BY <1>1, RefundedType
  <2> HIDE DEF back
  <2>2. balance' = [back EXCEPT ![payee] = @ + n]
    BY DEF back
  <2>3. \A o \in Orgs : balance'[o] = back[o] + IF o = payee THEN n ELSE 0
    BY <2>1, <2>2
  <2> QED
    BY <2>3 DEF back
<1>6. \A o \in Orgs : balance'[o] = L!Kept(SettledBy(tx[t]), ReleasedBy(tx[t]), ChargedBy(tx[t]), o)
                                    + IF o = payee THEN n ELSE 0
  BY <1>4, <1>5
<1>7. b \in L!BlockIds /\ block' = [L!Drawn(TakenBy(tx[t])) EXCEPT ![b] = L!NewBlock(payee, "earned", n, None)]
  BY <1>2, SameBlocks
<1> QED
  BY <1>2, <1>3, <1>5, <1>6, <1>7 DEF L!MoneyDrawn

(* Where a close writes no organization it owes none: every hold it closes *)
(* there is settled for exactly what was held.                             *)
LEMMA UnlockedKeep ==
  ASSUME TypeInv, NEW t \in Txs, Stands(t), Informed(t),
         tx[t].pc = "commit", tx[t].job.op \in {"close", "payTo", "reserve"},
         tx[t].job.op = "reserve" => tx[t].mine # {},
         NEW o \in Orgs, lock[OrgKey(o)] # t
  PROVE  Refunded(tx[t])[o] = balance[o]
<1> DEFINE r == tx[t]
           S == {x \in r.mine : hold[x].org = o}
<1>1. r \in TxRow /\ r.mine \subseteq Calls
  BY RowFields DEF TypeInv
<1>2. r.orgs = {} /\ (r.job.op = "payTo" => r.mine = {r.job.call})
  BY DEF Stands, AtStatement
<1>3. o \notin OrgsOf(r)
  BY <1>2 DEF Informed, Reached
<1>4. ASSUME NEW c \in S PROVE ~Moves(r, c)
  <2>1. c \in r.mine /\ hold[c].org = o
    BY <1>4
  <2>2. CASE r.job.op = "payTo"
    BY <1>2, <1>3, <2>1, <2>2 DEF OrgsOf
  <2>3. CASE r.job.op # "payTo"
    <3>1. OrgsOf(r) = {hold[x].org : x \in {y \in r.mine : Moves(r, y)}}
      BY <2>3 DEF OrgsOf
    <3> QED
      BY <1>3, <2>1, <3>1
  <2> QED
    BY <2>2, <2>3
<1>5. ASSUME NEW c \in S
      PROVE  Settles(r, c) /\ hold[c].amount = Consumed(r, o)[c]
  BY <1>4, <1>5 DEF Moves, Drawn
<1>6. S = Settling(r, o)
  BY <1>5 DEF Settling
<1>7. Consumed(r, o) \in [Settling(r, o) -> Nat] /\ L!Sum(Consumed(r, o)) \in Nat
  BY <1>1, ConsumedType
<1>8. [c \in S |-> hold[c].amount] = Consumed(r, o)
  <2> DEFINE h == Consumed(r, o)
  <2>1. h \in [S -> Nat] /\ \A c \in S : hold[c].amount = h[c]
    BY <1>5, <1>6, <1>7
  <2> HIDE DEF h, S
  <2> QED
    BY <2>1 DEF h
<1>9. Refunded(r)[o] = balance[o] + L!Sum([c \in S |-> hold[c].amount]) - L!Sum(Consumed(r, o))
  BY DEF Refunded
<1>10. balance[o] \in Int
  BY DEF TypeInv, L!TypeOK
<1> HIDE DEF S, r
<1> QED
  BY <1>7, <1>8, <1>9, <1>10 DEF r

(* A close takes nothing that another transaction has locked.              *)
LEMMA CloseSpares ==
  ASSUME Invariant, Accounts, NEW t \in Txs,
         tx[t].pc = "commit", tx[t].job.op \in {"close", "payTo", "reserve"},
         tx[t].job.op = "reserve" => tx[t].mine # {},
         CloseMine(tx[t]),
         \A b \in Blocks : L!IsBlock(b) => block'[b] = DrawnBlocks(tx[t])[b],
         \A o \in Orgs : balance'[o] \in Int /\ balance'[o] >= Refunded(tx[t])[o],
         NEW u \in Txs \ {t}
  PROVE  Spares(u)
<1>1. TypeInv /\ Stands(t) /\ Informed(t) /\ Stands(u)
  BY DEF Invariant, Accounts
<1>2. ASSUME NEW b \in Blocks, lock[BlockKey(b)] = u
      PROVE  block'[b].remaining = block[b].remaining
  <2>1. L!IsBlock(b)
    BY <1>1, <1>2 DEF Stands, BlocksLocked
  <2>2. /\ TakenBy(tx[t])[b] \in Nat /\ (TakenBy(tx[t])[b] > 0 => lock[BlockKey(b)] = t)
        /\ DrawnBlocks(tx[t])[b] = [block[b] EXCEPT !.remaining = block[b].remaining - TakenBy(tx[t])[b]]
    BY <1>1, TakenFromLocked DEF Informed
  <2>3. TakenBy(tx[t])[b] = 0
    BY <1>2, <2>2
  <2>4. block[b] \in L!BlockRow /\ block[b].remaining \in Nat
    BY <1>1, BlockOwner
  <2>5. block'[b] = [block[b] EXCEPT !.remaining = block[b].remaining - 0]
    BY <2>1, <2>2, <2>3
  <2> QED
    BY <2>4, <2>5 DEF L!BlockRow
<1>3. ASSUME NEW c \in Calls, lock[HoldKey(c)] = u
      PROVE  hold'[c] = hold[c]
  <2>1. c \notin tx[t].mine
    BY <1>1, <1>3 DEF Stands, HoldsClaimed
  <2> QED
    BY <2>1, Zenon DEF CloseMine
<1>4. ASSUME NEW o \in Orgs, lock[OrgKey(o)] = u
      PROVE  balance'[o] >= balance[o]
  <2>1. lock[OrgKey(o)] # t
    BY <1>4
  <2> QED
    BY <1>1, <2>1, UnlockedKeep
<1> QED
  BY <1>2, <1>3, <1>4 DEF Spares

LEMMA CloseAccounts ==
  ASSUME Invariant, Accounts, Invariant', NEW t \in Txs,
         tx[t].pc = "commit", tx[t].job.op \in {"close", "payTo", "reserve"},
         tx[t].job.op = "reserve" => tx[t].mine # {},
         CloseMine(tx[t]),
         L!MoneyDrawn(SettledBy(tx[t]), ReleasedBy(tx[t]), ChargedBy(tx[t]), TakenBy(tx[t])),
         \A b \in Blocks : L!IsBlock(b) => block'[b] = DrawnBlocks(tx[t])[b],
         \A o \in Orgs : balance'[o] >= Refunded(tx[t])[o],
         \A u \in Txs \ {t} : tx'[u] = tx[u], OnlyMoves(t), Informed(t)',
         tx'[t].job = tx[t].job \/ tx'[t].job.op # "reserve"
  PROVE  Accounts'
<1>1. TypeInv /\ TypeInv' /\ tx[t] \in TxRow /\ \A c \in tx[t].mine : L!IsOpen(c)
  BY DEF Invariant, TypeInv, Stands, HoldsClaimed
<1>2. L!HoldsClosed(SettledBy(tx[t]), ReleasedBy(tx[t]), ChargedBy(tx[t]))
  BY <1>1, CloseRows
<1>3. /\ SettledBy(tx[t]) \in SUBSET Calls /\ ReleasedBy(tx[t]) \in SUBSET Calls
      /\ ChargedBy(tx[t]) \in L!Amounts /\ TakenBy(tx[t]) \in L!Takes
  BY <1>1, CloseParts
<1>4. OpensNothing
  BY <1>2, <1>3 DEF OpensNothing, Closing
<1>5. BlocksStay
  <2>1. \A b \in Blocks : DrawnBlocks(tx[t])[b].org = block[b].org
    BY <1>1, DrawnBlocksType
  <2> QED
    BY <2>1 DEF BlocksStay, L!IsBlock
<1>6. \A o \in Orgs : balance'[o] \in Int
  BY <1>1 DEF TypeInv, L!TypeOK
<1>7. \A u \in Txs \ {t} : Spares(u)
  BY <1>6, CloseSpares
<1> QED
  BY <1>4, <1>5, <1>7, AccountsKept

LEMMA CommitCloseAccounts ==
  ASSUME Invariant, Accounts, Invariant', NEW t \in Txs, CommitClose(t)
  PROVE  Accounts'
<1>1. TypeInv /\ tx[t] \in TxRow /\ AsLocked(t)
  BY DEF Invariant, TypeInv, Accounts, Informed
<1>2. /\ tx[t].pc = "commit" /\ tx[t].job.op = "close"
      /\ block' = DrawnBlocks(tx[t]) /\ balance' = Refunded(tx[t]) /\ CloseMine(tx[t]) /\ Finish(t)
  BY DEF CommitClose
<1>3. \A o \in Orgs : balance'[o] = Refunded(tx[t])[o] /\ Refunded(tx[t])[o] \in Int
  BY <1>1, <1>2, RefundedType
<1>4. L!MoneyDrawn(SettledBy(tx[t]), ReleasedBy(tx[t]), ChargedBy(tx[t]), TakenBy(tx[t]))
  BY <1>1, <1>2, <1>3, DrawnMoney
<1>5. /\ \A u \in Txs \ {t} : tx'[u] = tx[u]
      /\ OnlyMoves(t) /\ Informed(t)' /\ tx'[t].job.op # "reserve"
  BY <1>1, <1>2, FinishInformed, FinishStands
<1>6. \A o \in Orgs : balance'[o] >= Refunded(tx[t])[o]
  BY <1>3
<1> QED
  BY <1>2, <1>4, <1>5, <1>6, CloseAccounts

LEMMA CommitPayToAccounts ==
  ASSUME Invariant, Accounts, Invariant', NEW t \in Txs, CommitPayTo(t)
  PROVE  Accounts'
<1> DEFINE n == Drawn(tx[t], tx[t].job.call)
           payee == tx[t].job.payee
<1>1. TypeInv /\ tx[t] \in TxRow /\ AsLocked(t) /\ AtStatement(tx[t])
  BY DEF Invariant, TypeInv, Accounts, Informed, Stands
<1>2. /\ tx[t].pc = "commit" /\ tx[t].job.op = "payTo" /\ CloseMine(tx[t]) /\ Finish(t)
      /\ \/ n = 0 /\ block' = DrawnBlocks(tx[t]) /\ balance' = Refunded(tx[t])
         \/ /\ n > 0
            /\ \E b \in Blocks :
                 /\ L!NextBlock(b)
                 /\ block' = [DrawnBlocks(tx[t]) EXCEPT ![b] = L!NewBlock(payee, "earned", n, None)]
            /\ balance' = [Refunded(tx[t]) EXCEPT ![payee] = @ + n]
  BY DEF CommitPayTo
<1>3. tx[t].job.call \in tx[t].mine
  BY <1>1, <1>2 DEF AtStatement
<1>4. n \in Nat /\ payee \in Orgs
  BY <1>1, <1>2, <1>3, DrawnType, RowFields, JobFields
<1> HIDE DEF n, payee
<1>5. \A o \in Orgs : Refunded(tx[t])[o] \in Int
  BY <1>1, RefundedType
<1>6. /\ L!MoneyDrawn(SettledBy(tx[t]), ReleasedBy(tx[t]), ChargedBy(tx[t]), TakenBy(tx[t]))
      /\ \A b \in Blocks : L!IsBlock(b) => block'[b] = DrawnBlocks(tx[t])[b]
      /\ \A o \in Orgs : balance'[o] >= Refunded(tx[t])[o]
  <2>1. CASE n = 0 /\ block' = DrawnBlocks(tx[t]) /\ balance' = Refunded(tx[t])
    <3>1. \A o \in Orgs : balance'[o] = Refunded(tx[t])[o]
      BY <2>1
    <3>2. L!MoneyDrawn(SettledBy(tx[t]), ReleasedBy(tx[t]), ChargedBy(tx[t]), TakenBy(tx[t]))
      BY <1>1, <2>1, <3>1, DrawnMoney
    <3>3. \A o \in Orgs : balance'[o] >= Refunded(tx[t])[o]
      BY <1>5, <3>1
    <3> QED
      BY <2>1, <3>2, <3>3
  <2>2. CASE /\ n > 0
             /\ \E b \in Blocks :
                  /\ L!NextBlock(b)
                  /\ block' = [DrawnBlocks(tx[t]) EXCEPT ![b] = L!NewBlock(payee, "earned", n, None)]
             /\ balance' = [Refunded(tx[t]) EXCEPT ![payee] = @ + n]
    <3>1. PICK b \in Blocks :
            /\ L!NextBlock(b)
            /\ block' = [DrawnBlocks(tx[t]) EXCEPT ![b] = L!NewBlock(payee, "earned", n, None)]
      BY <2>2
    <3>2. /\ L!MoneyDrawn(SettledBy(tx[t]), ReleasedBy(tx[t]), ChargedBy(tx[t]), TakenBy(tx[t]))
          /\ \A o \in Orgs : balance'[o] = Refunded(tx[t])[o] + IF o = payee THEN n ELSE 0
      BY <1>1, <1>4, <2>2, <3>1, EarnedMoney
    <3>3. \A x \in Blocks : L!IsBlock(x) => block'[x] = DrawnBlocks(tx[t])[x]
      <4>1. ~L!IsBlock(b)
        BY <3>1 DEF L!NextBlock
      <4>2. DrawnBlocks(tx[t]) \in [Blocks -> L!BlockRow]
        BY <1>1, DrawnBlocksType
      <4> QED
        BY <3>1, <4>1, <4>2
    <3>4. \A o \in Orgs : balance'[o] >= Refunded(tx[t])[o]
      BY <1>4, <1>5, <3>2
    <3> QED
      BY <3>2, <3>3, <3>4
  <2> QED
    BY <1>2, <2>1, <2>2
<1>7. /\ \A u \in Txs \ {t} : tx'[u] = tx[u]
      /\ OnlyMoves(t) /\ Informed(t)' /\ tx'[t].job.op # "reserve"
  BY <1>1, <1>2, FinishInformed, FinishStands
<1> QED
  BY <1>2, <1>6, <1>7, CloseAccounts

LEMMA ReachesGate ==
  ASSUME NEW t \in Txs, NEW g, tx'[t] = g, block' = block, g.mine = {}, g.job.op # "payTo",
         g.pc \in {"orgs", "commit"} => OrgsOf(g) = g.orgs
  PROVE  Reached(t)'
<1>1. OrgsOf(g)' = OrgsOf(g)
  BY OrgsOfKept DEF RowsKept
<1> QED
  BY <1>1 DEF Reached

(* A release of the sweep takes from no block.                             *)
LEMMA CommitReapAccounts ==
  ASSUME Invariant, Accounts, Invariant', NEW t \in Txs, CommitReap(t)
  PROVE  Accounts'
<1> DEFINE r == tx[t]
           left == r.todo \ r.mine
           s == [r EXCEPT !.todo = left]
           g == ToGate(s)
<1>1. TypeInv /\ r \in TxRow /\ AtStatement(r) /\ AsLocked(t) /\ ReserveDrawsNothing(t)
  BY DEF Invariant, TypeInv, Accounts, Informed, Stands
<1>2. /\ r.pc = "commit" /\ r.job.op = "reserve" /\ r.mine # {}
      /\ balance' = Refunded(r) /\ CloseMine(r)
      /\ lock' = Unlocked(t) /\ tx' = [tx EXCEPT ![t] = g] /\ block' = block
  BY DEF CommitReap
<1>3. /\ r.claim = {} /\ r.want = {} /\ r.orgs = {}
      /\ \A b \in Blocks : r.seen[b] = 0
  BY <1>1, <1>2 DEF AtStatement, AsLocked, ReserveDrawsNothing
<1>4. left \in SUBSET Calls
  BY <1>1, RowFields
<1> HIDE DEF left
<1>5. s \in TxRow
  BY <1>1, <1>4 DEF TxRow
<1>6. s.job = r.job /\ s.claim = {} /\ s.want = {} /\ s.orgs = {} /\ s.seen = r.seen
  BY <1>1, <1>3 DEF TxRow
<1> HIDE DEF s
<1>7. /\ g \in TxRow /\ g.job = r.job /\ g.mine = {} /\ g.want = {} /\ g.seen = r.seen
  BY <1>1, <1>2, <1>5, <1>6, ToGateRow
<1>8. g.pc \in {"orgs", "commit"} => g.pc = "orgs" /\ OrgsOf(g) = g.orgs
  BY <1>1, <1>2, <1>5, <1>6, ToGateReaches
<1> HIDE DEF g
<1>9. tx'[t] = g /\ \A u \in Txs \ {t} : tx'[u] = tx[u]
  BY <1>1, <1>2 DEF TypeInv
<1>10. OnlyMoves(t) /\ \A b \in Blocks : lock'[BlockKey(b)] # t
  BY <1>1, <1>2, LocksFreed, KeyTypes
<1>11. Informed(t)'
  <2>1. AsLocked(t)' /\ ReserveDrawsNothing(t)' /\ RefundRead(t)' /\ Admitted(t)'
    BY <1>2, <1>3, <1>7, <1>8, <1>9, <1>10 DEF AsLocked, ReserveDrawsNothing, RefundRead, Admitted
  <2>2. Reached(t)'
    <3>1. g.mine = {} /\ g.job.op # "payTo" /\ (g.pc \in {"orgs", "commit"} => OrgsOf(g) = g.orgs)
      BY <1>2, <1>7, <1>8
    <3> QED
      BY <1>2, <1>9, <3>1, ReachesGate
  <2> QED
    BY <2>1, <2>2 DEF Informed
<1>12. DrawnBlocks(r) = block
  <2>1. ASSUME NEW b \in Blocks PROVE DrawnBlocks(r)[b] = block[b]
    <3>1. /\ Take(r, block[b].org)[b] \in Nat
          /\ Take(r, block[b].org)[b] <= r.seen[b]
      BY <1>1, TakeType DEF Read
    <3>2. ~(Take(r, block[b].org)[b] > 0)
      BY <1>3, <3>1
    <3> QED
      BY <3>2 DEF DrawnBlocks
  <2>2. DrawnBlocks(r) \in [Blocks -> L!BlockRow] /\ block \in [Blocks -> L!BlockRow]
    BY <1>1, DrawnBlocksType, SameBlocks DEF TypeInv, L!TypeOK
  <2> QED
    BY <2>1, <2>2
<1>13. \A o \in Orgs : balance'[o] = Refunded(r)[o] /\ Refunded(r)[o] \in Int
  BY <1>1, <1>2, RefundedType
<1>14. L!MoneyDrawn(SettledBy(r), ReleasedBy(r), ChargedBy(r), TakenBy(r))
  BY <1>1, <1>2, <1>12, <1>13, DrawnMoney
<1>15. /\ \A o \in Orgs : balance'[o] >= Refunded(r)[o]
       /\ \A b \in Blocks : L!IsBlock(b) => block'[b] = DrawnBlocks(r)[b]
  BY <1>2, <1>12, <1>13
<1> QED
  BY <1>2, <1>7, <1>9, <1>10, <1>11, <1>14, <1>15, CloseAccounts

LEMMA CommitFundAccounts ==
  ASSUME Invariant, Accounts, Invariant', NEW t \in Txs, CommitFund(t)
  PROVE  Accounts'
<1> DEFINE j == tx[t].job
<1>1. TypeInv /\ tx[t] \in TxRow
  BY DEF Invariant, TypeInv
<1>2. /\ j.op = "fund"
      /\ \E b \in Blocks : L!NextBlock(b) /\ block' = [block EXCEPT ![b] = L!NewBlock(j.org, j.kind, j.amount, j.ref)]
      /\ balance' = [balance EXCEPT ![j.org] = @ + j.amount]
      /\ Finish(t) /\ UNCHANGED <<spent, hold, closing, tag, today>>
  BY DEF CommitFund
<1>3. j.org \in Orgs /\ j.kind \in L!Kinds /\ j.amount \in Nat /\ j.ref \in Refs \cup {None}
  BY <1>1, <1>2, RowFields, JobFields
<1> HIDE DEF j
<1>4. block \in [Blocks -> L!BlockRow] /\ balance \in [Orgs -> Int]
  BY <1>1, SameBlocks DEF TypeInv, L!TypeOK
<1>5. PICK b \in Blocks :
        L!NextBlock(b) /\ block' = [block EXCEPT ![b] = L!NewBlock(j.org, j.kind, j.amount, j.ref)]
  BY <1>2
<1>6. BlocksStay
  BY <1>1, <1>3, <1>4, <1>5, BlockCreated
<1>7. /\ ~L!IsBlock(b)
      /\ block'[b] = L!NewBlock(j.org, j.kind, j.amount, j.ref)
      /\ \A x \in Blocks \ {b} : block'[x] = block[x]
  BY <1>4, <1>5 DEF L!NextBlock
<1>8. \A p \in Orgs : balance'[p] = IF p = j.org THEN balance[p] + j.amount ELSE balance[p]
  BY <1>2, <1>3, <1>4
<1>9. OpensNothing
  <2>1. L!FundShape(j.org, j.kind, j.amount, j.ref, b)
    BY <1>2, <1>7, <1>8, SameBlocks DEF L!FundShape
  <2>2. b \in L!BlockIds
    BY SameBlocks
  <2> QED
    BY <1>3, <2>1, <2>2 DEF OpensNothing, Funding
<1>10. ASSUME NEW u \in Txs \ {t} PROVE Spares(u)
  <2>1. \A x \in Blocks : lock[BlockKey(x)] = u => L!IsBlock(x)
    BY DEF Invariant, Stands, BlocksLocked
  <2>2. \A p \in Orgs : balance'[p] >= balance[p]
    BY <1>3, <1>4, <1>8
  <2> QED
    BY <1>2, <1>7, <2>1, <2>2 DEF Spares
<1>11. /\ \A u \in Txs \ {t} : tx'[u] = tx[u]
       /\ OnlyMoves(t) /\ Informed(t)' /\ tx'[t].job.op # "reserve"
  BY <1>1, <1>2, FinishInformed, FinishStands
<1> QED
  BY <1>6, <1>9, <1>10, <1>11, AccountsKept

(* A refund has locked every block it was asked about and the organization *)
(* they belong to: it writes what Ledger's would.                          *)
LEMMA RevokeReads ==
  ASSUME TypeInv, NEW t \in Txs, Stands(t), Informed(t), CommitRevoke(t)
  PROVE  /\ L!TakesBack(tx[t].job.org, tx[t].job.asked)
         /\ lock[OrgKey(tx[t].job.org)] = t
         /\ \A b \in DOMAIN tx[t].job.asked : lock[BlockKey(b)] = t
<1> DEFINE r == tx[t]
           o == r.job.org
           asked == r.job.asked
           T == DOMAIN asked
           goal == [b \in T |-> L!Lesser(asked[b], block[b].amount)]
           take == L!Spread([b \in T |-> OnBlock(r, b, goal[b])], [b \in T |-> b], L!Unheld(o))
           recorded(b) == take[b] > 0 \/ goal[b] > block[b].target
<1>1. r.pc = "commit" /\ r.job.op = "revoke" /\ r \in TxRow
  BY ZenonT(30) DEF CommitRevoke, TypeInv
<1>2. /\ block' = [b \in Blocks |->
           IF b \in T /\ recorded(b)
           THEN [block[b] EXCEPT !.remaining = r.seen[b] - take[b], !.taken = @ + take[b],
                                 !.target = IF goal[b] > @ THEN goal[b] ELSE @]
           ELSE block[b]]
      /\ balance' = [balance EXCEPT ![o] = @ - L!Sum(take)]
      /\ UNCHANGED <<spent, hold, closing, tag, today>>
  BY Zenon DEF CommitRevoke
<1>3. r.orgs = {} /\ r.want = {} /\ o \in Orgs /\ T \in SUBSET Blocks /\ asked \in [T -> Targets]
  BY <1>1, RowFields, JobFields DEF Stands, AtStatement
<1>4. \A b \in T : block[b].org = o /\ lock[BlockKey(b)] = t
  BY <1>1, <1>3 DEF Informed, RefundRead
<1>5. lock[OrgKey(o)] = t
  <2>1. OrgsOf(r) = {o}
    BY <1>1 DEF OrgsOf
  <2> QED
    BY <1>1, <1>3, <2>1 DEF Informed, Reached
<1>6. \A b \in T : r.seen[b] = block[b].remaining
  BY <1>3, <1>4 DEF Informed, AsLocked
<1>7. L!RefundGoal(asked) = goal
  BY DEF L!RefundGoal
<1>8. L!RefundTake(o, asked) = take
  <2> HIDE DEF goal
  <2>1. \A b \in T : OnBlock(r, b, goal[b]) = L!OnBlock(b, goal[b])
    BY <1>6 DEF OnBlock, L!OnBlock
  <2>2. [b \in T |-> OnBlock(r, b, goal[b])] = [b \in T |-> L!OnBlock(b, goal[b])]
    BY <2>1
  <2> QED
    BY <1>7, <2>2 DEF L!RefundTake
<1>9. goal \in [T -> Nat] /\ take \in [T -> Nat]
  <2>1. \A x \in T : asked[x] \in Nat /\ block[x].amount \in Nat
    BY <1>3, Base, BlockOwner DEF L!LedgerAssumption
  <2>2. goal \in [T -> Nat]
    BY <2>1 DEF L!Lesser
  <2>3. L!RefundTake(o, asked) \in [T -> Nat]
    BY <1>3, Base, SameBlocks, L!RefundTakeType DEF TypeInv
  <2> QED
    BY <1>8, <2>2, <2>3, Zenon
<1> HIDE DEF take, goal
<1>10. ASSUME NEW b \in Blocks
       PROVE  block'[b] = IF b \in T THEN L!RefundRow(b, take[b], goal[b]) ELSE block[b]
  <2>1. CASE b \in T /\ recorded(b)
    BY <1>2, <1>6, <2>1, Zenon DEF L!RefundRow
  <2>2. CASE b \in T /\ ~recorded(b)
    <3>1. block'[b] = block[b]
      BY <1>2, <2>2, Zenon
    <3>2. block[b].target \in Nat
      BY BlockOwner DEF L!BlockRow
    <3>3. take[b] = 0 /\ goal[b] \in Nat /\ goal[b] <= block[b].target
      BY <1>9, <2>2, <3>2
    <3>4. L!RefundRow(b, 0, goal[b]) = block[b]
      BY <3>3, Base, SameBlocks, L!RefundRowSame DEF TypeInv
    <3> QED
      BY <2>2, <3>1, <3>3, <3>4
  <2>3. CASE b \notin T
    BY <1>2, <2>3, Zenon
  <2> QED
    BY <2>1, <2>2, <2>3
<1> HIDE DEF recorded
<1>11. block' = [b \in L!BlockIds |-> IF b \in T THEN L!RefundRow(b, take[b], goal[b]) ELSE block[b]]
  <2>1. block' = [b \in Blocks |-> block'[b]]
    BY <1>2, ZenonT(30)
  <2> QED
    BY <1>10, <2>1, SameBlocks
<1>12. L!TakesBack(o, asked)
  BY <1>2, <1>4, <1>7, <1>8, <1>11, Zenon DEF L!TakesBack
<1> QED
  BY <1>4, <1>5, <1>12

LEMMA CommitRevokeAccounts ==
  ASSUME Invariant, Accounts, Invariant', NEW t \in Txs, CommitRevoke(t)
  PROVE  Accounts'
<1> DEFINE o == tx[t].job.org
           asked == tx[t].job.asked
           T == DOMAIN asked
<1>1. TypeInv /\ TypeInv' /\ tx[t] \in TxRow /\ Stands(t) /\ Informed(t)
  BY DEF Invariant, TypeInv, Accounts
<1>2. tx[t].job.op = "revoke" /\ Finish(t)
  BY Zenon DEF CommitRevoke
<1>3. o \in Orgs /\ T \in SUBSET L!BlockIds /\ asked \in [T -> Targets]
  BY <1>1, <1>2, RowFields, JobFields, SameBlocks
<1>4. L!TakesBack(o, asked) /\ lock[OrgKey(o)] = t /\ \A b \in T : lock[BlockKey(b)] = t
  BY <1>1, RevokeReads
<1> HIDE DEF o, asked, T
<1>5. PICK take \in [T -> Nat] : L!RevokeShape(o, T, take)
  <2>1. L!TypeOK
    BY <1>1 DEF TypeInv
  <2> QED
    BY <1>3, <1>4, <2>1, Base, L!ShapeRefund
<1>6. OpensNothing
  BY <1>3, <1>5 DEF OpensNothing, Refunding
<1>7. BlocksStay
  BY <1>3, <1>5, SameBlocks DEF L!RevokeShape, BlocksStay, L!IsBlock
<1>8. ASSUME NEW u \in Txs \ {t} PROVE Spares(u)
  <2>1. ASSUME NEW b \in Blocks, lock[BlockKey(b)] = u PROVE block'[b] = block[b]
    BY <1>4, <1>5, <2>1, SameBlocks DEF L!RevokeShape
  <2>2. hold' = hold
    BY <1>5 DEF L!RevokeShape
  <2>3. ASSUME NEW p \in Orgs, lock[OrgKey(p)] = u PROVE balance'[p] >= balance[p]
    <3>1. balance'[p] = balance[p] /\ balance[p] \in Int
      BY <1>1, <1>4, <1>5, <2>3 DEF L!RevokeShape, TypeInv, L!TypeOK
    <3> QED
      BY <3>1
  <2> QED
    BY <2>1, <2>2, <2>3 DEF Spares
<1>9. /\ \A v \in Txs \ {t} : tx'[v] = tx[v]
      /\ OnlyMoves(t) /\ Informed(t)' /\ tx'[t].job.op # "reserve"
  BY <1>1, <1>2, FinishInformed, FinishStands
<1> QED
  BY <1>6, <1>7, <1>8, <1>9, AccountsKept

(* A reserve opens the hold of its own call, on money its gate has locked. *)
LEMMA CommitReserveAccounts ==
  ASSUME Invariant, Accounts, Invariant', NEW t \in Txs, CommitReserve(t)
  PROVE  Accounts'
<1> DEFINE r == tx[t]
           c == r.job.call
           o == r.job.org
           n == r.job.charged
           h == [org |-> o, amount |-> n, day |-> r.began, stale |-> FALSE, known |-> L!Funded]
<1>1. TypeInv /\ r \in TxRow /\ Stands(t) /\ Informed(t) /\ Alone(t)
  BY DEF Invariant, TypeInv, Accounts
<1>2. /\ r.pc = "commit" /\ r.job.op = "reserve" /\ r.mine = {}
      /\ balance' = [balance EXCEPT ![o] = @ - n]
      /\ hold' = [hold EXCEPT ![c] = h]
      /\ Finish(t) /\ block' = block /\ closing' = closing
  BY DEF CommitReserve
<1>3. c \in Calls /\ o \in Orgs /\ n \in Nat
  BY <1>1, <1>2, RowFields, JobFields
<1>4. balance[o] >= n /\ lock[OrgKey(o)] = t
  BY <1>1, <1>2, GateLocked DEF Informed, Admitted
<1>5. ~L!IsOpen(c) /\ closing[c].kind = "none"
  BY <1>1, <1>2 DEF Alone
<1>6. \A u \in Txs \ {t} : tx[u].job.op = "reserve" => tx[u].job.call # c
  BY <1>1, <1>2 DEF Alone
<1>7. balance \in [Orgs -> Int] /\ hold \in [Calls -> L!HoldRow]
  BY <1>1 DEF TypeInv, L!TypeOK
<1>8. h.org = o /\ h.amount = n
  OBVIOUS
<1> HIDE DEF c, o, n, h
<1>9. /\ \A p \in Orgs : balance'[p] = IF p = o THEN balance[p] - n ELSE balance[p]
      /\ hold'[c] = h /\ \A x \in Calls \ {c} : hold'[x] = hold[x]
  BY <1>2, <1>3, <1>7
<1>10. L!HoldOpened(c, o, n)
  BY <1>2, <1>4, <1>5, <1>8, <1>9 DEF L!HoldOpened
<1>11. L!MoneyStep
  BY <1>3, <1>10 DEF L!MoneyStep
<1>12. L!ClosesOnce'
  <2>1. L!ClosesOnce
    BY DEF Accounts
  <2> QED
    BY <1>2, <1>5, <1>9, <2>1 DEF L!ClosesOnce, L!IsOpen
<1>13. /\ \A u \in Txs \ {t} : tx'[u] = tx[u]
       /\ OnlyMoves(t) /\ Informed(t)' /\ tx'[t].job.op # "reserve"
  BY <1>1, <1>2, FinishInformed, FinishStands
<1>14. BlocksStay
  BY <1>2 DEF BlocksStay, L!IsBlock
<1>15. ASSUME NEW u \in Txs \ {t} PROVE Spares(u)
  <2>1. ASSUME NEW x \in Calls, lock[HoldKey(x)] = u PROVE hold'[x] = hold[x]
    <3>1. L!IsOpen(x)
      BY <2>1 DEF Invariant, Stands, HoldsClaimed
    <3> QED
      BY <1>5, <1>9, <3>1
  <2>2. ASSUME NEW p \in Orgs, lock[OrgKey(p)] = u PROVE balance'[p] >= balance[p]
    <3>1. balance'[p] = balance[p] /\ balance[p] \in Int
      BY <1>4, <1>7, <1>9, <2>2
    <3> QED
      BY <3>1
  <2> QED
    BY <1>2, <2>1, <2>2 DEF Spares
<1>16. ASSUME NEW u \in Txs PROVE Alone(u)'
  <2> SUFFICES ASSUME tx'[u].job.op = "reserve"
               PROVE  /\ hold'[tx'[u].job.call].org = None /\ closing'[tx'[u].job.call].kind = "none"
                      /\ \A v \in Txs \ {u} : tx'[v].job.op = "reserve" => tx'[v].job.call # tx'[u].job.call
    BY DEF Alone, L!IsOpen
  <2>1. u # t /\ tx'[u] = tx[u] /\ Alone(u) /\ tx[u] \in TxRow
    BY <1>1, <1>13 DEF Accounts, TypeInv
  <2>2. tx[u].job.call \in Calls /\ tx[u].job.call # c
    BY <1>6, <2>1, RowFields, JobFields
  <2> QED
    BY <1>2, <1>9, <1>13, <2>1, <2>2 DEF Alone, L!IsOpen
<1> QED
  BY <1>11, <1>12, <1>13, <1>14, <1>15, <1>16, AccountsStep

-----------------------------------------------------------------------------
(* Everything else leaves the sessions where they are                      *)

LEMMA AccountsRest ==
  ASSUME Invariant, Accounts, Invariant', UNCHANGED <<lock, tx>>, BlocksStay,
         \A u \in Txs : Spares(u), OpensNothing
  PROVE  Accounts'
<1>1. TypeInv /\ L!TypeOK /\ L!TypeOK' /\ lock' = lock /\ tx' = tx
  BY DEF Invariant, TypeInv
<1>2. /\ \A c \in Calls : ~L!IsOpen(c) => ~L!IsOpen(c)' /\ closing'[c] = closing[c]
      /\ L!MoneyStep /\ L!ClosesOnce'
  BY <1>1, CallsRest DEF Accounts
<1>3. L!Books'
  BY <1>1, <1>2, Base, L!BooksKept DEF Accounts
<1>4. \A o \in Orgs : balance[o] \in Int /\ balance'[o] \in Int
  BY <1>1 DEF L!TypeOK
<1>5. ASSUME NEW u \in Txs PROVE Informed(u)'
  <2>1. Stands(u) /\ Informed(u) /\ tx'[u] = tx[u] /\ Spares(u)
    BY <1>1 DEF Invariant, Accounts
  <2>2. \A k \in Keys : lock'[k] = u <=> lock[k] = u
    BY <1>1
  <2> QED
    BY <1>1, <1>4, <2>1, <2>2, StaysInformed
<1>6. ASSUME NEW u \in Txs PROVE Alone(u)'
  <2> SUFFICES ASSUME tx[u].job.op = "reserve"
               PROVE  /\ hold'[tx[u].job.call].org = None /\ closing'[tx[u].job.call].kind = "none"
                      /\ \A v \in Txs \ {u} : tx[v].job.op = "reserve" => tx[v].job.call # tx[u].job.call
    BY <1>1 DEF Alone, L!IsOpen
  <2>1. tx[u].job.call \in Calls /\ Alone(u)
    BY <1>1, RowFields, JobFields DEF TypeInv, Accounts
  <2> QED
    BY <1>2, <2>1 DEF Alone, L!IsOpen
<1> QED
  BY <1>2, <1>3, <1>5, <1>6 DEF Accounts

LEMMA SignupAccounts ==
  ASSUME Invariant, Accounts, Invariant', NEW o \in Orgs, Signup(o)
  PROVE  Accounts'
<1>1. UNCHANGED <<lock, tx>> /\ \E n \in Credits : L!Grant(o, "promotional", n)
  BY DEF Signup
<1>2. PICK n \in Credits : L!Grant(o, "promotional", n)
  BY <1>1
<1>3. PICK b \in L!BlockIds : /\ L!NextBlock(b)
                              /\ block' = [block EXCEPT ![b] = L!NewBlock(o, "promotional", n, None)]
  BY <1>2 DEF L!Grant, L!Fund
<1>4. balance' = [balance EXCEPT ![o] = @ + n] /\ UNCHANGED <<spent, hold, closing, tag, today>>
  BY <1>2 DEF L!Grant, L!Fund
<1>5. block \in [Blocks -> L!BlockRow] /\ balance \in [Orgs -> Int] /\ n \in Nat
  BY Base, SameBlocks DEF Invariant, TypeInv, L!TypeOK, L!LedgerAssumption
<1>6. /\ ~L!IsBlock(b)
      /\ block'[b] = L!NewBlock(o, "promotional", n, None)
      /\ \A x \in L!BlockIds \ {b} : block'[x] = block[x]
  BY <1>3, <1>5, SameBlocks DEF L!NextBlock
<1>7. \A p \in Orgs : balance'[p] = IF p = o THEN balance[p] + n ELSE balance[p]
  BY <1>4, <1>5
<1>8. BlocksStay
  BY <1>6, SameBlocks DEF BlocksStay, L!IsBlock
<1>9. OpensNothing
  <2>1. L!FundShape(o, "promotional", n, None, b)
    BY <1>4, <1>6, <1>7 DEF L!FundShape
  <2>2. "promotional" \in L!Kinds
    BY DEF L!Kinds
  <2>3. Funding
    BY <1>5, <2>1, <2>2 DEF Funding
  <2> QED
    BY <2>3 DEF OpensNothing
<1>10. ASSUME NEW u \in Txs PROVE Spares(u)
  <2>1. \A x \in Blocks : lock[BlockKey(x)] = u => L!IsBlock(x)
    BY DEF Invariant, Stands, BlocksLocked
  <2>2. \A p \in Orgs : balance'[p] >= balance[p]
    BY <1>5, <1>7
  <2> QED
    BY <1>4, <1>6, <2>1, <2>2, SameBlocks DEF Spares
<1> QED
  BY <1>1, <1>8, <1>9, <1>10, AccountsRest

(* The clock and the age of a hold move no money.                          *)
LEMMA QuietAccounts ==
  ASSUME Invariant, Accounts, Invariant', UNCHANGED <<lock, tx>>, UNCHANGED <<block, balance, closing>>,
         \A c \in Calls : /\ hold'[c].org = hold[c].org /\ hold'[c].amount = hold[c].amount
                          /\ hold'[c].day = hold[c].day
  PROVE  Accounts'
<1>1. BlocksStay
  BY DEF BlocksStay, L!IsBlock
<1>2. \A o \in Orgs : balance[o] \in Int
  BY DEF Invariant, TypeInv, L!TypeOK
<1>3. ASSUME NEW u \in Txs PROVE Spares(u)
  BY <1>2 DEF Spares
<1>4. OpensNothing
  BY DEF OpensNothing, L!Unmoved
<1> QED
  BY <1>1, <1>3, <1>4, AccountsRest

LEMMA TimeAccounts ==
  ASSUME Invariant, Accounts, Invariant', (\E c \in Calls : Age(c)) \/ Midnight \/ UNCHANGED vars
  PROVE  Accounts'
<1>1. ASSUME NEW c \in Calls, Age(c) PROVE Accounts'
  <2>1. /\ UNCHANGED <<lock, tx>> /\ UNCHANGED <<block, balance, closing>>
        /\ hold' = [hold EXCEPT ![c].stale = TRUE]
    BY <1>1 DEF Age, L!Age
  <2>2. hold \in [Calls -> L!HoldRow]
    BY DEF Invariant, TypeInv, L!TypeOK
  <2>3. \A d \in Calls : /\ hold'[d].org = hold[d].org /\ hold'[d].amount = hold[d].amount
                         /\ hold'[d].day = hold[d].day
    BY <2>1, <2>2 DEF L!HoldRow
  <2> QED
    BY <2>1, <2>3, QuietAccounts
<1>2. CASE Midnight
  <2>1. UNCHANGED <<lock, tx>> /\ UNCHANGED <<block, balance, closing>> /\ hold' = hold
    BY <1>2 DEF Midnight, L!Midnight
  <2> QED
    BY <2>1, QuietAccounts
<1>3. CASE UNCHANGED vars
  <2>1. UNCHANGED <<lock, tx>> /\ UNCHANGED <<block, balance, closing>> /\ hold' = hold
    BY <1>3 DEF vars
  <2> QED
    BY <2>1, QuietAccounts
<1> QED
  BY <1>1, <1>2, <1>3

LEMMA AccountsInit == Init => Accounts
<1> SUFFICES ASSUME Init PROVE Accounts
  OBVIOUS
<1>1. lock = [k \in Keys |-> None] /\ tx = [t \in Txs |-> Idle] /\ L!Init
  BY DEF Init
<1>2. L!Books
  BY <1>1, Base, L!BooksInit
<1>3. L!ClosesOnce
  BY <1>1 DEF L!Init, L!ClosesOnce, L!IsOpen, L!NoHold
<1>4. ASSUME NEW t \in Txs PROVE Informed(t) /\ Alone(t)
  <2>1. tx[t] = Idle /\ \A k \in Keys : lock[k] # t
    BY <1>1, Base
  <2> QED
    BY <2>1, IdleRow, KeyTypes DEF Informed, Alone, AsLocked, ReserveDrawsNothing, RefundRead,
                                   Reached, Admitted
<1> QED
  BY <1>2, <1>3, <1>4 DEF Accounts

LEMMA AccountsNext == Invariant /\ Accounts /\ [Next]_vars => Accounts'
<1> SUFFICES ASSUME Invariant, Accounts, [Next]_vars PROVE Accounts'
  OBVIOUS
<1>1. Invariant'
  BY InvariantStep
<1>2. ASSUME NEW t \in Txs, Start(t) PROVE Accounts'
  BY <1>1, <1>2, StartAccounts
<1>3. ASSUME NEW t \in Txs, Step(t) PROVE Accounts'
  <2>1. CASE Claim(t) \/ LockBlock(t) \/ InsertRef(t) \/ LockOrg(t)
    BY <1>1, <2>1, ClaimAccounts, LockBlockAccounts, InsertRefAccounts, LockOrgAccounts
  <2>2. CASE CommitClose(t) \/ CommitReap(t) \/ CommitPayTo(t)
    BY <1>1, <2>2, CommitCloseAccounts, CommitReapAccounts, CommitPayToAccounts
  <2>3. CASE CommitReserve(t) \/ CommitFund(t) \/ CommitRevoke(t)
    BY <1>1, <2>3, CommitReserveAccounts, CommitFundAccounts, CommitRevokeAccounts
  <2> QED
    BY <1>3, <2>1, <2>2, <2>3 DEF Step
<1>4. ASSUME NEW t \in Txs, Rollback(t) PROVE Accounts'
  BY <1>1, <1>4, FinishAccounts DEF Rollback
<1>5. ASSUME NEW o \in Orgs, Signup(o) PROVE Accounts'
  BY <1>1, <1>5, SignupAccounts
<1>6. CASE (\E c \in Calls : Age(c)) \/ Midnight \/ UNCHANGED vars
  BY <1>1, <1>6, TimeAccounts
<1> QED
  BY <1>2, <1>3, <1>4, <1>5, <1>6 DEF Next

(* The balance is credit less holds, the journal explains what the blocks  *)
(* lost and no reserve digs below zero, although every transaction writes  *)
(* absolute values computed from rows it read statements ago, any number   *)
(* of them interleaved, over any midnight: what a session has locked, and  *)
(* so what it computed from, nobody else changes before it commits.        *)
THEOREM BooksHoldAmongSessions == Spec => []BooksHoldOverMidnight
<1>1. Init => Invariant /\ Accounts
  BY InvariantInit, AccountsInit
<1>2. Invariant /\ Accounts /\ [Next]_vars => (Invariant /\ Accounts)'
  BY InvariantStep, AccountsNext
<1>3. Accounts => BooksHoldOverMidnight
  BY DEF Accounts, L!Books, BooksHoldOverMidnight
<1> QED
  BY <1>1, <1>2, <1>3, PTL DEF Spec

-----------------------------------------------------------------------------
(***************************************************************************)
(* Every commit is a step of Ledger, if its transaction read the clock on  *)
(* the day it commits.  What Ledger keeps of a transaction is the reserve  *)
(* between its scan and its gate; statements and locks are stutters.       *)
(***************************************************************************)
ReservesCall(r, c) == r.job.op = "reserve" /\ r.job.call = c
ReserveOf(r) == [org |-> r.job.org, charged |-> r.job.charged, todo |-> r.todo]

ReservingOf(x) ==
  [c \in Calls |->
    IF \E t \in Txs : x[t].job.op = "reserve" /\ x[t].job.call = c
    THEN LET r == x[CHOOSE u \in Txs : x[u].job.op = "reserve" /\ x[u].job.call = c]
         IN  [org |-> r.job.org, charged |-> r.job.charged, todo |-> r.todo]
    ELSE [org |-> None, charged |-> 0, todo |-> {}]]

ReservesAlone(x) ==
  \A u, v \in Txs : x[u].job.op = "reserve" /\ ReservesCall(x[v], x[u].job.call) => u = v

LEMMA ReservingAt ==
  ASSUME NEW x, ReservesAlone(x), NEW c \in Calls
  PROVE  /\ \A t \in Txs : ReservesCall(x[t], c) => ReservingOf(x)[c] = ReserveOf(x[t])
         /\ (\A t \in Txs : ~ReservesCall(x[t], c)) => ReservingOf(x)[c] = L!NoReserve
<1>1. ASSUME NEW t \in Txs, ReservesCall(x[t], c)
      PROVE  ReservingOf(x)[c] = ReserveOf(x[t])
  <2> DEFINE v == CHOOSE u \in Txs : x[u].job.op = "reserve" /\ x[u].job.call = c
  <2>1. v \in Txs /\ x[v].job.op = "reserve" /\ x[v].job.call = c
    BY <1>1 DEF ReservesCall
  <2>2. ReservingOf(x)[c] = [org |-> x[v].job.org, charged |-> x[v].job.charged, todo |-> x[v].todo]
    BY <1>1, Zenon DEF ReservingOf, ReservesCall
  <2> HIDE DEF v
  <2>3. v = t
    BY <1>1, <2>1 DEF ReservesAlone, ReservesCall
  <2> QED
    BY <2>2, <2>3 DEF ReserveOf
<1>2. ASSUME \A t \in Txs : ~ReservesCall(x[t], c)
      PROVE  ReservingOf(x)[c] = L!NoReserve
  BY <1>2, Zenon DEF ReservingOf, ReservesCall, L!NoReserve
<1> QED
  BY <1>1, <1>2

(* What the step of one transaction does to the reserves.                  *)
LEMMA ReservingStep ==
  ASSUME NEW x, NEW y, ReservesAlone(x), ReservesAlone(y), NEW t \in Txs,
         \A u \in Txs \ {t} : y[u] = x[u], NEW c \in Calls
  PROVE  ReservingOf(y)[c] = IF ReservesCall(y[t], c) THEN ReserveOf(y[t])
                             ELSE IF ReservesCall(x[t], c) THEN L!NoReserve ELSE ReservingOf(x)[c]
<1>1. CASE ReservesCall(y[t], c)
  BY <1>1, ReservingAt
<1>2. CASE ~ReservesCall(y[t], c) /\ ReservesCall(x[t], c)
  <2>1. \A u \in Txs : ~ReservesCall(y[u], c)
    BY <1>2 DEF ReservesAlone, ReservesCall
  <2> QED
    BY <1>2, <2>1, ReservingAt
<1>3. CASE ~ReservesCall(y[t], c) /\ ~ReservesCall(x[t], c)
  <2>1. CASE \E u \in Txs : ReservesCall(x[u], c)
    <3>1. PICK u \in Txs : ReservesCall(x[u], c)
      BY <2>1
    <3>2. y[u] = x[u]
      BY <1>3, <3>1
    <3> QED
      BY <1>3, <3>1, <3>2, ReservingAt
  <2>2. CASE \A u \in Txs : ~ReservesCall(x[u], c)
    <3>1. \A u \in Txs : ~ReservesCall(y[u], c)
      BY <1>3, <2>2
    <3> QED
      BY <1>3, <2>2, <3>1, ReservingAt
  <2> QED
    BY <2>1, <2>2
<1> QED
  BY <1>1, <1>2, <1>3

LEMMA ReservingSame ==
  ASSUME NEW x \in [Txs -> TxRow], NEW y \in [Txs -> TxRow], ReservesAlone(x), ReservesAlone(y),
         NEW t \in Txs, \A u \in Txs \ {t} : y[u] = x[u],
         \/ x[t].job.op # "reserve" /\ y[t].job.op # "reserve"
         \/ y[t].job = x[t].job /\ y[t].todo = x[t].todo
  PROVE  ReservingOf(y) = ReservingOf(x)
<1> DEFINE f == ReservingOf(x)
           g == ReservingOf(y)
<1>1. f = [c \in Calls |-> f[c]] /\ g = [c \in Calls |-> g[c]]
  BY DEF ReservingOf
<1>2. \A c \in Calls : g[c] = IF ReservesCall(y[t], c) THEN ReserveOf(y[t])
                             ELSE IF ReservesCall(x[t], c) THEN L!NoReserve ELSE f[c]
  BY ReservingStep
<1>3. \A c \in Calls : ReservesCall(x[t], c) => f[c] = ReserveOf(x[t])
  BY ReservingAt
<1> HIDE DEF f, g
<1>4. \A c \in Calls : g[c] = f[c]
  BY <1>2, <1>3 DEF ReservesCall, ReserveOf
<1>5. g = f
  BY <1>1, <1>4
<1> QED
  BY <1>5 DEF f, g

(* ... when it has reserved the call of its job, before or after.          *)
MovesReserve(r, s, d, row) ==
  /\ \A c \in Calls : ReservesCall(r, c) => c = d
  /\ \A c \in Calls : ReservesCall(s, c) => c = d /\ row = ReserveOf(s)
  /\ ~ReservesCall(s, d) => ReservesCall(r, d) /\ row = L!NoReserve

WithReserve(f, d, row) == [f EXCEPT ![d] = row]

LEMMA ReservingPut ==
  ASSUME NEW x \in [Txs -> TxRow], NEW y \in [Txs -> TxRow], ReservesAlone(x), ReservesAlone(y),
         NEW t \in Txs, \A u \in Txs \ {t} : y[u] = x[u],
         NEW d, NEW row, MovesReserve(x[t], y[t], d, row)
  PROVE  ReservingOf(y) = WithReserve(ReservingOf(x), d, row)
<1> DEFINE f == ReservingOf(x)
           g == ReservingOf(y)
<1>1. f = [c \in Calls |-> f[c]] /\ g = [c \in Calls |-> g[c]]
  BY DEF ReservingOf
<1>2. \A c \in Calls : g[c] = IF ReservesCall(y[t], c) THEN ReserveOf(y[t])
                             ELSE IF ReservesCall(x[t], c) THEN L!NoReserve ELSE f[c]
  BY ReservingStep
<1> HIDE DEF f, g
<1>3. \A c \in Calls : g[c] = IF c = d THEN row ELSE f[c]
  BY <1>2 DEF MovesReserve
<1>4. g = WithReserve(f, d, row)
  BY <1>1, <1>3 DEF WithReserve
<1> QED
  BY <1>4 DEF f, g

(* The reserves before and after a step, as Ledger's variable.             *)
LEMMA ReservingRows ==
  /\ Reserving = ReservingOf(tx) /\ Reserving' = ReservingOf(tx')
  /\ Invariant /\ Accounts => ReservesAlone(tx)
  /\ Invariant' /\ Accounts' => ReservesAlone(tx')
<1>1. Reserving = ReservingOf(tx) /\ Reserving' = ReservingOf(tx')
  BY DEF Reserving, ReservingOf
<1>2. Invariant /\ Accounts => ReservesAlone(tx)
  BY DEF Accounts, Alone, ReservesAlone, ReservesCall
<1>3. Invariant' /\ Accounts' => ReservesAlone(tx')
  BY DEF Accounts, Alone, ReservesAlone, ReservesCall
<1> QED
  BY <1>1, <1>2, <1>3

-----------------------------------------------------------------------------
(***************************************************************************)
(* What a transaction is at, beyond its locks: what makes its commit the   *)
(* step of Ledger it is meant to be.                                       *)
(***************************************************************************)

(* A sweep has at most the hold it is releasing at hand, and a gate none.  *)
Sweeps(r) ==
  r.job.op = "reserve" =>
    \/ r.todo = {} /\ r.claim \cup r.mine = {}
    \/ \E h \in r.todo : r.claim \cup r.mine = {h}

(* A top-up that passed the unique index is the only one of its reference, *)
(* and a refund is about blocks that can be refunded.                      *)
Given(t) ==
  /\ tx[t].job.op = "fund" =>
       /\ tx[t].job.amount \in Credits /\ tx[t].pc \in {"ref", "orgs", "commit"}
       /\ \/ tx[t].job.kind = "promotional" /\ tx[t].job.ref = None
          \/ tx[t].job.kind = "purchased" /\ tx[t].job.ref \in Refs
       /\ tx[t].pc \in {"orgs", "commit"} /\ tx[t].job.ref # None =>
            /\ lock[RefKey(tx[t].job.ref)] = t
            /\ \A b \in Blocks : block[b].ref # tx[t].job.ref
  /\ tx[t].job.op = "revoke" =>
       \A b \in DOMAIN tx[t].job.asked : b \in L!Refundable(tx[t].job.org)

(* A draw sees the blocks up to some k: it locks all of those that it      *)
(* could draw on, and none created since.                                  *)
SeesTo(t, k) ==
  /\ \A c \in tx[t].mine : hold[c].known <= k
  /\ \A b \in Blocks : b > k => b \notin tx[t].want /\ lock[BlockKey(b)] # t
  /\ \A b \in Blocks : b <= k /\ block[b].remaining > 0 /\ L!Sum(Dues(tx[t], block[b].org)) > 0
       => b \in tx[t].want \/ lock[BlockKey(b)] = t

Sees(t) ==
  tx[t].job.op \in {"close", "payTo"} /\ tx[t].pc \in {"blocks", "orgs", "commit"} =>
    tx[t].mine # {} /\ \E k \in Nat : k <= L!Funded /\ SeesTo(t, k)

Dated(r) == r.began <= today /\ r.stamp <= today

AtWork(t) == Sweeps(tx[t]) /\ Given(t) /\ Sees(t) /\ Dated(tx[t])

Tables ==
  /\ L!Numbered
  /\ \A c \in Calls : hold[c].known <= L!Funded
  /\ \A c \in Calls : tag[c].org = None => tag[c] = L!NoTag
  /\ L!NotFuture

Progress == Tables /\ \A t \in Txs : AtWork(t)

-----------------------------------------------------------------------------
(* What a step of t does to the rows of others                             *)

SameHold(c) ==
  /\ hold'[c].org = hold[c].org /\ hold'[c].amount = hold[c].amount
  /\ hold'[c].day = hold[c].day /\ hold'[c].known = hold[c].known

BlocksFrame(t) ==
  \A b \in Blocks :
    \/ /\ block'[b].org = block[b].org /\ block'[b].kind = block[b].kind
       /\ block'[b].ref = block[b].ref /\ block'[b].remaining <= block[b].remaining
    \/ /\ L!NextBlock(b) /\ block'[b].org # None
       /\ block'[b].ref # None => lock[RefKey(block'[b].ref)] = t

HoldsFrame(t) ==
  \A c \in Calls :
    \/ SameHold(c)
    \/ /\ hold'[c].known \in {0, L!Funded} /\ hold'[c].day <= today
       /\ \A u \in Txs \ {t} : c \notin tx[u].mine

TagsFrame == \A c \in Calls : tag'[c] = tag[c] \/ tag'[c] = L!NoTag \/ tag'[c].org # None

DaysFrame ==
  /\ \A c \in Calls : closing'[c] = closing[c] \/ closing'[c].day <= today
  /\ \A o \in Orgs : spent'[o] = spent[o] \/ spent'[o].day <= today
  /\ today <= today'

Frame(t) == BlocksFrame(t) /\ HoldsFrame(t) /\ TagsFrame /\ DaysFrame

LEMMA FundedFacts ==
  ASSUME TypeInv, L!Numbered
  PROVE  /\ L!Funded \in Nat
         /\ \A b \in Blocks : L!IsBlock(b) <=> b <= L!Funded
         /\ \A b \in Blocks : b \in Nat
BY Base, SameBlocks, L!FundedCount DEF TypeInv, Blocks

LEMMA FundedStays ==
  ASSUME TypeInv, TypeInv', NEW t, BlocksFrame(t)
  PROVE  L!Funded <= L!Funded' /\ L!Funded' \in Nat
<1>1. \A b \in Blocks : L!IsBlock(b) => L!IsBlock(b)'
  BY DEF BlocksFrame, L!IsBlock
<1>2. L!BlocksLast
  BY <1>1, SameBlocks DEF L!BlocksLast
<1> QED
  BY <1>2, Base, L!FundedGrows DEF TypeInv

LEMMA TablesKept ==
  ASSUME TypeInv, TypeInv', NEW t, Frame(t), Tables
  PROVE  Tables'
<1>1. /\ L!Funded \in Nat /\ L!Funded <= L!Funded' /\ L!Funded' \in Nat
      /\ today \in Nat /\ today' \in Nat /\ today <= today'
  BY FundedFacts, FundedStays DEF Frame, DaysFrame, Tables, TypeInv, L!TypeOK
<1>2. L!Numbered'
  <2> SUFFICES ASSUME NEW a \in Blocks, NEW b \in Blocks, a < b, block'[b].org # None
               PROVE  block'[a].org # None
    BY SameBlocks DEF L!Numbered, L!IsBlock
  <2>1. a \in Nat /\ b \in Nat
    BY DEF Blocks
  <2>2. CASE block[b].org # None
    <3>1. block[a].org # None
      BY <2>2, SameBlocks DEF Tables, L!Numbered, L!IsBlock
    <3> QED
      BY <3>1 DEF Frame, BlocksFrame
  <2>3. CASE block[b].org = None
    <3>1. L!NextBlock(b)
      BY <2>3 DEF Frame, BlocksFrame
    <3>2. block[a].org # None
      BY <2>1, <3>1, SameBlocks DEF L!NextBlock, L!IsBlock
    <3> QED
      BY <3>2 DEF Frame, BlocksFrame
  <2> QED
    BY <2>2, <2>3
<1>3. \A c \in Calls : hold'[c].known <= L!Funded'
  <2> TAKE c \in Calls
  <2>1. hold[c].known \in Nat /\ hold'[c].known \in Nat /\ hold[c].known <= L!Funded
    BY DEF Tables, TypeInv, L!TypeOK, L!HoldRow
  <2>2. hold'[c].known \in {hold[c].known, 0, L!Funded}
    BY DEF Frame, HoldsFrame, SameHold
  <2> QED
    BY <1>1, <2>1, <2>2
<1>4. \A c \in Calls : tag'[c].org = None => tag'[c] = L!NoTag
  BY DEF Frame, TagsFrame, Tables
<1>5. L!NotFuture'
  <2>1. \A c \in Calls : hold'[c].day <= today' /\ closing'[c].day <= today'
    <3> TAKE c \in Calls
    <3>1. /\ hold[c].day \in Nat /\ hold'[c].day \in Nat
          /\ closing[c].day \in Nat /\ closing'[c].day \in Nat
      BY DEF TypeInv, L!TypeOK, L!HoldRow, L!EntryRow
    <3>2. hold[c].day <= today /\ closing[c].day <= today
      BY DEF Tables, L!NotFuture
    <3>3. hold'[c].day <= today
      BY <3>2 DEF Frame, HoldsFrame, SameHold
    <3>4. closing'[c].day <= today
      BY <3>2 DEF Frame, DaysFrame
    <3> QED
      BY <1>1, <3>1, <3>3, <3>4
  <2>2. \A o \in Orgs : spent'[o].day # None => spent'[o].day <= today'
    <3> TAKE o \in Orgs
    <3>1. spent'[o].day # None => spent'[o].day \in Nat
      BY DEF TypeInv, L!TypeOK
    <3>2. spent'[o].day # None => spent'[o].day <= today
      BY DEF Tables, L!NotFuture, Frame, DaysFrame
    <3> QED
      BY <1>1, <3>1, <3>2
  <2> QED
    BY <2>1, <2>2 DEF L!NotFuture
<1> QED
  BY <1>2, <1>3, <1>4, <1>5 DEF Tables

(* What is due depends on the holds a transaction has claimed.             *)
LEMMA DuesKept ==
  ASSUME NEW r, \A c \in r.mine : hold'[c].org = hold[c].org /\ hold'[c].amount = hold[c].amount
  PROVE  \A o : Dues(r, o)' = Dues(r, o)
<1>1. \A c \in r.mine : Due(r.job, c)' = Due(r.job, c)
  BY DEF Due, L!Settled
<1> SUFFICES ASSUME NEW o PROVE Dues(r, o)' = Dues(r, o)
  OBVIOUS
<1> DEFINE S == {x \in r.mine : hold[x].org = o /\ Settles(r, x)}
           T == {x \in r.mine : hold'[x].org = o /\ Settles(r, x)}
<1>2. S = T
  OBVIOUS
<1>3. Dues(r, o) = [c \in S |-> Due(r.job, c)]
  BY DEF Dues
<1>4. Dues(r, o)' = [c \in T |-> Due(r.job, c)']
  BY DEF Dues, Settles
<1>5. \A c \in S : c \in r.mine
  OBVIOUS
<1> HIDE DEF S, T
<1> QED
  BY <1>1, <1>2, <1>3, <1>4, <1>5

LEMMA SameDues ==
  ASSUME NEW r, NEW s, s.job = r.job, s.mine = r.mine
  PROVE  \A o : Dues(s, o) = Dues(r, o)
BY DEF Dues, Settles

(* A transaction stays at work while others go on.                         *)
LEMMA StaysAtWork ==
  ASSUME TypeInv, TypeInv', Tables, NEW t, NEW u \in Txs, u # t, tx'[u] = tx[u],
         \A k \in Keys : lock'[k] = u <=> lock[k] = u,
         Stands(u), Frame(t), AtWork(u)
  PROVE  AtWork(u)'
<1>1. /\ \A b \in Blocks : lock'[BlockKey(b)] = u <=> lock[BlockKey(b)] = u
      /\ \A f \in Refs : lock'[RefKey(f)] = u <=> lock[RefKey(f)] = u
  BY KeyTypes
<1>2. PICK r \in TxRow : r = tx[u]
  BY DEF TypeInv
<1>3. r = tx'[u] /\ r.job \in JobSet /\ r.mine \subseteq Calls
  BY <1>2, RowFields
<1>4. Sweeps(tx[u])' /\ Dated(tx[u])'
  <2>1. today \in Nat /\ today' \in Nat /\ today <= today' /\ r.began \in Nat /\ r.stamp \in Nat
    BY <1>2, RowFields DEF TypeInv, L!TypeOK, Frame, DaysFrame
  <2> QED
    BY <1>2, <1>3, <2>1 DEF AtWork, Sweeps, Dated
<1>5. Given(u)'
  <2>1. ASSUME r.job.op = "fund", r.pc \in {"orgs", "commit"}, r.job.ref # None
        PROVE  /\ lock'[RefKey(r.job.ref)] = u
               /\ \A b \in Blocks : block'[b].ref # r.job.ref
    <3>1. r.job.ref \in Refs /\ lock[RefKey(r.job.ref)] = u /\ \A b \in Blocks : block[b].ref # r.job.ref
      BY <1>2, <2>1 DEF AtWork, Given
    <3>2. ASSUME NEW b \in Blocks PROVE block'[b].ref # r.job.ref
      BY <2>1, <3>1 DEF Frame, BlocksFrame
    <3> QED
      BY <1>1, <3>1, <3>2
  <2>2. ASSUME r.job.op = "revoke", NEW b \in DOMAIN r.job.asked
        PROVE  b \in L!Refundable(r.job.org)'
    <3>1. b \in L!Refundable(r.job.org) /\ r.job.org \in Orgs
      BY <1>2, <1>3, <2>2, JobFields DEF AtWork, Given
    <3>2. b \in Blocks /\ block[b].org = r.job.org /\ block[b].kind \in {"purchased", "bonus"}
      BY <3>1, SameBlocks DEF L!Refundable
    <3>3. ~L!NextBlock(b)
      BY <3>1, <3>2, Base DEF L!NextBlock, L!IsBlock
    <3>4. block'[b].org = r.job.org /\ block'[b].kind \in {"purchased", "bonus"}
      BY <3>2, <3>3 DEF Frame, BlocksFrame
    <3> QED
      BY <3>2, <3>4, SameBlocks DEF L!Refundable
  <2>3. r.job.op = "fund" =>
          /\ r.job.amount \in Credits /\ r.pc \in {"ref", "orgs", "commit"}
          /\ \/ r.job.kind = "promotional" /\ r.job.ref = None
             \/ r.job.kind = "purchased" /\ r.job.ref \in Refs
    BY <1>2 DEF AtWork, Given
  <2> QED
    BY <1>3, <2>1, <2>2, <2>3 DEF Given
<1>6. Sees(u)'
  <2> SUFFICES ASSUME r.job.op \in {"close", "payTo"}, r.pc \in {"blocks", "orgs", "commit"}
               PROVE  r.mine # {} /\ \E k \in Nat : k <= L!Funded' /\ SeesTo(u, k)'
    BY <1>3 DEF Sees
  <2>0. r.mine # {}
    BY <1>2 DEF AtWork, Sees
  <2>1. PICK k \in Nat : k <= L!Funded /\ SeesTo(u, k)
    BY <1>2 DEF AtWork, Sees
  <2>2. L!Funded \in Nat /\ k <= L!Funded'
    BY <2>1, FundedFacts, FundedStays DEF Frame, Tables
  <2>3. ASSUME NEW c \in r.mine PROVE SameHold(c)
    BY <1>2, <1>3, <2>3 DEF Frame, HoldsFrame
  <2>4. \A o : Dues(r, o)' = Dues(r, o)
    BY <2>3, DuesKept DEF SameHold
  <2>5. \A c \in r.mine : hold'[c].known <= k
    BY <1>2, <2>1, <2>3 DEF SeesTo, SameHold
  <2>6. \A b \in Blocks : b > k => b \notin r.want /\ lock'[BlockKey(b)] # u
    BY <1>1, <1>2, <2>1 DEF SeesTo
  <2>7. ASSUME NEW b \in Blocks, b <= k, block'[b].remaining > 0,
               NEW o, o = block'[b].org, L!Sum(Dues(r, o)) > 0
        PROVE  b \in r.want \/ lock'[BlockKey(b)] = u
    <3>1. ~L!NextBlock(b)
      BY <2>1, <2>2, <2>7, FundedFacts DEF L!NextBlock, Tables
    <3>2. block'[b].org = block[b].org /\ block'[b].remaining <= block[b].remaining
      BY <3>1 DEF Frame, BlocksFrame
    <3>3. block[b].remaining \in Nat /\ block'[b].remaining \in Nat
      BY SameBlocks DEF TypeInv, L!TypeOK, L!BlockRow
    <3> QED
      BY <1>1, <1>2, <2>1, <2>7, <3>2, <3>3 DEF SeesTo
  <2>8. ASSUME NEW b \in Blocks, b <= k, block'[b].remaining > 0,
               L!Sum(Dues(tx[u], block[b].org))' > 0
        PROVE  b \in r.want \/ lock'[BlockKey(b)] = u
    <3>1. PICK o : o = block'[b].org
      OBVIOUS
    <3>2. L!Sum(Dues(r, o)) > 0
      BY <1>3, <2>4, <2>8, <3>1
    <3> QED
      BY <2>7, <2>8, <3>1, <3>2
  <2>9. SeesTo(u, k)'
    BY <1>3, <2>5, <2>6, <2>8 DEF SeesTo
  <2> QED
    BY <2>0, <2>2, <2>9
<1> QED
  BY <1>4, <1>5, <1>6 DEF AtWork

-----------------------------------------------------------------------------
(* Statements *)

LEMMA Stutters ==
  ASSUME UNCHANGED <<db, today>>, Reserving' = Reserving
  PROVE  LedgerStep
BY DEF LedgerStep, L!vars, db

(* A statement that leaves a reserve where it is says nothing to Ledger.   *)
LEMMA StatementStutters ==
  ASSUME Invariant, Accounts, Invariant', Accounts', NEW t \in Txs, UNCHANGED <<db, today>>,
         NEW g \in TxRow, tx' = [tx EXCEPT ![t] = g],
         \/ g.job = tx[t].job /\ g.todo = tx[t].todo
         \/ tx[t].job.op # "reserve" /\ g.job.op # "reserve"
  PROVE  LedgerStep
<1>1. tx \in [Txs -> TxRow] /\ tx' \in [Txs -> TxRow]
  BY DEF Invariant, TypeInv
<1>2. tx'[t] = g /\ \A u \in Txs \ {t} : tx'[u] = tx[u]
  BY <1>1
<1>3. ReservingOf(tx') = ReservingOf(tx)
  <2>1. ReservesAlone(tx) /\ ReservesAlone(tx')
    BY ReservingRows
  <2> QED
    BY <1>1, <1>2, <2>1, ReservingSame
<1> QED
  BY <1>3, ReservingRows, Stutters

(* The three ways a reserve moves.                                         *)
LEMMA ReserveMoves ==
  ASSUME Invariant, Accounts, Invariant', Accounts', NEW t \in Txs, NEW g, tx' = [tx EXCEPT ![t] = g]
  PROVE  /\ tx[t].job.op # "reserve" /\ g.job.op = "reserve" =>
              Reserving' = [Reserving EXCEPT ![g.job.call] = ReserveOf(g)]
         /\ tx[t].job.op = "reserve" =>
              /\ tx[t].job.call \in Calls /\ Reserving[tx[t].job.call] = ReserveOf(tx[t])
              /\ g.job = tx[t].job =>
                   Reserving' = [Reserving EXCEPT ![tx[t].job.call] = ReserveOf(g)]
              /\ g.job.op # "reserve" =>
                   Reserving' = [Reserving EXCEPT ![tx[t].job.call] = L!NoReserve]
<1>1. tx \in [Txs -> TxRow] /\ tx' \in [Txs -> TxRow]
  BY DEF Invariant, TypeInv
<1>2. tx'[t] = g /\ \A u \in Txs \ {t} : tx'[u] = tx[u]
  BY <1>1
<1>3. ReservesAlone(tx) /\ ReservesAlone(tx')
  BY ReservingRows
<1>4. PICK y \in [Txs -> TxRow] : y = tx'
  BY <1>1
<1>5. PICK x \in [Txs -> TxRow] : x = tx
  BY <1>1
<1>6. ReservesAlone(x) /\ ReservesAlone(y) /\ \A u \in Txs \ {t} : y[u] = x[u]
  BY <1>2, <1>3, <1>4, <1>5
<1>7. /\ x[t].job.op = "reserve" => x[t].job.call \in Calls
      /\ y[t].job.op = "reserve" => y[t].job.call \in Calls
  BY RowFields, JobFields
<1>8. x[t].job.op # "reserve" /\ y[t].job.op = "reserve" =>
        ReservingOf(y) = WithReserve(ReservingOf(x), y[t].job.call, ReserveOf(y[t]))
  <2> HAVE x[t].job.op # "reserve" /\ y[t].job.op = "reserve"
  <2>1. PICK d, row : d = y[t].job.call /\ row = ReserveOf(y[t])
    OBVIOUS
  <2>2. /\ \A c \in Calls : ReservesCall(x[t], c) => c = d
        /\ \A c \in Calls : ReservesCall(y[t], c) => c = d /\ row = ReserveOf(y[t])
        /\ ReservesCall(y[t], d)
    BY <2>1 DEF ReservesCall
  <2>3. ~ReservesCall(y[t], d) => ReservesCall(x[t], d) /\ row = L!NoReserve
    BY <2>2
  <2>4. ReservingOf(y) = WithReserve(ReservingOf(x), d, row)
    <3>1. MovesReserve(x[t], y[t], d, row)
      BY <2>2, <2>3 DEF MovesReserve
    <3> QED
      BY <1>6, <3>1, ReservingPut
  <2> QED
    BY <2>1, <2>4
<1>9. x[t].job.op = "reserve" =>
        /\ y[t].job = x[t].job =>
             ReservingOf(y) = WithReserve(ReservingOf(x), x[t].job.call, ReserveOf(y[t]))
        /\ y[t].job.op # "reserve" =>
             ReservingOf(y) = WithReserve(ReservingOf(x), x[t].job.call, L!NoReserve)
  <2> HAVE x[t].job.op = "reserve"
  <2>1. PICK d : d = x[t].job.call
    OBVIOUS
  <2>2. \A c \in Calls : ReservesCall(x[t], c) => c = d
    BY <2>1 DEF ReservesCall
  <2>3. ASSUME y[t].job = x[t].job
        PROVE  ReservingOf(y) = WithReserve(ReservingOf(x), d, ReserveOf(y[t]))
    <3>1. PICK row : row = ReserveOf(y[t])
      OBVIOUS
    <3>2. \A c \in Calls : ReservesCall(y[t], c) => c = d /\ row = ReserveOf(y[t])
      BY <2>1, <2>3, <3>1 DEF ReservesCall
    <3>3. ~ReservesCall(y[t], d) => ReservesCall(x[t], d) /\ row = L!NoReserve
      BY <2>1, <2>3 DEF ReservesCall
    <3>4. ReservingOf(y) = WithReserve(ReservingOf(x), d, row)
      <4>1. MovesReserve(x[t], y[t], d, row)
        BY <2>2, <3>2, <3>3 DEF MovesReserve
      <4> QED
        BY <1>6, <4>1, ReservingPut
    <3> QED
      BY <3>1, <3>4
  <2>4. ASSUME y[t].job.op # "reserve"
        PROVE  ReservingOf(y) = WithReserve(ReservingOf(x), d, L!NoReserve)
    <3>1. PICK row : row = L!NoReserve
      OBVIOUS
    <3>2. \A c \in Calls : ReservesCall(y[t], c) => c = d /\ row = ReserveOf(y[t])
      BY <2>4 DEF ReservesCall
    <3>3. ~ReservesCall(y[t], d) => ReservesCall(x[t], d) /\ row = L!NoReserve
      BY <2>1, <3>1 DEF ReservesCall
    <3>4. ReservingOf(y) = WithReserve(ReservingOf(x), d, row)
      <4>1. MovesReserve(x[t], y[t], d, row)
        BY <2>2, <3>2, <3>3 DEF MovesReserve
      <4> QED
        BY <1>6, <4>1, ReservingPut
    <3> QED
      BY <3>1, <3>4
  <2> QED
    BY <2>1, <2>3, <2>4
<1>10. ASSUME tx[t].job.op = "reserve"
      PROVE  tx[t].job.call \in Calls /\ ReservingOf(tx)[tx[t].job.call] = ReserveOf(tx[t])
  <2>1. tx[t].job.call \in Calls
    BY <1>1, <1>10, RowFields, JobFields
  <2> QED
    BY <1>3, <1>10, <2>1, ReservingAt DEF ReservesCall
<1> QED
  BY <1>2, <1>4, <1>5, <1>8, <1>9, <1>10, ReservingRows DEF WithReserve

(* A transaction that ends without a commit lets its reserve go.           *)
LEMMA FinishSteps ==
  ASSUME Invariant, Accounts, Invariant', Accounts', NEW t \in Txs, UNCHANGED <<db, today>>, Finish(t)
  PROVE  /\ AtWork(t)' /\ LedgerStep
         /\ tx[t].job.op = "reserve" => L!ReserveAbandon(tx[t].job.call)
<1>1. tx \in [Txs -> TxRow] /\ tx' \in [Txs -> TxRow] /\ tx' = [tx EXCEPT ![t] = Idle]
  BY DEF Invariant, TypeInv, Finish
<1>2. tx'[t] = Idle /\ \A u \in Txs \ {t} : tx'[u] = tx[u]
  BY <1>1
<1>3. AtWork(t)'
  <2>1. today' \in Nat
    BY DEF Invariant, TypeInv, L!TypeOK
  <2> QED
    BY <1>2, <2>1, IdleRow DEF AtWork, Sweeps, Given, Sees, Dated
<1>4. CASE tx[t].job.op # "reserve"
  BY <1>1, <1>3, <1>4, IdleRow, StatementStutters
<1>5. CASE tx[t].job.op = "reserve"
  <2> DEFINE c == tx[t].job.call
  <2>2. c \in Calls /\ Reserving[c] = ReserveOf(tx[t])
        /\ Reserving' = [Reserving EXCEPT ![c] = L!NoReserve]
    BY <1>1, <1>5, IdleRow, ReserveMoves
  <2>3. Reserving[c] # L!NoReserve
    <3>1. Reserving[c].org = tx[t].job.org /\ L!NoReserve.org = None
      BY <2>2 DEF ReserveOf, L!NoReserve
    <3>2. tx[t].job.org \in Orgs
      BY <1>1, <1>5, RowFields, JobFields
    <3> QED
      BY <3>1, <3>2, Base
  <2>4. L!ReserveAbandon(c)
    BY <2>2, <2>3 DEF L!ReserveAbandon, db
  <2> QED
    BY <1>3, <2>2, <2>4 DEF LedgerStep, L!Next
<1> QED
  BY <1>3, <1>4, <1>5

LEMMA ToOrgsDays ==
  ASSUME TypeInv, NEW r \in TxRow, Equipped(r), r.orgs = {}, Dated(r)
  PROVE  Dated(ToOrgs(r))
<1>1. today \in Nat
  BY DEF TypeInv, L!TypeOK
<1>2. ToOrgs(r).began = r.began /\ ToOrgs(r).stamp = today
  BY ToOrgsRow
<1> QED
  BY <1>1, <1>2 DEF Dated

LEMMA ToBlocksDays ==
  ASSUME TypeInv, NEW r \in TxRow, Equipped(r), r.orgs = {}, r.want = {}, Dated(r)
  PROVE  Dated(ToBlocks(r))
<1>1. today \in Nat
  BY DEF TypeInv, L!TypeOK
<1>2. ToBlocks(r).began = today /\ (ToBlocks(r).want = {} => ToBlocks(r).stamp = today)
      /\ ToBlocks(r).want = Spendable(r)
  BY ToBlocksRow
<1>3. CASE ToBlocks(r).want = {}
  BY <1>1, <1>2, <1>3 DEF Dated
<1>4. CASE ToBlocks(r).want # {}
  <2> DEFINE s == [r EXCEPT !.began = today]
             w == Spendable(s)
  <2>1. s \in TxRow /\ s.stamp = r.stamp /\ s.job = r.job /\ s.mine = r.mine
    BY <1>1 DEF TxRow
  <2> HIDE DEF s
  <2>2. w = Spendable(r)
    <3>1. \A o : Dues(s, o) = Dues(r, o)
      BY <2>1, SameDues
    <3> QED
      BY <3>1 DEF Spendable
  <2>3. ToBlocks(r) = [s EXCEPT !.pc = "blocks", !.want = w]
    BY <1>2, <1>4, <2>2 DEF ToBlocks, s
  <2> HIDE DEF w
  <2>4. ToBlocks(r).stamp = r.stamp
    BY <2>1, <2>3 DEF TxRow
  <2> QED
    BY <1>1, <1>2, <2>4 DEF Dated
<1> QED
  BY <1>3, <1>4

LEMMA ToGateWork ==
  ASSUME TypeInv, NEW r \in TxRow, r.job.op = "reserve", r.orgs = {}, r.want = {}, r.claim = {}, Dated(r)
  PROVE  Dated(ToGate(r)) /\ Sweeps(ToGate(r))
<1>1. today \in Nat
  BY DEF TypeInv, L!TypeOK
<1>2. /\ ToGate(r).job = r.job /\ ToGate(r).mine = {} /\ ToGate(r).todo = r.todo
      /\ r.todo # {} => ToGate(r).claim = {First(r.todo)} /\ First(r.todo) \in r.todo
      /\ r.todo = {} => ToGate(r).claim = {}
  BY ToGateRow
<1>3. Sweeps(ToGate(r))
  BY <1>2 DEF Sweeps
<1>4. CASE r.todo = {}
  <2> DEFINE s == [r EXCEPT !.mine = {}]
  <2>1. s \in TxRow /\ ToGate(r) = ToOrgs(s)
    BY <1>4 DEF TxRow, ToGate
  <2>2. s.job = r.job /\ s.mine = {} /\ s.orgs = {} /\ s.began = r.began /\ s.stamp = r.stamp
    BY DEF TxRow
  <2> HIDE DEF s
  <2>3. Equipped(s) /\ Dated(s)
    BY <2>2 DEF Equipped, Dated
  <2> QED
    BY <1>3, <2>1, <2>2, <2>3, ToOrgsDays
<1>5. CASE r.todo # {}
  <2> DEFINE F == {First(r.todo)}
  <2>1. ToGate(r) = [r EXCEPT !.pc = "claim", !.claim = F, !.mine = {}]
    BY <1>5 DEF ToGate
  <2> HIDE DEF F
  <2>2. ToGate(r).began = r.began /\ ToGate(r).stamp = r.stamp
    BY <2>1 DEF TxRow
  <2> QED
    BY <1>3, <2>2 DEF Dated
<1> QED
  BY <1>4, <1>5

-----------------------------------------------------------------------------
(* Starting *)

LEMMA BeginWorks ==
  ASSUME Invariant, Accounts, Invariant', Accounts', NEW t \in Txs, NEW g \in TxRow, Begin(t, g),
         g.job.op # "reserve", g.job.op \in {"close", "payTo"} => g.pc = "claim", Dated(g),
         g.job.op = "fund" =>
           /\ g.job.amount \in Credits /\ g.pc \in {"ref", "orgs", "commit"}
           /\ \/ g.job.kind = "promotional" /\ g.job.ref = None
              \/ g.job.kind = "purchased" /\ g.job.ref \in Refs /\ g.pc = "ref",
         g.job.op = "revoke" => \A b \in DOMAIN g.job.asked : b \in L!Refundable(g.job.org)
  PROVE  AtWork(t)' /\ LedgerStep
<1>1. tx[t] = Idle /\ tx' = [tx EXCEPT ![t] = g] /\ UNCHANGED <<db, today>>
  BY DEF Begin
<1>2. tx'[t] = g /\ block' = block /\ today' = today
  BY <1>1 DEF Invariant, TypeInv, db
<1>3. Sweeps(tx[t])' /\ Dated(tx[t])' /\ Sees(t)'
  BY <1>2 DEF Sweeps, Dated, Sees
<1>4. Given(t)'
  <2>1. g.job.op = "revoke" => \A b \in DOMAIN g.job.asked : b \in L!Refundable(g.job.org)'
    BY <1>2 DEF L!Refundable
  <2> QED
    BY <1>2, <2>1 DEF Given
<1>5. LedgerStep
  BY <1>1, IdleRow, StatementStutters
<1> QED
  BY <1>3, <1>4, <1>5 DEF AtWork

LEMMA BeginCloseWorks ==
  ASSUME Invariant, Accounts, Invariant', Accounts', NEW t \in Txs, NEW S \in SUBSET Calls,
         NEW R \in SUBSET Calls, NEW actual \in [S -> Costs], BeginClose(t, S, R, actual)
  PROVE  AtWork(t)' /\ LedgerStep
<1> DEFINE j == [op |-> "close", settle |-> S, actual |-> actual]
           C == S \cup R
           r == [Idle EXCEPT !.job = j, !.pc = "claim", !.claim = C]
<1>1. j \in JobSet /\ j.op = "close"
  BY DEF JobSet, CloseJobs
<1>2. C \in SUBSET Calls /\ today \in Nat
  BY DEF Invariant, TypeInv, L!TypeOK
<1>3. Begin(t, r)
  BY DEF BeginClose
<1> HIDE DEF j, C
<1>4. r \in TxRow
  BY <1>1, <1>2, IdleRow DEF TxRow, Stages
<1>5. r.job = j /\ r.pc = "claim" /\ r.began = 0 /\ r.stamp = 0
  BY IdleRow DEF TxRow
<1> HIDE DEF r
<1>6. Dated(r)
  BY <1>2, <1>5 DEF Dated
<1> QED
  BY <1>1, <1>3, <1>4, <1>5, <1>6, BeginWorks

LEMMA BeginPayToWorks ==
  ASSUME Invariant, Accounts, Invariant', Accounts', NEW t \in Txs, NEW c \in Calls,
         NEW payee \in Orgs, NEW a \in Costs, BeginPayTo(t, c, payee, a)
  PROVE  AtWork(t)' /\ LedgerStep
<1> DEFINE j == [op |-> "payTo", call |-> c, payee |-> payee, actual |-> a]
           C == {c}
           r == [Idle EXCEPT !.job = j, !.pc = "claim", !.claim = C]
<1>1. j \in JobSet /\ j.op = "payTo"
  BY DEF JobSet, PayToJobs
<1>2. C \in SUBSET Calls /\ today \in Nat
  BY DEF Invariant, TypeInv, L!TypeOK
<1>3. Begin(t, r)
  BY DEF BeginPayTo
<1> HIDE DEF j, C
<1>4. r \in TxRow
  BY <1>1, <1>2, IdleRow DEF TxRow, Stages
<1>5. r.job = j /\ r.pc = "claim" /\ r.began = 0 /\ r.stamp = 0
  BY IdleRow DEF TxRow
<1> HIDE DEF r
<1>6. Dated(r)
  BY <1>2, <1>5 DEF Dated
<1> QED
  BY <1>1, <1>3, <1>4, <1>5, <1>6, BeginWorks

LEMMA BeginRevokeWorks ==
  ASSUME Invariant, Accounts, Invariant', Accounts', NEW t \in Txs, NEW o \in Orgs,
         NEW T \in SUBSET L!Refundable(o), NEW asked \in [T -> Targets], BeginRevoke(t, o, asked)
  PROVE  AtWork(t)' /\ LedgerStep
<1> DEFINE j == [op |-> "revoke", org |-> o, asked |-> asked]
           r == [Idle EXCEPT !.job = j, !.pc = "blocks", !.want = T]
<1>1. T \in SUBSET Blocks /\ today \in Nat
  BY SameBlocks DEF L!Refundable, Invariant, TypeInv, L!TypeOK
<1>2. /\ j \in JobSet /\ j.op = "revoke" /\ j.org = o /\ j.asked = asked /\ DOMAIN asked = T
      /\ \A b \in DOMAIN j.asked : b \in L!Refundable(j.org)
  BY <1>1 DEF JobSet, RevokeJobs
<1>3. Begin(t, r)
  BY <1>2 DEF BeginRevoke
<1> HIDE DEF j
<1>4. r \in TxRow
  BY <1>1, <1>2, IdleRow DEF TxRow, Stages
<1>5. r.job = j /\ r.pc = "blocks" /\ r.began = 0 /\ r.stamp = 0
  BY IdleRow DEF TxRow
<1> HIDE DEF r
<1>6. Dated(r)
  BY <1>1, <1>5 DEF Dated
<1> QED
  BY <1>2, <1>3, <1>4, <1>5, <1>6, BeginWorks

LEMMA BeginTopupWorks ==
  ASSUME Invariant, Accounts, Invariant', Accounts', NEW t \in Txs, NEW o \in Orgs,
         NEW n \in Credits, NEW ref \in Refs, BeginTopup(t, o, n, ref)
  PROVE  AtWork(t)' /\ LedgerStep
<1> DEFINE j == [op |-> "fund", org |-> o, kind |-> "purchased", amount |-> n, ref |-> ref]
           r == [Idle EXCEPT !.job = j, !.pc = "ref"]
<1>1. j \in JobSet /\ j.op = "fund" /\ j.amount = n /\ j.kind = "purchased" /\ j.ref = ref
  <2>1. n \in Nat /\ "purchased" \in L!Kinds
    BY Base DEF L!LedgerAssumption, L!Kinds
  <2>2. j \in FundJobs
    BY <2>1 DEF FundJobs
  <2> QED
    BY <2>1, <2>2 DEF JobSet
<1>2. Begin(t, r)
  BY DEF BeginTopup
<1> HIDE DEF j
<1>3. r \in TxRow
  BY <1>1, IdleRow DEF TxRow, Stages
<1>4. r.job = j /\ r.pc = "ref" /\ r.began = 0 /\ r.stamp = 0
  BY IdleRow DEF TxRow
<1> HIDE DEF r
<1>5. Dated(r)
  BY <1>4 DEF Dated, Invariant, TypeInv, L!TypeOK
<1> QED
  BY <1>1, <1>2, <1>3, <1>4, <1>5, BeginWorks

LEMMA BeginGrantWorks ==
  ASSUME Invariant, Accounts, Invariant', Accounts', NEW t \in Txs, NEW o \in Orgs,
         NEW n \in Credits, BeginGrant(t, o, n)
  PROVE  AtWork(t)' /\ LedgerStep
<1> DEFINE j == [op |-> "fund", org |-> o, kind |-> "promotional", amount |-> n, ref |-> None]
           r == [Idle EXCEPT !.job = j]
           g == ToOrgs(r)
<1>1. j \in JobSet /\ j.op = "fund" /\ j.amount = n /\ j.kind = "promotional" /\ j.ref = None
  <2>1. n \in Nat /\ "promotional" \in L!Kinds
    BY Base DEF L!LedgerAssumption, L!Kinds
  <2>2. j \in FundJobs
    BY <2>1 DEF FundJobs
  <2> QED
    BY <2>2 DEF JobSet
<1>2. Begin(t, g)
  BY DEF BeginGrant
<1> HIDE DEF j
<1>3. r \in TxRow
  BY <1>1, IdleRow DEF TxRow
<1>4. r.job = j /\ r.mine = {} /\ r.orgs = {} /\ r.began = 0 /\ r.stamp = 0
  BY IdleRow DEF TxRow
<1> HIDE DEF r
<1>5. TypeInv /\ Equipped(r) /\ Dated(r)
  BY <1>1, <1>4 DEF Invariant, Equipped, Dated, TypeInv, L!TypeOK
<1>6. g \in TxRow /\ g.job = j /\ g.pc \in {"orgs", "commit"} /\ Dated(g)
  BY <1>3, <1>4, <1>5, ToOrgsRow, ToOrgsDays DEF SameWork
<1> HIDE DEF g
<1> QED
  BY <1>1, <1>2, <1>6, BeginWorks

LEMMA BeginReserveWorks ==
  ASSUME Invariant, Accounts, Invariant', Accounts', NEW t \in Txs, NEW c \in Calls, NEW o \in Orgs,
         NEW est \in Estimates, BeginReserve(t, c, o, est)
  PROVE  AtWork(t)' /\ LedgerStep
<1> DEFINE n == L!WithMargin(est, Margin)
           j == [op |-> "reserve", call |-> c, org |-> o, charged |-> n]
           T == L!Reapable(o)
           r == [Idle EXCEPT !.job = j, !.todo = T]
           g == ToGate(r)
<1>1. n \in Nat
  <2>1. est \in Nat /\ Margin \in Nat
    BY Base DEF L!LedgerAssumption
  <2> QED
    BY <2>1, Base, L!MarginType
<1>2. Begin(t, g) /\ L!Fresh(c)
  BY DEF BeginReserve
<1> HIDE DEF n
<1>3. j \in JobSet /\ j.op = "reserve" /\ j.call = c /\ j.org = o /\ j.charged = n
  BY <1>1 DEF JobSet, ReserveJobs
<1>4. T \in SUBSET Calls
  BY DEF L!Reapable
<1> HIDE DEF j, T
<1>5. r \in TxRow
  BY <1>3, <1>4, IdleRow DEF TxRow
<1>6. /\ r.job = j /\ r.claim = {} /\ r.want = {} /\ r.orgs = {} /\ r.todo = T
      /\ r.began = 0 /\ r.stamp = 0
  BY IdleRow DEF TxRow
<1> HIDE DEF r
<1>7. TypeInv /\ Dated(r)
  BY <1>6 DEF Invariant, Dated, TypeInv, L!TypeOK
<1>8. g \in TxRow /\ g.job = j /\ g.todo = T /\ Dated(g) /\ Sweeps(g)
  BY <1>3, <1>5, <1>6, <1>7, ToGateRow, ToGateWork
<1> HIDE DEF g
<1>9. tx[t] = Idle /\ tx' = [tx EXCEPT ![t] = g] /\ UNCHANGED <<db, today>>
  BY <1>2 DEF Begin
<1>10. tx'[t] = g /\ today' = today
  BY <1>7, <1>9 DEF TypeInv
<1>11. AtWork(t)'
  BY <1>3, <1>8, <1>10 DEF AtWork, Sweeps, Given, Sees, Dated
<1>12. Reserving' = [Reserving EXCEPT ![c] = ReserveOf(g)]
  BY <1>3, <1>8, <1>9, IdleRow, ReserveMoves
<1>13. ReserveOf(g) = [org |-> o, charged |-> n, todo |-> T]
  BY <1>3, <1>8 DEF ReserveOf
<1>14. L!ReserveScan(c, o, est)
  BY <1>2, <1>9, <1>12, <1>13 DEF L!ReserveScan, db, n, T
<1> QED
  BY <1>11, <1>14 DEF LedgerStep, L!Next

LEMMA StartWorks ==
  ASSUME Invariant, Accounts, Invariant', Accounts', NEW t \in Txs, Start(t)
  PROVE  AtWork(t)' /\ LedgerStep
<1>1. ASSUME NEW C \in SUBSET Calls, NEW S \in SUBSET C, NEW actual \in [S -> Costs],
             BeginClose(t, S, C \ S, actual)
      PROVE  AtWork(t)' /\ LedgerStep
  <2>1. S \in SUBSET Calls /\ C \ S \in SUBSET Calls
    OBVIOUS
  <2> QED
    BY <1>1, <2>1, BeginCloseWorks
<1>2. ASSUME NEW c \in Calls, NEW payee \in Orgs, NEW a \in Costs, BeginPayTo(t, c, payee, a)
      PROVE  AtWork(t)' /\ LedgerStep
  BY <1>2, BeginPayToWorks
<1>3. ASSUME NEW c \in Calls, NEW o \in Orgs, NEW est \in Estimates, BeginReserve(t, c, o, est)
      PROVE  AtWork(t)' /\ LedgerStep
  BY <1>3, BeginReserveWorks
<1>4. ASSUME NEW o \in Orgs, NEW T \in SUBSET L!Refundable(o), NEW asked \in [T -> Targets],
             BeginRevoke(t, o, asked)
      PROVE  AtWork(t)' /\ LedgerStep
  BY <1>4, BeginRevokeWorks
<1>5. ASSUME NEW o \in Orgs, NEW n \in Credits, BeginGrant(t, o, n) PROVE AtWork(t)' /\ LedgerStep
  BY <1>5, BeginGrantWorks
<1>6. ASSUME NEW o \in Orgs, NEW n \in Credits, NEW ref \in Refs, BeginTopup(t, o, n, ref)
      PROVE  AtWork(t)' /\ LedgerStep
  BY <1>6, BeginTopupWorks
<1> QED
  BY <1>1, <1>2, <1>3, <1>4, <1>5, <1>6 DEF Start

-----------------------------------------------------------------------------
(* Acquiring locks *)

(* What a statement reads leaves what is due, and by whom, as it was.      *)
LEMMA SeesOn ==
  ASSUME NEW t, NEW g, tx'[t] = g, UNCHANGED <<db, today>>, NEW k,
         \A c \in g.mine : hold[c].known <= k,
         \A b \in Blocks : b > k => b \notin g.want /\ lock'[BlockKey(b)] # t,
         \A b \in Blocks : b <= k /\ block[b].remaining > 0 /\ L!Sum(Dues(g, block[b].org)) > 0
           => b \in g.want \/ lock'[BlockKey(b)] = t
  PROVE  SeesTo(t, k)' /\ L!Funded' = L!Funded
<1>1. block' = block /\ hold' = hold
  BY DEF db
<1>2. L!Funded' = L!Funded
  BY <1>1 DEF L!Funded, L!IsBlock
<1>3. \A o : Dues(g, o)' = Dues(g, o)
  BY <1>1, DuesKept
<1>4. ASSUME NEW b \in Blocks, b <= k, block[b].remaining > 0, L!Sum(Dues(tx[t], block[b].org))' > 0
      PROVE  b \in g.want \/ lock'[BlockKey(b)] = t
  <2>1. PICK o : o = block[b].org
    OBVIOUS
  <2>2. L!Sum(Dues(tx[t], block[b].org))' = L!Sum(Dues(g, o))
    BY <1>1, <1>3, <2>1
  <2> QED
    BY <1>4, <2>1, <2>2
<1>5. SeesTo(t, k)'
  BY <1>1, <1>4 DEF SeesTo
<1> QED
  BY <1>2, <1>5

(* A statement of a draw that locks what it wanted.                        *)
LEMMA SeesStays ==
  ASSUME NEW t, NEW g, tx'[t] = g, UNCHANGED <<db, today>>, g.job = tx[t].job, g.mine = tx[t].mine,
         tx[t].pc \in {"blocks", "orgs", "commit"}, Sees(t),
         \A b \in Blocks : b \in g.want \/ lock'[BlockKey(b)] = t
                           <=> b \in tx[t].want \/ lock[BlockKey(b)] = t
  PROVE  Sees(t)'
<1> SUFFICES ASSUME g.job.op \in {"close", "payTo"}
             PROVE  g.mine # {} /\ \E k \in Nat : k <= L!Funded' /\ SeesTo(t, k)'
  BY DEF Sees
<1>0. g.mine # {}
  BY DEF Sees
<1>1. PICK k \in Nat : k <= L!Funded /\ SeesTo(t, k)
  BY DEF Sees
<1>2. \A o : Dues(g, o) = Dues(tx[t], o)
  BY SameDues
<1>3. \A c \in g.mine : hold[c].known <= k
  BY <1>1 DEF SeesTo
<1>4. \A b \in Blocks : b > k => b \notin g.want /\ lock'[BlockKey(b)] # t
  BY <1>1 DEF SeesTo
<1>5. \A b \in Blocks : b <= k /\ block[b].remaining > 0 /\ L!Sum(Dues(g, block[b].org)) > 0
        => b \in g.want \/ lock'[BlockKey(b)] = t
  BY <1>1, <1>2 DEF SeesTo
<1>6. SeesTo(t, k)' /\ L!Funded' = L!Funded
  BY <1>3, <1>4, <1>5, SeesOn
<1> QED
  BY <1>0, <1>1, <1>6

LEMMA ClaimWorks ==
  ASSUME Invariant, Accounts, Progress, Invariant', Accounts', NEW t \in Txs, Claim(t)
  PROVE  AtWork(t)' /\ LedgerStep
<1> DEFINE r == tx[t]
           c == NextHold(r)
           m == IF L!IsOpen(c) THEN r.mine \cup {c} ELSE r.mine
           q == r.claim \ {c}
           s == [r EXCEPT !.claim = q, !.mine = m]
<1>1. TypeInv /\ r \in TxRow /\ AtStatement(r) /\ HoldsClaimed(t) /\ AtWork(t) /\ Tables
  BY DEF Invariant, TypeInv, Stands, Progress
<1>2. r.pc = "claim" /\ Granted(t, HoldKey(c)) /\ UNCHANGED <<db, today>>
  BY DEF Claim
<1>3. /\ r.claim \subseteq Calls /\ r.mine \subseteq Calls /\ r.todo \subseteq Calls /\ r.job \in JobSet
      /\ r.claim \subseteq Nat
  BY <1>1, RowFields, Base
<1>4. c \in r.claim
  <2>1. r.claim # {}
    BY <1>1, <1>2 DEF AtStatement
  <2> QED
    BY <1>3, <2>1, FirstIsLeast DEF NextHold
<1>5. \/ /\ s.claim # {} \/ s.mine # {}
         /\ tx' = [tx EXCEPT ![t] = IF s.claim # {} THEN s ELSE ToBlocks(s)]
         /\ lock' = IF L!IsOpen(c) THEN Locked(t, HoldKey(c)) ELSE lock
      \/ /\ s.claim = {} /\ s.mine = {} /\ r.job.op = "reserve"
         /\ tx' = [tx EXCEPT ![t] = ToGate([s EXCEPT !.todo = @ \ {c}])]
         /\ UNCHANGED lock
      \/ /\ s.claim = {} /\ s.mine = {} /\ r.job.op # "reserve"
         /\ Finish(t)
  BY DEF Claim
<1>6. r.want = {} /\ r.orgs = {} /\ r.job.op \in {"close", "payTo", "reserve"}
  BY <1>1, <1>2, <1>4 DEF AtStatement
<1>7. \A b \in Blocks : lock[BlockKey(b)] # t
  BY <1>2, NothingElseAt
<1>8. /\ \A x \in m : L!IsOpen(x)
      /\ r.job.op = "payTo" => q \cup m \subseteq {r.job.call}
  BY <1>1, <1>4 DEF HoldsClaimed, AtStatement
(* A sweep had claimed one hold of those it has to do, and this is it.      *)
<1>9. r.job.op = "reserve" => c \in r.todo /\ q = {} /\ m \subseteq {c}
  BY <1>1, <1>4 DEF AtWork, Sweeps
<1>10. m = {} => ~L!IsOpen(c)
  OBVIOUS
<1> HIDE DEF c, r
<1>11. q \in SUBSET Calls /\ m \in SUBSET Calls
  BY <1>3, <1>4
<1> HIDE DEF m, q
<1>12. s \in TxRow
  BY <1>1, <1>11 DEF TxRow
<1>13. /\ s.job = r.job /\ s.pc = r.pc /\ s.claim = q /\ s.mine = m /\ s.want = {} /\ s.orgs = {}
       /\ s.todo = r.todo /\ s.began = r.began /\ s.stamp = r.stamp
  BY <1>1, <1>6 DEF TxRow
<1>14. Dated(s)
  BY <1>1, <1>13 DEF AtWork, Dated, r
<1> HIDE DEF s
(* The lock it takes is no block's.                                         *)
<1>15. ASSUME lock' = IF L!IsOpen(c) THEN Locked(t, HoldKey(c)) ELSE lock
       PROVE  \A b \in Blocks : lock'[BlockKey(b)] # t
  <2>1. HoldKey(c) \in Keys
    BY <1>3, <1>4, KeyTypes
  <2>2. CASE L!IsOpen(c)
    <3>1. Takes(t, HoldKey(c))
      BY <1>1, <1>2, <1>15, <2>1, <2>2, LockTaken
    <3> QED
      BY <1>7, <3>1, LockKinds, KeysDiffer
  <2>3. CASE ~L!IsOpen(c)
    BY <1>7, <1>15, <2>3
  <2> QED
    BY <2>2, <2>3
<1>16. CASE /\ s.claim # {}
            /\ tx' = [tx EXCEPT ![t] = IF s.claim # {} THEN s ELSE ToBlocks(s)]
  <2>1. tx' = [tx EXCEPT ![t] = s]
    BY <1>16
  <2>2. tx'[t] = s /\ today' = today
    BY <1>1, <1>2, <2>1 DEF TypeInv
  <2>3. r.job.op # "reserve"
    BY <1>9, <1>13, <1>16
  <2>4. AtWork(t)'
    BY <1>2, <1>6, <1>13, <1>14, <2>2, <2>3 DEF AtWork, Sweeps, Given, Sees, Dated
  <2>5. LedgerStep
    BY <1>2, <1>12, <1>13, <2>1, StatementStutters DEF r
  <2> QED
    BY <2>4, <2>5
<1>17. CASE /\ s.claim = {} /\ s.mine # {}
            /\ tx' = [tx EXCEPT ![t] = IF s.claim # {} THEN s ELSE ToBlocks(s)]
            /\ lock' = IF L!IsOpen(c) THEN Locked(t, HoldKey(c)) ELSE lock
  <2> DEFINE g == ToBlocks(s)
  <2>1. tx' = [tx EXCEPT ![t] = g]
    BY <1>17
  <2>2. Equipped(s)
    BY <1>6, <1>8, <1>13, <1>17 DEF Equipped
  <2>3. /\ g \in TxRow /\ SameWork(s, g) /\ g.want = Spendable(s)
        /\ \A b \in g.want : L!IsBlock(b)
        /\ Dated(g)
    BY <1>1, <1>12, <1>13, <1>14, <2>2, ToBlocksRow, ToBlocksDays
  <2> HIDE DEF g
  <2>4. tx'[t] = g /\ today' = today
    BY <1>1, <1>2, <2>1 DEF TypeInv
  <2>5. g.job = r.job /\ g.mine = m /\ g.todo = r.todo /\ g.claim = {}
    BY <1>13, <1>17, <2>3 DEF SameWork
  <2>6. Sweeps(g)
    <3> SUFFICES ASSUME r.job.op = "reserve" PROVE c \in r.todo /\ m = {c}
      BY <2>5 DEF Sweeps
    <3> QED
      BY <1>9, <1>13, <1>17
  <2>7. /\ L!Funded \in Nat
        /\ \A b \in Blocks : (L!IsBlock(b) <=> b <= L!Funded) /\ b \in Nat
    BY <1>1, FundedFacts DEF Tables
  <2>8. PICK k \in Nat : k = L!Funded
    BY <2>7
  <2>9. \A x \in g.mine : hold[x].known <= k
    BY <1>1, <1>11, <2>5, <2>8 DEF Tables
  <2>10. \A b \in Blocks : b > k => b \notin g.want /\ lock'[BlockKey(b)] # t
    BY <1>15, <1>17, <2>3, <2>7, <2>8
  <2>11. \A o : Dues(g, o) = Dues(s, o)
    BY <2>3, SameDues DEF SameWork
  <2>12. \A b \in Blocks : b <= k /\ block[b].remaining > 0 /\ L!Sum(Dues(g, block[b].org)) > 0
           => b \in g.want \/ lock'[BlockKey(b)] = t
    BY <2>3, <2>11 DEF Spendable
  <2>13. SeesTo(t, k)' /\ L!Funded' = L!Funded
    BY <1>2, <2>4, <2>9, <2>10, <2>12, SeesOn
  <2>14. Sees(t)'
    BY <1>13, <1>17, <2>4, <2>5, <2>7, <2>8, <2>13 DEF Sees
  <2>15. AtWork(t)'
    BY <1>2, <1>6, <2>3, <2>4, <2>5, <2>6, <2>14 DEF AtWork, Sweeps, Given, Dated
  <2>16. LedgerStep
    BY <1>2, <2>1, <2>3, <2>5, StatementStutters DEF r
  <2> QED
    BY <2>15, <2>16
<1>18. CASE /\ s.claim = {} /\ s.mine = {} /\ r.job.op = "reserve"
            /\ tx' = [tx EXCEPT ![t] = ToGate([s EXCEPT !.todo = @ \ {c}])]
  <2> DEFINE T == s.todo \ {c}
             p == [s EXCEPT !.todo = T]
             g == ToGate(p)
             d == r.job.call
  <2>1. tx' = [tx EXCEPT ![t] = g]
    BY <1>18
  <2>2. T \in SUBSET Calls /\ T = r.todo \ {c}
    BY <1>3, <1>13
  <2> HIDE DEF T
  <2>3. p \in TxRow
    BY <1>12, <2>2 DEF TxRow
  <2>4. /\ p.job = r.job /\ p.claim = {} /\ p.want = {} /\ p.orgs = {} /\ p.todo = T
        /\ p.began = s.began /\ p.stamp = s.stamp
    BY <1>12, <1>13, <1>18 DEF TxRow
  <2> HIDE DEF p
  <2>5. Dated(p)
    BY <1>14, <2>4 DEF Dated
  <2>6. g \in TxRow /\ g.job = r.job /\ g.todo = T /\ Dated(g) /\ Sweeps(g)
    BY <1>1, <1>18, <2>3, <2>4, <2>5, ToGateRow, ToGateWork
  <2> HIDE DEF g
  <2>7. tx'[t] = g /\ today' = today
    BY <1>1, <1>2, <2>1 DEF TypeInv
  <2>8. AtWork(t)'
    BY <1>18, <2>6, <2>7 DEF AtWork, Sweeps, Given, Sees, Dated
  <2>9. d \in Calls /\ Reserving[d] = ReserveOf(r) /\ Reserving' = [Reserving EXCEPT ![d] = ReserveOf(g)]
    BY <1>18, <2>1, <2>6, ReserveMoves DEF r
  <2>10. Reserving[d].todo = r.todo /\ c \in r.todo /\ ~L!IsOpen(c)
    BY <1>9, <1>10, <1>13, <1>18, <2>9 DEF ReserveOf
  <2>11. ReserveOf(g) = [Reserving[d] EXCEPT !.todo = @ \ {c}]
    BY <2>2, <2>6, <2>9 DEF ReserveOf
  <2>12. L!Reap(d, c)
    BY <1>2, <2>9, <2>10, <2>11 DEF L!Reap, db
  <2>13. c \in Calls
    BY <1>3, <1>4
  <2> QED
    BY <2>8, <2>9, <2>12, <2>13 DEF LedgerStep, L!Next
<1>19. CASE Finish(t)
  BY <1>2, <1>19, FinishSteps
<1> QED
  BY <1>5, <1>16, <1>17, <1>18, <1>19

LEMMA LockBlockWorks ==
  ASSUME Invariant, Accounts, Progress, Invariant', Accounts', NEW t \in Txs, LockBlock(t)
  PROVE  AtWork(t)' /\ LedgerStep
<1> DEFINE r == tx[t]
           b == NextBlock(r)
           w == r.want \ {b}
           v == [r.seen EXCEPT ![b] = block[b].remaining]
           s == [r EXCEPT !.want = w, !.seen = v]
           g == IF w # {} THEN s ELSE ToOrgs(s)
<1>1. TypeInv /\ r \in TxRow /\ AtStatement(r) /\ Stands(t) /\ Informed(t) /\ AtWork(t)
  BY DEF Invariant, TypeInv, Stands, Accounts, Progress
<1>2. /\ r.pc = "blocks" /\ Granted(t, BlockKey(b)) /\ UNCHANGED <<db, today>>
      /\ lock' = Locked(t, BlockKey(b))
      /\ tx' = [tx EXCEPT ![t] = IF s.want # {} THEN s ELSE ToOrgs(s)]
  BY DEF LockBlock
<1>3. /\ r.want \subseteq Blocks /\ r.seen \in [Blocks -> Nat] /\ r.want # {}
      /\ \A x \in r.want : L!IsBlock(x)
  BY <1>1, <1>2, RowFields DEF AtStatement, Stands, BlocksLocked
<1>4. b \in r.want /\ b \in Blocks /\ BlockKey(b) \in Keys
  BY <1>1, <1>3, NextBlockIsFirst, KeyTypes
<1>5. r.orgs = {} /\ r.claim = {} /\ r.job.op # "none"
  BY <1>1, <1>2 DEF AtStatement
<1>6. r.job.op \in {"close", "payTo", "revoke"}
  <2>1. r.job.op # "reserve"
    BY <1>1, <1>4 DEF Informed, ReserveDrawsNothing
  <2>2. r.job \in JobSet
    BY <1>1, RowFields
  <2>3. r.job.op # "fund"
    BY <1>1, <1>2 DEF AtWork, Given
  <2> QED
    BY <1>5, <2>1, <2>2, <2>3, JobFields
<1> HIDE DEF b
<1>7. w \in SUBSET Blocks /\ v \in [Blocks -> Nat]
  BY <1>1, <1>3, <1>4, BlockOwner
<1> HIDE DEF v, w
<1>8. s \in TxRow
  BY <1>1, <1>7 DEF TxRow
<1>9. /\ s.job = r.job /\ s.pc = r.pc /\ s.mine = r.mine /\ s.want = w /\ s.orgs = {}
      /\ s.began = r.began /\ s.stamp = r.stamp /\ s.todo = r.todo
  BY <1>1, <1>5 DEF TxRow
<1> HIDE DEF s
<1>10. \A x \in Blocks : lock'[BlockKey(x)] = t <=> x = b \/ lock[BlockKey(x)] = t
  BY <1>1, <1>2, <1>4, LockTaken, LockKinds, KeysDiffer
<1>11. Equipped(s) /\ Dated(s)
  BY <1>1, <1>5, <1>9 DEF Equipped, Stands, HoldsClaimed, AtStatement, AtWork, Dated
<1>12. g \in TxRow /\ g.job = r.job /\ g.mine = r.mine /\ g.want = w /\ g.todo = r.todo /\ Dated(g)
  <2>1. CASE w # {}
    BY <1>8, <1>9, <1>11, <2>1
  <2>2. CASE w = {}
    <3>1. /\ ToOrgs(s) \in TxRow /\ SameWork(s, ToOrgs(s)) /\ ToOrgs(s).want = s.want
          /\ Dated(ToOrgs(s))
      BY <1>1, <1>8, <1>9, <1>11, ToOrgsRow, ToOrgsDays
    <3> QED
      BY <1>9, <2>2, <3>1 DEF SameWork
  <2> QED
    BY <2>1, <2>2
<1>13. tx' = [tx EXCEPT ![t] = g] /\ tx'[t] = g /\ today' = today /\ block' = block
  BY <1>1, <1>2, <1>9 DEF TypeInv, db
<1> HIDE DEF g
<1>14. Sees(t)'
  <2>1. \A x \in Blocks : x \in g.want \/ lock'[BlockKey(x)] = t
                          <=> x \in r.want \/ lock[BlockKey(x)] = t
    BY <1>4, <1>10, <1>12 DEF w
  <2>2. Sees(t)
    BY <1>1 DEF AtWork
  <2> QED
    BY <1>2, <1>12, <1>13, <2>1, <2>2, SeesStays
<1>15. Given(t)'
  BY <1>1, <1>6, <1>12, <1>13 DEF AtWork, Given, L!Refundable
<1>16. Sweeps(tx[t])' /\ Dated(tx[t])'
  BY <1>6, <1>12, <1>13 DEF Sweeps, Dated
<1>17. LedgerStep
  BY <1>2, <1>12, <1>13, StatementStutters
<1> QED
  BY <1>14, <1>15, <1>16, <1>17 DEF AtWork

LEMMA InsertRefWorks ==
  ASSUME Invariant, Accounts, Progress, Invariant', Accounts', NEW t \in Txs, InsertRef(t)
  PROVE  AtWork(t)' /\ LedgerStep
<1> DEFINE r == tx[t]
           f == r.job.ref
           g == ToOrgs(r)
<1>1. TypeInv /\ r \in TxRow /\ AtStatement(r) /\ AtWork(t)
  BY DEF Invariant, TypeInv, Stands, Progress
<1>2. /\ r.pc = "ref" /\ Granted(t, RefKey(f)) /\ UNCHANGED <<db, today>>
      /\ \/ /\ \A b \in Blocks : block[b].ref # f
            /\ lock' = Locked(t, RefKey(f)) /\ tx' = [tx EXCEPT ![t] = g]
         \/ Finish(t)
  BY DEF InsertRef
<1>3. CASE Finish(t)
  BY <1>2, <1>3, FinishSteps
<1>4. CASE /\ \A b \in Blocks : block[b].ref # f
           /\ lock' = Locked(t, RefKey(f)) /\ tx' = [tx EXCEPT ![t] = g]
  <2>1. r.job.op = "fund" /\ f # None /\ r.mine = {} /\ r.orgs = {}
    BY <1>1, <1>2 DEF AtStatement
  <2>2. f \in Refs /\ RefKey(f) \in Keys
    <3>1. r.job \in JobSet
      BY <1>1, RowFields
    <3> QED
      BY <2>1, <3>1, JobFields, KeyTypes
  <2>3. Equipped(r) /\ Dated(r)
    BY <1>1, <2>1 DEF Equipped, AtWork
  <2>4. g \in TxRow /\ SameWork(r, g) /\ g.pc \in {"orgs", "commit"} /\ Dated(g)
    BY <1>1, <2>1, <2>3, ToOrgsRow, ToOrgsDays
  <2>5. /\ r.job.amount \in Credits
        /\ \/ r.job.kind = "promotional" /\ f = None
           \/ r.job.kind = "purchased" /\ f \in Refs
    BY <1>1, <2>1 DEF AtWork, Given
  <2>6. lock'[RefKey(f)] = t
    BY <1>1, <1>4, <2>2 DEF Locked, TypeInv
  <2> HIDE DEF g
  <2>7. tx'[t] = g /\ block' = block /\ today' = today
    BY <1>1, <1>2, <1>4 DEF TypeInv, db
  <2>8. Given(t)'
    BY <1>4, <2>1, <2>4, <2>5, <2>6, <2>7 DEF Given, SameWork
  <2>9. Sweeps(tx[t])' /\ Sees(t)' /\ Dated(tx[t])'
    BY <2>1, <2>4, <2>7 DEF Sweeps, Sees, Dated, SameWork
  <2>10. LedgerStep
    BY <1>2, <1>4, <2>4, StatementStutters DEF SameWork
  <2> QED
    BY <2>8, <2>9, <2>10 DEF AtWork
<1> QED
  BY <1>2, <1>3, <1>4

LEMMA LockOrgWorks ==
  ASSUME Invariant, Accounts, Progress, Invariant', Accounts', NEW t \in Txs, LockOrg(t)
  PROVE  AtWork(t)' /\ LedgerStep
<1> DEFINE r == tx[t]
           o == NextOrg(r)
           gate == r.job.op = "reserve" /\ r.mine = {}
           q == r.orgs \ {o}
           s == [r EXCEPT !.orgs = q]
           e == IF gate THEN today ELSE s.began
           g == IF q # {} THEN s ELSE [s EXCEPT !.pc = "commit", !.began = e]
<1>1. TypeInv /\ r \in TxRow /\ AtStatement(r) /\ AtWork(t)
  BY DEF Invariant, TypeInv, Stands, Progress
<1>2. s.orgs = q
  BY <1>1 DEF TxRow
<1>3. /\ r.pc = "orgs" /\ Granted(t, OrgKey(o)) /\ UNCHANGED <<db, today>>
      /\ \/ lock' = Locked(t, OrgKey(o)) /\ tx' = [tx EXCEPT ![t] = g]
         \/ Finish(t)
  BY <1>2 DEF LockOrg
<1>4. CASE Finish(t)
  BY <1>3, <1>4, FinishSteps
<1>5. CASE lock' = Locked(t, OrgKey(o)) /\ tx' = [tx EXCEPT ![t] = g]
  <2>1. r.orgs \subseteq Orgs /\ r.orgs # {} /\ today \in Nat
    BY <1>1, <1>3, RowFields DEF AtStatement, TypeInv, L!TypeOK
  <2>2. o \in Orgs
    BY <2>1, Base, FirstIsLeast DEF NextOrg
  <2> HIDE DEF o
  <2>3. /\ s.job = r.job /\ s.pc = r.pc /\ s.mine = r.mine /\ s.want = r.want /\ s.claim = r.claim
        /\ s.todo = r.todo /\ s.stamp = r.stamp /\ s.began = r.began
    BY <1>1 DEF TxRow
  <2>4. s \in TxRow
    BY <1>1, <2>1 DEF TxRow
  <2>5. e \in Nat /\ e <= today
    BY <1>1, <2>1, <2>3, RowFields DEF AtWork, Dated
  <2> HIDE DEF s, e, q
  <2>6. /\ g \in TxRow /\ g.job = r.job /\ g.mine = r.mine /\ g.want = r.want /\ g.claim = r.claim
        /\ g.todo = r.todo /\ g.stamp = r.stamp /\ g.began \in {r.began, e}
        /\ g.pc \in {"orgs", "commit"}
    <3>1. CASE q # {}
      BY <1>3, <2>3, <2>4, <3>1
    <3>2. CASE q = {}
      <4>1. g = [s EXCEPT !.pc = "commit", !.began = e]
        BY <3>2
      <4>2. g \in TxRow
        BY <2>4, <2>5, <4>1 DEF TxRow, Stages
      <4>3. /\ g.job = s.job /\ g.mine = s.mine /\ g.want = s.want /\ g.claim = s.claim
            /\ g.todo = s.todo /\ g.stamp = s.stamp /\ g.began = e /\ g.pc = "commit"
        BY <2>4, <4>1 DEF TxRow
      <4> QED
        BY <2>3, <4>2, <4>3
    <3> QED
      BY <3>1, <3>2
  <2> HIDE DEF g
  <2>7. tx'[t] = g /\ block' = block /\ today' = today
    BY <1>1, <1>3, <1>5 DEF TypeInv, db
  <2>8. /\ \A b \in Blocks : lock'[BlockKey(b)] = t <=> lock[BlockKey(b)] = t
        /\ \A f \in Refs : lock'[RefKey(f)] = t <=> lock[RefKey(f)] = t
    <3>1. OrgKey(o) \in Keys
      BY <2>2, KeyTypes
    <3>2. Takes(t, OrgKey(o))
      BY <1>1, <1>3, <1>5, <3>1, LockTaken
    <3> QED
      BY <3>2, LockKinds, KeysDiffer
  <2>9. Sees(t)'
    <3>1. \A b \in Blocks : b \in g.want \/ lock'[BlockKey(b)] = t
                            <=> b \in r.want \/ lock[BlockKey(b)] = t
      BY <2>6, <2>8
    <3>2. Sees(t)
      BY <1>1 DEF AtWork
    <3> QED
      BY <1>3, <2>6, <2>7, <3>1, <3>2, SeesStays
  <2>10. Given(t)'
    <3>1. Given(t)
      BY <1>1 DEF AtWork
    <3>2. r.job.op = "fund" /\ r.job.ref # None => r.job.ref \in Refs
      BY <3>1 DEF Given
    <3> QED
      BY <1>3, <2>6, <2>7, <2>8, <3>1, <3>2 DEF Given, L!Refundable
  <2>11. Sweeps(tx[t])' /\ Dated(tx[t])'
    BY <1>1, <2>5, <2>6, <2>7 DEF AtWork, Sweeps, Dated
  <2>12. LedgerStep
    BY <1>3, <1>5, <2>6, StatementStutters
  <2> QED
    BY <2>9, <2>10, <2>11, <2>12 DEF AtWork
<1> QED
  BY <1>3, <1>4, <1>5

LEMMA RollbackWorks ==
  ASSUME Invariant, Accounts, Invariant', Accounts', NEW t \in Txs, Rollback(t)
  PROVE  AtWork(t)' /\ LedgerStep
BY FinishSteps DEF Rollback

-----------------------------------------------------------------------------
(* What a close writes is what Ledger's would, when it read the clock today *)

LEMMA DayRows ==
  ASSUME TypeInv, Tables, NEW r \in TxRow, \A c \in r.mine : L!IsOpen(c), CloseMine(r),
         r.began = today, today' = today
  PROVE  L!RowsClosed(SettledBy(r), ReleasedBy(r), ChargedBy(r))
<1> DEFINE S == SettledBy(r)
           R == ReleasedBy(r)
           n == ChargedBy(r)
           entry(c) == [kind |-> IF Settles(r, c) THEN "settle" ELSE "release",
                        org |-> hold[c].org, reserved |-> hold[c].amount,
                        amount |-> IF Settles(r, c) THEN Drawn(r, c) ELSE hold[c].amount,
                        day |-> r.began]
           row(c) == IF ~Settles(r, c) \/ tag[c].org = None THEN L!NoTag
                     ELSE [tag[c] EXCEPT !.amount = Drawn(r, c), !.settled = TRUE, !.day = r.began]
<1>1. r.mine \subseteq Calls /\ S \cup R = r.mine
  BY RowFields, CloseParts
<1>2. /\ hold' = [c \in Calls |-> IF c \in r.mine THEN L!NoHold ELSE hold[c]]
      /\ closing' = [c \in Calls |-> IF c \in r.mine THEN entry(c) ELSE closing[c]]
      /\ tag' = [c \in Calls |-> IF c \in r.mine THEN row(c) ELSE tag[c]]
  BY Zenon DEF CloseMine
<1>3. ASSUME NEW c \in Calls
      PROVE  /\ c \in S => c \in r.mine /\ Settles(r, c) /\ n[c] = Drawn(r, c)
             /\ c \in R => c \in r.mine /\ ~Settles(r, c)
  BY DEF SettledBy, ReleasedBy, ChargedBy
<1>4. ASSUME NEW c \in S
      PROVE  entry(c) = L!SettleEntry(c, n[c]) /\ row(c) = L!TagSettled(tag[c], n[c])
  <2>1. c \in Calls /\ Settles(r, c) /\ n[c] = Drawn(r, c)
    BY <1>1, <1>3
  <2>2. entry(c) = L!SettleEntry(c, n[c])
    BY <2>1 DEF L!SettleEntry
  <2>3. tag[c].org = None => tag[c] = L!NoTag
    BY <2>1 DEF Tables
  <2>4. row(c) = L!TagSettled(tag[c], n[c])
    BY <2>1, <2>3 DEF L!TagSettled
  <2> QED
    BY <2>2, <2>4
<1>5. ASSUME NEW c \in R PROVE entry(c) = L!ReleaseEntry(c) /\ row(c) = L!NoTag
  BY <1>1, <1>3 DEF L!ReleaseEntry
<1> HIDE DEF S, R, n, entry, row
<1>6. hold' = [c \in Calls |-> IF c \in S \cup R THEN L!NoHold ELSE hold[c]]
  BY <1>1, <1>2
<1>7. closing' = [c \in Calls |-> IF c \in S THEN L!SettleEntry(c, n[c])
                                 ELSE IF c \in R THEN L!ReleaseEntry(c) ELSE closing[c]]
  BY <1>1, <1>2, <1>4, <1>5
<1>8. tag' = [c \in Calls |-> IF c \in S THEN L!TagSettled(tag[c], n[c])
                             ELSE IF c \in R THEN L!NoTag ELSE tag[c]]
  BY <1>1, <1>2, <1>4, <1>5
<1> QED
  BY <1>1, <1>6, <1>7, <1>8 DEF L!RowsClosed, S, R, n

LEMMA CountedAsToday ==
  ASSUME TypeInv, NEW r \in TxRow, r.stamp = today, NEW o \in Orgs
  PROVE  /\ \A c : Counted(r, c) = L!CountedToday(c)
         /\ L!Sum([c \in {x \in r.mine : hold[x].org = o} |-> Counted(r, c)])
              = L!Sum(L!UncountedOf(r.mine, o))
<1> DEFINE S == {x \in r.mine : hold[x].org = o}
           f == [c \in S |-> Counted(r, c)]
           g == L!UncountedOf(r.mine, o)
<1>1. \A c : Counted(r, c) = L!CountedToday(c)
  BY DEF Counted, L!CountedToday
<1>2. r.mine \subseteq Calls /\ S \in SUBSET Calls
  BY RowFields
<1>3. \A c \in Calls : L!CountedToday(c) \in Nat
  BY HoldFields DEF L!CountedToday
<1>4. f \in [S -> Nat]
  BY <1>1, <1>2, <1>3
<1>5. g \in [Calls -> Nat]
  BY <1>3 DEF L!UncountedOf
<1>6. /\ \A c \in S : f[c] = g[c]
      /\ \A c \in Calls \ S : g[c] = 0
  BY <1>1, <1>2 DEF L!UncountedOf
<1> HIDE DEF f, g
<1>7. L!Sum(f) = L!Sum(g)
  <2>1. S \in SUBSET Calls
    BY <1>2
  <2> HIDE DEF S
  <2>2. L!Restricts(g, Calls, f, S)
    BY <1>4, <1>5, <1>6, <2>1 DEF L!Restricts
  <2> QED
    BY <2>2, Base, L!SumRestricted
<1> QED
  BY <1>1, <1>7 DEF f, g

LEMMA DayCounter ==
  ASSUME TypeInv, NEW r \in TxRow, CloseMine(r), r.stamp = today
  PROVE  L!CounterWritten(SettledBy(r), ReleasedBy(r), ChargedBy(r))
<1> DEFINE S == SettledBy(r)
           R == ReleasedBy(r)
           n == ChargedBy(r)
           writes(o) == \E c \in {x \in r.mine : hold[x].org = o} : SpentDelta(r, c) # 0
           paid(o) == L!Sum(Consumed(r, o))
           given(o) == L!Sum([c \in {x \in r.mine : hold[x].org = o} |-> Counted(r, c)])
<1>1. /\ S \in SUBSET Calls /\ R \in SUBSET Calls /\ S \cup R = r.mine /\ n \in [Calls -> Nat]
  BY CloseParts DEF L!Amounts
<1>2. spent' = [o \in Orgs |-> IF writes(o) THEN AddSpent(spent[o], r.stamp, paid(o) - given(o))
                               ELSE spent[o]]
  BY Zenon DEF CloseMine
<1>3. ASSUME NEW o \in Orgs
      PROVE  /\ writes(o) <=> L!Stirs(S, R, n, o)
             /\ paid(o) - given(o) = L!Sum(L!ChargedTo(S, n, o)) - L!Sum(L!UncountedOf(S \cup R, o))
  <2>1. /\ \A c : Counted(r, c) = L!CountedToday(c)
        /\ given(o) = L!Sum(L!UncountedOf(r.mine, o))
    BY CountedAsToday
  <2>2. paid(o) = L!Sum(L!ChargedTo(S, n, o))
    BY TakenIsCharged
  <2>3. \A c \in Calls : L!CountedToday(c) \in Nat
    BY HoldFields DEF L!CountedToday
  <2>4. ASSUME NEW c \in S PROVE SpentDelta(r, c) # 0 <=> n[c] # L!CountedToday(c)
    <3>1. c \in Calls /\ n[c] = Drawn(r, c) /\ n[c] \in Nat
      BY <1>1, <2>4 DEF ChargedBy
    <3> QED
      BY <2>1, <2>3, <3>1 DEF SpentDelta
  <2>5. ASSUME NEW c \in R PROVE SpentDelta(r, c) # 0 <=> L!CountedToday(c) # 0
    <3>1. c \in Calls /\ Drawn(r, c) = 0
      BY <1>1, <2>5 DEF ReleasedBy, SettledBy, Drawn
    <3> QED
      BY <2>1, <2>3, <3>1 DEF SpentDelta
  <2>6. writes(o) <=> L!Stirs(S, R, n, o)
    <3> HIDE DEF S, R, n
    <3> QED
      BY <1>1, <2>4, <2>5 DEF L!Stirs, L!HoldsOf
  <2> QED
    BY <1>1, <2>1, <2>2, <2>6
<1> HIDE DEF S, R, n, writes, paid, given
<1>4. ASSUME NEW o \in Orgs, NEW d
      PROVE  AddSpent(spent[o], r.stamp, d) = L!AddSpent(spent[o], d)
  BY DEF AddSpent, L!AddSpent
<1>5. spent' = [o \in Orgs |->
        IF L!Stirs(S, R, n, o)
        THEN L!AddSpent(spent[o], L!Sum(L!ChargedTo(S, n, o)) - L!Sum(L!UncountedOf(S \cup R, o)))
        ELSE spent[o]]
  BY <1>2, <1>3, <1>4
<1> QED
  BY <1>5 DEF L!CounterWritten, S, R, n

-----------------------------------------------------------------------------
(* What a close draws is what Ledger's would, on the blocks it saw          *)

DueRow(r) == [c \in Calls |-> Due(r.job, c)]

LEMMA DuesSeen ==
  ASSUME NEW r \in TxRow, NEW o
  PROVE  /\ L!HoldsOf(SettledBy(r), o) = Settling(r, o)
         /\ L!DueOf(SettledBy(r), DueRow(r), o) = Dues(r, o)
<1>1. L!HoldsOf(SettledBy(r), o) = Settling(r, o)
  BY DEF L!HoldsOf, SettledBy, Settling
<1>2. Settling(r, o) \subseteq Calls
  BY RowFields DEF Settling
<1>3. L!DueOf(SettledBy(r), DueRow(r), o) = [c \in Settling(r, o) |-> DueRow(r)[c]]
  BY <1>1 DEF L!DueOf
<1>4. Dues(r, o) = [c \in Settling(r, o) |-> Due(r.job, c)]
  BY DEF Dues, Settling
<1>5. \A c \in Settling(r, o) : DueRow(r)[c] = Due(r.job, c)
  BY <1>2 DEF DueRow
<1> QED
  BY <1>1, <1>3, <1>4, <1>5

LEMMA ReadSeen ==
  ASSUME TypeInv, NEW t \in Txs, AtStatement(tx[t]), AsLocked(t), tx[t].pc = "commit",
         NEW k \in Nat, SeesTo(t, k), NEW o \in Orgs, L!Sum(Dues(tx[t], o)) > 0
  PROVE  Read(tx[t], o) = L!Visible(o, k)
<1>1. tx[t].want = {}
  BY DEF AtStatement
<1>2. ASSUME NEW b \in Blocks
      PROVE  (IF block[b].org = o THEN tx[t].seen[b] ELSE 0)
             = IF b <= k THEN IF block[b].org = o THEN block[b].remaining ELSE 0 ELSE 0
  <2>1. b \in Nat /\ block[b].remaining \in Nat
    BY BlockOwner DEF Blocks
  <2>2. tx[t].seen[b] = IF lock[BlockKey(b)] = t THEN block[b].remaining ELSE 0
    BY DEF AsLocked
  <2>3. CASE b > k
    BY <2>1, <2>2, <2>3 DEF SeesTo
  <2>4. CASE b <= k /\ block[b].org = o
    <3>1. block[b].remaining > 0 => lock[BlockKey(b)] = t
      BY <1>1, <2>4 DEF SeesTo
    <3> QED
      BY <2>1, <2>2, <2>4, <3>1
  <2>5. CASE b <= k /\ block[b].org # o
    BY <2>5
  <2> QED
    BY <2>1, <2>3, <2>4, <2>5
<1>3. L!Visible(o, k) = [b \in Blocks |-> IF b <= k THEN L!Remaining(o)[b] ELSE 0]
  BY SameBlocks DEF L!Visible
<1>4. \A b \in Blocks : L!Remaining(o)[b] = IF block[b].org = o THEN block[b].remaining ELSE 0
  BY SameBlocks DEF L!Remaining
<1> QED
  BY <1>2, <1>3, <1>4 DEF Read

LEMMA OrgDraws ==
  ASSUME TypeInv, NEW t \in Txs, AtStatement(tx[t]), AsLocked(t), tx[t].pc = "commit",
         NEW k \in Nat, SeesTo(t, k), NEW o \in Orgs
  PROVE  /\ Consumed(tx[t], o)
              = L!Spread(Dues(tx[t], o), [c \in Settling(tx[t], o) |-> c], L!Sum(L!Visible(o, k)))
         /\ \A b \in Blocks : Take(tx[t], o)[b] = L!Draw(o, L!Sum(Dues(tx[t], o)), k)[b]
<1> DEFINE r == tx[t]
           D == Dues(r, o)
           S == Settling(r, o)
           ids == [c \in S |-> c]
           V == L!Sum(L!Visible(o, k))
<1>1. r \in TxRow /\ L!TypeOK
  BY DEF TypeInv
<1>2. D \in [S -> Nat] /\ L!Sum(D) \in Nat /\ S \in SUBSET Calls /\ DOMAIN D = S
  BY <1>1, DuesType
<1>3. Consumed(r, o) = L!Spread(D, ids, L!Sum(Read(r, o)))
  BY <1>2 DEF Consumed
<1>4. CASE L!Sum(D) > 0
  <2>1. Read(r, o) = L!Visible(o, k)
    BY <1>4, ReadSeen
  <2> QED
    BY <1>3, <2>1 DEF Take, L!Draw
<1>5. CASE L!Sum(D) = 0
  <2>1. L!IsFiniteSet(S) /\ L!IsFiniteSet(Blocks)
    BY <1>2, Base, SameBlocks, L!FiniteRows, L!FS_Subset
  <2>2. ASSUME NEW c \in S PROVE D[c] = 0
    <3>1. D[c] <= L!Sum(D)
      <4> HIDE DEF D, S
      <4> QED
        BY <1>2, <2>1, <2>2, Base, L!SumPart
    <3> QED
      BY <1>2, <1>5, <3>1
  <2>3. Consumed(r, o) \in [S -> Nat] /\ \A c \in S : Consumed(r, o)[c] <= D[c]
    BY <1>1, ConsumedType
  <2>4. L!Spread(D, ids, V) \in [S -> Nat] /\ \A c \in S : L!Spread(D, ids, V)[c] <= D[c]
    <3>1. V \in Nat
      <4>1. L!Visible(o, k) \in [Blocks -> Nat]
        BY <1>1, Base, SameBlocks, L!TotalTypes
      <4> QED
        BY <4>1, SumOfBlocks
    <3>2. ids \in [S -> Int]
      <4> HIDE DEF S
      <4> QED
        BY <1>2, Base
    <3> HIDE DEF D, S, ids, V
    <3> QED
      BY <1>2, <2>1, <3>1, <3>2, Base, L!SpreadType
  <2>5. Consumed(r, o) = L!Spread(D, ids, V)
    <3> DEFINE f == Consumed(r, o)
               g == L!Spread(D, ids, V)
    <3>1. f \in [S -> Nat] /\ g \in [S -> Nat] /\ \A c \in S : f[c] <= 0 /\ g[c] <= 0
      BY <2>2, <2>3, <2>4
    <3> HIDE DEF f, g, S
    <3>2. \A c \in S : f[c] = g[c]
      BY <3>1
    <3>3. f = g
      BY <3>1, <3>2
    <3> QED
      BY <3>3 DEF f, g
  <2>6. ASSUME NEW b \in Blocks PROVE Take(r, o)[b] = L!Draw(o, L!Sum(D), k)[b]
    <3>1. /\ Take(r, o) \in [Blocks -> Nat]
          /\ L!Sum(Take(r, o)) = L!Lesser(L!Sum(D), L!Sum(Read(r, o)))
          /\ L!Sum(Read(r, o)) \in Nat
      BY <1>1, TakeType, ReadType
    <3>2. L!Sum(Take(r, o)) = 0
      BY <1>5, <3>1 DEF L!Lesser
    <3>3. Take(r, o)[b] <= L!Sum(Take(r, o))
      BY <2>1, <3>1, Base, L!SumPart
    <3>4. Take(r, o)[b] = 0
      BY <3>1, <3>2, <3>3
    <3>5. L!Draw(o, 0, k)[b] = 0
      BY <1>1, Base, SameBlocks, L!ZeroDrawn
    <3> QED
      BY <1>5, <3>4, <3>5
  <2> QED
    BY <2>5, <2>6
<1> QED
  BY <1>2, <1>4, <1>5

LEMMA CloseDraws ==
  ASSUME TypeInv, NEW t \in Txs, AtStatement(tx[t]), AsLocked(t), tx[t].pc = "commit",
         NEW k \in Nat, k <= L!Funded, L!Funded \in Nat, SeesTo(t, k)
  PROVE  L!DrawsSeen(SettledBy(tx[t]), DueRow(tx[t]), k, ChargedBy(tx[t]), TakenBy(tx[t]))
<1> DEFINE r == tx[t]
           S == SettledBy(r)
           due == DueRow(r)
           n == ChargedBy(r)
           take == TakenBy(r)
<1>1. r \in TxRow /\ r.mine \subseteq Calls
  BY RowFields DEF TypeInv
<1>2. \A c \in S : k \in L!Views(c)
  <2> SUFFICES ASSUME NEW c \in S PROVE k \in L!Views(c)
    OBVIOUS
  <2>1. c \in r.mine /\ c \in Calls
    BY <1>1 DEF SettledBy
  <2>2. hold[c].known \in Nat /\ hold[c].known <= k
    BY <2>1 DEF SeesTo, TypeInv, L!TypeOK, L!HoldRow
  <2> QED
    BY <2>2 DEF L!Views
<1>3. ASSUME NEW o \in Orgs
      PROVE  [c \in L!HoldsOf(S, o) |-> n[c]]
               = L!Spread(L!DueOf(S, due, o), [c \in L!HoldsOf(S, o) |-> c], L!Sum(L!Visible(o, k)))
  <2>1. L!HoldsOf(S, o) = Settling(r, o) /\ L!DueOf(S, due, o) = Dues(r, o)
    BY <1>1, DuesSeen
  <2>2. Consumed(r, o) = L!Spread(Dues(r, o), [c \in Settling(r, o) |-> c], L!Sum(L!Visible(o, k)))
    BY OrgDraws
  <2>3. [c \in Settling(r, o) |-> n[c]] = Consumed(r, o)
    <3> DEFINE f == Consumed(r, o)
               T == Settling(r, o)
    <3>1. f \in [T -> Nat]
      BY <1>1, ConsumedType
    <3>2. ASSUME NEW c \in T PROVE n[c] = f[c]
      BY <1>1 DEF Settling, ChargedBy, SettledBy, Drawn
    <3> HIDE DEF f, T, n
    <3>3. [c \in T |-> n[c]] = f
      BY <3>1, <3>2
    <3> QED
      BY <3>3 DEF f, T
  <2> QED
    BY <2>1, <2>2, <2>3
<1>4. ASSUME NEW b \in L!BlockIds
      PROVE  take[b] = IF L!IsBlock(b)
                       THEN L!Draw(block[b].org, L!Sum(L!DueOf(S, due, block[b].org)), k)[b] ELSE 0
  <2>1. CASE L!IsBlock(b)
    <3>1. block[b].org \in Orgs
      BY <2>1 DEF L!IsBlock, TypeInv, L!TypeOK, L!BlockRow
    <3>2. L!DueOf(S, due, block[b].org) = Dues(r, block[b].org)
      BY <1>1, DuesSeen
    <3>3. Take(r, block[b].org)[b] = L!Draw(block[b].org, L!Sum(Dues(r, block[b].org)), k)[b]
      BY <3>1, OrgDraws, SameBlocks
    <3> QED
      BY <2>1, <3>2, <3>3 DEF TakenBy
  <2>2. CASE ~L!IsBlock(b)
    BY <2>2 DEF TakenBy
  <2> QED
    BY <2>1, <2>2
<1> QED
  BY <1>2, <1>3, <1>4 DEF L!DrawsSeen

-----------------------------------------------------------------------------
(* Commits are steps                                                        *)

LEMMA DayClose ==
  ASSUME Invariant, Accounts, Progress, NEW t \in Txs, CloseMine(tx[t]),
         tx[t].began = today, tx[t].stamp = today, today' = today
  PROVE  /\ L!RowsClosed(SettledBy(tx[t]), ReleasedBy(tx[t]), ChargedBy(tx[t]))
         /\ L!CounterWritten(SettledBy(tx[t]), ReleasedBy(tx[t]), ChargedBy(tx[t]))
         /\ L!PaidBack(SettledBy(tx[t]), ReleasedBy(tx[t]), ChargedBy(tx[t]), Refunded(tx[t]))
         /\ DrawnBlocks(tx[t]) = L!Drawn(TakenBy(tx[t]))
<1>1. /\ TypeInv /\ Tables /\ tx[t] \in TxRow /\ AsLocked(t)
      /\ \A c \in tx[t].mine : L!IsOpen(c)
  BY DEF Invariant, TypeInv, Accounts, Informed, Progress, Stands, HoldsClaimed
<1>2. L!RowsClosed(SettledBy(tx[t]), ReleasedBy(tx[t]), ChargedBy(tx[t]))
  BY <1>1, DayRows
<1>3. L!CounterWritten(SettledBy(tx[t]), ReleasedBy(tx[t]), ChargedBy(tx[t]))
  BY <1>1, DayCounter
<1>4. L!PaidBack(SettledBy(tx[t]), ReleasedBy(tx[t]), ChargedBy(tx[t]), Refunded(tx[t]))
  BY <1>1, RefundedType, RefundedAsKept DEF L!PaidBack
<1>5. DrawnBlocks(tx[t]) = L!Drawn(TakenBy(tx[t]))
  BY <1>1, DrawnAsTaken
<1> QED
  BY <1>2, <1>3, <1>4, <1>5

LEMMA CloseSeen ==
  ASSUME Invariant, Accounts, Progress, NEW t \in Txs,
         tx[t].pc = "commit", tx[t].job.op \in {"close", "payTo"}
  PROVE  /\ tx[t].mine # {}
         /\ \E k \in 0 .. L!Funded :
              L!DrawsSeen(SettledBy(tx[t]), DueRow(tx[t]), k, ChargedBy(tx[t]), TakenBy(tx[t]))
<1>1. TypeInv /\ Tables /\ AsLocked(t) /\ AtStatement(tx[t]) /\ Sees(t)
  BY DEF Invariant, Accounts, Informed, Progress, AtWork, Stands
<1>2. PICK k \in Nat : k <= L!Funded /\ SeesTo(t, k)
  BY <1>1 DEF Sees
<1>3. L!Funded \in Nat
  BY <1>1, FundedFacts DEF Tables
<1>4. L!DrawsSeen(SettledBy(tx[t]), DueRow(tx[t]), k, ChargedBy(tx[t]), TakenBy(tx[t]))
  BY <1>1, <1>2, <1>3, CloseDraws
<1>5. k \in 0 .. L!Funded
  BY <1>2, <1>3
<1> QED
  BY <1>1, <1>4, <1>5 DEF Sees

(* A transaction that is no reserve leaves the reserves alone.             *)
LEMMA FinishReserves ==
  ASSUME Invariant, Accounts, Invariant', Accounts', NEW t \in Txs, Finish(t),
         tx[t].job.op # "reserve"
  PROVE  Reserving' = Reserving
<1>1. tx \in [Txs -> TxRow] /\ tx' \in [Txs -> TxRow] /\ tx' = [tx EXCEPT ![t] = Idle]
  BY DEF Invariant, TypeInv, Finish
<1>2. tx'[t] = Idle /\ \A u \in Txs \ {t} : tx'[u] = tx[u]
  BY <1>1
<1>3. ReservesAlone(tx) /\ ReservesAlone(tx')
  BY ReservingRows
<1>4. ReservingOf(tx') = ReservingOf(tx)
  BY <1>1, <1>2, <1>3, IdleRow, ReservingSame
<1> QED
  BY <1>4, ReservingRows

LEMMA CommitCloseSteps ==
  ASSUME Invariant, Accounts, Progress, Invariant', Accounts', NEW t \in Txs, CommitClose(t),
         tx[t].began = today, tx[t].stamp = today
  PROVE  LedgerStep
<1> DEFINE r == tx[t]
           S == SettledBy(r)
           R == ReleasedBy(r)
           due == DueRow(r)
           n == ChargedBy(r)
           take == TakenBy(r)
           actual == [c \in S |-> r.job.actual[c]]
<1>1. /\ r.pc = "commit" /\ r.job.op = "close" /\ block' = DrawnBlocks(r) /\ balance' = Refunded(r)
      /\ CloseMine(r) /\ Finish(t) /\ today' = today
  BY DEF CommitClose
<1>2. TypeInv /\ L!TypeOK /\ r \in TxRow
  BY DEF Invariant, TypeInv
<1>3. /\ S \in SUBSET Calls /\ R \in SUBSET Calls /\ S \cap R = {} /\ S \cup R = r.mine
      /\ n \in L!Amounts /\ take \in L!Takes
  BY <1>2, CloseParts
<1>4. /\ L!RowsClosed(S, R, n) /\ L!CounterWritten(S, R, n)
      /\ block' = L!Drawn(take) /\ L!PaidBack(S, R, n, balance')
  BY <1>1, DayClose
<1>5. PICK k \in 0 .. L!Funded : L!DrawsSeen(S, due, k, n, take)
  BY <1>1, CloseSeen
<1>6. S \cup R # {}
  BY <1>1, <1>3, CloseSeen
<1>7. ASSUME NEW c \in S
      PROVE  r.job.actual[c] \in Actuals \cup {None} /\ due[c] = L!Settled(c, r.job.actual[c])
  <2>1. c \in Calls /\ c \in r.job.settle
    BY <1>1, <1>3 DEF SettledBy, Settles
  <2>2. r.job.actual[c] \in Costs
    BY <1>1, <1>2, <2>1, RowFields, JobFields
  <2> QED
    BY <1>1, <2>1, <2>2, LedgerTxAssumption DEF DueRow, Due
<1>8. actual \in [S -> Actuals \cup {None}] /\ L!DuesSettled(S, actual, due)
  BY <1>7 DEF L!DuesSettled
<1>9. Reserving' = Reserving
  BY <1>1, FinishReserves
<1> HIDE DEF r, S, R, due, n, take, actual
<1>10. L!Next
  BY <1>2, <1>3, <1>4, <1>5, <1>6, <1>8, <1>9, Base, L!CloseIsStep
<1> QED
  BY <1>10 DEF LedgerStep

LEMMA CommitPayToSteps ==
  ASSUME Invariant, Accounts, Progress, Invariant', Accounts', NEW t \in Txs, CommitPayTo(t),
         tx[t].began = today, tx[t].stamp = today
  PROVE  LedgerStep
<1> DEFINE r == tx[t]
           c == r.job.call
           payee == r.job.payee
           a == r.job.actual
           due == DueRow(r)
           n == ChargedBy(r)
           take == TakenBy(r)
           back == Refunded(r)
           m == Drawn(r, c)
<1>1. /\ r.pc = "commit" /\ r.job.op = "payTo" /\ CloseMine(r) /\ Finish(t) /\ today' = today
      /\ \/ m = 0 /\ block' = DrawnBlocks(r) /\ balance' = back
         \/ /\ m > 0
            /\ \E b \in Blocks :
                 /\ L!NextBlock(b)
                 /\ block' = [DrawnBlocks(r) EXCEPT ![b] = L!NewBlock(payee, "earned", m, None)]
            /\ balance' = [back EXCEPT ![payee] = @ + m]
  BY DEF CommitPayTo
<1>2. TypeInv /\ L!TypeOK /\ r \in TxRow /\ AtStatement(r)
  BY DEF Invariant, TypeInv, Stands
<1>3. c \in Calls /\ payee \in Orgs /\ a \in Costs /\ a \in Actuals \cup {None}
  BY <1>1, <1>2, RowFields, JobFields, LedgerTxAssumption
<1>4. r.mine = {c}
  BY <1>1, <1>2 DEF AtStatement
<1>5. SettledBy(r) = {c} /\ ReleasedBy(r) = {}
  BY <1>1, <1>4 DEF SettledBy, ReleasedBy, Settles
<1>6. /\ L!RowsClosed({c}, {}, n) /\ L!CounterWritten({c}, {}, n)
      /\ DrawnBlocks(r) = L!Drawn(take) /\ L!PaidBack({c}, {}, n, back)
  BY <1>1, <1>5, DayClose
<1>7. PICK k \in 0 .. L!Funded : L!DrawsSeen({c}, due, k, n, take)
  <2>1. \E k \in 0 .. L!Funded : L!DrawsSeen(SettledBy(r), due, k, n, take)
    BY <1>1, CloseSeen
  <2> QED
    BY <1>5, <2>1
<1>8. n \in L!Amounts /\ take \in L!Takes
  BY <1>2, CloseParts
<1>9. due[c] = L!PaidFor(c, a)
  BY <1>1, <1>3 DEF DueRow, Due, L!PaidFor
<1>10. n[c] = m
  BY <1>3, <1>5 DEF ChargedBy
<1>11. Reserving' = Reserving
  BY <1>1, FinishReserves
<1> HIDE DEF r, c, payee, a, due, n, take, back, m
<1>12. \/ n[c] = 0 /\ block' = L!Drawn(take) /\ balance' = back
       \/ /\ n[c] > 0
          /\ \E b \in L!BlockIds :
               /\ L!NextBlock(b)
               /\ block' = [L!Drawn(take) EXCEPT ![b] = L!NewBlock(payee, "earned", n[c], None)]
          /\ balance' = [back EXCEPT ![payee] = @ + n[c]]
  BY <1>1, <1>6, <1>10, SameBlocks
<1>13. L!Next
  BY <1>2, <1>3, <1>6, <1>7, <1>8, <1>9, <1>11, <1>12, Base, L!PayIsStep
<1> QED
  BY <1>13 DEF LedgerStep

(* A release of the sweep: the session goes on to the next stale hold.     *)
LEMMA CommitReapSteps ==
  ASSUME Invariant, Accounts, Progress, Invariant', Accounts', NEW t \in Txs, CommitReap(t)
  PROVE  /\ AtWork(t)'
         /\ tx[t].began = today /\ tx[t].stamp = today => LedgerStep
<1> DEFINE r == tx[t]
           left == r.todo \ r.mine
           s == [r EXCEPT !.todo = left]
           g == ToGate(s)
           c == r.job.call
           n == ChargedBy(r)
<1>1. TypeInv /\ L!TypeOK /\ r \in TxRow /\ AtStatement(r) /\ AtWork(t) /\ ReserveDrawsNothing(t)
  BY DEF Invariant, TypeInv, Accounts, Informed, Stands, Progress
<1>2. /\ r.pc = "commit" /\ r.job.op = "reserve" /\ r.mine # {}
      /\ balance' = Refunded(r) /\ CloseMine(r) /\ block' = block /\ today' = today
      /\ tx' = [tx EXCEPT ![t] = g]
  BY DEF CommitReap
<1>3. r.claim = {} /\ r.want = {} /\ r.orgs = {}
  BY <1>1, <1>2 DEF AtStatement
<1>4. PICK h \in r.todo : r.mine = {h}
  BY <1>1, <1>2, <1>3 DEF AtWork, Sweeps
<1>5. h \in Calls /\ left \in SUBSET Calls /\ left = r.todo \ {h}
  BY <1>1, <1>4, RowFields
<1> HIDE DEF left
<1>6. s \in TxRow
  BY <1>1, <1>5 DEF TxRow
<1>7. /\ s.job = r.job /\ s.claim = {} /\ s.want = {} /\ s.orgs = {} /\ s.todo = left
      /\ s.began = r.began /\ s.stamp = r.stamp
  BY <1>1, <1>3, <1>5 DEF TxRow
<1>8. Dated(s)
  BY <1>1, <1>7 DEF AtWork, Dated
<1> HIDE DEF s
<1>9. Dated(g) /\ Sweeps(g)
  BY <1>1, <1>2, <1>6, <1>7, <1>8, ToGateWork
<1>10. g.job = r.job /\ g.todo = left
  BY <1>1, <1>2, <1>6, <1>7, ToGateRow
<1> HIDE DEF g
<1>11. tx'[t] = g
  BY <1>1, <1>2 DEF TypeInv
<1>12. AtWork(t)'
  BY <1>2, <1>9, <1>10, <1>11 DEF AtWork, Dated, Sweeps, Given, Sees
<1>13. ASSUME r.began = today, r.stamp = today PROVE LedgerStep
  <2>1. SettledBy(r) = {} /\ ReleasedBy(r) = {h}
    BY <1>2, <1>4 DEF SettledBy, ReleasedBy, Settles
  <2>2. /\ L!RowsClosed({}, {h}, n) /\ L!CounterWritten({}, {h}, n)
        /\ L!PaidBack({}, {h}, n, balance')
    BY <1>2, <1>13, <2>1, DayClose
  <2>3. n \in L!Amounts
    BY <1>1, CloseParts
  <2> HIDE DEF n
  <2>4. L!IsOpen(h) /\ L!ReleaseHold(h)
    BY <1>1, <1>2, <1>5, <2>2, <2>3, Base, L!OneReleased
  <2>5. /\ c \in Calls /\ Reserving[c] = ReserveOf(r)
        /\ Reserving' = [Reserving EXCEPT ![c] = ReserveOf(g)]
    BY <1>2, <1>10, ReserveMoves
  <2> HIDE DEF c
  <2>6. /\ ReserveOf(g) = [ReserveOf(r) EXCEPT !.todo = @ \ {h}]
        /\ ReserveOf(r).todo = r.todo
    BY <1>5, <1>10 DEF ReserveOf
  <2>7. Reserving' = [Reserving EXCEPT ![c].todo = @ \ {h}]
    BY <2>5, <2>6
  <2>8. h \in Reserving[c].todo
    BY <1>4, <2>5, <2>6
  <2>9. L!Reap(c, h)
    BY <1>2, <2>4, <2>7, <2>8 DEF L!Reap
  <2> QED
    BY <1>5, <2>5, <2>9 DEF LedgerStep, L!Next
<1> QED
  BY <1>12, <1>13

(* The gate.                                                               *)
LEMMA CommitReserveSteps ==
  ASSUME Invariant, Accounts, Progress, Invariant', Accounts', NEW t \in Txs, CommitReserve(t),
         tx[t].began = today, tx[t].stamp = today
  PROVE  LedgerStep
<1> DEFINE r == tx[t]
           c == r.job.call
           o == r.job.org
           n == r.job.charged
<1>1. TypeInv /\ L!TypeOK /\ r \in TxRow /\ AtStatement(r) /\ Informed(t) /\ AtWork(t)
  BY DEF Invariant, TypeInv, Accounts, Stands, Progress
<1>2. /\ r.pc = "commit" /\ r.job.op = "reserve" /\ r.mine = {}
      /\ balance' = [balance EXCEPT ![o] = @ - n]
      /\ spent' = [spent EXCEPT ![o] = AddSpent(@, today, n)]
      /\ hold' = [hold EXCEPT ![c] = [org |-> o, amount |-> n, day |-> today, stale |-> FALSE,
                                      known |-> L!Funded]]
      /\ tag' = IF c \in Tagged
                THEN [tag EXCEPT ![c] = [org |-> o, amount |-> n, settled |-> FALSE, day |-> today]]
                ELSE tag
      /\ Finish(t) /\ UNCHANGED <<block, closing, today>>
  BY DEF CommitReserve
<1>3. o \in Orgs /\ r.claim = {}
  BY <1>1, <1>2, RowFields, JobFields DEF AtStatement
<1>4. r.todo = {}
  BY <1>1, <1>2, <1>3 DEF AtWork, Sweeps
<1>5. L!Affords(o, n)
  BY <1>1, <1>2 DEF Informed, Admitted, L!Affords
<1>6. /\ c \in Calls /\ Reserving[c] = ReserveOf(r)
      /\ Reserving' = [Reserving EXCEPT ![c] = L!NoReserve]
  BY <1>1, <1>2, IdleRow, ReserveMoves DEF Finish
<1>7. Reserving[c].org = o /\ Reserving[c].charged = n /\ Reserving[c].todo = {}
  BY <1>4, <1>6 DEF ReserveOf
<1> HIDE DEF r, c, o, n
<1>8. spent' = [spent EXCEPT ![o] = L!AddSpent(@, n)]
  BY <1>2 DEF AddSpent, L!AddSpent
<1>9. o # None
  BY <1>3, Base
<1>10. L!ReserveDebit(c)
  BY <1>2, <1>5, <1>6, <1>7, <1>8, <1>9 DEF L!ReserveDebit
<1> QED
  BY <1>6, <1>10 DEF LedgerStep, L!Next

(* A top-up whose reference nobody else has committed, or a grant.         *)
LEMMA CommitFundSteps ==
  ASSUME Invariant, Accounts, Progress, Invariant', Accounts', NEW t \in Txs, CommitFund(t)
  PROVE  LedgerStep
<1> DEFINE j == tx[t].job
<1>1. TypeInv /\ tx[t] \in TxRow /\ Given(t)
  BY DEF Invariant, TypeInv, Progress, AtWork
<1>2. /\ tx[t].pc = "commit" /\ j.op = "fund"
      /\ \E b \in Blocks :
           L!NextBlock(b) /\ block' = [block EXCEPT ![b] = L!NewBlock(j.org, j.kind, j.amount, j.ref)]
      /\ balance' = [balance EXCEPT ![j.org] = @ + j.amount]
      /\ Finish(t) /\ UNCHANGED <<spent, hold, closing, tag, today>>
  BY DEF CommitFund
<1>3. j.org \in Orgs
  BY <1>1, <1>2, RowFields, JobFields
<1>4. j.amount \in Credits
  BY <1>1, <1>2 DEF Given
<1>5. \/ j.kind = "promotional" /\ j.ref = None
      \/ j.kind = "purchased" /\ j.ref \in Refs /\ \A b \in Blocks : block[b].ref # j.ref
  BY <1>1, <1>2, Base DEF Given
<1>6. Reserving' = Reserving
  BY <1>2, FinishReserves
<1> HIDE DEF j
<1>7. L!Fund(j.org, j.kind, j.amount, j.ref)
  BY <1>2, <1>6, SameBlocks DEF L!Fund
<1>8. CASE j.kind = "promotional" /\ j.ref = None
  <2>1. L!Grant(j.org, "promotional", j.amount)
    BY <1>7, <1>8 DEF L!Grant
  <2>2. "promotional" \in L!GrantKinds
    BY DEF L!GrantKinds
  <2> QED
    BY <1>3, <1>4, <2>1, <2>2 DEF LedgerStep, L!Next
<1>9. CASE j.kind = "purchased" /\ j.ref \in Refs /\ \A b \in Blocks : block[b].ref # j.ref
  <2>1. L!Topup(j.org, j.amount, j.ref)
    BY <1>7, <1>9, SameBlocks DEF L!Topup
  <2> QED
    BY <1>3, <1>4, <1>9, <2>1 DEF LedgerStep, L!Next
<1> QED
  BY <1>5, <1>8, <1>9

LEMMA CommitRevokeSteps ==
  ASSUME Invariant, Accounts, Progress, Invariant', Accounts', NEW t \in Txs, CommitRevoke(t)
  PROVE  LedgerStep
<1> DEFINE o == tx[t].job.org
           asked == tx[t].job.asked
           T == DOMAIN asked
<1>1. TypeInv /\ L!TypeOK /\ tx[t] \in TxRow /\ Stands(t) /\ Informed(t) /\ Given(t)
  BY DEF Invariant, TypeInv, Accounts, Progress, AtWork
<1>2. tx[t].job.op = "revoke" /\ Finish(t)
  BY Zenon DEF CommitRevoke
<1>3. o \in Orgs /\ asked \in [T -> Targets] /\ T \in SUBSET L!Refundable(o)
  BY <1>1, <1>2, RowFields, JobFields DEF Given
<1>4. L!TakesBack(o, asked)
  BY <1>1, RevokeReads
<1>5. Reserving' = Reserving
  BY <1>2, FinishReserves
<1> HIDE DEF o, asked, T
<1>6. L!Next \/ UNCHANGED L!vars
  BY <1>1, <1>3, <1>4, <1>5, Base, L!RefundIsStep
<1> QED
  BY <1>6 DEF LedgerStep

LEMMA OutsideSteps ==
  ASSUME Invariant, Accounts, Invariant', Accounts'
  PROVE  /\ \A o \in Orgs : Signup(o) => LedgerStep
         /\ \A c \in Calls : Age(c) => LedgerStep
         /\ Midnight => LedgerStep
         /\ UNCHANGED vars => LedgerStep
<1>1. ASSUME NEW o \in Orgs, Signup(o) PROVE LedgerStep
  <2>1. "promotional" \in L!GrantKinds
    BY DEF L!GrantKinds
  <2>2. PICK n \in Credits : L!Grant(o, "promotional", n)
    BY <1>1 DEF Signup
  <2> QED
    BY <2>1, <2>2 DEF LedgerStep, L!Next
<1>2. ASSUME NEW c \in Calls, Age(c) PROVE LedgerStep
  BY <1>2 DEF Age, LedgerStep, L!Next
<1>3. CASE Midnight
  BY <1>3 DEF Midnight, LedgerStep, L!Next
<1>4. CASE UNCHANGED vars
  <2>1. Reserving' = Reserving
    BY <1>4 DEF vars, Reserving
  <2> QED
    BY <1>4, <2>1, Stutters DEF vars, db
<1> QED
  BY <1>1, <1>2, <1>3, <1>4

-----------------------------------------------------------------------------
(* What a step leaves to the others                                         *)

LEMMA BlocksSame ==
  ASSUME TypeInv, NEW t, block' = block
  PROVE  BlocksFrame(t)
<1>1. \A b \in Blocks : block[b].remaining \in Nat
  BY BlockOwner
<1> QED
  BY <1>1 DEF BlocksFrame

LEMMA StatementFrame ==
  ASSUME TypeInv, NEW t, UNCHANGED <<db, today>>
  PROVE  Frame(t)
<1>1. BlocksFrame(t)
  BY BlocksSame DEF db
<1>2. today \in Nat
  BY DEF TypeInv, L!TypeOK
<1> QED
  BY <1>1, <1>2 DEF Frame, HoldsFrame, SameHold, TagsFrame, DaysFrame, db

LEMMA BlocksDrawn ==
  ASSUME TypeInv, NEW t \in Txs, AsLocked(t), NEW b \in Blocks, block'[b] = DrawnBlocks(tx[t])[b]
  PROVE  /\ block'[b].org = block[b].org /\ block'[b].kind = block[b].kind
         /\ block'[b].ref = block[b].ref /\ block'[b].remaining <= block[b].remaining
<1> DEFINE n == TakenBy(tx[t])[b]
<1>1. /\ n \in Nat /\ block'[b] = [block[b] EXCEPT !.remaining = block[b].remaining - n]
  BY TakenFromLocked
<1>2. block[b] \in L!BlockRow /\ block[b].remaining \in Nat
  BY BlockOwner
<1> HIDE DEF n
<1>3. /\ block'[b].org = block[b].org /\ block'[b].kind = block[b].kind /\ block'[b].ref = block[b].ref
      /\ block'[b].remaining = block[b].remaining - n
  BY <1>1, <1>2 DEF L!BlockRow
<1> QED
  BY <1>1, <1>2, <1>3

LEMMA CloseFrame ==
  ASSUME Invariant, Progress, NEW t \in Txs, CloseMine(tx[t]), today' = today, BlocksFrame(t)
  PROVE  Frame(t)
<1> DEFINE r == tx[t]
<1>1. TypeInv /\ r \in TxRow /\ Dated(r) /\ Stands(t)
  BY DEF Invariant, TypeInv, Progress, AtWork
<1>2. today \in Nat /\ r.began <= today /\ r.stamp <= today
  BY <1>1 DEF TypeInv, L!TypeOK, Dated
<1>3. HoldsFrame(t)
  <2>1. \A c \in Calls : hold'[c] = IF c \in r.mine THEN L!NoHold ELSE hold[c]
    BY Zenon DEF CloseMine
  <2>2. ASSUME NEW c \in r.mine, c \in Calls, NEW u \in Txs \ {t} PROVE c \notin tx[u].mine
    BY <1>1, <2>2 DEF Invariant, Stands, HoldsClaimed
  <2>3. L!NoHold.known = 0 /\ L!NoHold.day <= today
    BY <1>2 DEF L!NoHold
  <2> QED
    BY <2>1, <2>2, <2>3 DEF HoldsFrame, SameHold
<1>4. TagsFrame
  <2> SUFFICES ASSUME NEW c \in Calls
               PROVE  tag'[c] = tag[c] \/ tag'[c] = L!NoTag \/ tag'[c].org # None
    BY DEF TagsFrame
  <2>1. \/ tag'[c] = tag[c] \/ tag'[c] = L!NoTag
        \/ /\ tag[c].org # None
           /\ tag'[c] = [tag[c] EXCEPT !.amount = Drawn(r, c), !.settled = TRUE, !.day = r.began]
    BY Zenon DEF CloseMine
  <2>2. tag[c] \in L!TagRow
    BY <1>1 DEF TypeInv, L!TypeOK
  <2> QED
    BY <2>1, <2>2 DEF L!TagRow
<1>5. DaysFrame
  <2>1. \A c \in Calls : closing'[c] = closing[c] \/ closing'[c].day = r.began
    BY ZenonT(30) DEF CloseMine
  <2>2. \A o \in Orgs : spent'[o] = spent[o] \/ spent'[o].day = r.stamp
    BY Zenon DEF CloseMine, AddSpent
  <2> QED
    BY <1>2, <2>1, <2>2 DEF DaysFrame
<1> QED
  BY <1>3, <1>4, <1>5 DEF Frame

LEMMA ClosesFrame ==
  ASSUME Invariant, Accounts, Progress, NEW t \in Txs, CommitClose(t) \/ CommitReap(t) \/ CommitPayTo(t)
  PROVE  Frame(t)
<1> DEFINE r == tx[t]
<1>1. TypeInv /\ AsLocked(t) /\ r \in TxRow
  BY DEF Invariant, TypeInv, Accounts, Informed
<1>2. CASE CommitClose(t)
  <2>1. CloseMine(r) /\ today' = today /\ \A b \in Blocks : block'[b] = DrawnBlocks(r)[b]
    BY <1>2 DEF CommitClose
  <2>2. BlocksFrame(t)
    BY <1>1, <2>1, BlocksDrawn DEF BlocksFrame
  <2> QED
    BY <2>1, <2>2, CloseFrame
<1>3. CASE CommitReap(t)
  <2>1. CloseMine(r) /\ today' = today /\ block' = block
    BY <1>3 DEF CommitReap
  <2> QED
    BY <1>1, <2>1, BlocksSame, CloseFrame
<1>4. CASE CommitPayTo(t)
  <2> DEFINE n == Drawn(r, r.job.call)
             row == L!NewBlock(r.job.payee, "earned", n, None)
  <2>1. /\ CloseMine(r) /\ today' = today /\ r.job.op = "payTo"
        /\ \/ block' = DrawnBlocks(r)
           \/ \E b \in Blocks : L!NextBlock(b) /\ block' = [DrawnBlocks(r) EXCEPT ![b] = row]
    BY <1>4 DEF CommitPayTo
  <2>2. row.org # None /\ row.ref = None
    <3>1. r.job.payee \in Orgs
      BY <1>1, <2>1, RowFields, JobFields
    <3>2. row.org = r.job.payee /\ row.ref = None
      BY DEF L!NewBlock
    <3> QED
      BY <3>1, <3>2, Base
  <2> HIDE DEF n, row
  <2>3. CASE block' = DrawnBlocks(r)
    BY <1>1, <2>1, <2>3, BlocksDrawn, CloseFrame DEF BlocksFrame
  <2>4. CASE \E b \in Blocks : L!NextBlock(b) /\ block' = [DrawnBlocks(r) EXCEPT ![b] = row]
    <3>1. PICK b \in Blocks : L!NextBlock(b) /\ block' = [DrawnBlocks(r) EXCEPT ![b] = row]
      BY <2>4
    <3>2. DrawnBlocks(r) \in [Blocks -> L!BlockRow]
      BY <1>1, DrawnBlocksType
    <3>3. block'[b] = row /\ \A x \in Blocks \ {b} : block'[x] = DrawnBlocks(r)[x]
      BY <3>1, <3>2
    <3>4. BlocksFrame(t)
      BY <1>1, <2>2, <3>1, <3>3, BlocksDrawn DEF BlocksFrame
    <3> QED
      BY <2>1, <3>4, CloseFrame
  <2> QED
    BY <2>1, <2>3, <2>4
<1> QED
  BY <1>2, <1>3, <1>4

LEMMA ReserveFrame ==
  ASSUME Invariant, Accounts, Progress, NEW t \in Txs, CommitReserve(t)
  PROVE  Frame(t)
<1> DEFINE r == tx[t]
           c == r.job.call
           o == r.job.org
           h == [org |-> o, amount |-> r.job.charged, day |-> r.began, stale |-> FALSE, known |-> L!Funded]
           row == [org |-> o, amount |-> r.job.charged, settled |-> FALSE, day |-> r.began]
<1>1. TypeInv /\ r \in TxRow /\ Dated(r) /\ Alone(t)
  BY DEF Invariant, TypeInv, Progress, AtWork, Accounts
<1>2. /\ r.job.op = "reserve" /\ block' = block /\ closing' = closing /\ today' = today
      /\ spent' = [spent EXCEPT ![o] = AddSpent(@, r.stamp, r.job.charged)]
      /\ hold' = [hold EXCEPT ![c] = h]
      /\ tag' = IF c \in Tagged THEN [tag EXCEPT ![c] = row] ELSE tag
  BY DEF CommitReserve
<1>3. c \in Calls /\ o \in Orgs /\ o # None
  BY <1>1, <1>2, RowFields, JobFields, Base
<1>4. /\ hold \in [Calls -> L!HoldRow] /\ tag \in [Calls -> L!TagRow] /\ today \in Nat
      /\ spent \in [Orgs -> [day : Nat \cup {None}, micro : Int]]
      /\ r.began <= today /\ r.stamp <= today
  BY <1>1 DEF TypeInv, L!TypeOK, Dated
<1>5. h.known = L!Funded /\ h.day = r.began /\ row.org = o
  OBVIOUS
<1>6. \A u \in Txs : c \notin tx[u].mine
  BY <1>1, <1>2 DEF Alone, Invariant, Stands, HoldsClaimed
<1>7. spent'[o].day = r.stamp /\ \A p \in Orgs \ {o} : spent'[p] = spent[p]
  BY <1>2, <1>3, <1>4 DEF AddSpent
<1> HIDE DEF c, o, h, row
<1>8. hold'[c] = h /\ \A x \in Calls \ {c} : hold'[x] = hold[x]
  BY <1>2, <1>3, <1>4
<1>9. HoldsFrame(t)
  BY <1>4, <1>5, <1>6, <1>8 DEF HoldsFrame, SameHold
<1>10. TagsFrame
  BY <1>2, <1>3, <1>4, <1>5 DEF TagsFrame
<1>11. DaysFrame
  BY <1>2, <1>4, <1>7 DEF DaysFrame
<1> QED
  BY <1>1, <1>2, <1>9, <1>10, <1>11, BlocksSame DEF Frame

(* What is left when no hold moves.                                        *)
LEMMA HoldsSame ==
  ASSUME TypeInv, NEW t, BlocksFrame(t), UNCHANGED <<spent, hold, closing, tag, today>>
  PROVE  Frame(t)
<1>1. today \in Nat
  BY DEF TypeInv, L!TypeOK
<1> QED
  BY <1>1 DEF Frame, HoldsFrame, SameHold, TagsFrame, DaysFrame

LEMMA BlocksFunded ==
  ASSUME TypeInv, NEW t, NEW b \in Blocks, L!NextBlock(b), NEW o \in Orgs, NEW kind, NEW n, NEW ref,
         block' = [block EXCEPT ![b] = L!NewBlock(o, kind, n, ref)],
         ref # None => lock[RefKey(ref)] = t
  PROVE  BlocksFrame(t)
<1> DEFINE row == L!NewBlock(o, kind, n, ref)
<1>1. row.org = o /\ row.ref = ref /\ o # None
  BY Base DEF L!NewBlock
<1>2. block \in [Blocks -> L!BlockRow] /\ \A x \in Blocks : block[x].remaining \in Nat
  BY BlockOwner, SameBlocks DEF TypeInv, L!TypeOK
<1> HIDE DEF row
<1>3. block'[b] = row /\ \A x \in Blocks \ {b} : block'[x] = block[x]
  BY <1>2 DEF row
<1> QED
  BY <1>1, <1>2, <1>3 DEF BlocksFrame

LEMMA FundFrame ==
  ASSUME Invariant, Progress, NEW t \in Txs, CommitFund(t)
  PROVE  Frame(t)
<1> DEFINE j == tx[t].job
<1>1. TypeInv /\ tx[t] \in TxRow /\ Given(t)
  BY DEF Invariant, TypeInv, Progress, AtWork
<1>2. /\ tx[t].pc = "commit" /\ j.op = "fund"
      /\ \E b \in Blocks :
           L!NextBlock(b) /\ block' = [block EXCEPT ![b] = L!NewBlock(j.org, j.kind, j.amount, j.ref)]
      /\ UNCHANGED <<spent, hold, closing, tag, today>>
  BY DEF CommitFund
<1>3. j.org \in Orgs /\ (j.ref # None => lock[RefKey(j.ref)] = t)
  BY <1>1, <1>2, RowFields, JobFields DEF Given
<1> HIDE DEF j
<1>4. BlocksFrame(t)
  <2>1. PICK b \in Blocks :
          L!NextBlock(b) /\ block' = [block EXCEPT ![b] = L!NewBlock(j.org, j.kind, j.amount, j.ref)]
    BY <1>2
  <2> QED
    BY <1>1, <1>3, <2>1, BlocksFunded
<1> QED
  BY <1>1, <1>2, <1>4, HoldsSame

LEMMA SignupFrame ==
  ASSUME TypeInv, NEW o \in Orgs, Signup(o), NEW t
  PROVE  Frame(t)
<1>1. PICK n \in Credits : L!Grant(o, "promotional", n)
  BY DEF Signup
<1>2. PICK b \in L!BlockIds : /\ L!NextBlock(b)
                              /\ block' = [block EXCEPT ![b] = L!NewBlock(o, "promotional", n, None)]
  BY <1>1 DEF L!Grant, L!Fund
<1>3. UNCHANGED <<spent, hold, closing, tag, today>>
  BY <1>1 DEF L!Grant, L!Fund
<1>4. BlocksFrame(t)
  BY <1>2, SameBlocks, BlocksFunded
<1> QED
  BY <1>3, <1>4, HoldsSame

LEMMA RevokeFrame ==
  ASSUME Invariant, Accounts, NEW t \in Txs, CommitRevoke(t)
  PROVE  Frame(t)
<1> DEFINE o == tx[t].job.org
           asked == tx[t].job.asked
           T == DOMAIN asked
           take == L!RefundTake(o, asked)
           goal == L!RefundGoal(asked)
<1>1. TypeInv /\ tx[t] \in TxRow /\ Stands(t) /\ Informed(t)
  BY DEF Invariant, TypeInv, Accounts
<1>2. tx[t].job.op = "revoke"
  BY Zenon DEF CommitRevoke
<1>3. o \in Orgs /\ T \in SUBSET L!BlockIds /\ asked \in [T -> Targets]
  BY <1>1, <1>2, RowFields, JobFields, SameBlocks
<1>4. L!TakesBack(o, asked)
  BY <1>1, RevokeReads
<1>5. take \in [T -> Nat]
  BY <1>1, <1>3, Base, L!RefundTakeType DEF TypeInv
<1>6. /\ \A b \in Blocks : block'[b] = IF b \in T THEN L!RefundRow(b, take[b], goal[b]) ELSE block[b]
      /\ UNCHANGED <<spent, hold, closing, tag, today>>
  BY <1>4, SameBlocks DEF L!TakesBack
<1> HIDE DEF take, goal, T
<1>7. ASSUME NEW b \in Blocks
      PROVE  /\ block'[b].org = block[b].org /\ block'[b].kind = block[b].kind
             /\ block'[b].ref = block[b].ref /\ block'[b].remaining <= block[b].remaining
  <2>1. block[b] \in L!BlockRow /\ block[b].remaining \in Nat
    BY <1>1, BlockOwner
  <2>2. CASE b \in T
    <3>1. take[b] \in Nat /\ block'[b] = L!RefundRow(b, take[b], goal[b])
      BY <1>5, <1>6, <2>2
    <3>2. /\ block'[b].org = block[b].org /\ block'[b].kind = block[b].kind /\ block'[b].ref = block[b].ref
          /\ block'[b].remaining = block[b].remaining - take[b]
      BY <2>1, <3>1 DEF L!RefundRow, L!BlockRow
    <3> QED
      BY <2>1, <3>1, <3>2
  <2>3. CASE b \notin T
    BY <1>6, <2>1, <2>3
  <2> QED
    BY <2>2, <2>3
<1>8. BlocksFrame(t)
  BY <1>7 DEF BlocksFrame
<1> QED
  BY <1>1, <1>6, <1>8, HoldsSame

LEMMA TimeFrame ==
  ASSUME TypeInv, NEW t, (\E c \in Calls : Age(c)) \/ Midnight \/ UNCHANGED vars
  PROVE  Frame(t)
<1>1. today \in Nat
  BY DEF TypeInv, L!TypeOK
<1>2. ASSUME NEW c \in Calls, Age(c) PROVE Frame(t)
  <2>1. UNCHANGED <<block, spent, closing, tag, today>> /\ hold' = [hold EXCEPT ![c].stale = TRUE]
    BY <1>2 DEF Age, L!Age
  <2>2. hold \in [Calls -> L!HoldRow]
    BY DEF TypeInv, L!TypeOK
  <2>3. \A d \in Calls : SameHold(d)
    BY <2>1, <2>2 DEF L!HoldRow, SameHold
  <2> QED
    BY <1>1, <2>1, <2>3, BlocksSame DEF Frame, HoldsFrame, TagsFrame, DaysFrame
<1>3. CASE Midnight
  <2>1. UNCHANGED <<block, spent, hold, closing, tag>> /\ today' = today + 1
    BY <1>3 DEF Midnight, L!Midnight
  <2> QED
    BY <1>1, <2>1, BlocksSame DEF Frame, HoldsFrame, SameHold, TagsFrame, DaysFrame
<1>4. CASE UNCHANGED vars
  BY <1>4, StatementFrame DEF vars, db
<1> QED
  BY <1>2, <1>3, <1>4

-----------------------------------------------------------------------------
(* Progress is kept                                                         *)

LEMMA ProgressKept ==
  ASSUME Invariant, Invariant', Progress, NEW t, Frame(t), \A u \in Txs \ {t} : tx'[u] = tx[u],
         OnlyMoves(t), t \in Txs => AtWork(t)'
  PROVE  Progress'
<1>1. TypeInv /\ TypeInv' /\ Tables
  BY DEF Invariant, Progress
<1>2. Tables'
  BY <1>1, TablesKept
<1>3. ASSUME NEW u \in Txs PROVE AtWork(u)'
  <2>1. CASE u = t
    BY <1>3, <2>1
  <2>2. CASE u # t
    <3>1. tx'[u] = tx[u] /\ \A k \in Keys : lock'[k] = u <=> lock[k] = u
      BY <1>3, <2>2 DEF OnlyMoves
    <3>2. Stands(u) /\ AtWork(u)
      BY <1>3 DEF Invariant, Progress
    <3> QED
      BY <1>1, <1>3, <2>2, <3>1, <3>2, StaysAtWork
  <2> QED
    BY <2>1, <2>2
<1> QED
  BY <1>2, <1>3 DEF Progress

LEMMA OneMoves ==
  ASSUME TypeInv, NEW t \in Txs,
         \/ lock' = lock
         \/ lock' = Unlocked(t)
         \/ \E k : Granted(t, k) /\ lock' = Locked(t, k),
         NEW g, tx' = [tx EXCEPT ![t] = g]
  PROVE  OnlyMoves(t) /\ \A u \in Txs \ {t} : tx'[u] = tx[u]
<1>1. \A u \in Txs \ {t} : tx'[u] = tx[u]
  BY DEF TypeInv
<1>2. CASE lock' = lock
  BY <1>1, <1>2 DEF OnlyMoves
<1>3. CASE lock' = Unlocked(t)
  BY <1>1, <1>3, LocksFreed
<1>4. CASE \E k : Granted(t, k) /\ lock' = Locked(t, k)
  <2>1. PICK k : Granted(t, k) /\ lock' = Locked(t, k)
    BY <1>4
  <2>2. lock \in [Keys -> Txs \cup {None}] /\ lock[k] \in {None, t} /\ None \notin Txs
    BY <2>1, Base DEF TypeInv, Granted
  <2>3. \A x \in Keys : lock'[x] = IF x = k THEN t ELSE lock[x]
    BY <2>1, <2>2 DEF Locked
  <2> QED
    BY <1>1, <2>2, <2>3 DEF OnlyMoves
<1> QED
  BY <1>2, <1>3, <1>4

LEMMA StatementMoves ==
  ASSUME TypeInv, NEW t \in Txs,
         Start(t) \/ Claim(t) \/ LockBlock(t) \/ InsertRef(t) \/ LockOrg(t) \/ Rollback(t)
  PROVE  UNCHANGED <<db, today>> /\ OnlyMoves(t) /\ \A u \in Txs \ {t} : tx'[u] = tx[u]
<1>1. ASSUME Start(t)
      PROVE  UNCHANGED <<db, today, lock>> /\ \E g : tx' = [tx EXCEPT ![t] = g]
  BY <1>1, ZenonT(30) DEF Start, BeginClose, BeginPayTo, BeginReserve, BeginRevoke, BeginGrant, BeginTopup, Begin
<1>2. ASSUME Claim(t)
      PROVE  /\ UNCHANGED <<db, today>> /\ \E g : tx' = [tx EXCEPT ![t] = g]
             /\ \/ lock' = lock \/ lock' = Unlocked(t)
                \/ \E k : Granted(t, k) /\ lock' = Locked(t, k)
  BY <1>2 DEF Claim, Finish
<1>3. ASSUME LockBlock(t)
      PROVE  /\ UNCHANGED <<db, today>> /\ \E g : tx' = [tx EXCEPT ![t] = g]
             /\ \E k : Granted(t, k) /\ lock' = Locked(t, k)
  BY <1>3 DEF LockBlock
<1>4. ASSUME InsertRef(t)
      PROVE  /\ UNCHANGED <<db, today>> /\ \E g : tx' = [tx EXCEPT ![t] = g]
             /\ lock' = Unlocked(t) \/ \E k : Granted(t, k) /\ lock' = Locked(t, k)
  BY <1>4 DEF InsertRef, Finish
<1>5. ASSUME LockOrg(t)
      PROVE  /\ UNCHANGED <<db, today>> /\ \E g : tx' = [tx EXCEPT ![t] = g]
             /\ lock' = Unlocked(t) \/ \E k : Granted(t, k) /\ lock' = Locked(t, k)
  BY <1>5 DEF LockOrg, Finish
<1>6. ASSUME Rollback(t)
      PROVE  /\ UNCHANGED <<db, today>> /\ \E g : tx' = [tx EXCEPT ![t] = g]
             /\ lock' = Unlocked(t)
  BY <1>6 DEF Rollback, Finish
<1>7. /\ UNCHANGED <<db, today>> /\ \E g : tx' = [tx EXCEPT ![t] = g]
      /\ \/ lock' = lock \/ lock' = Unlocked(t)
         \/ \E k : Granted(t, k) /\ lock' = Locked(t, k)
  BY <1>1, <1>2, <1>3, <1>4, <1>5, <1>6
<1>8. PICK g : tx' = [tx EXCEPT ![t] = g]
  BY <1>7
<1>9. OnlyMoves(t) /\ \A u \in Txs \ {t} : tx'[u] = tx[u]
  BY <1>7, <1>8, OneMoves
<1> QED
  BY <1>7, <1>9

LEMMA FinishWorks ==
  ASSUME Invariant, Invariant', NEW t \in Txs, Finish(t)
  PROVE  AtWork(t)' /\ OnlyMoves(t) /\ \A u \in Txs \ {t} : tx'[u] = tx[u]
<1>1. TypeInv /\ tx' = [tx EXCEPT ![t] = Idle] /\ lock' = Unlocked(t)
  BY DEF Invariant, Finish
<1>2. OnlyMoves(t) /\ \A u \in Txs \ {t} : tx'[u] = tx[u]
  BY <1>1, OneMoves
<1>3. today' \in Nat /\ tx'[t] = Idle
  BY <1>1 DEF Invariant, TypeInv, L!TypeOK
<1>4. AtWork(t)'
  BY <1>3, IdleRow DEF AtWork, Sweeps, Given, Sees, Dated
<1> QED
  BY <1>2, <1>4

(* A transaction that commits has read the clock today: it began and       *)
(* stamped its organizations on the day it commits.                        *)
OnTime ==
  \A t \in Txs : tx[t].pc = "commit" /\ tx'[t] # tx[t] => tx[t].began = today /\ tx[t].stamp = today

(* Every step of a session is a step of Ledger, if it is on time.          *)
LEMMA SessionSteps ==
  ASSUME Invariant, Accounts, Progress, Invariant', Accounts', NEW t \in Txs,
         Start(t) \/ Step(t) \/ Rollback(t)
  PROVE  Progress' /\ (OnTime => LedgerStep)
<1>1. TypeInv /\ tx[t] \in TxRow
  BY DEF Invariant, TypeInv
<1>2. ASSUME Start(t) \/ Claim(t) \/ LockBlock(t) \/ InsertRef(t) \/ LockOrg(t) \/ Rollback(t)
      PROVE  Progress' /\ LedgerStep
  <2>1. AtWork(t)' /\ LedgerStep
    BY <1>2, StartWorks, ClaimWorks, LockBlockWorks, InsertRefWorks, LockOrgWorks, RollbackWorks
  <2>2. UNCHANGED <<db, today>> /\ OnlyMoves(t) /\ \A u \in Txs \ {t} : tx'[u] = tx[u]
    BY <1>1, <1>2, StatementMoves
  <2>3. Frame(t)
    BY <1>1, <2>2, StatementFrame
  <2> QED
    BY <2>1, <2>2, <2>3, ProgressKept
<1>3. ASSUME CommitReap(t)
      PROVE  Progress' /\ (OnTime => LedgerStep)
  <2>1. /\ AtWork(t)' /\ (tx[t].began = today /\ tx[t].stamp = today => LedgerStep)
    BY <1>3, CommitReapSteps
  <2> DEFINE left == tx[t].todo \ tx[t].mine
             s == [tx[t] EXCEPT !.todo = left]
             g == ToGate(s)
  <2>2. /\ tx[t].pc = "commit" /\ tx[t].job.op = "reserve" /\ tx[t].mine # {}
        /\ lock' = Unlocked(t) /\ tx' = [tx EXCEPT ![t] = g]
    BY <1>3 DEF CommitReap
  <2>3. OnlyMoves(t) /\ \A u \in Txs \ {t} : tx'[u] = tx[u]
    <3> HIDE DEF g
    <3> QED
      BY <1>1, <2>2, OneMoves
  <2>4. tx'[t].mine = {}
    <3>1. left \in SUBSET Calls /\ AtStatement(tx[t])
      BY <1>1, RowFields DEF Invariant, Stands
    <3> HIDE DEF left
    <3>2. s \in TxRow
      BY <1>1, <3>1 DEF TxRow
    <3>3. s.job = tx[t].job /\ s.claim = tx[t].claim /\ s.want = tx[t].want /\ s.orgs = tx[t].orgs
      BY <1>1 DEF TxRow
    <3> HIDE DEF s
    <3>4. g.mine = {}
      BY <1>1, <2>2, <3>1, <3>2, <3>3, ToGateRow DEF AtStatement
    <3> QED
      BY <2>2, <3>4 DEF TypeInv, Invariant
  <2>5. OnTime => LedgerStep
    BY <2>1, <2>2, <2>4 DEF OnTime
  <2>6. Frame(t)
    BY <1>3, ClosesFrame
  <2> QED
    BY <2>1, <2>3, <2>5, <2>6, ProgressKept
<1>4. ASSUME CommitClose(t) \/ CommitPayTo(t) \/ CommitReserve(t) \/ CommitFund(t) \/ CommitRevoke(t)
      PROVE  Progress' /\ (OnTime => LedgerStep)
  <2>1. tx[t].pc = "commit" /\ Finish(t)
    BY <1>4, Zenon DEF CommitClose, CommitPayTo, CommitReserve, CommitFund, CommitRevoke
  <2>2. AtWork(t)' /\ OnlyMoves(t) /\ \A u \in Txs \ {t} : tx'[u] = tx[u]
    BY <2>1, FinishWorks
  <2>3. tx'[t] # tx[t]
    <3>1. tx'[t] = Idle
      BY <1>1, <2>1 DEF Finish, TypeInv
    <3> QED
      BY <2>1, <3>1, IdleRow
  <2>4. Frame(t)
    BY <1>4, ClosesFrame, ReserveFrame, FundFrame, RevokeFrame
  <2>5. OnTime => LedgerStep
    <3> SUFFICES ASSUME tx[t].began = today, tx[t].stamp = today PROVE LedgerStep
      BY <2>1, <2>3 DEF OnTime
    <3> QED
      BY <1>4, CommitCloseSteps, CommitPayToSteps, CommitReserveSteps, CommitFundSteps, CommitRevokeSteps
  <2> QED
    BY <2>2, <2>4, <2>5, ProgressKept
<1> QED
  BY <1>2, <1>3, <1>4 DEF Step

LEMMA StepImplements ==
  ASSUME Invariant, Accounts, Progress, [Next]_vars
  PROVE  Progress' /\ (OnTime => LedgerStep)
<1>1. Invariant' /\ Accounts'
  BY InvariantStep, AccountsNext
<1>2. ASSUME NEW t \in Txs, Start(t) \/ Step(t) \/ Rollback(t)
      PROVE  Progress' /\ (OnTime => LedgerStep)
  BY <1>1, <1>2, SessionSteps
<1>3. ASSUME (\E o \in Orgs : Signup(o)) \/ (\E c \in Calls : Age(c)) \/ Midnight \/ UNCHANGED vars
      PROVE  Progress' /\ (OnTime => LedgerStep)
  <2>1. TypeInv /\ None \notin Txs
    BY Base DEF Invariant
  <2>2. UNCHANGED <<lock, tx>>
    BY <1>3 DEF Signup, Age, Midnight, vars
  <2>3. OnlyMoves(None) /\ \A u \in Txs \ {None} : tx'[u] = tx[u]
    BY <2>2 DEF OnlyMoves
  <2>4. Frame(None)
    BY <1>3, <2>1, SignupFrame, TimeFrame
  <2>5. Progress'
    BY <1>1, <2>1, <2>3, <2>4, ProgressKept
  <2>6. LedgerStep
    BY <1>1, <1>3, OutsideSteps
  <2> QED
    BY <2>5, <2>6
<1> QED
  BY <1>2, <1>3 DEF Next

LEMMA ProgressInit == Init => Progress
<1> SUFFICES ASSUME Init PROVE Progress
  OBVIOUS
<1>1. tx = [t \in Txs |-> Idle] /\ L!Init /\ TypeInv
  BY InvariantInit DEF Init, Invariant
<1>2. Tables
  <2>1. L!Funded \in Nat
    BY <1>1, Base, L!FundedType DEF TypeInv
  <2> QED
    BY <1>1, <2>1 DEF Tables, L!Numbered, L!IsBlock, L!NotFuture, L!Init, L!NoBlock, L!NoHold,
                      L!NoTag, L!NoEntry
<1>3. ASSUME NEW t \in Txs PROVE AtWork(t)
  BY <1>1, IdleRow DEF AtWork, Sweeps, Given, Sees, Dated, L!Init
<1> QED
  BY <1>2, <1>3 DEF Progress

(* The three exceptions to "what a session writes it has locked" - the     *)
(* scan of the reaper, the lookup of a payment reference, the blocks that  *)
(* exist when a draw starts - do no harm: within a day every commit of     *)
(* every session, however their statements interleave, is one of the       *)
(* ledger's atomic steps, and everything else changes nothing it can see.  *)
THEOREM SessionsImplementLedger == Spec => ImplementsLedger
<1> DEFINE Inv == Invariant /\ Accounts /\ Progress
<1>1. Init => Inv /\ L!Init
  BY InvariantInit, AccountsInit, ProgressInit DEF Init
<1>2. Inv /\ [Next]_vars => Inv'
  BY InvariantStep, AccountsNext, StepImplements
<1>3. Inv /\ [Next]_vars => [today' = 0 => LedgerStep]_(L!vars)
  <2> SUFFICES ASSUME Inv, [Next]_vars, today' = 0 PROVE LedgerStep
    OBVIOUS
  <2>1. TypeInv /\ today \in Nat
    BY DEF Invariant, TypeInv, L!TypeOK
  <2>2. today = 0
    <3>1. today' \in {today, today + 1}
      <4>1. ASSUME NEW t \in Txs, Start(t) \/ Claim(t) \/ LockBlock(t) \/ InsertRef(t) \/ LockOrg(t) \/ Rollback(t)
            PROVE  today' = today
        BY <2>1, <4>1, StatementMoves
      <4>2. ASSUME NEW t \in Txs, Step(t), ~(Claim(t) \/ LockBlock(t) \/ InsertRef(t) \/ LockOrg(t))
            PROVE  today' = today
        BY <4>2, Zenon DEF Step, CommitClose, CommitReap, CommitPayTo, CommitReserve, CommitFund, CommitRevoke
      <4>3. ASSUME (\E o \in Orgs : Signup(o)) \/ (\E c \in Calls : Age(c)) \/ Midnight \/ UNCHANGED vars
            PROVE  today' \in {today, today + 1}
        BY <4>3 DEF Signup, L!Grant, L!Fund, Age, L!Age, Midnight, L!Midnight, vars
      <4> QED
        BY <4>1, <4>2, <4>3 DEF Next
    <3> QED
      BY <2>1, <3>1
  <2>3. OnTime
    <3>1. ASSUME NEW t \in Txs PROVE tx[t].began = 0 /\ tx[t].stamp = 0
      <4>1. tx[t] \in TxRow /\ tx[t].began <= 0 /\ tx[t].stamp <= 0
        BY <2>1, <2>2 DEF TypeInv, Progress, AtWork, Dated
      <4> QED
        BY <4>1, RowFields
    <3> QED
      BY <2>2, <3>1 DEF OnTime
  <2> QED
    BY <2>3, StepImplements
<1> QED
  BY <1>1, <1>2, <1>3, PTL DEF Spec, ImplementsLedger

(* Whatever day it is, the counter leaves the journal only by a commit     *)
(* that read the clock before a midnight it commits after.                 *)
THEOREM OnlyLateCommitsDrift == Spec => OnlyStraddlersDrift
<1> DEFINE Inv == Invariant /\ Accounts /\ Progress
<1>1. Init => Inv
  BY InvariantInit, AccountsInit, ProgressInit
<1>2. Inv /\ [Next]_vars => Inv'
  BY InvariantStep, AccountsNext, StepImplements
<1>3. Inv /\ [Next]_vars =>
        [SpentTodayAgrees /\ ~SpentTodayAgrees'
         => \E t \in Txs : /\ tx[t].pc = "commit" /\ tx'[t] # tx[t]
                           /\ tx[t].began # today \/ tx[t].stamp # today]_vars
  <2> SUFFICES ASSUME Inv, [Next]_vars, SpentTodayAgrees, ~SpentTodayAgrees', OnTime
               PROVE  FALSE
    BY DEF OnTime
  <2>1. LedgerStep
    BY StepImplements
  <2>2. Invariant' /\ L!TypeOK /\ L!TypeOK' /\ L!ClosesOnce /\ L!NotFuture
    BY InvariantStep DEF Invariant, TypeInv, Accounts, Progress, Tables
  <2>3. L!ReservesOnce
    <3> SUFFICES ASSUME NEW c \in Calls, Reserving[c].org # None
                 PROVE  ~L!IsOpen(c) /\ closing[c].kind = "none"
      BY DEF L!ReservesOnce
    <3>1. ReservingOf(tx)[c] # L!NoReserve /\ ReservesAlone(tx)
      BY ReservingRows DEF L!NoReserve
    <3>2. PICK t \in Txs : ReservesCall(tx[t], c)
      BY <3>1, ReservingAt
    <3> QED
      BY <3>2 DEF Accounts, Alone, ReservesCall
  <2>4. L!SpentTodayAgrees'
    <3>1. [L!Next]_(L!vars)
      BY <2>1 DEF LedgerStep
    <3>2. L!SpentTodayAgrees
      BY DEF SpentTodayAgrees
    <3> QED
      BY <2>2, <2>3, <3>1, <3>2, Base, L!SpentKept
  <2> QED
    BY <2>4 DEF SpentTodayAgrees
<1> QED
  BY <1>1, <1>2, <1>3, PTL DEF Spec, OnlyStraddlersDrift
=============================================================================
