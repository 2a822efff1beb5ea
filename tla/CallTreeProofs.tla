--------------------------- MODULE CallTreeProofs ---------------------------
(***************************************************************************)
(* That no hold of a request is stranded, for any number of children,      *)
(* cancels and failed transactions.  The reason is a table of who is to    *)
(* close what: a hold that is open, and that nobody has given up, is       *)
(* either on its way through its own call, or left to the router, or the   *)
(* price of a run that has not come to its end.                            *)
(*                                                                         *)
(* The same table carries what an answer may state: a charge is told where *)
(* it was taken, or is on its way to the answer with its call.             *)
(***************************************************************************)
EXTENDS CallTree, TLAPS

Places == Waiting \cup Returned \cup Collected \cup {"idle", "cleaning"}
Answers == {"", "skip", "limited", "none", "unbilled", "billed", "burst", "reported", "task", "quantity", "crash"}
OverAnswers == {"", "served", "unpriced", "free", "turned", "contract", "crashed", "refused"}
KidRecord == [at : Places, how : Answers, over : OverAnswers, told : SUBSET Holds]
TopRecord ==
  [kind : Tops, told : SUBSET Holds, out : {"", "answered", "pending", "failed", "cancelled", "crashed"},
   at : {"pricing", "tooDear", "running", "stopping", "closing", "recording", "rescue", "over"}]
HoldState == {"none", "open", "taken", "returned", "task"}

(* A hold that is open and is not the reaper's has a place where it will   *)
(* be closed; a hold that is said is one an answer may tell of: it was     *)
(* taken, it waits for its task, or it is left to the router.              *)
Left(h) == hold[h] = "open" /\ h \notin orphaned
Said(h) == hold[h] \in {"taken", "task"} \/ (hold[h] = "open" /\ h \in deferred)
Untouched(h) == hold[h] = "none" /\ h \notin deferred

ClosesOwn == {"ready", "sent", "closing", "cleaning"}
ClosesExtra == {"overSent", "overClosing", "cleaning"}
ClosesPrice == {"running", "stopping", "closing", "rescue", "tooDear"}
Broken == {"cleaning", "cancelled"}
Early == {"idle", "reserving", "ready", "sent", "closing", "after", "overflowing"}
Speaking == Waiting \cup {"idle", "done", "failed"}
Billing == {"billed", "burst", "reported", "task"}
Overflowing == {"skip", "unbilled", "limited", "burst"}

(* Both holds of a call have somebody who closes them.                     *)
Kept(k) ==
  /\ Left(Own(k)) => kid[k].at \in ClosesOwn \/ Own(k) \in deferred
  /\ Left(Extra(k)) => kid[k].at \in ClosesExtra \/ Extra(k) \in deferred

(* The holds a call has where it stands: its own first, and an overflow's  *)
(* only when its own is given back.                                        *)
Course(k) ==
  /\ kid[k].at \in {"idle", "reserving"} => Untouched(Own(k))
  /\ kid[k].at \in {"ready", "sent", "closing"} => hold[Own(k)] \in {"none", "open"} /\ Own(k) \notin deferred
  /\ kid[k].at \in Early => Untouched(Extra(k))
  /\ kid[k].at \in {"overSent", "overClosing"} => hold[Extra(k)] = "open" /\ Extra(k) \notin deferred
  /\ kid[k].at \in {"overflowing", "overSent", "overClosing"} => kid[k].how \in Overflowing

(* A call that was not interrupted tells of its charges, all of them and   *)
(* no other; only what a full rate window cost is charged twice, or stands *)
(* with a failure; one that crashed has none.                              *)
Honest(k) ==
  /\ kid[k].at \notin Broken =>
       /\ Said(Own(k)) => kid[k].how \in Billing
       /\ Said(Own(k)) /\ Said(Extra(k)) => kid[k].how = "burst"
       /\ kid[k].at \in {"failed", "refused"} => ~Said(Extra(k)) /\ (Said(Own(k)) => kid[k].how = "burst")
       /\ kid[k].at = "crashed" => ~Said(Own(k)) /\ ~Said(Extra(k))
  /\ kid[k].at \in Speaking => \A h \in {Own(k), Extra(k)} : h \in kid[k].told <=> Said(h)

(* Under a router, what is taken before it made up its mind was settled at *)
(* once.                                                                   *)
SettledAtOnce(k) ==
  kid[k].at \notin Broken =>
    /\ hold[Own(k)] \in {"taken", "task"} => kid[k].how \in {"reported", "task"}
    /\ hold[Extra(k)] \in {"taken", "task"} => kid[k].over = "served"

KidInv(k) == Kept(k) /\ Course(k) /\ Honest(k)

(* The router asks one provider at a time, and none once it has made up    *)
(* its mind: so nothing is left to it after it closed what was.            *)
RouteInv ==
  top.kind = "routed" =>
    /\ top.at \in {"running", "closing", "over"}
    /\ top.at = "running" <=> top.out = ""
    /\ \A j, k \in Kids : j # k => Idle(j) \/ Idle(k)
    /\ top.at # "running" => \A k \in Kids : Idle(k) \/ kid[k].at \in {"cancelled", "crashed"}
    /\ top.out # "cancelled" /\ top.at # "running" => \A k \in Kids : Idle(k) \/ kid[k].at = "crashed"
    /\ top.out \in {"", "failed", "crashed"} => \A k \in Kids : SettledAtOnce(k)
    /\ top.out \in {"failed", "crashed"} => top.told = {}

DirectInv ==
  top.kind = "direct" =>
    /\ top.at \in {"running", "over"}
    /\ \A j, k \in Kids : j # k => kid[j].at = "idle" \/ kid[k].at = "idle"
    /\ top.at = "running" => top.told = {} /\ \A k \in Kids : kid[k].at \notin Collected
    /\ top.out = "crashed" => top.at = "over" /\ top.told = {} /\ \A k \in Kids : kid[k].at # "answered"

HubInv ==
  /\ Left(Price) => top.at \in ClosesPrice
  /\ top.kind # "hub" => hold[Price] = "none"
  /\ top.at \in {"pricing", "tooDear"} => /\ top.kind = "hub" /\ top.told = {} /\ top.out = ""
                                          /\ \A k \in Kids : kid[k].at = "idle"
  /\ top.at \in {"running", "stopping"} => top.out = ""
  /\ top.at = "rescue" => top.out \in {"crashed", "cancelled"}

DeferredOpen == deferred # {} => top.kind = "routed" /\ top.at \in {"running", "closing"}

(* The request tells of the price if the author was paid it, and of the    *)
(* charges of the children that answered it; what it tells may be left to  *)
(* the reaper.                                                             *)
TellsOfPrice == Price \in top.told <=> hold[Price] \in {"taken", "task"}
TellsOfKids ==
  \A k \in Kids : \A h \in {Own(k), Extra(k)} :
    /\ kid[k].at = "answered" /\ Said(h) => h \in top.told
    /\ h \in top.told => kid[k].at = "answered" /\ (Said(h) \/ h \in orphaned)

Tells ==
  /\ top.out \in {"", "answered", "failed"} => TellsOfPrice
  /\ top.out \in {"", "answered"} \/ (top.out = "failed" /\ top.kind # "routed") => TellsOfKids

IInv ==
  /\ TypeOK
  /\ \A k \in Kids : KidInv(k)
  /\ RouteInv /\ DirectInv /\ HubInv /\ DeferredOpen /\ Tells

-----------------------------------------------------------------------------
(* The holds of a request are told apart by their references.              *)
LEMMA HoldsApart ==
  /\ Price \in Holds
  /\ \A k \in Kids : Own(k) \in Holds /\ Extra(k) \in Holds
  /\ \A j, k \in Kids : Own(j) # Extra(k) /\ Own(j) # Price /\ Extra(j) # Price
  /\ \A j, k \in Kids : j # k => Own(j) # Own(k) /\ Extra(j) # Extra(k)
BY DEF Holds, Own, Extra, Price

(* The type of the state, by its parts.                                    *)
LEMMA Shape ==
  TypeOK <=> /\ top \in TopRecord /\ kid \in [Kids -> KidRecord] /\ hold \in [Holds -> HoldState]
             /\ deferred \subseteq Holds /\ orphaned \subseteq Holds /\ dying \subseteq Kids
             /\ cancels \in 0 .. MaxCancels /\ faults \in 0 .. MaxFaults
             /\ deferred # {} => top.kind = "routed"
             /\ \A k \in Kids : /\ kid[k].told \subseteq {Own(k), Extra(k)}
                                /\ kid[k].at = "idle" => hold[Own(k)] = "none" /\ hold[Extra(k)] = "none"
BY DEF TypeOK, TopRecord, KidRecord, Places, Answers, OverAnswers, HoldState

(* A call's record stays one when a field of it changes within its type.   *)
LEMMA KidSet ==
  ASSUME NEW R \in KidRecord
  PROVE  /\ \A at \in Places : [R EXCEPT !.at = at] \in KidRecord
         /\ \A how \in Answers : [R EXCEPT !.how = how] \in KidRecord
         /\ \A over \in OverAnswers : [R EXCEPT !.over = over] \in KidRecord
         /\ \A told \in SUBSET Holds : [R EXCEPT !.told = told] \in KidRecord
BY DEF KidRecord

(* A step of one call disturbs its own record and its own two holds.       *)
Steps(k, R) ==
  /\ kid' = [kid EXCEPT ![k] = R]
  /\ R \in KidRecord /\ R.told \subseteq {Own(k), Extra(k)}
  /\ R.at \notin Collected \cup {"idle"}
  /\ hold' \in [Holds -> HoldState]
  /\ \A h \in Holds \ {Own(k), Extra(k)} : hold'[h] = hold[h] /\ (h \in deferred' <=> h \in deferred)
  /\ orphaned \subseteq orphaned' /\ orphaned' \subseteq Holds /\ deferred' \subseteq Holds
  /\ dying' \subseteq Kids /\ cancels' \in 0 .. MaxCancels /\ faults' \in 0 .. MaxFaults

(* It happens under a request that waits for it.                           *)
Under(k) ==
  /\ kid[k].at \notin Collected
  /\ top.kind = "routed" => (\A j \in Kids \ {k} : Idle(j)) /\ top.at = "running"
  /\ top.kind = "direct" => \A j \in Kids \ {k} : kid[j].at = "idle"
  /\ top.at \notin {"pricing", "tooDear"}

LEMMA Parts ==
  ASSUME IInv
  PROVE  /\ top \in TopRecord /\ kid \in [Kids -> KidRecord] /\ hold \in [Holds -> HoldState]
         /\ deferred \subseteq Holds /\ orphaned \subseteq Holds /\ dying \subseteq Kids
         /\ cancels \in 0 .. MaxCancels /\ faults \in 0 .. MaxFaults
         /\ deferred # {} => top.kind = "routed"
         /\ \A k \in Kids : /\ kid[k].told \subseteq {Own(k), Extra(k)}
                            /\ kid[k].at = "idle" => hold[Own(k)] = "none" /\ hold[Extra(k)] = "none"
BY Shape DEF IInv

LEMMA WorkingUnder ==
  ASSUME IInv, NEW k \in Kids, Working(k)
  PROVE  Under(k) /\ kid[k].at # "idle"
<1>1. kid[k].at \notin Collected /\ kid[k].at # "idle" /\ kid[k].at \notin {"cancelled", "crashed"} /\ ~Idle(k)
  BY DEF Working, Waiting, Collected, Idle
<1>2. QED
  BY <1>1 DEF Under, IInv, RouteInv, DirectInv, HubInv

(* What holds of the other children holds after the step.                  *)
LEMMA OthersKept ==
  ASSUME NEW j \in Kids, KidInv(j), kid'[j] = kid[j],
         \A h \in {Own(j), Extra(j)} : hold'[h] = hold[h] /\ (h \in deferred' <=> h \in deferred),
         orphaned \subseteq orphaned'
  PROVE  KidInv(j)'
<1>1. \A h \in {Own(j), Extra(j)} : Said(h)' <=> Said(h)
  BY DEF Said
<1>2. Kept(j)'
  BY DEF KidInv, Kept, Left
<1>3. Course(j)'
  BY DEF KidInv, Course, Untouched
<1>4. Honest(j)'
  BY <1>1 DEF KidInv, Honest
<1>5. QED
  BY <1>2, <1>3, <1>4 DEF KidInv

LEMMA StepKeeps ==
  ASSUME IInv, NEW k \in Kids, NEW R, Steps(k, R), Under(k), top' = top, KidInv(k)',
         top.kind = "routed" => SettledAtOnce(k)',
         top.kind # "routed" => deferred' = deferred
  PROVE  IInv'
<1> USE HoldsApart
<1>0. TypeOK /\ kid \in [Kids -> KidRecord] /\ hold \in [Holds -> HoldState]
  BY Shape DEF IInv
<1>1. kid'[k] = R /\ \A j \in Kids \ {k} : kid'[j] = kid[j]
  BY <1>0 DEF Steps
<1>2. \A j \in Kids \ {k} : \A h \in {Own(j), Extra(j)} : hold'[h] = hold[h] /\ (h \in deferred' <=> h \in deferred)
  BY DEF Steps
<1>3. hold'[Price] = hold[Price]
  BY DEF Steps
<1>4. TypeOK'
  <2>1. /\ top' \in TopRecord /\ kid' \in [Kids -> KidRecord] /\ hold' \in [Holds -> HoldState]
        /\ deferred' \subseteq Holds /\ orphaned' \subseteq Holds /\ dying' \subseteq Kids
        /\ cancels' \in 0 .. MaxCancels /\ faults' \in 0 .. MaxFaults
    BY <1>0, Shape DEF Steps
  <2>2. deferred' # {} => top'.kind = "routed"
    BY <1>0 DEF TypeOK
  <2>3. \A j \in Kids : /\ kid'[j].told \subseteq {Own(j), Extra(j)}
                        /\ kid'[j].at = "idle" => hold'[Own(j)] = "none" /\ hold'[Extra(j)] = "none"
    BY ZenonT(60), <1>0, <1>1, <1>2 DEF Steps, TypeOK
  <2>4. QED
    BY <2>1, <2>2, <2>3 DEF TypeOK, TopRecord, KidRecord, Places, Answers, OverAnswers, HoldState
<1>5. \A j \in Kids : KidInv(j)'
  <2>1. ASSUME NEW j \in Kids \ {k} PROVE KidInv(j)'
    BY <1>1, <1>2, OthersKept DEF IInv, Steps
  <2>2. QED
    BY <2>1
<1>6. RouteInv'
  <2>1. SUFFICES ASSUME top.kind = "routed" PROVE RouteInv'
    BY DEF RouteInv
  <2>2. top.at = "running" /\ top.out = "" /\ \A j \in Kids \ {k} : Idle(j)'
    BY <1>1, <2>1 DEF IInv, RouteInv, Under, Idle
  <2>3. \A j \in Kids : SettledAtOnce(j)'
    BY ZenonT(60), <1>1, <1>2, <2>1, <2>2 DEF IInv, RouteInv, SettledAtOnce
  <2>4. QED
    BY <2>2, <2>3 DEF RouteInv
<1>7. DirectInv'
  BY <1>1 DEF IInv, DirectInv, Steps, Under, Collected
<1>8. HubInv'
  BY <1>3 DEF IInv, HubInv, Left, Steps, Under
<1>9. DeferredOpen'
  BY DEF IInv, DeferredOpen, Under
<1>10. Tells'
  <2>1. TellsOfPrice' <=> TellsOfPrice
    BY <1>3 DEF TellsOfPrice
  <2>2. ASSUME TellsOfKids PROVE TellsOfKids'
    BY <1>1, <1>2, <2>2 DEF TellsOfKids, Said, Under, Steps, Collected
  <2>3. QED
    BY <2>1, <2>2 DEF IInv, Tells
<1>11. QED
  BY <1>4, <1>5, <1>6, <1>7, <1>8, <1>9, <1>10 DEF IInv

-----------------------------------------------------------------------------
(* The steps of one call.                                                  *)

LEMMA OneHold ==
  ASSUME NEW h \in Holds, NEW state \in HoldState, hold \in [Holds -> HoldState]
  PROVE  /\ [hold EXCEPT ![h] = state] \in [Holds -> HoldState]
         /\ [hold EXCEPT ![h] = state][h] = state
         /\ \A i \in Holds \ {h} : [hold EXCEPT ![h] = state][i] = hold[i]
OBVIOUS

LEMMA Closed ==
  ASSUME NEW h \in Holds, NEW state \in HoldState, hold \in [Holds -> HoldState]
  PROVE  /\ Close(h, state) \in [Holds -> HoldState]
         /\ Close(h, state)[h] = IF hold[h] = "open" THEN state ELSE hold[h]
         /\ \A i \in Holds \ {h} : Close(h, state)[i] = hold[i]
BY DEF Close

(* The record a step gives to its call.                                    *)
LEMMA WentTo ==
  ASSUME IInv, NEW k \in Kids, NEW at \in Places, Goto(k, at)
  PROVE  \E R \in KidRecord :
           /\ kid' = [kid EXCEPT ![k] = R] /\ R.at = at
           /\ R.how = kid[k].how /\ R.over = kid[k].over /\ R.told = kid[k].told
<1>1. kid[k] \in KidRecord
  BY Parts
<1> DEFINE R == [kid[k] EXCEPT !.at = at]
<1>2. R \in KidRecord
  BY <1>1, KidSet
<1>3. R.at = at /\ R.how = kid[k].how /\ R.over = kid[k].over /\ R.told = kid[k].told
  BY <1>1 DEF KidRecord
<1>4. kid' = [kid EXCEPT ![k] = R]
  BY DEF Goto
<1>5. QED
  BY <1>2, <1>3, <1>4

LEMMA Told ==
  ASSUME IInv, NEW k \in Kids, NEW at \in Places, NEW told \in SUBSET {Own(k), Extra(k)}, Tell(k, at, told)
  PROVE  \E R \in KidRecord :
           /\ kid' = [kid EXCEPT ![k] = R] /\ R.at = at
           /\ R.how = kid[k].how /\ R.over = kid[k].over /\ R.told = kid[k].told \cup told
<1>1. kid[k] \in KidRecord /\ kid[k].told \cup told \in SUBSET Holds
  BY Parts, HoldsApart
<1> DEFINE R == [kid[k] EXCEPT !.at = at, !.told = kid[k].told \cup told]
<1>2. R \in KidRecord
  BY <1>1, KidSet
<1>3. R.at = at /\ R.how = kid[k].how /\ R.over = kid[k].over /\ R.told = kid[k].told \cup told
  BY <1>1 DEF KidRecord
<1>4. kid' = [kid EXCEPT ![k] = R]
  BY <1>1 DEF Tell
<1>5. QED
  BY <1>2, <1>3, <1>4

Reply(k, at, how) == kid' = [kid EXCEPT ![k].at = at, ![k].how = how]

LEMMA Answered ==
  ASSUME IInv, NEW k \in Kids, NEW at \in Places, NEW how \in Answers, Reply(k, at, how)
  PROVE  \E R \in KidRecord :
           /\ kid' = [kid EXCEPT ![k] = R] /\ R.at = at
           /\ R.how = how /\ R.over = kid[k].over /\ R.told = kid[k].told
<1>1. kid[k] \in KidRecord
  BY Parts
<1> DEFINE R == [kid[k] EXCEPT !.at = at, !.how = how]
<1>2. R \in KidRecord
  BY <1>1, KidSet
<1>3. R.at = at /\ R.how = how /\ R.over = kid[k].over /\ R.told = kid[k].told
  BY <1>1 DEF KidRecord
<1>4. kid' = [kid EXCEPT ![k] = R]
  BY DEF Reply
<1>5. QED
  BY <1>2, <1>3, <1>4

(* A step that moves no hold.                                              *)
LEMMA MovesOn ==
  ASSUME IInv, NEW k \in Kids, NEW R \in KidRecord, kid' = [kid EXCEPT ![k] = R], Under(k),
         UNCHANGED <<top, hold, deferred, orphaned>>, R.told = kid[k].told,
         R.at \notin Collected \cup Broken \cup {"idle"},
         kid[k].at \notin Broken,
         top.kind = "routed" /\ Said(Own(k)) => R.how = kid[k].how,
         top.kind = "routed" => R.over = kid[k].over \/ ~Said(Extra(k)),
         dying' \subseteq Kids, cancels' \in 0 .. MaxCancels, faults' \in 0 .. MaxFaults,
         KidInv(k)'
  PROVE  IInv'
<1>1. Steps(k, R)
  BY Parts DEF Steps
<1>2. top.kind = "routed" => SettledAtOnce(k)'
  <2>1. kid'[k] = R
    BY Parts
  <2>2. QED
    BY <2>1 DEF SettledAtOnce, Said, IInv, RouteInv, Under
<1>3. QED
  BY <1>1, <1>2, StepKeeps

LEMMA StartKeeps == ASSUME IInv, NEW k \in Kids, Start(k) PROVE IInv'
<1>1. Under(k)
  BY DEF Start, Under, Collected
<1>2. PICK R \in KidRecord : /\ kid' = [kid EXCEPT ![k] = R] /\ R.told = kid[k].told /\ R.over = kid[k].over
                             /\ R.at = "reserving" \/ (R.at = "overflowing" /\ R.how = "skip")
  <2>1. "reserving" \in Places /\ "overflowing" \in Places /\ "skip" \in Answers
    BY DEF Places, Waiting, Answers
  <2>2. CASE Goto(k, "reserving")
    BY <2>1, <2>2, WentTo
  <2>3. CASE kid' = [kid EXCEPT ![k].at = "overflowing", ![k].how = "skip"]
    <3>1. Reply(k, "overflowing", "skip")
      BY <2>3 DEF Reply
    <3>2. QED
      BY <2>1, <3>1, Answered
  <2>4. QED
    BY <2>2, <2>3 DEF Start
<1>3. kid'[k] = R /\ kid[k].at = "idle"
  BY <1>2, Parts DEF Start
<1>4. KidInv(k) /\ UNCHANGED <<hold, deferred, orphaned>>
  BY DEF IInv, Start
<1>5. ~Said(Own(k)) /\ ~Said(Extra(k))
  BY <1>3, <1>4 DEF KidInv, Course, Untouched, Said, Early
<1>6. KidInv(k)'
  BY <1>2, <1>3, <1>4, <1>5 DEF KidInv, Kept, Course, Honest, Left, Said, Untouched, ClosesOwn, ClosesExtra, Early,
     Speaking, Broken, Waiting, Overflowing
<1>7. QED
  BY <1>1, <1>2, <1>3, <1>5, <1>6, Parts, MovesOn DEF Start, Collected, Broken

LEMMA DispatchKeeps == ASSUME IInv, NEW k \in Kids, Dispatch(k) PROVE IInv'
<1>1. Under(k) /\ kid[k].at = "ready"
  BY WorkingUnder DEF Dispatch, Working, Waiting
<1>2. PICK R \in KidRecord : /\ kid' = [kid EXCEPT ![k] = R] /\ R.told = kid[k].told /\ R.over = kid[k].over
                             /\ R.at \in {"sent", "closing"}
  <2>1. "sent" \in Places /\ "closing" \in Places
    BY DEF Places, Waiting
  <2>2. CASE Goto(k, "sent")
    BY <2>1, <2>2, WentTo
  <2>3. CASE \E how \in {"none", "limited", "crash"} : kid' = [kid EXCEPT ![k].at = "closing", ![k].how = how]
    <3>1. PICK how \in Answers : Reply(k, "closing", how)
      BY <2>3 DEF Answers, Reply
    <3>2. QED
      BY <2>1, <3>1, Answered
  <2>4. QED
    BY <2>2, <2>3 DEF Dispatch
<1>3. kid'[k] = R
  BY <1>2, Parts
<1>4. KidInv(k) /\ UNCHANGED <<hold, deferred, orphaned>>
  BY DEF IInv, Dispatch
<1>5. ~Said(Own(k)) /\ ~Said(Extra(k))
  BY <1>1, <1>4 DEF KidInv, Course, Untouched, Said, Early
<1>6. KidInv(k)'
  BY <1>1, <1>2, <1>3, <1>4, <1>5 DEF KidInv, Kept, Course, Honest, Left, Said, Untouched, ClosesOwn, ClosesExtra, Early,
     Speaking, Broken, Waiting
<1>7. QED
  BY <1>1, <1>2, <1>5, <1>6, Parts, MovesOn DEF Dispatch, Collected, Broken

LEMMA AnswerKeeps == ASSUME IInv, NEW k \in Kids, Answer(k) PROVE IInv'
<1>1. Under(k) /\ kid[k].at = "sent"
  BY WorkingUnder DEF Answer, Working, Waiting
<1>2. PICK R \in KidRecord : /\ kid' = [kid EXCEPT ![k] = R] /\ R.told = kid[k].told /\ R.over = kid[k].over
                             /\ R.at = "closing"
  <2>1. "closing" \in Places
    BY DEF Places, Waiting
  <2>2. PICK how \in Answers : Reply(k, "closing", how)
    BY DEF Answer, Answers, Reply
  <2>3. QED
    BY <2>1, <2>2, Answered
<1>3. kid'[k] = R
  BY <1>2, Parts
<1>4. KidInv(k) /\ UNCHANGED <<hold, deferred, orphaned>>
  BY DEF IInv, Answer
<1>5. ~Said(Own(k)) /\ ~Said(Extra(k))
  BY <1>1, <1>4 DEF KidInv, Course, Untouched, Said, Early
<1>6. KidInv(k)'
  BY <1>1, <1>2, <1>3, <1>4, <1>5 DEF KidInv, Kept, Course, Honest, Left, Said, Untouched, ClosesOwn, ClosesExtra, Early,
     Speaking, Broken, Waiting
<1>7. QED
  BY <1>1, <1>2, <1>5, <1>6, Parts, MovesOn DEF Answer, Collected, Broken

(* The holds of one call after a step that sets one of them.               *)
LEMMA OneMoved ==
  ASSUME IInv, NEW k \in Kids, NEW h \in {Own(k), Extra(k)}, NEW H \in [Holds -> HoldState],
         hold' = H, \A i \in Holds \ {h} : H[i] = hold[i]
  PROVE  /\ hold' \in [Holds -> HoldState]
         /\ \A i \in Holds \ {Own(k), Extra(k)} : hold'[i] = hold[i]
         /\ h = Own(k) => hold'[Extra(k)] = hold[Extra(k)]
         /\ h = Extra(k) => hold'[Own(k)] = hold[Own(k)]
BY HoldsApart

LEMMA Faulted ==
  ASSUME IInv
  PROVE  /\ faults \in 0 .. MaxFaults
         /\ Fails => faults' \in 0 .. MaxFaults /\ faults' # 0
BY Parts, CallTreeAssumption DEF Fails

LEMMA ReserveKeeps == ASSUME IInv, NEW k \in Kids, Reserve(k) PROVE IInv'
<1>1. Under(k) /\ kid[k].at = "reserving"
  BY WorkingUnder DEF Reserve, Working, Waiting
<1>2. /\ KidInv(k) /\ UNCHANGED deferred
      /\ Untouched(Own(k)) /\ Untouched(Extra(k)) /\ Own(k) \in Holds /\ Extra(k) \in Holds /\ Own(k) # Extra(k)
  BY <1>1, HoldsApart DEF IInv, Reserve, KidInv, Course, Early
<1> DEFINE Opened == [hold EXCEPT ![Own(k)] = "open"]
<1>3. Opened \in [Holds -> HoldState] /\ Opened[Own(k)] = "open" /\ \A i \in Holds \ {Own(k)} : Opened[i] = hold[i]
  BY <1>2, Parts, OneHold DEF HoldState
<1> HIDE DEF Opened
<1>4. PICK at \in {"ready", "failed", "crashed"} :
        /\ Goto(k, at)
        /\ \/ at = "ready" /\ hold' = Opened /\ UNCHANGED <<orphaned, faults>>
           \/ at # "crashed" /\ UNCHANGED <<hold, orphaned, faults>>
           \/ at = "crashed" /\ Fails /\ hold' = Opened /\ Abandon({Own(k)})
  BY DEF Reserve, Opened
<1>5. PICK R \in KidRecord : /\ kid' = [kid EXCEPT ![k] = R] /\ R.at = at /\ R.told = kid[k].told
  BY <1>4, WentTo DEF Places, Waiting, Returned
<1>6. kid'[k] = R
  BY <1>5, Parts
<1>7. /\ hold' \in [Holds -> HoldState] /\ \A i \in Holds \ {Own(k), Extra(k)} : hold'[i] = hold[i]
      /\ hold'[Extra(k)] = "none" /\ hold'[Own(k)] \in {"none", "open"}
  BY <1>2, <1>3, <1>4, Parts DEF Untouched
<1>8. orphaned \subseteq orphaned' /\ orphaned' \subseteq Holds
  BY <1>2, <1>4, Parts DEF Abandon
<1>9. Steps(k, R)
  BY <1>4, <1>5, <1>7, <1>8, Parts, Faulted DEF Steps, Reserve, Collected
<1>10. ~Said(Own(k))' /\ ~Said(Extra(k))' /\ ~Said(Own(k)) /\ ~Said(Extra(k))
  BY <1>2, <1>7 DEF Said, Untouched
<1>11. Left(Own(k))' => R.at = "ready"
  BY <1>2, <1>4, <1>5, <1>3 DEF Left, Untouched, Abandon
<1>12. KidInv(k)'
  BY <1>1, <1>2, <1>4, <1>5, <1>6, <1>7, <1>10, <1>11 DEF KidInv, Kept, Course, Honest, Left, Untouched, ClosesOwn, Early,
     Speaking, Broken, Waiting
<1>13. SettledAtOnce(k)'
  BY <1>7 DEF SettledAtOnce
<1>14. QED
  BY <1>1, <1>2, <1>9, <1>12, <1>13, StepKeeps DEF Reserve

LEMMA CloseOwnKeeps == ASSUME IInv, NEW k \in Kids, CloseOwn(k) PROVE IInv'
<1>1. Under(k) /\ kid[k].at = "closing"
  BY WorkingUnder DEF CloseOwn, Working, Waiting
<1>2. /\ KidInv(k) /\ hold[Own(k)] \in {"none", "open"} /\ Own(k) \notin deferred /\ Untouched(Extra(k))
      /\ Own(k) \in Holds /\ Extra(k) \in Holds /\ Own(k) # Extra(k)
  BY <1>1, HoldsApart DEF IInv, KidInv, Course, Early
<1> DEFINE C == Close(Own(k), Charged(kid[k].how))
           B == Close(Own(k), "returned")
<1>3. /\ C \in [Holds -> HoldState] /\ \A i \in Holds \ {Own(k)} : C[i] = hold[i]
      /\ C[Own(k)] = IF hold[Own(k)] = "open" THEN Charged(kid[k].how) ELSE hold[Own(k)]
  BY <1>2, Parts, Closed DEF HoldState, Charged
<1>4. /\ B \in [Holds -> HoldState] /\ \A i \in Holds \ {Own(k)} : B[i] = hold[i]
      /\ B[Own(k)] = IF hold[Own(k)] = "open" THEN "returned" ELSE hold[Own(k)]
  BY <1>2, Parts, Closed DEF HoldState
<1> HIDE DEF C, B
<1>5. PICK told \in SUBSET {Own(k), Extra(k)}, R \in KidRecord :
        /\ kid' = [kid EXCEPT ![k] = R] /\ R.at = "after" /\ R.how = kid[k].how /\ R.told = kid[k].told \cup told
        /\ \/ /\ hold[Own(k)] = "open" /\ Deferrable(kid[k].how) /\ told = {Own(k)}
              /\ deferred' = deferred \cup {Own(k)}
              /\ UNCHANGED <<hold, orphaned, faults>>
           \/ /\ ~Deferrable(kid[k].how) /\ hold' = C /\ told = Stated(Own(k))
              /\ UNCHANGED <<deferred, orphaned, faults>>
           \/ /\ hold[Own(k)] = "open" /\ ~Deferrable(kid[k].how) /\ Fails /\ told = {}
              /\ hold' \in {B, hold}
              /\ Abandon({Own(k)})
              /\ UNCHANGED deferred
  <2>1. "after" \in Places /\ Stated(Own(k)) \in SUBSET {Own(k), Extra(k)}
    BY DEF Places, Waiting, Stated
  <2>2. CASE /\ hold[Own(k)] = "open" /\ Deferrable(kid[k].how)
             /\ deferred' = deferred \cup {Own(k)}
             /\ Tell(k, "after", {Own(k)})
             /\ UNCHANGED <<hold, orphaned, faults>>
    BY <2>1, <2>2, Told
  <2>3. CASE /\ ~Deferrable(kid[k].how) /\ hold' = C
             /\ Tell(k, "after", Stated(Own(k)))
             /\ UNCHANGED <<deferred, orphaned, faults>>
    BY <2>1, <2>3, Told
  <2>4. CASE /\ hold[Own(k)] = "open" /\ ~Deferrable(kid[k].how) /\ Fails
             /\ hold' \in {B, hold}
             /\ Abandon({Own(k)})
             /\ Goto(k, "after")
             /\ UNCHANGED deferred
    BY ZenonT(60), <2>1, <2>4, WentTo
  <2>5. QED
    BY <2>2, <2>3, <2>4 DEF CloseOwn, C, B
<1>6. kid'[k] = R
  BY <1>5, Parts
<1>7. /\ hold' \in [Holds -> HoldState] /\ \A i \in Holds \ {Own(k), Extra(k)} : hold'[i] = hold[i]
      /\ hold'[Extra(k)] = "none"
  BY <1>2, <1>3, <1>4, <1>5, Parts DEF Untouched
<1>8. orphaned \subseteq orphaned' /\ orphaned' \subseteq Holds /\ deferred' \subseteq Holds
  BY <1>2, <1>5, Parts DEF Abandon
<1>9. Steps(k, R)
  <2>1. faults' \in 0 .. MaxFaults
    BY <1>5, Faulted
  <2>2. R.told \subseteq {Own(k), Extra(k)}
    BY <1>5, Parts
  <2>3. \A i \in Holds \ {Own(k), Extra(k)} : i \in deferred' <=> i \in deferred
    BY <1>5
  <2>4. QED
    BY <1>5, <1>7, <1>8, <2>1, <2>2, <2>3, Parts DEF Steps, CloseOwn, Collected
<1>10. /\ Said(Own(k))' => Own(k) \in told /\ kid[k].how \in Billing
       /\ told \subseteq {Own(k)} /\ (Own(k) \in told => Said(Own(k))')
       /\ ~Said(Extra(k))' /\ ~Said(Extra(k)) /\ ~Said(Own(k))
  <2>1. ~Said(Extra(k))' /\ ~Said(Extra(k)) /\ ~Said(Own(k))
    BY <1>2, <1>7 DEF Said, Untouched
  <2>2. CASE deferred' = deferred \cup {Own(k)} /\ hold[Own(k)] = "open" /\ told = {Own(k)} /\ Deferrable(kid[k].how)
             /\ UNCHANGED hold
    <3>1. kid[k].how # "unpriced"
      BY Parts DEF KidRecord, Answers
    <3>2. QED
      BY <2>1, <2>2, <3>1 DEF Said, Deferrable, Billing
  <2>3. CASE hold' = C /\ told = Stated(Own(k)) /\ UNCHANGED deferred
    <3>1. hold'[Own(k)] \in {"taken", "task"} => kid[k].how \in Billing \/ kid[k].how \in {"served", "unpriced"}
      BY <1>2, <1>3, <2>3 DEF Charged, Billing
    <3>2. kid[k].how \notin {"served", "unpriced"}
      BY Parts DEF KidRecord, Answers
    <3>3. QED
      BY <1>2, <1>3, <2>1, <2>3, <3>1, <3>2 DEF Said, Stated, Charged
  <2>4. CASE hold' \in {B, hold} /\ told = {} /\ UNCHANGED deferred
    BY <1>2, <1>4, <2>1, <2>4 DEF Said
  <2>5. QED
    BY <1>5, <2>2, <2>3, <2>4
<1>11. Left(Own(k))' => Own(k) \in deferred'
  BY <1>2, <1>3, <1>4, <1>5 DEF Left, Abandon, Charged
<1>12. KidInv(k)'
  <2>1. Kept(k)'
    BY <1>7, <1>11 DEF Kept, Left
  <2>2. Course(k)'
    BY <1>2, <1>5, <1>6, <1>7 DEF Course, Untouched
  <2>3. \A h \in {Own(k), Extra(k)} : h \notin kid[k].told
    BY <1>1, <1>2, <1>10 DEF KidInv, Honest, Speaking, Waiting
  <2>4. Honest(k)'
    BY <1>2, <1>5, <1>6, <1>10, <2>3 DEF Honest
  <2>5. QED
    BY <2>1, <2>2, <2>4 DEF KidInv
<1>13. ASSUME top.kind = "routed" PROVE SettledAtOnce(k)'
  <2>1. CASE hold' = C /\ ~Deferrable(kid[k].how)
    <3>1. hold'[Own(k)] \in {"taken", "task"} => Charged(kid[k].how) \in {"taken", "task"}
      BY <1>2, <1>3, <2>1
    <3>2. Charged(kid[k].how) \in {"taken", "task"} => kid[k].how \in {"reported", "task"} \/ kid[k].how = "served"
      BY <1>13, <2>1 DEF Charged, Deferrable
    <3>3. kid[k].how # "served"
      BY Parts DEF KidRecord, Answers
    <3>4. QED
      BY <1>5, <1>6, <1>7, <3>1, <3>2, <3>3 DEF SettledAtOnce
  <2>2. CASE hold' \in {B, hold}
    BY <1>2, <1>4, <1>6, <1>7, <2>2 DEF SettledAtOnce
  <2>3. QED
    BY <1>5, <2>1, <2>2
<1>14. QED
  BY <1>1, <1>5, <1>9, <1>12, <1>13, StepKeeps DEF CloseOwn, Deferrable

LEMMA AfterKeeps == ASSUME IInv, NEW k \in Kids, After(k) PROVE IInv'
<1>1. Under(k) /\ kid[k].at = "after"
  BY WorkingUnder DEF After, Working, Waiting
<1>2. PICK at \in {"failed", "crashed", "done", "overflowing"} :
        /\ Goto(k, at)
        /\ at = "failed" => kid[k].how = "none"
        /\ at = "crashed" => kid[k].how = "crash"
        /\ at = "overflowing" => kid[k].how \in {"unbilled", "limited", "burst"}
  BY DEF After
<1>3. PICK R \in KidRecord : /\ kid' = [kid EXCEPT ![k] = R] /\ R.at = at
                             /\ R.how = kid[k].how /\ R.over = kid[k].over /\ R.told = kid[k].told
  BY <1>2, WentTo DEF Places, Waiting, Returned
<1>4. kid'[k] = R
  BY <1>3, Parts
<1>5. KidInv(k) /\ UNCHANGED <<hold, deferred, orphaned>>
  BY DEF IInv, After
<1>6. /\ \A h \in {Own(k), Extra(k)} : Said(h)' <=> Said(h)
      /\ ~Said(Extra(k)) /\ Untouched(Extra(k)) /\ (Said(Own(k)) => kid[k].how \in Billing)
  BY <1>1, <1>5 DEF Said, KidInv, Course, Honest, Untouched, Early, Broken
<1>7. KidInv(k)'
  BY <1>1, <1>2, <1>3, <1>4, <1>5, <1>6 DEF KidInv, Kept, Course, Honest, Left, Untouched, ClosesOwn, ClosesExtra, Early,
     Speaking, Broken, Waiting, Billing, Overflowing
<1>8. QED
  BY <1>1, <1>2, <1>3, <1>7, Parts, MovesOn DEF After, Collected, Broken

LEMMA OverflowKeeps == ASSUME IInv, NEW k \in Kids, Overflow(k) PROVE IInv'
<1>1. Under(k) /\ kid[k].at = "overflowing"
  BY WorkingUnder DEF Overflow, Working, Waiting
<1>2. /\ KidInv(k) /\ UNCHANGED deferred /\ Untouched(Extra(k)) /\ kid[k].how \in Overflowing
      /\ Own(k) \in Holds /\ Extra(k) \in Holds /\ Own(k) # Extra(k)
  BY <1>1, HoldsApart DEF IInv, Overflow, KidInv, Course, Early
<1>3. (Said(Own(k)) => kid[k].how = "burst") /\ ~Said(Extra(k))
  BY <1>1, <1>2 DEF KidInv, Honest, Said, Untouched, Broken, Billing, Overflowing
<1> DEFINE Opened == [hold EXCEPT ![Extra(k)] = "open"]
<1>4. Opened \in [Holds -> HoldState] /\ Opened[Extra(k)] = "open" /\ \A i \in Holds \ {Extra(k)} : Opened[i] = hold[i]
  BY <1>2, Parts, OneHold DEF HoldState
<1> HIDE DEF Opened
<1>5. PICK at \in {"overSent", "failed", "done"} :
        /\ Goto(k, at)
        /\ \/ at = "overSent" /\ hold' = Opened /\ UNCHANGED <<orphaned, faults>>
           \/ at # "overSent" /\ UNCHANGED <<hold, orphaned, faults>>
           \/ at # "overSent" /\ Fails /\ hold' = Opened /\ Abandon({Extra(k)})
  BY DEF Overflow, Opened, Standing
<1>6. PICK R \in KidRecord : /\ kid' = [kid EXCEPT ![k] = R] /\ R.at = at
                             /\ R.how = kid[k].how /\ R.over = kid[k].over /\ R.told = kid[k].told
  BY <1>5, WentTo DEF Places, Waiting, Returned
<1>7. kid'[k] = R
  BY <1>6, Parts
<1>8. /\ hold' \in [Holds -> HoldState] /\ \A i \in Holds \ {Own(k), Extra(k)} : hold'[i] = hold[i]
      /\ hold'[Own(k)] = hold[Own(k)] /\ hold'[Extra(k)] \in {"none", "open"}
  BY <1>2, <1>4, <1>5, Parts DEF Untouched
<1>9. orphaned \subseteq orphaned' /\ orphaned' \subseteq Holds
  BY <1>2, <1>5, Parts DEF Abandon
<1>10. Steps(k, R)
  BY <1>5, <1>6, <1>8, <1>9, Parts, Faulted DEF Steps, Overflow, Collected
<1>11. (Said(Own(k))' <=> Said(Own(k))) /\ ~Said(Extra(k))'
  BY <1>2, <1>8 DEF Said, Untouched
<1>12. Left(Extra(k))' => R.at = "overSent"
  BY <1>2, <1>4, <1>5, <1>6 DEF Left, Untouched, Abandon
<1>13. KidInv(k)'
  <2>1. Kept(k)'
    BY <1>1, <1>2, <1>7, <1>8, <1>9, <1>12 DEF KidInv, Kept, Left, ClosesOwn, ClosesExtra
  <2>2. R.at = "overSent" => hold'[Extra(k)] = "open"
    BY <1>4, <1>5, <1>6
  <2>3. Course(k)'
    BY <1>2, <1>5, <1>6, <1>7, <2>2 DEF Course, Untouched, Early
  <2>4. \A h \in {Own(k), Extra(k)} : h \in kid[k].told <=> Said(h)
    BY <1>1, <1>2 DEF KidInv, Honest, Speaking, Waiting
  <2>5. Honest(k)'
    BY <1>3, <1>5, <1>6, <1>7, <1>11, <2>4 DEF Honest, Billing
  <2>6. QED
    BY <2>1, <2>3, <2>5 DEF KidInv
<1>14. top.kind = "routed" => SettledAtOnce(k)'
  BY <1>1, <1>6, <1>7, <1>8 DEF SettledAtOnce, IInv, RouteInv, Under, Broken
<1>15. QED
  BY <1>1, <1>2, <1>10, <1>13, <1>14, StepKeeps DEF Overflow

LEMMA OverAnswerKeeps == ASSUME IInv, NEW k \in Kids, OverAnswer(k) PROVE IInv'
<1>1. Under(k) /\ kid[k].at = "overSent"
  BY WorkingUnder DEF OverAnswer, Working, Waiting
<1>2. PICK over \in OverAnswers : kid' = [kid EXCEPT ![k].at = "overClosing", ![k].over = over]
  BY DEF OverAnswer, OverAnswers
<1>3. kid[k] \in KidRecord
  BY Parts
<1> DEFINE R == [kid[k] EXCEPT !.at = "overClosing", !.over = over]
<1>4. R \in KidRecord
  BY <1>3, KidSet DEF Places, Waiting
<1>5. R.at = "overClosing" /\ R.how = kid[k].how /\ R.told = kid[k].told
  BY <1>3 DEF KidRecord
<1>6. kid' = [kid EXCEPT ![k] = R]
  BY <1>2
<1> HIDE DEF R
<1>7. kid'[k] = R
  BY <1>6, Parts
<1>8. KidInv(k) /\ UNCHANGED <<hold, deferred, orphaned>>
  BY DEF IInv, OverAnswer
<1>9. (\A h \in {Own(k), Extra(k)} : Said(h)' <=> Said(h)) /\ ~Said(Extra(k))
  BY <1>1, <1>8 DEF Said, KidInv, Course
<1>10. KidInv(k)'
  BY <1>1, <1>5, <1>7, <1>8, <1>9 DEF KidInv, Kept, Course, Honest, Left, Untouched, ClosesOwn, ClosesExtra, Early,
     Speaking, Broken, Waiting
<1>11. QED
  BY <1>1, <1>4, <1>5, <1>6, <1>9, <1>10, Parts, MovesOn DEF OverAnswer, Collected, Broken

LEMMA CloseOverKeeps == ASSUME IInv, NEW k \in Kids, CloseOver(k) PROVE IInv'
<1>1. Under(k) /\ kid[k].at = "overClosing"
  BY WorkingUnder DEF CloseOver, Working, Waiting
<1>2. /\ KidInv(k) /\ hold[Extra(k)] = "open" /\ Extra(k) \notin deferred /\ kid[k].how \in Overflowing
      /\ Own(k) \in Holds /\ Extra(k) \in Holds /\ Own(k) # Extra(k)
  BY <1>1, HoldsApart DEF IInv, KidInv, Course
<1>3. (Said(Own(k)) => kid[k].how = "burst") /\ ~Said(Extra(k))
  BY <1>1, <1>2 DEF KidInv, Honest, Said, Broken, Billing, Overflowing
<1> DEFINE C == Close(Extra(k), Charged(kid[k].over))
<1>4. /\ C \in [Holds -> HoldState] /\ \A i \in Holds \ {Extra(k)} : C[i] = hold[i]
      /\ C[Extra(k)] = Charged(kid[k].over)
  BY <1>2, Parts, Closed DEF HoldState, Charged
<1> HIDE DEF C
<1>5. /\ OverflowEnd(k) \in {"done", "failed"}
      /\ OverflowEnd(k) = "failed" => kid[k].over \notin {"served", "unpriced", "free"}
  BY DEF OverflowEnd, Standing
<1>6. kid[k].over \notin {"task", "billed", "burst", "reported"}
  BY Parts DEF KidRecord, OverAnswers
<1>7. PICK told \in SUBSET {Own(k), Extra(k)}, at \in {"done", "failed"}, R \in KidRecord :
        /\ kid' = [kid EXCEPT ![k] = R] /\ R.at = at /\ R.how = kid[k].how /\ R.over = kid[k].over
        /\ R.told = kid[k].told \cup told
        /\ \/ /\ Deferrable(kid[k].over) /\ told = {Extra(k)} /\ at = "done"
              /\ deferred' = deferred \cup {Extra(k)}
              /\ UNCHANGED <<hold, orphaned, faults>>
           \/ /\ ~Deferrable(kid[k].over) /\ hold' = C /\ told = Stated(Extra(k)) /\ at = OverflowEnd(k)
              /\ UNCHANGED <<deferred, orphaned, faults>>
           \/ /\ ~Deferrable(kid[k].over) /\ Fails /\ told = {} /\ UNCHANGED <<hold, deferred>>
              /\ Abandon({Extra(k)})
  <2>1. "done" \in Places /\ OverflowEnd(k) \in Places /\ Stated(Extra(k)) \in SUBSET {Own(k), Extra(k)}
    BY <1>5 DEF Places, Returned, Stated
  <2>2. CASE /\ Deferrable(kid[k].over)
             /\ deferred' = deferred \cup {Extra(k)}
             /\ Tell(k, "done", {Extra(k)})
             /\ UNCHANGED <<hold, orphaned, faults>>
    BY <2>1, <2>2, Told
  <2>3. CASE /\ ~Deferrable(kid[k].over) /\ hold' = C
             /\ Tell(k, OverflowEnd(k), Stated(Extra(k)))
             /\ UNCHANGED <<deferred, orphaned, faults>>
    BY <1>5, <2>1, <2>3, Told
  <2>4. CASE /\ ~Deferrable(kid[k].over) /\ Fails
             /\ UNCHANGED <<hold, deferred>>
             /\ Abandon({Extra(k)})
             /\ Goto(k, OverflowEnd(k))
    <3>1. PICK R \in KidRecord : /\ kid' = [kid EXCEPT ![k] = R] /\ R.at = OverflowEnd(k)
                                 /\ R.how = kid[k].how /\ R.over = kid[k].over /\ R.told = kid[k].told
      BY <2>1, <2>4, WentTo
    <3>2. R.told = kid[k].told \cup {} /\ {} \in SUBSET {Own(k), Extra(k)}
      BY <3>1
    <3>3. QED
      BY <1>5, <2>4, <3>1, <3>2
  <2>5. QED
    BY <2>2, <2>3, <2>4 DEF CloseOver, C
<1>8. kid'[k] = R
  BY <1>7, Parts
<1>9. /\ hold' \in [Holds -> HoldState] /\ \A i \in Holds \ {Own(k), Extra(k)} : hold'[i] = hold[i]
      /\ hold'[Own(k)] = hold[Own(k)]
  BY <1>2, <1>4, <1>7, Parts
<1>10. orphaned \subseteq orphaned' /\ orphaned' \subseteq Holds /\ deferred' \subseteq Holds
  BY <1>2, <1>7, Parts DEF Abandon
<1>11. Steps(k, R)
  <2>1. faults' \in 0 .. MaxFaults
    BY <1>7, Faulted
  <2>2. R.told \subseteq {Own(k), Extra(k)}
    BY <1>7, Parts
  <2>3. \A i \in Holds \ {Own(k), Extra(k)} : i \in deferred' <=> i \in deferred
    BY <1>7
  <2>4. QED
    BY <1>7, <1>9, <1>10, <2>1, <2>2, <2>3, Parts DEF Steps, CloseOver, Collected
<1>12. Own(k) \in deferred' <=> Own(k) \in deferred
  BY <1>2, <1>7
<1>13. (Said(Own(k))' <=> Said(Own(k))) /\ told \subseteq {Extra(k)}
  BY <1>7, <1>9, <1>12 DEF Said, Stated
<1>14. (Said(Extra(k))' <=> Extra(k) \in told) /\ (Said(Extra(k))' => at = "done")
  <2>1. CASE deferred' = deferred \cup {Extra(k)} /\ told = {Extra(k)} /\ at = "done" /\ UNCHANGED hold
    BY <1>2, <2>1 DEF Said
  <2>2. CASE hold' = C /\ told = Stated(Extra(k)) /\ at = OverflowEnd(k) /\ UNCHANGED deferred
    <3>1. hold'[Extra(k)] \in {"taken", "returned"} /\ (hold'[Extra(k)] = "taken" => kid[k].over \in {"served", "unpriced"})
      BY <1>4, <1>6, <2>2 DEF Charged
    <3>2. QED
      BY <1>2, <1>5, <2>2, <3>1 DEF Said, Stated
  <2>3. CASE told = {} /\ UNCHANGED <<hold, deferred>>
    BY <1>2, <2>3 DEF Said
  <2>4. QED
    BY <1>7, <2>1, <2>2, <2>3
<1>15. Left(Extra(k))' => Extra(k) \in deferred'
  BY <1>2, <1>4, <1>7 DEF Left, Abandon, Charged
<1>16. KidInv(k)'
  <2>1. Kept(k)'
    BY <1>1, <1>2, <1>7, <1>8, <1>9, <1>10, <1>12, <1>15 DEF KidInv, Kept, Left, ClosesOwn
  <2>2. Course(k)'
    BY <1>7, <1>8 DEF Course, Early
  <2>3. \A h \in {Own(k), Extra(k)} : h \in kid[k].told <=> Said(h)
    BY <1>1, <1>2 DEF KidInv, Honest, Speaking, Waiting
  <2>4. Honest(k)'
    BY <1>2, <1>3, <1>7, <1>8, <1>13, <1>14, <2>3 DEF Honest, Billing
  <2>5. QED
    BY <2>1, <2>2, <2>4 DEF KidInv
<1>17. ASSUME top.kind = "routed" PROVE SettledAtOnce(k)'
  <2>1. hold'[Own(k)] \notin {"taken", "task"} \/ kid[k].how \in {"reported", "task"}
    BY <1>1, <1>9, <1>17 DEF IInv, RouteInv, Under, SettledAtOnce, Broken
  <2>2. CASE hold' = C /\ ~Deferrable(kid[k].over)
    BY <1>4, <1>6, <1>7, <1>8, <1>17, <2>1, <2>2 DEF SettledAtOnce, Deferrable, Charged
  <2>3. CASE UNCHANGED hold
    BY <1>2, <1>7, <1>8, <2>1, <2>3 DEF SettledAtOnce
  <2>4. QED
    BY <1>7, <2>2, <2>3
<1>18. QED
  BY <1>1, <1>7, <1>11, <1>16, <1>17, StepKeeps DEF CloseOver, Deferrable

(* A cancel, of the caller or of the run, and the cleanup after it.        *)
LEMMA InterruptKeeps ==
  ASSUME IInv, NEW k \in Kids, Interrupt(k), UNCHANGED <<top, deferred, orphaned, faults>>,
         dying' \subseteq Kids, cancels' \in 0 .. MaxCancels
  PROVE  IInv'
<1>1. Under(k) /\ kid[k].at \in Waiting /\ kid[k] \in KidRecord
  BY WorkingUnder, Parts DEF Interrupt, Working
<1>2. Own(k) \in Holds /\ Extra(k) \in Holds /\ Own(k) # Extra(k) /\ KidInv(k)
  BY HoldsApart DEF IInv
<1>3. PICK how \in Answers : kid' = [kid EXCEPT ![k].at = "cleaning", ![k].how = how, ![k].told = {}]
  <2>1. kid[k].how \in Answers /\ "quantity" \in Answers
    BY <1>1 DEF KidRecord, Answers
  <2>2. QED
    BY <2>1 DEF Interrupt
<1> DEFINE R == [kid[k] EXCEPT !.at = "cleaning", !.how = how, !.told = {}]
<1>4. R \in KidRecord
  BY <1>1, KidSet DEF Places
<1>5. R.at = "cleaning" /\ R.told = {}
  BY <1>1 DEF KidRecord
<1>6. kid' = [kid EXCEPT ![k] = R]
  BY <1>3
<1> HIDE DEF R
<1>7. kid'[k] = R
  BY <1>6, Parts
<1>8. /\ hold' \in [Holds -> HoldState]
      /\ \A i \in Holds \ {Own(k), Extra(k)} : hold'[i] = hold[i]
      /\ hold'[Own(k)] # hold[Own(k)] => kid[k].at \in {"reserving", "closing"}
      /\ hold'[Extra(k)] # hold[Extra(k)] => kid[k].at \in {"overflowing", "overClosing"}
  <2>1. /\ Charged(kid[k].how) \in HoldState /\ Charged(kid[k].over) \in HoldState /\ "open" \in HoldState
    BY DEF Charged, HoldState
  <2>2. CASE kid[k].at = "reserving" /\ hold' = [hold EXCEPT ![Own(k)] = "open"]
    BY <1>2, <2>1, <2>2, OneHold, Parts
  <2>3. CASE kid[k].at = "closing" /\ hold' = Close(Own(k), Charged(kid[k].how))
    BY <1>2, <2>1, <2>3, Closed, Parts
  <2>4. CASE kid[k].at = "overflowing" /\ hold' = [hold EXCEPT ![Extra(k)] = "open"]
    BY <1>2, <2>1, <2>4, OneHold, Parts
  <2>5. CASE kid[k].at = "overClosing" /\ hold' = Close(Extra(k), Charged(kid[k].over))
    BY <1>2, <2>1, <2>5, Closed, Parts
  <2>6. CASE hold' = hold
    BY <2>6, Parts
  <2>7. hold' \in InFlight(k)
    BY DEF Interrupt
  <2>8. QED
    BY <2>2, <2>3, <2>4, <2>5, <2>6, <2>7 DEF InFlight
<1>9. Steps(k, R)
  BY <1>4, <1>5, <1>6, <1>8, Parts DEF Steps, Collected
<1>10. KidInv(k)'
  BY <1>5, <1>7 DEF KidInv, Kept, Course, Honest, Left, ClosesOwn, ClosesExtra, Early, Speaking, Broken, Waiting
<1>11. SettledAtOnce(k)'
  BY <1>5, <1>7 DEF SettledAtOnce, Broken
<1>12. QED
  BY <1>1, <1>9, <1>10, <1>11, StepKeeps

LEMMA CancelCallKeeps == ASSUME IInv, CancelCall PROVE IInv'
<1>1. cancels' \in 0 .. MaxCancels
  BY Parts, CallTreeAssumption DEF CancelCall
<1>2. QED
  BY <1>1, InterruptKeeps, Parts DEF CancelCall

LEMMA DoomedKeeps == ASSUME IInv, NEW k \in Kids, Doomed(k) PROVE IInv'
BY InterruptKeeps, Parts DEF Doomed

LEMMA CleanKeeps == ASSUME IInv, NEW k \in Kids, Clean(k) PROVE IInv'
<1>1. Under(k) /\ kid[k].at = "cleaning"
  BY WorkingUnder DEF Clean, Working
<1>2. Own(k) \in Holds /\ Extra(k) \in Holds /\ Own(k) # Extra(k)
  BY HoldsApart
<1>3. PICK R \in KidRecord : kid' = [kid EXCEPT ![k] = R] /\ R.at = "cancelled" /\ R.told = kid[k].told
  BY WentTo DEF Clean, Places, Returned
<1>4. kid'[k] = R
  BY <1>3, Parts
<1>5. /\ hold' \in [Holds -> HoldState] /\ \A i \in Holds \ {Own(k), Extra(k)} : hold'[i] = hold[i]
      /\ orphaned \subseteq orphaned' /\ orphaned' \subseteq Holds
      /\ faults' \in 0 .. MaxFaults
      /\ ~Left(Own(k))' /\ ~Left(Extra(k))'
  <2>1. CASE hold' = Cleaned(k) /\ UNCHANGED <<orphaned, faults>>
    <3>1. Cleaned(k) \in [Holds -> HoldState]
      BY Parts DEF Cleaned, HoldState
    <3>2. \A i \in Holds \ {Own(k), Extra(k)} : Cleaned(k)[i] = hold[i]
      BY DEF Cleaned, CleanedHolds
    <3>3. Cleaned(k)[Own(k)] # "open" /\ Cleaned(k)[Extra(k)] # "open"
      BY <1>2 DEF Cleaned, CleanedHolds
    <3>4. QED
      BY <2>1, <3>1, <3>2, <3>3, Parts DEF Left
  <2>2. CASE Fails /\ UNCHANGED hold /\ Abandon(CleanedHolds(k))
    BY <1>2, <2>2, Parts, Faulted DEF Left, Abandon, CleanedHolds
  <2>3. QED
    BY <2>1, <2>2 DEF Clean
<1>6. Steps(k, R)
  BY <1>3, <1>5, Parts DEF Steps, Clean, Collected
<1>7. KidInv(k)'
  BY <1>3, <1>4, <1>5 DEF KidInv, Kept, Course, Honest, Early, Speaking, Broken, Waiting
<1>8. SettledAtOnce(k)'
  BY <1>3, <1>4 DEF SettledAtOnce, Broken
<1>9. QED
  BY <1>1, <1>6, <1>7, <1>8, StepKeeps DEF Clean

-----------------------------------------------------------------------------
(* The steps of the request.                                               *)

LEMMA TopSet ==
  ASSUME NEW T \in TopRecord
  PROVE  /\ \A at \in {"pricing", "tooDear", "running", "stopping", "closing", "recording", "rescue", "over"} :
              [T EXCEPT !.at = at] \in TopRecord
         /\ \A out \in {"", "answered", "pending", "failed", "cancelled", "crashed"} : [T EXCEPT !.out = out] \in TopRecord
         /\ \A told \in SUBSET Holds : [T EXCEPT !.told = told] \in TopRecord
BY DEF TopRecord

Outs == {"", "answered", "pending", "failed", "cancelled", "crashed"}

LEMMA Ended ==
  ASSUME IInv, NEW out \in Outs, NEW told \in SUBSET Holds
  PROVE  /\ End(out, told) \in TopRecord /\ End(out, told).kind = top.kind /\ End(out, told).at = "over"
         /\ End(out, told).out = out /\ End(out, told).told = told
<1>1. top \in TopRecord
  BY Parts
<1>2. End(out, told) \in TopRecord
  BY <1>1, TopSet DEF End, Outs
<1>3. QED
  BY <1>1, <1>2 DEF End, TopRecord

LEMMA WentLeaving ==
  ASSUME IInv, NEW out \in Outs, NEW told \in SUBSET Holds
  PROVE  /\ Leave(out, told) \in TopRecord /\ Leave(out, told).kind = top.kind /\ Leave(out, told).at = "closing"
         /\ Leave(out, told).out = out /\ Leave(out, told).told = told
<1>1. top \in TopRecord
  BY Parts
<1>2. Leave(out, told) \in TopRecord
  BY <1>1, TopSet DEF Leave, Outs
<1>3. QED
  BY <1>1, <1>2 DEF Leave, TopRecord

LEMMA WentStopping ==
  ASSUME IInv, NEW out \in Outs, NEW told \in SUBSET Holds
  PROVE  /\ Stop(out, told) \in TopRecord /\ Stop(out, told).kind = top.kind /\ Stop(out, told).at = "rescue"
         /\ Stop(out, told).out = out /\ Stop(out, told).told = told
<1>1. top \in TopRecord
  BY Parts
<1>2. Stop(out, told) \in TopRecord
  BY <1>1, TopSet DEF Stop, Outs
<1>3. QED
  BY <1>1, <1>2 DEF Stop, TopRecord

(* The request moves, its children do not; of the holds at most the price. *)
LEMMA RequestMoves ==
  ASSUME IInv, NEW T \in TopRecord, top' = T, T.kind = top.kind, UNCHANGED <<kid, deferred>>,
         hold' \in [Holds -> HoldState], \A h \in Holds \ {Price} : hold'[h] = hold[h],
         orphaned \subseteq orphaned', orphaned' \subseteq Holds, dying' \subseteq Kids,
         cancels' \in 0 .. MaxCancels, faults' \in 0 .. MaxFaults
  PROVE  /\ TypeOK' /\ \A k \in Kids : KidInv(k)'
         /\ \A k \in Kids : \A h \in {Own(k), Extra(k)} : hold'[h] = hold[h] /\ (Said(h)' <=> Said(h))
         /\ TellsOfKids /\ T.told \ {Price} = top.told \ {Price} => TellsOfKids'
<1>1. \A k \in Kids : \A h \in {Own(k), Extra(k)} : h # Price /\ hold'[h] = hold[h] /\ (Said(h)' <=> Said(h))
  BY HoldsApart DEF Said
<1>2. TypeOK'
  <2>1. /\ top' \in TopRecord /\ kid' \in [Kids -> KidRecord]
        /\ deferred' \subseteq Holds
        /\ deferred' # {} => top'.kind = "routed"
        /\ \A k \in Kids : /\ kid'[k].told \subseteq {Own(k), Extra(k)}
                           /\ kid'[k].at = "idle" => hold'[Own(k)] = "none" /\ hold'[Extra(k)] = "none"
    BY <1>1, Parts
  <2>2. QED
    BY <2>1 DEF TypeOK, TopRecord, KidRecord, Places, Answers, OverAnswers, HoldState
<1>3. \A k \in Kids : KidInv(k)'
  BY <1>1, OthersKept DEF IInv
<1>4. TellsOfKids /\ T.told \ {Price} = top.told \ {Price} => TellsOfKids'
  BY <1>1 DEF TellsOfKids
<1>5. QED
  BY <1>1, <1>2, <1>3, <1>4

(* The request looks at a child that has returned.                         *)
LEMMA LookedAt ==
  ASSUME IInv, NEW k \in Kids, Looked(k), kid[k].at \in {"done", "failed", "crashed"},
         NEW T \in TopRecord, top' = T, T.kind = top.kind, UNCHANGED <<deferred, dying, orphaned, cancels, faults>>,
         \/ UNCHANGED hold
         \/ \E state \in {"taken", "returned"} : hold[Own(k)] = "task" /\ hold' = [hold EXCEPT ![Own(k)] = state]
  PROVE  /\ TypeOK' /\ \A j \in Kids : KidInv(j)'
         /\ hold' \in [Holds -> HoldState] /\ \A h \in Holds \ {Own(k)} : hold'[h] = hold[h] /\ (Said(h)' <=> Said(h))
         /\ kid'[k].at = (IF kid[k].at = "done" THEN "answered" ELSE "refused")
         /\ kid'[k].how = kid[k].how /\ kid'[k].over = kid[k].over
         /\ \A j \in Kids \ {k} : kid'[j] = kid[j]
<1> USE HoldsApart
<1>1. PICK R \in KidRecord : /\ kid' = [kid EXCEPT ![k] = R]
                             /\ R.at = (IF kid[k].at = "done" THEN "answered" ELSE "refused")
                             /\ R.how = kid[k].how /\ R.over = kid[k].over /\ R.told = kid[k].told
  BY WentTo DEF Looked, Places, Collected
<1>2. kid'[k] = R /\ kid' \in [Kids -> KidRecord] /\ \A j \in Kids \ {k} : kid'[j] = kid[j]
  BY <1>1, Parts
<1>3. /\ hold' \in [Holds -> HoldState] /\ \A h \in Holds \ {Own(k)} : hold'[h] = hold[h] /\ (Said(h)' <=> Said(h))
      /\ hold'[Own(k)] = hold[Own(k)] \/ (hold[Own(k)] = "task" /\ hold'[Own(k)] \in {"taken", "returned"})
  BY OneHold, Parts DEF Said, HoldState
<1>4. KidInv(k)'
  <2>1. KidInv(k) /\ (Said(Own(k))' => Said(Own(k))) /\ (Said(Extra(k))' <=> Said(Extra(k)))
    BY <1>3 DEF IInv, Said
  <2>2. Kept(k)'
    BY <1>3, <2>1 DEF KidInv, Kept, Left, ClosesOwn, ClosesExtra
  <2>3. Course(k)'
    BY <1>1, <1>2 DEF Course, Collected, Early
  <2>4. Honest(k)'
    BY <1>1, <1>2, <2>1 DEF KidInv, Honest, Collected, Speaking, Waiting, Broken
  <2>5. QED
    BY <2>2, <2>3, <2>4 DEF KidInv
<1>5. \A j \in Kids : KidInv(j)'
  <2>1. ASSUME NEW j \in Kids \ {k} PROVE KidInv(j)'
    BY <1>2, <1>3, OthersKept DEF IInv
  <2>2. QED
    BY <1>4, <2>1
<1>6. TypeOK'
  <2>1. /\ top' \in TopRecord /\ deferred' \subseteq Holds /\ orphaned' \subseteq Holds /\ dying' \subseteq Kids
        /\ cancels' \in 0 .. MaxCancels /\ faults' \in 0 .. MaxFaults
        /\ deferred' # {} => top'.kind = "routed"
    BY Parts
  <2>2. \A j \in Kids : /\ kid'[j].told \subseteq {Own(j), Extra(j)}
                        /\ kid'[j].at = "idle" => hold'[Own(j)] = "none" /\ hold'[Extra(j)] = "none"
    BY <1>1, <1>2, <1>3, Parts DEF Collected
  <2>3. QED
    BY <1>2, <1>3, <2>1, <2>2 DEF TypeOK, TopRecord, KidRecord, Places, Answers, OverAnswers, HoldState
<1>7. QED
  BY <1>1, <1>2, <1>3, <1>5, <1>6

LEMMA RelayKeeps == ASSUME IInv, NEW k \in Kids, Relay(k) PROVE IInv'
<1>1. /\ top.kind = "direct" /\ top.at = "running" /\ deferred = {} /\ hold[Price] = "none" /\ Price \in Holds
      /\ \A j \in Kids \ {k} : kid[j].at = "idle"
  BY HoldsApart DEF Relay, IInv, DirectInv, HubInv, DeferredOpen
<1>2. CASE kid[k].at = "cancelled" /\ top' = End("cancelled", {}) /\ UNCHANGED kid
  <2>1. top' \in TopRecord /\ top'.kind = top.kind /\ top'.at = "over" /\ top'.out = "cancelled"
    BY <1>2, Ended DEF Outs
  <2>2. TypeOK' /\ \A j \in Kids : KidInv(j)'
    BY <1>2, <2>1, Parts, RequestMoves DEF Relay
  <2>3. RouteInv' /\ DirectInv' /\ HubInv' /\ DeferredOpen'
    BY <1>1, <1>2, <2>1 DEF RouteInv, DirectInv, HubInv, DeferredOpen, Left, Relay, IInv
  <2>4. Tells'
    BY <2>1 DEF Tells
  <2>5. QED
    BY <2>2, <2>3, <2>4 DEF IInv
<1>3. ASSUME Looked(k), NEW out \in {"answered", "failed", "crashed"}, NEW told \in SUBSET {Own(k), Extra(k)},
             top' = End(out, told),
             \/ kid[k].at = "done" /\ out = "answered" /\ told = kid[k].told
             \/ kid[k].at = "failed" /\ out = "failed" /\ told = {}
             \/ kid[k].at = "crashed" /\ out = "crashed" /\ told = {}
      PROVE  IInv'
  <2>1. top' \in TopRecord /\ top'.kind = top.kind /\ top'.at = "over" /\ top'.out = out /\ top'.told = told
    <3>1. told \in SUBSET Holds /\ out \in Outs
      BY HoldsApart DEF Outs
    <3>2. QED
      BY <1>3, <3>1, Ended
  <2>2. UNCHANGED <<hold, deferred, dying, orphaned, cancels, faults>>
    BY DEF Relay
  <2>3. /\ TypeOK' /\ \A j \in Kids : KidInv(j)'
        /\ kid'[k].at = (IF kid[k].at = "done" THEN "answered" ELSE "refused")
        /\ \A j \in Kids \ {k} : kid'[j] = kid[j]
    BY <1>3, <2>1, <2>2, LookedAt
  <2>4. RouteInv' /\ DirectInv' /\ HubInv' /\ DeferredOpen'
    <3>1. RouteInv' /\ HubInv' /\ DeferredOpen'
      BY <1>1, <2>1, <2>2 DEF RouteInv, HubInv, DeferredOpen, Left
    <3>2. \A j \in Kids \ {k} : kid'[j].at = "idle"
      BY <1>1, <2>3
    <3>3. DirectInv'
      BY <1>3, <2>1, <2>3, <3>2 DEF DirectInv
    <3>4. QED
      BY <3>1, <3>3
  <2>5. Tells'
    <3>1. kid[k].at = "done" => \A h \in {Own(k), Extra(k)} : h \in kid[k].told <=> Said(h)
      BY DEF IInv, KidInv, Honest, Speaking
    <3>2. \A h \in {Own(k), Extra(k)} : h \in told <=> kid'[k].at = "answered" /\ Said(h)
      BY <1>3, <2>3, <3>1
    <3>3. \A j \in Kids \ {k} : (\A h \in {Own(j), Extra(j)} : h \notin told) /\ kid'[j].at # "answered"
      BY <1>1, <2>3, HoldsApart
    <3>4. TellsOfKids'
      BY <2>1, <2>2, <3>2, <3>3 DEF TellsOfKids, Said
    <3>5. TellsOfPrice'
      BY <1>1, <2>1, <2>2, HoldsApart DEF TellsOfPrice
    <3>6. QED
      BY <3>4, <3>5 DEF Tells
  <2>6. QED
    BY <2>3, <2>4, <2>5 DEF IInv
<1>4. kid[k].told \in SUBSET {Own(k), Extra(k)} /\ {} \in SUBSET {Own(k), Extra(k)}
  BY Parts
<1>5. CASE kid[k].at = "done" /\ top' = End("answered", Says(k)) /\ Looked(k)
  <2>1. Says(k) = kid[k].told
    BY <1>5 DEF Says
  <2>2. QED
    BY <1>3, <1>4, <1>5, <2>1
<1>6. CASE kid[k].at = "failed" /\ top' = End("failed", Says(k)) /\ Looked(k)
  <2>1. Says(k) = {}
    BY <1>6 DEF Says
  <2>2. QED
    BY <1>3, <1>4, <1>6, <2>1
<1>7. CASE kid[k].at = "crashed" /\ top' = End("crashed", {}) /\ Looked(k)
  BY <1>3, <1>4, <1>7
<1>8. QED
  BY <1>2, <1>5, <1>6, <1>7 DEF Relay

LEMMA WeighKeeps == ASSUME IInv, NEW k \in Kids, Weigh(k) PROVE IInv'
<1>1. /\ top.kind = "routed" /\ top.at = "running" /\ top.out = "" /\ hold[Price] = "none" /\ Price \in Holds
      /\ \A j, i \in Kids : j # i => Idle(j) \/ Idle(i)
      /\ UNCHANGED <<deferred, dying, orphaned, cancels, faults>>
  BY HoldsApart DEF Weigh, IInv, RouteInv, HubInv
<1>2. top \in TopRecord /\ top.told \in SUBSET Holds /\ {} \in SUBSET Holds
  BY Parts DEF TopRecord
<1>3. Own(k) \in Holds /\ Extra(k) \in Holds /\ Own(k) # Extra(k) /\ Own(k) # Price
  BY HoldsApart
<1>4. CASE UNCHANGED <<kid, hold>> /\ \/ kid[k].at = "cancelled" /\ top' = Leave("cancelled", {})
                                      \/ kid[k].at = "crashed" /\ top' = Leave("crashed", {})
  <2>1. /\ top' \in TopRecord /\ top'.kind = top.kind /\ top'.at = "closing" /\ top'.told = {}
        /\ \/ kid[k].at = "cancelled" /\ top'.out = "cancelled"
           \/ kid[k].at = "crashed" /\ top'.out = "crashed"
    <3>1. "cancelled" \in Outs /\ "crashed" \in Outs
      BY DEF Outs
    <3>2. QED
      BY <1>2, <1>4, <3>1, WentLeaving
  <2>2. TypeOK' /\ \A j \in Kids : KidInv(j)'
    BY <1>1, <1>4, <2>1, Parts, RequestMoves
  <2>3. ~Idle(k) /\ \A j \in Kids \ {k} : Idle(j)
    BY <1>1, <1>4 DEF Idle, Collected
  <2>4. RouteInv'
    BY <1>1, <1>4, <2>1, <2>3 DEF IInv, RouteInv, Idle, SettledAtOnce
  <2>5. DirectInv' /\ HubInv' /\ DeferredOpen'
    BY <1>1, <1>4, <2>1 DEF DirectInv, HubInv, DeferredOpen, Left
  <2>6. Tells'
    BY <2>1 DEF Tells
  <2>7. QED
    BY <2>2, <2>4, <2>5, <2>6 DEF IInv
<1>5. ASSUME kid[k].at \in {"done", "failed"}, Looked(k),
             \/ UNCHANGED hold /\ hold[Own(k)] # "task" /\ top' = [top EXCEPT !.told = Charges(Says(k))]
             \/ /\ kid[k].at = "done" /\ hold[Own(k)] = "task"
                /\ \/ /\ hold' = [hold EXCEPT ![Own(k)] = "taken"]
                      /\ top' = [top EXCEPT !.told = Charges({Own(k)})]
                   \/ hold' = [hold EXCEPT ![Own(k)] = "returned"] /\ UNCHANGED top
                   \/ UNCHANGED hold /\ top' = Leave("pending", top.told)
      PROVE  IInv'
  <2>1. /\ top' \in TopRecord /\ top'.kind = top.kind
        /\ \/ top'.at = "closing" /\ top'.out = "pending" /\ kid[k].at = "done"
           \/ /\ top'.at = "running" /\ top'.out = ""
              /\ \/ UNCHANGED hold /\ hold[Own(k)] # "task" /\ top'.told = top.told \cup Says(k)
                 \/ /\ kid[k].at = "done" /\ hold[Own(k)] = "task" /\ hold' = [hold EXCEPT ![Own(k)] = "taken"]
                    /\ top'.told = top.told \cup {Own(k)}
                 \/ /\ kid[k].at = "done" /\ hold[Own(k)] = "task" /\ hold' = [hold EXCEPT ![Own(k)] = "returned"]
                    /\ top'.told = top.told
    <3>1. ASSUME NEW told \in SUBSET Holds, top' = [top EXCEPT !.told = told]
          PROVE  top' \in TopRecord /\ top'.kind = top.kind /\ top'.at = top.at /\ top'.out = top.out /\ top'.told = told
      <4>1. top' \in TopRecord
        BY <1>2, <3>1, TopSet
      <4>2. QED
        BY <1>2, <3>1, <4>1 DEF TopRecord
    <3>2. Charges(Says(k)) \in SUBSET Holds /\ Charges({Own(k)}) \in SUBSET Holds
      BY <1>2, <1>3, Parts DEF Charges, Says
    <3>3. CASE UNCHANGED hold /\ hold[Own(k)] # "task" /\ top' = [top EXCEPT !.told = Charges(Says(k))]
      BY <1>1, <3>1, <3>2, <3>3 DEF Charges
    <3>4. CASE /\ kid[k].at = "done" /\ hold[Own(k)] = "task" /\ hold' = [hold EXCEPT ![Own(k)] = "taken"]
               /\ top' = [top EXCEPT !.told = Charges({Own(k)})]
      BY <1>1, <3>1, <3>2, <3>4 DEF Charges
    <3>5. CASE /\ kid[k].at = "done" /\ hold[Own(k)] = "task" /\ hold' = [hold EXCEPT ![Own(k)] = "returned"]
               /\ UNCHANGED top
      BY <1>1, <1>2, <3>5
    <3>6. CASE kid[k].at = "done" /\ top' = Leave("pending", top.told)
      <4>1. "pending" \in Outs
        BY DEF Outs
      <4>2. /\ Leave("pending", top.told) \in TopRecord /\ Leave("pending", top.told).kind = top.kind
            /\ Leave("pending", top.told).at = "closing" /\ Leave("pending", top.told).out = "pending"
        BY <1>2, <4>1, WentLeaving
      <4>3. QED
        BY <3>6, <4>2
    <3>7. QED
      BY <1>5, <3>3, <3>4, <3>5, <3>6
  <2>2. /\ TypeOK' /\ \A j \in Kids : KidInv(j)'
        /\ \A h \in Holds \ {Own(k)} : hold'[h] = hold[h] /\ (Said(h)' <=> Said(h))
        /\ kid'[k].at = (IF kid[k].at = "done" THEN "answered" ELSE "refused")
        /\ kid'[k].how = kid[k].how /\ kid'[k].over = kid[k].over
        /\ \A j \in Kids \ {k} : kid'[j] = kid[j]
    BY <1>1, <1>5, <2>1, LookedAt
  <2>3. \A j \in Kids : (j # k => Idle(j)) /\ Idle(j)'
    BY <1>1, <1>5, <2>2 DEF Idle, Collected
  <2>4. \A j \in Kids \ {k} : Own(j) \in Holds \ {Own(k)} /\ Extra(j) \in Holds \ {Own(k)}
    BY HoldsApart
  <2>5. KidInv(k) /\ (hold[Own(k)] = "task" => kid[k].how \in {"reported", "task"} /\ ~Said(Extra(k)))
        /\ SettledAtOnce(k) /\ kid[k].at \notin Broken /\ kid[k].at \in Speaking
    BY <1>1, <1>5 DEF IInv, KidInv, Honest, SettledAtOnce, Said, Broken, Speaking, RouteInv
  <2>6. hold'[Own(k)] = hold[Own(k)] \/ (hold[Own(k)] = "task" /\ hold'[Own(k)] \in {"taken", "returned"})
    BY <1>3, <1>5, Parts, OneHold DEF HoldState
  <2>7. RouteInv'
    <3>1. \A j \in Kids : SettledAtOnce(j)'
      <4>1. SettledAtOnce(k)'
        BY <1>3, <2>2, <2>5, <2>6 DEF SettledAtOnce
      <4>2. ASSUME NEW j \in Kids \ {k} PROVE SettledAtOnce(j)'
        BY <1>1, <2>2, <2>4 DEF SettledAtOnce, IInv, RouteInv
      <4>3. QED
        BY <4>1, <4>2
    <3>2. QED
      BY <1>1, <2>1, <2>3, <3>1 DEF RouteInv
  <2>8. DirectInv' /\ HubInv' /\ DeferredOpen'
    <3>1. hold'[Price] = "none"
      BY <1>1, <1>3, <2>2
    <3>2. QED
      BY <1>1, <2>1, <3>1 DEF DirectInv, HubInv, DeferredOpen, Left
  <2>9. Tells'
    <3>1. CASE top'.out = "pending"
      BY <3>1 DEF Tells
    <3>2. CASE top'.out = "" /\ top'.at = "running"
      <4>1. TellsOfPrice /\ TellsOfKids
        BY <1>1 DEF IInv, Tells
      <4>2. Price \notin Says(k)
        BY Parts, HoldsApart DEF Says
      <4>3. TellsOfPrice'
        BY <1>1, <1>3, <2>1, <2>2, <3>2, <4>1, <4>2 DEF TellsOfPrice
      <4>4. \A h \in {Own(k), Extra(k)} :
              h \notin top.told /\ (h \in Says(k) <=> kid[k].at = "done" /\ Said(h))
        BY <1>5, <2>5, <4>1 DEF TellsOfKids, KidInv, Honest, Says
      <4>5. \A h \in {Own(k), Extra(k)} : h \in top'.told <=> kid'[k].at = "answered" /\ Said(h)'
        <5>1. CASE UNCHANGED hold /\ top'.told = top.told \cup Says(k)
          BY <1>1, <2>2, <4>4, <5>1 DEF Said
        <5>2. CASE /\ kid[k].at = "done" /\ hold[Own(k)] = "task" /\ hold' = [hold EXCEPT ![Own(k)] = "taken"]
                   /\ top'.told = top.told \cup {Own(k)}
          <6>1. hold'[Own(k)] = "taken"
            BY <1>3, <5>2, Parts
          <6>2. ~Said(Extra(k)) /\ ~Said(Extra(k))' /\ Extra(k) \notin top.told
            BY <1>3, <2>2, <2>5, <4>4, <5>2
          <6>3. QED
            BY <1>3, <2>2, <4>4, <5>2, <6>1, <6>2 DEF Said
        <5>3. CASE /\ kid[k].at = "done" /\ hold[Own(k)] = "task" /\ hold' = [hold EXCEPT ![Own(k)] = "returned"]
                   /\ top'.told = top.told
          <6>1. hold'[Own(k)] = "returned"
            BY <1>3, <5>3, Parts
          <6>2. ~Said(Extra(k)) /\ ~Said(Extra(k))' /\ Extra(k) \notin top.told
            BY <1>3, <2>2, <2>5, <4>4, <5>3
          <6>3. QED
            BY <1>3, <4>4, <5>3, <6>1, <6>2 DEF Said
        <5>4. QED
          BY <2>1, <3>2, <5>1, <5>2, <5>3
      <4>6. ASSUME NEW j \in Kids \ {k}, NEW h \in {Own(j), Extra(j)}
            PROVE  /\ kid'[j].at = "answered" /\ Said(h)' => h \in top'.told
                   /\ h \in top'.told => kid'[j].at = "answered" /\ (Said(h)' \/ h \in orphaned')
        <5>1. h \in top'.told <=> h \in top.told
          <6>1. h \notin Says(k) /\ h # Own(k)
            BY Parts, HoldsApart DEF Says
          <6>2. QED
            BY <2>1, <3>2, <6>1
        <5>2. Said(h)' <=> Said(h)
          BY <2>2, <2>4
        <5>3. QED
          BY <1>1, <2>2, <4>1, <5>1, <5>2 DEF TellsOfKids
      <4>7. TellsOfKids'
        BY <4>5, <4>6 DEF TellsOfKids
      <4>8. QED
        BY <4>3, <4>7 DEF Tells
    <3>3. QED
      BY <2>1, <3>1, <3>2
  <2>10. QED
    BY <2>2, <2>7, <2>8, <2>9 DEF IInv
<1>6. QED
  BY <1>4, <1>5 DEF Weigh

LEMMA TallyKeeps == ASSUME IInv, NEW k \in Kids, Tally(k) PROVE IInv'
<1>1. /\ top.kind = "hub" /\ top.at \in {"running", "stopping"} /\ top.out = "" /\ deferred = {}
      /\ UNCHANGED <<hold, deferred, dying, orphaned, cancels, faults>> /\ Looked(k)
  BY DEF Tally, IInv, HubInv, DeferredOpen
<1>2. top \in TopRecord /\ top.told \in SUBSET Holds /\ Charges(Says(k)) \in SUBSET Holds
  BY Parts, HoldsApart DEF TopRecord, Charges, Says
<1>3. CASE kid[k].at = "crashed" /\ top' = Stop("crashed", {})
  <2>1. top' \in TopRecord /\ top'.kind = top.kind /\ top'.at = "rescue" /\ top'.out = "crashed"
    <3>1. "crashed" \in Outs
      BY DEF Outs
    <3>2. QED
      BY <1>3, <3>1, WentStopping
  <2>2. TypeOK' /\ \A j \in Kids : KidInv(j)'
    BY <1>1, <1>3, <2>1, LookedAt
  <2>3. RouteInv' /\ DirectInv' /\ HubInv' /\ DeferredOpen'
    BY <1>1, <2>1 DEF RouteInv, DirectInv, HubInv, DeferredOpen, ClosesPrice
  <2>4. Tells'
    BY <2>1 DEF Tells
  <2>5. QED
    BY <2>2, <2>3, <2>4 DEF IInv
<1>4. CASE /\ kid[k].at \in {"done", "failed"}
           /\ \E at \in {top.at, "stopping"} : top' = [top EXCEPT !.at = at, !.told = Charges(Says(k))]
  <2>1. PICK at \in {"running", "stopping"} : top' = [top EXCEPT !.at = at, !.told = Charges(Says(k))]
    BY <1>1, <1>4
  <2>2. top' \in TopRecord
    BY <1>2, <2>1, TopSet
  <2>3. top'.kind = top.kind /\ top'.at = at /\ top'.out = "" /\ top'.told = top.told \cup Says(k)
    BY <1>1, <1>2, <2>1 DEF TopRecord, Charges
  <2>4. /\ TypeOK' /\ \A j \in Kids : KidInv(j)'
        /\ kid'[k].at = (IF kid[k].at = "done" THEN "answered" ELSE "refused")
        /\ \A j \in Kids \ {k} : kid'[j] = kid[j]
    BY <1>1, <1>4, <2>2, <2>3, LookedAt
  <2>5. RouteInv' /\ DirectInv' /\ HubInv' /\ DeferredOpen'
    BY <1>1, <2>3 DEF RouteInv, DirectInv, HubInv, DeferredOpen, ClosesPrice
  <2>6. Tells'
    <3>1. TellsOfPrice /\ TellsOfKids /\ Price \notin Says(k)
      BY <1>1, Parts, HoldsApart DEF IInv, Tells, Says
    <3>2. TellsOfPrice'
      BY <1>1, <2>3, <3>1 DEF TellsOfPrice
    <3>3. ASSUME NEW h \in {Own(k), Extra(k)} PROVE h \in top'.told <=> kid'[k].at = "answered" /\ Said(h)'
      <4>1. h \notin top.told /\ (h \in kid[k].told <=> Said(h))
        BY <1>4, <3>1 DEF TellsOfKids, IInv, KidInv, Honest, Speaking
      <4>2. QED
        BY <1>1, <1>4, <2>3, <2>4, <4>1 DEF Said, Says
    <3>4. ASSUME NEW j \in Kids \ {k}, NEW h \in {Own(j), Extra(j)}
          PROVE  /\ kid'[j].at = "answered" /\ Said(h)' => h \in top'.told
                 /\ h \in top'.told => kid'[j].at = "answered" /\ (Said(h)' \/ h \in orphaned')
      <4>1. h \notin Says(k)
        BY Parts, HoldsApart DEF Says
      <4>2. QED
        BY <1>1, <2>3, <2>4, <3>1, <4>1 DEF TellsOfKids, Said
    <3>5. TellsOfKids'
      BY <3>3, <3>4 DEF TellsOfKids
    <3>6. QED
      BY <3>2, <3>5 DEF Tells
  <2>7. QED
    BY <2>4, <2>5, <2>6 DEF IInv
<1>5. QED
  BY <1>3, <1>4 DEF Tally

LEMMA RouteEndsKeeps == ASSUME IInv, RouteEnds PROVE IInv'
<1>1. /\ top.kind = "routed" /\ top.at = "running" /\ top.out = "" /\ hold[Price] = "none"
      /\ \A j \in Kids : Idle(j)
      /\ UNCHANGED <<kid, hold, deferred, dying, orphaned, faults>>
  BY DEF RouteEnds, IInv, RouteInv, HubInv
<1>2. top.told \in SUBSET Holds /\ cancels' \in 0 .. MaxCancels
  <2>1. top.told \in SUBSET Holds
    BY Parts DEF TopRecord
  <2>2. cancels' \in 0 .. MaxCancels
    BY Parts, CallTreeAssumption DEF RouteEnds
  <2>3. QED
    BY <2>1, <2>2
<1>3. /\ top' \in TopRecord /\ top'.kind = top.kind /\ top'.at = "closing"
      /\ \/ top'.out = "answered" /\ top'.told = top.told
         \/ top'.out = "failed" /\ top'.told = {}
         \/ top'.out = "cancelled"
  <2>1. "answered" \in Outs /\ "failed" \in Outs /\ "cancelled" \in Outs
    BY DEF Outs
  <2>2. \/ top' = Leave("answered", top.told) \/ top' = Leave("failed", {}) \/ top' = Leave("cancelled", {})
    BY DEF RouteEnds
  <2>3. QED
    BY <1>2, <2>1, <2>2, WentLeaving
<1>4. /\ TypeOK' /\ \A j \in Kids : KidInv(j)'
      /\ TellsOfKids /\ top'.told = top.told => TellsOfKids'
  BY <1>1, <1>2, <1>3, Parts, RequestMoves
<1>5. RouteInv'
  BY <1>1, <1>3 DEF IInv, RouteInv, Idle, SettledAtOnce
<1>6. DirectInv' /\ HubInv' /\ DeferredOpen'
  BY <1>1, <1>3 DEF IInv, DirectInv, HubInv, DeferredOpen, Left
<1>7. Tells'
  <2>1. TellsOfPrice /\ TellsOfKids
    BY <1>1 DEF IInv, Tells
  <2>2. top'.out \in {"answered", "failed"} => TellsOfPrice'
    BY <1>1, <1>3, <2>1 DEF TellsOfPrice
  <2>3. QED
    BY <1>1, <1>3, <1>4, <2>1, <2>2 DEF Tells
<1>8. QED
  BY <1>4, <1>5, <1>6, <1>7 DEF IInv

LEMMA CloseRouteKeeps == ASSUME IInv, CloseRoute PROVE IInv'
<1>1. /\ top.kind = "routed" /\ top.at = "closing" /\ hold[Price] = "none" /\ Price \in Holds
      /\ deferred' = {} /\ UNCHANGED <<kid, dying>>
      /\ \A j \in Kids : Idle(j) \/ kid[j].at \in {"cancelled", "crashed"}
  BY HoldsApart DEF CloseRoute, IInv, RouteInv, HubInv
<1>2. top \in TopRecord /\ top.told \in SUBSET Holds
  BY Parts DEF TopRecord
<1>3. CloseDeferred \in [Holds -> HoldState]
  BY Parts DEF CloseDeferred, HoldState
<1>4. /\ hold' \in {hold, CloseDeferred} /\ orphaned \subseteq orphaned' /\ orphaned' \subseteq Holds
      /\ \A h \in deferred : ~Left(h)'
      /\ cancels' \in 0 .. MaxCancels /\ faults' \in 0 .. MaxFaults
      /\ top' = [top EXCEPT !.at = "over"] \/ top' = End("cancelled", {})
  <2>1. \A h \in deferred : CloseDeferred[h] # "open"
    BY Parts DEF CloseDeferred
  <2>2. CASE /\ hold' = CloseDeferred /\ top' = [top EXCEPT !.at = "over"] /\ UNCHANGED <<orphaned, cancels, faults>>
    BY <2>1, <2>2, Parts DEF Left
  <2>3. CASE Fails /\ UNCHANGED <<hold, cancels>> /\ Abandon(deferred) /\ top' = [top EXCEPT !.at = "over"]
    BY <2>3, Faulted, Parts DEF Left, Abandon
  <2>4. CASE /\ cancels < MaxCancels /\ cancels' = cancels + 1
             /\ hold' \in {hold, CloseDeferred} /\ Abandon(deferred) /\ top' = End("cancelled", {}) /\ UNCHANGED faults
    <3>1. cancels' \in 0 .. MaxCancels
      BY <2>4, Parts, CallTreeAssumption
    <3>2. QED
      BY <2>4, <3>1, Parts DEF Left, Abandon
  <2>5. QED
    BY <2>2, <2>3, <2>4 DEF CloseRoute
<1>5. /\ top' \in TopRecord /\ top'.kind = top.kind /\ top'.at = "over"
      /\ top'.out = "cancelled" \/ (top'.out = top.out /\ top'.told = top.told)
  <2>1. CASE top' = [top EXCEPT !.at = "over"]
    <3>1. top' \in TopRecord
      BY <1>2, <2>1, TopSet
    <3>2. QED
      BY <1>2, <1>4, <2>1, <3>1 DEF TopRecord, End
  <2>2. CASE top' = End("cancelled", {})
    <3>1. "cancelled" \in Outs
      BY DEF Outs
    <3>2. QED
      BY <2>2, <3>1, Ended
  <2>3. QED
    BY <1>4, <2>1, <2>2
<1>6. /\ hold' \in [Holds -> HoldState]
      /\ \A h \in Holds : hold'[h] # hold[h] => /\ h \in deferred /\ hold[h] = "open"
                                                /\ hold'[h] = IF ChargesDeferred THEN "taken" ELSE "returned"
  BY <1>3, <1>4, Parts DEF CloseDeferred
<1>7. \A j \in Kids : Own(j) \in Holds /\ Extra(j) \in Holds /\ Own(j) # Price /\ Extra(j) # Price
  BY HoldsApart
<1>8. TypeOK'
  <2>1. /\ kid' \in [Kids -> KidRecord] /\ deferred' \subseteq Holds /\ dying' \subseteq Kids /\ (deferred' = {})
        /\ \A j \in Kids : /\ kid'[j].told \subseteq {Own(j), Extra(j)}
                           /\ kid'[j].at = "idle" => hold'[Own(j)] = "none" /\ hold'[Extra(j)] = "none"
    BY <1>1, <1>6, <1>7, Parts
  <2>2. QED
    BY <1>4, <1>5, <1>6, <2>1 DEF TypeOK, TopRecord, KidRecord, Places, Answers, OverAnswers, HoldState
<1>9. ASSUME NEW j \in Kids PROVE KidInv(j)'
  <2>1. KidInv(j) /\ (Idle(j) \/ kid[j].at \in {"cancelled", "crashed"})
    BY <1>1 DEF IInv
  <2>2. /\ kid[j].at \notin Waiting \cup {"cleaning", "done", "failed"}
        /\ kid[j].at \in Speaking \cup Early => kid[j].at = "idle"
    BY <2>1 DEF Idle, Waiting, Collected, Speaking, Early
  <2>3. \A h \in {Own(j), Extra(j)} : (Left(h)' => Left(h) /\ h \notin deferred) /\ (Said(h)' => Said(h))
    BY <1>1, <1>4, <1>6, <1>7 DEF Left, Said
  <2>4. Kept(j)'
    BY <1>1, <2>1, <2>3 DEF KidInv, Kept
  <2>5. \A h \in {Own(j), Extra(j)} : Untouched(h) => Untouched(h)'
    BY <1>1, <1>6, <1>7 DEF Untouched
  <2>6. Course(j)'
    BY <1>1, <2>1, <2>2, <2>5 DEF KidInv, Course, Waiting
  <2>7. kid[j].at = "idle" => ~Said(Own(j)) /\ ~Said(Extra(j))
    BY <2>1 DEF KidInv, Course, Said, Untouched, Early
  <2>8. Honest(j)'
    BY <1>1, <2>1, <2>2, <2>3, <2>7 DEF KidInv, Honest, Speaking
  <2>9. QED
    BY <2>4, <2>6, <2>8 DEF KidInv
<1>10. RouteInv'
  <2>1. ASSUME top'.out \in {"", "failed", "crashed"}, NEW j \in Kids PROVE SettledAtOnce(j)'
    <3>1. SettledAtOnce(j) /\ top.out \notin {"answered", "pending"}
      BY <1>1, <1>5, <2>1 DEF IInv, RouteInv
    <3>2. \A h \in {Own(j), Extra(j)} : hold'[h] \in {"taken", "task"} => hold[h] \in {"taken", "task"}
      BY <1>6, <1>7, <3>1 DEF ChargesDeferred
    <3>3. QED
      BY <1>1, <3>1, <3>2 DEF SettledAtOnce
  <2>2. QED
    BY <1>1, <1>5, <2>1 DEF IInv, RouteInv, Idle
<1>11. hold'[Price] = "none"
  BY <1>1, <1>6
<1>12. DirectInv' /\ HubInv' /\ DeferredOpen'
  BY <1>1, <1>5, <1>11 DEF DirectInv, HubInv, DeferredOpen, Left
<1>13. Tells'
  <2>1. SUFFICES ASSUME top'.out \in {"answered", "failed"} PROVE Tells'
    BY <1>1, <1>5 DEF Tells, IInv, RouteInv
  <2>2. top'.out = top.out /\ top'.told = top.told
    BY <1>5, <2>1
  <2>3. TellsOfPrice'
    BY <1>1, <1>11, <2>1, <2>2 DEF TellsOfPrice, IInv, Tells
  <2>4. ASSUME top.out = "answered" PROVE TellsOfKids'
    <3>1. TellsOfKids
      BY <2>4 DEF IInv, Tells
    <3>2. \A h \in Holds : hold'[h] # hold[h] => hold'[h] = "taken"
      BY <1>6, <2>4 DEF ChargesDeferred
    <3>3. ASSUME NEW h \in Holds PROVE (Said(h)' => Said(h)) /\ (Said(h) => Said(h)' \/ h \in orphaned')
      BY <1>1, <1>4, <1>6, <3>2 DEF Said, Left
    <3>4. ASSUME NEW j \in Kids, NEW h \in {Own(j), Extra(j)}
          PROVE  /\ kid'[j].at = "answered" /\ Said(h)' => h \in top'.told
                 /\ h \in top'.told => kid'[j].at = "answered" /\ (Said(h)' \/ h \in orphaned')
      BY <1>1, <1>4, <1>7, <2>2, <3>1, <3>3 DEF TellsOfKids
    <3>5. QED
      BY <3>4 DEF TellsOfKids
  <2>5. QED
    BY <1>1, <1>5, <2>1, <2>2, <2>3, <2>4 DEF Tells
<1>14. QED
  BY <1>8, <1>9, <1>10, <1>12, <1>13 DEF IInv

(* A run that stops, one way or another, with its children where they are. *)
LEMMA HubMoves ==
  ASSUME IInv, top.kind = "hub", NEW T \in TopRecord, top' = T, T.kind = "hub", UNCHANGED <<kid, deferred>>,
         hold' \in [Holds -> HoldState], \A h \in Holds \ {Price} : hold'[h] = hold[h],
         orphaned \subseteq orphaned', orphaned' \subseteq Holds, dying' \subseteq Kids,
         cancels' \in 0 .. MaxCancels, faults' \in 0 .. MaxFaults,
         Left(Price)' => T.at \in ClosesPrice,
         T.at \in {"pricing", "tooDear"} => T.told = {} /\ T.out = "" /\ \A k \in Kids : kid[k].at = "idle",
         T.at \in {"running", "stopping"} => T.out = "",
         T.at = "rescue" => T.out \in {"crashed", "cancelled"},
         T.out \in {"", "answered", "failed"} =>
           /\ TellsOfKids /\ T.told \ {Price} = top.told \ {Price}
           /\ Price \in T.told <=> hold'[Price] \in {"taken", "task"}
  PROVE  IInv'
<1>1. /\ TypeOK' /\ \A k \in Kids : KidInv(k)'
      /\ TellsOfKids /\ T.told \ {Price} = top.told \ {Price} => TellsOfKids'
  BY RequestMoves
<1>2. deferred = {}
  BY DEF IInv, DeferredOpen
<1>3. RouteInv' /\ DirectInv' /\ HubInv' /\ DeferredOpen'
  BY <1>2 DEF RouteInv, DirectInv, HubInv, DeferredOpen
<1>4. Tells'
  BY <1>1 DEF Tells, TellsOfPrice
<1>5. QED
  BY <1>1, <1>3, <1>4 DEF IInv

(* What the request knows before its run stops.                            *)
LEMMA HubBefore ==
  ASSUME IInv, top.kind = "hub"
  PROVE  /\ top \in TopRecord /\ top.told \in SUBSET Holds /\ Price \in Holds /\ deferred = {}
         /\ top.at \in {"pricing", "tooDear"} => /\ top.told = {} /\ top.out = "" /\ \A k \in Kids : kid[k].at = "idle"
         /\ top.at \in {"running", "stopping"} => top.out = ""
         /\ top.at = "rescue" => top.out \in {"crashed", "cancelled"}
         /\ top.out \in {"", "answered", "failed"} => TellsOfPrice /\ TellsOfKids
<1>1. top \in TopRecord /\ Price \in Holds
  BY Parts, HoldsApart
<1>2. top.told \in SUBSET Holds
  BY <1>1 DEF TopRecord
<1>3. deferred = {}
  BY DEF IInv, DeferredOpen
<1>4. QED
  BY <1>1, <1>2, <1>3 DEF IInv, HubInv, Tells

LEMMA HubReserveKeeps == ASSUME IInv, HubReserve PROVE IInv'
<1>1. top.kind = "hub" /\ top.at = "pricing" /\ UNCHANGED <<kid, deferred, dying>> /\ ~Left(Price)
  BY DEF HubReserve, IInv, HubInv, ClosesPrice
<1>2. top.told = {} /\ top.out = "" /\ top \in TopRecord /\ Price \in Holds /\ \A k \in Kids : kid[k].at = "idle"
  BY <1>1, HubBefore
<1>3. TellsOfPrice /\ TellsOfKids
  BY <1>1, <1>2, HubBefore
<1> DEFINE Opened == [hold EXCEPT ![Price] = "open"]
<1>4. Opened \in [Holds -> HoldState] /\ Opened[Price] = "open" /\ \A h \in Holds \ {Price} : Opened[h] = hold[h]
  BY <1>2, Parts, OneHold DEF HoldState
<1> HIDE DEF Opened
<1>5. ASSUME NEW at \in {"running", "tooDear"}, top' = [top EXCEPT !.at = at], hold' \in {hold, Opened},
             UNCHANGED <<orphaned, cancels, faults>>
      PROVE  IInv'
  <2>1. top' \in TopRecord
    BY <1>2, <1>5, TopSet
  <2>2. top'.kind = "hub" /\ top'.at = at /\ top'.out = "" /\ top'.told = {}
    BY <1>1, <1>2, <1>5 DEF TopRecord
  <2>3. Price \in top'.told <=> hold'[Price] \in {"taken", "task"}
    BY <1>2, <1>3, <1>4, <1>5, <2>2 DEF TellsOfPrice
  <2>4. QED
    BY <1>1, <1>2, <1>3, <1>4, <1>5, <2>1, <2>2, <2>3, Parts, HubMoves DEF ClosesPrice
<1>6. ASSUME NEW out \in {"failed", "cancelled", "crashed"}, top' = End(out, {}), hold' \in {hold, Opened},
             out # "cancelled" => hold' = hold /\ UNCHANGED orphaned,
             out = "cancelled" => Abandon({Price}), cancels' \in 0 .. MaxCancels, faults' \in 0 .. MaxFaults
      PROVE  IInv'
  <2>1. top' \in TopRecord /\ top'.kind = "hub" /\ top'.at = "over" /\ top'.out = out /\ top'.told = {}
    <3>1. out \in Outs
      BY DEF Outs
    <3>2. QED
      BY <1>1, <1>6, <3>1, Ended
  <2>2. orphaned \subseteq orphaned' /\ orphaned' \subseteq Holds /\ ~Left(Price)'
    BY <1>1, <1>2, <1>6, Parts DEF Abandon, Left
  <2>3. out = "failed" => (Price \in top'.told <=> hold'[Price] \in {"taken", "task"})
    BY <1>2, <1>3, <1>6, <2>1 DEF TellsOfPrice
  <2>4. QED
    BY <1>1, <1>2, <1>3, <1>4, <1>6, <2>1, <2>2, <2>3, Parts, HubMoves
<1>7. CASE Fails /\ top' = End("crashed", {}) /\ UNCHANGED <<hold, orphaned, cancels>>
  BY <1>6, <1>7, Faulted, Parts
<1>8. cancels' \in 0 .. MaxCancels /\ (faults' = faults => faults' \in 0 .. MaxFaults)
  BY Parts, CallTreeAssumption DEF HubReserve
<1>9. QED
  BY <1>5, <1>6, <1>7, <1>8 DEF HubReserve, Opened

LEMMA RunStops == ASSUME IInv, Halt \/ HubEnds \/ WallClock PROVE IInv'
<1>1. /\ top.kind = "hub" /\ top.at \in {"running", "stopping"} /\ UNCHANGED <<kid, hold, deferred, orphaned, cancels, faults>>
      /\ dying' \subseteq Kids
  BY Parts DEF Halt, HubEnds, WallClock
<1>2. top.out = "" /\ top \in TopRecord /\ top.told \in SUBSET Holds /\ Price \in Holds
  BY <1>1, HubBefore
<1>3. TellsOfPrice /\ TellsOfKids
  BY <1>1, <1>2, HubBefore
<1>4. /\ top' \in TopRecord /\ top'.kind = "hub" /\ top'.told = top.told
      /\ \/ top'.at = "stopping" /\ top'.out = ""
         \/ top'.at = "closing" /\ top'.out \in {"answered", "failed"}
  <2>1. CASE top' = [top EXCEPT !.at = "stopping"]
    <3>1. top' \in TopRecord
      BY <1>2, <2>1, TopSet
    <3>2. QED
      BY <1>1, <1>2, <2>1, <3>1 DEF TopRecord
  <2>2. ASSUME NEW out \in {"answered", "failed"}, top' = Leave(out, top.told)
        PROVE  /\ top' \in TopRecord /\ top'.kind = "hub" /\ top'.at = "closing"
               /\ top'.out \in {"answered", "failed"} /\ top'.told = top.told
    <3>1. out \in Outs
      BY DEF Outs
    <3>2. QED
      BY <1>1, <1>2, <2>2, <3>1, WentLeaving
  <2>3. QED
    BY <2>1, <2>2 DEF Halt, HubEnds, WallClock
<1>5. Left(Price)' => top'.at \in ClosesPrice
  BY <1>4 DEF ClosesPrice
<1>6. Price \in top'.told <=> hold'[Price] \in {"taken", "task"}
  BY <1>1, <1>3, <1>4 DEF TellsOfPrice
<1>7. QED
  BY <1>1, <1>3, <1>4, <1>5, <1>6, Parts, HubMoves

LEMMA RunBreaks == ASSUME IInv, RunCrashes \/ CancelRun PROVE IInv'
<1>1. top.kind = "hub" /\ UNCHANGED <<kid, hold, deferred, dying, orphaned, faults>>
  BY DEF RunCrashes, CancelRun
<1>2. cancels' \in 0 .. MaxCancels
  BY Parts, CallTreeAssumption DEF RunCrashes, CancelRun
<1>3. PICK out \in {"crashed", "cancelled"} : top' = Stop(out, {})
  BY DEF RunCrashes, CancelRun
<1>4. top' \in TopRecord /\ top'.kind = "hub" /\ top'.at = "rescue" /\ top'.out = out
  <2>1. out \in Outs
    BY DEF Outs
  <2>2. QED
    BY <1>1, <1>3, <2>1, WentStopping
<1>5. Left(Price)' => top'.at \in ClosesPrice
  BY <1>4 DEF ClosesPrice
<1>6. QED
  BY <1>1, <1>2, <1>4, <1>5, Parts, HubMoves

(* The price of a run that writes itself down is closed.                   *)
LEMMA RecordKeeps == ASSUME IInv, Record PROVE IInv'
<1>1. top.at = "recording" /\ top' = [top EXCEPT !.at = "over"]
      /\ UNCHANGED <<kid, hold, deferred, dying, orphaned, cancels, faults>>
  BY DEF Record
<1>2. top.kind = "hub"
  <2>1. top.kind \in {"direct", "routed", "hub"}
    BY Parts, CallTreeAssumption DEF TopRecord
  <2>2. QED
    BY <1>1, <2>1 DEF IInv, RouteInv, DirectInv
<1>3. top \in TopRecord /\ (top.out \in {"", "answered", "failed"} => TellsOfPrice /\ TellsOfKids)
  BY <1>2, HubBefore
<1>4. top' \in TopRecord /\ top'.kind = "hub" /\ top'.at = "over" /\ top'.out = top.out /\ top'.told = top.told
  <2>1. top' \in TopRecord
    BY <1>1, <1>3, TopSet
  <2>2. QED
    BY <1>1, <1>2, <1>3, <2>1 DEF TopRecord
<1>5. ~Left(Price)'
  BY <1>1 DEF IInv, HubInv, ClosesPrice, Left
<1>6. top'.out \in {"", "answered", "failed"} => (Price \in top'.told <=> hold'[Price] \in {"taken", "task"})
  BY <1>1, <1>3, <1>4 DEF TellsOfPrice
<1>7. QED
  BY <1>1, <1>2, <1>3, <1>4, <1>5, <1>6, Parts, HubMoves

LEMMA ClosePriceKeeps == ASSUME IInv, ClosePrice PROVE IInv'
<1>1. top.kind = "hub" /\ top.at = "closing" /\ UNCHANGED <<kid, deferred, dying, orphaned>>
  BY DEF ClosePrice
<1>2. top \in TopRecord /\ top.told \in SUBSET Holds /\ Price \in Holds /\ top.out \in Outs
  BY <1>1, HubBefore DEF TopRecord, Outs
<1>3. top.out \in {"", "answered", "failed"} => TellsOfPrice /\ TellsOfKids
  BY <1>1, HubBefore
<1>4. PICK state \in {"taken", "returned"} : hold' \in {hold, Close(Price, state)}
  BY DEF ClosePrice
<1>5. /\ Close(Price, state) \in [Holds -> HoldState] /\ \A h \in Holds \ {Price} : Close(Price, state)[h] = hold[h]
      /\ Close(Price, state)[Price] = IF hold[Price] = "open" THEN state ELSE hold[Price]
  BY <1>2, Parts, Closed DEF HoldState
<1>6. hold' \in [Holds -> HoldState] /\ \A h \in Holds \ {Price} : hold'[h] = hold[h]
  BY <1>4, <1>5, Parts
<1>7. CASE /\ \E s \in {"taken", "returned"} : hold' = Close(Price, s)
           /\ top' = [top EXCEPT !.at = "recording", !.told = Charges(Stated(Price))] /\ UNCHANGED <<cancels, faults>>
  <2>1. PICK s \in {"taken", "returned"} : hold' = Close(Price, s)
    BY <1>7
  <2>2. hold'[Price] = IF hold[Price] = "open" THEN s ELSE hold[Price]
    BY <1>2, <2>1, Parts, Closed DEF HoldState
  <2>3. Stated(Price) \subseteq {Price} /\ (Price \in Stated(Price) <=> hold[Price] = "open" /\ s = "taken")
    BY <2>2 DEF Stated
  <2>4. /\ top' \in TopRecord /\ top'.kind = "hub" /\ top'.at = "recording" /\ top'.out = top.out
        /\ top'.told = top.told \cup Stated(Price)
    <3>1. Charges(Stated(Price)) \in SUBSET Holds
      BY <1>2, <2>3 DEF Charges
    <3>2. top' \in TopRecord
      BY <1>2, <1>7, <3>1, TopSet
    <3>3. QED
      BY <1>1, <1>2, <1>7, <3>2 DEF TopRecord, Charges
  <2>5. ~Left(Price)'
    BY <2>2 DEF Left
  <2>6. top.out \in {"", "answered", "failed"} => (Price \in top'.told <=> hold'[Price] \in {"taken", "task"})
    BY <1>3, <2>2, <2>3, <2>4 DEF TellsOfPrice
  <2>7. top'.told \ {Price} = top.told \ {Price}
    BY <2>3, <2>4
  <2>8. QED
    BY <1>1, <1>3, <1>6, <1>7, <2>4, <2>5, <2>6, <2>7, Parts, HubMoves
<1>8. ASSUME NEW out \in {"crashed", "cancelled"}, top' = Stop(out, {}), faults' \in 0 .. MaxFaults, cancels' \in 0 .. MaxCancels
      PROVE  IInv'
  <2>1. top' \in TopRecord /\ top'.kind = "hub" /\ top'.at = "rescue" /\ top'.out = out
    <3>1. out \in Outs
      BY DEF Outs
    <3>2. QED
      BY <1>1, <1>8, <3>1, WentStopping
  <2>2. Left(Price)' => top'.at \in ClosesPrice
    BY <2>1 DEF ClosesPrice
  <2>3. QED
    BY <1>1, <1>6, <1>8, <2>1, <2>2, Parts, HubMoves
<1>9. CASE Fails /\ top' = Stop("crashed", {}) /\ UNCHANGED cancels
  BY <1>8, <1>9, Faulted, Parts
<1>10. CASE cancels < MaxCancels /\ cancels' = cancels + 1 /\ top' = Stop("cancelled", {}) /\ UNCHANGED faults
  <2>1. cancels' \in 0 .. MaxCancels
    BY <1>10, Parts, CallTreeAssumption
  <2>2. QED
    BY <1>8, <1>10, <2>1, Parts
<1>11. QED
  BY <1>7, <1>9, <1>10 DEF ClosePrice

LEMMA RescueKeeps == ASSUME IInv, Rescue PROVE IInv'
<1>1. top.at \in {"rescue", "tooDear"} /\ UNCHANGED <<kid, deferred, dying>>
  BY DEF Rescue
<1>2. top.kind = "hub"
  <2>1. top.kind \in {"direct", "routed", "hub"}
    BY Parts, CallTreeAssumption DEF TopRecord
  <2>2. QED
    BY <1>1, <2>1 DEF IInv, RouteInv, DirectInv
<1>3. /\ top \in TopRecord /\ Price \in Holds /\ top.out \in Outs
      /\ top.at = "tooDear" => top.told = {} /\ top.out = ""
      /\ top.at = "rescue" => top.out \in {"crashed", "cancelled"}
      /\ top.out \in {"", "answered", "failed"} => TellsOfPrice /\ TellsOfKids
  BY <1>2, HubBefore DEF TopRecord, Outs
<1> DEFINE C == Close(Price, "returned")
<1>4. /\ C \in [Holds -> HoldState] /\ \A h \in Holds \ {Price} : C[h] = hold[h]
      /\ C[Price] = IF hold[Price] = "open" THEN "returned" ELSE hold[Price]
  BY <1>3, Parts, Closed DEF HoldState
<1> HIDE DEF C
<1>5. PICK out \in Outs :
        /\ top' = End(out, {}) /\ hold' \in {hold, C}
        /\ orphaned \subseteq orphaned' /\ orphaned' \subseteq Holds /\ ~Left(Price)'
        /\ cancels' \in 0 .. MaxCancels /\ faults' \in 0 .. MaxFaults
        /\ out \in {"crashed", "cancelled"} \/ (top.at = "tooDear" /\ out = "failed" /\ hold' = C)
  <2>1. "failed" \in Outs /\ "cancelled" \in Outs /\ "crashed" \in Outs
    BY DEF Outs
  <2>2. CASE /\ hold' = C /\ UNCHANGED <<orphaned, cancels, faults>>
             /\ top' = End(IF top.at = "rescue" THEN top.out ELSE "failed", {})
    <3>1. ~Left(Price)'
      BY <1>4, <2>2 DEF Left
    <3>2. CASE top.at = "rescue"
      BY <1>3, <2>2, <3>1, <3>2, Parts
    <3>3. CASE top.at = "tooDear"
      BY <2>1, <2>2, <3>1, <3>3, Parts
    <3>4. QED
      BY <1>1, <3>2, <3>3
  <2>3. CASE Fails /\ UNCHANGED <<hold, cancels>> /\ Abandon({Price}) /\ top' = End("crashed", {})
    BY <1>3, <2>1, <2>3, Faulted, Parts DEF Abandon, Left
  <2>4. CASE /\ cancels < MaxCancels /\ cancels' = cancels + 1 /\ hold' \in {hold, C} /\ Abandon({Price})
             /\ top' = End("cancelled", {}) /\ UNCHANGED faults
    <3>1. cancels' \in 0 .. MaxCancels
      BY <2>4, Parts, CallTreeAssumption
    <3>2. QED
      BY <1>3, <2>1, <2>4, <3>1, Parts DEF Abandon, Left
  <2>5. QED
    BY <2>2, <2>3, <2>4 DEF Rescue, C
<1>6. top' \in TopRecord /\ top'.kind = "hub" /\ top'.at = "over" /\ top'.out = out /\ top'.told = {}
  BY <1>2, <1>5, Ended
<1>7. hold' \in [Holds -> HoldState] /\ \A h \in Holds \ {Price} : hold'[h] = hold[h]
  BY <1>4, <1>5, Parts
<1>8. out \in {"", "answered", "failed"} =>
        /\ TellsOfKids /\ top'.told = top.told
        /\ Price \in top'.told <=> hold'[Price] \in {"taken", "task"}
  BY <1>3, <1>4, <1>5, <1>6 DEF TellsOfPrice
<1>9. QED
  BY <1>1, <1>2, <1>5, <1>6, <1>7, <1>8, Parts, HubMoves

-----------------------------------------------------------------------------
LEMMA InitHolds == ASSUME Init PROVE IInv
<1>1. PICK t \in Tops : top = [kind |-> t, told |-> {}, out |-> "", at |-> IF t = "hub" THEN "pricing" ELSE "running"]
  BY DEF Init
<1>2. /\ kid = [k \in Kids |-> [at |-> "idle", how |-> "", over |-> "", told |-> {}]]
      /\ hold = [h \in Holds |-> "none"] /\ deferred = {} /\ dying = {} /\ orphaned = {} /\ cancels = 0 /\ faults = 0
  BY DEF Init
<1>3. top \in TopRecord
  BY <1>1 DEF TopRecord
<1>4. kid \in [Kids -> KidRecord] /\ hold \in [Holds -> HoldState] /\ cancels \in 0 .. MaxCancels /\ faults \in 0 .. MaxFaults
  <2>1. [at |-> "idle", how |-> "", over |-> "", told |-> {}] \in KidRecord
    BY DEF KidRecord, Places, Answers, OverAnswers
  <2>2. cancels \in 0 .. MaxCancels /\ faults \in 0 .. MaxFaults
    <3>1. MaxCancels \in Nat /\ MaxFaults \in Nat
      BY CallTreeAssumption
    <3>2. cancels = 0 /\ faults = 0
      BY DEF Init
    <3>3. QED
      BY <3>1, <3>2
  <2>3. QED
    BY <1>2, <2>1, <2>2 DEF HoldState
<1>5. \A k \in Kids : /\ kid[k].at = "idle" /\ kid[k].told = {}
                      /\ Own(k) \in Holds /\ Extra(k) \in Holds /\ hold[Own(k)] = "none" /\ hold[Extra(k)] = "none"
  BY <1>2, HoldsApart
<1>6. TypeOK
  BY <1>2, <1>3, <1>4, <1>5, Shape
<1>7. \A k \in Kids : KidInv(k)
  BY <1>2, <1>5 DEF KidInv, Kept, Course, Honest, Left, Said, Untouched, Speaking, Broken
<1>8. hold[Price] = "none"
  BY <1>2, HoldsApart
<1>9. RouteInv /\ DirectInv /\ HubInv /\ DeferredOpen
  BY <1>1, <1>2, <1>5, <1>8, CallTreeAssumption DEF RouteInv, DirectInv, HubInv, DeferredOpen, SettledAtOnce, Idle, Left,
     Collected
<1>10. Tells
  BY <1>1, <1>2, <1>5, <1>8 DEF Tells, TellsOfPrice, TellsOfKids
<1>11. QED
  BY <1>6, <1>7, <1>9, <1>10 DEF IInv

LEMMA NextKeeps == ASSUME IInv, [Next]_vars PROVE IInv'
<1>1. ASSUME NEW k \in Kids,
             \/ Start(k) \/ Reserve(k) \/ Dispatch(k) \/ Answer(k) \/ CloseOwn(k) \/ After(k)
             \/ Overflow(k) \/ OverAnswer(k) \/ CloseOver(k)
             \/ Doomed(k) \/ Clean(k)
             \/ Relay(k) \/ Weigh(k) \/ Tally(k)
      PROVE  IInv'
  BY <1>1, StartKeeps, ReserveKeeps, DispatchKeeps, AnswerKeeps, CloseOwnKeeps, AfterKeeps, OverflowKeeps, OverAnswerKeeps,
     CloseOverKeeps, DoomedKeeps, CleanKeeps, RelayKeeps, WeighKeeps, TallyKeeps
<1>2. CASE \/ CancelCall \/ RouteEnds \/ CloseRoute
           \/ HubReserve \/ Halt \/ RunCrashes \/ HubEnds \/ WallClock \/ ClosePrice \/ Record \/ CancelRun \/ Rescue
  BY <1>2, CancelCallKeeps, RouteEndsKeeps, CloseRouteKeeps, HubReserveKeeps, RunStops, RunBreaks, ClosePriceKeeps,
     RecordKeeps, RescueKeeps
<1>3. CASE UNCHANGED vars
  <2>1. UNCHANGED <<top, kid, hold, deferred, dying, orphaned, cancels, faults>>
    BY <1>3 DEF vars
  <2>2. TypeOK' /\ \A k \in Kids : KidInv(k)'
    BY <2>1, Parts, RequestMoves
  <2>3. RouteInv' /\ DirectInv'
    BY <2>1 DEF IInv, RouteInv, DirectInv, SettledAtOnce, Idle
  <2>4. HubInv' /\ DeferredOpen'
    BY <2>1 DEF IInv, HubInv, DeferredOpen, Left
  <2>5. Tells'
    BY <2>1 DEF IInv, Tells, TellsOfPrice, TellsOfKids, Said
  <2>6. QED
    BY <2>2, <2>3, <2>4, <2>5 DEF IInv
<1>4. QED
  BY <1>1, <1>2, <1>3 DEF Next, Rest

LEMMA Inductive == Spec => []IInv
BY InitHolds, NextKeeps, PTL DEF Spec

(* Every state of a request, of its children and of their holds is of its  *)
(* type: a call that did not start has no hold, its answer states no hold  *)
(* of another, and only a router has holds left to it.                     *)
THEOREM TypeCorrect == Spec => []TypeOK
<1>1. IInv => TypeOK
  BY DEF IInv
<1>2. QED
  BY <1>1, Inductive, PTL

(* However calls, cancels and failed transactions fall, when all is over   *)
(* every hold that is still open was knowingly left to the reaper: no way  *)
(* out of a call, a route or a run forgets one.                            *)
THEOREM NothingIsStranded == Spec => []NothingStranded
<1>1. ASSUME IInv PROVE NothingStranded
  <2>1. SUFFICES ASSUME AtRest, NEW h \in Holds, hold[h] = "open" PROVE h \in orphaned
    BY DEF NothingStranded
  <2>2. deferred = {} /\ top.at = "over"
    BY <1>1, <2>1 DEF AtRest, IInv, DeferredOpen
  <2>3. ASSUME NEW k \in Kids, h = Own(k) \/ h = Extra(k) PROVE h \in orphaned
    BY <1>1, <2>1, <2>2, <2>3 DEF IInv, KidInv, Kept, Left, AtRest, Working, Waiting, ClosesOwn, ClosesExtra
  <2>4. CASE h = Price
    BY <1>1, <2>1, <2>2, <2>4 DEF IInv, HubInv, Left, ClosesPrice
  <2>5. QED
    BY <2>3, <2>4 DEF Holds
<1>2. QED
  BY <1>1, Inductive, PTL

(* An answer states the charges that were taken and no other, but for one  *)
(* whose close failed and that the reaper may give back; it keeps silent   *)
(* only of what a child settled by itself under a router that answered     *)
(* nothing, of a child that the run no longer looked at, and of the billed *)
(* error of a call that failed to overflow.  A failed transaction changes  *)
(* none of this; of a crash it holds as well, but for a run's.             *)
THEOREM ToldWhatWasPaid == Spec => []ToldWhatWasTaken
<1>1. ASSUME IInv PROVE ToldWhatWasTaken
  <2> DEFINE taken == {h \in Holds : hold[h] \in {"taken", "task"}}
             unsaid == UNION {Unsaid(k) : k \in Kids}
  <2>1. SUFFICES ASSUME AtRest, Concludes
                 PROVE  top.told \subseteq taken \cup orphaned /\ taken \subseteq top.told \cup unsaid
    BY DEF ToldWhatWasTaken
  <2>2. deferred = {} /\ top.at = "over"
    BY <1>1, <2>1 DEF AtRest, IInv, DeferredOpen
  <2>3. \A h \in Holds : Said(h) <=> h \in taken
    BY <2>2 DEF Said
  <2>4. Price \in Holds /\ top.told \subseteq Holds /\ \A k \in Kids : Own(k) \in Holds /\ Extra(k) \in Holds
    BY <1>1, Parts, HoldsApart DEF TopRecord
  <2>5. ASSUME NEW k \in Kids, NEW h \in {Own(k), Extra(k)}, h \in taken
        PROVE  kid[k].at \in Collected \cup Returned
    <3>1. kid[k] \in KidRecord /\ kid[k].at # "idle"
      <4>1. hold[h] # "none"
        BY <2>5
      <4>2. QED
        BY <1>1, <2>5, <4>1, Parts
    <3>2. kid[k].at \in Places /\ kid[k].at \notin Waiting \cup {"cleaning"}
      BY <2>1, <3>1 DEF KidRecord, AtRest, Working
    <3>3. QED
      BY <3>1, <3>2 DEF Places
  <2>6. CASE top.kind = "routed" /\ top.out # "answered"
    <3>1. top.told = {} /\ \A k \in Kids : SettledAtOnce(k) /\ kid[k].at \notin Broken
      BY <1>1, <2>1, <2>2, <2>6 DEF Concludes, IInv, RouteInv, Idle, Broken, Collected
    <3>2. ASSUME NEW k \in Kids, NEW h \in {Own(k), Extra(k)}, h \in taken PROVE h \in Unsaid(k)
      <4>1. h \in AtOnce(k)
        BY <2>4, <3>1, <3>2 DEF SettledAtOnce, AtOnce
      <4>2. QED
        BY <2>6, <4>1 DEF Unsaid
    <3>3. Price \notin taken
      BY <1>1, <2>6 DEF IInv, HubInv
    <3>4. ASSUME NEW h \in taken PROVE h \in unsaid
      <4>1. PICK k \in Kids : h \in {Own(k), Extra(k)}
        BY <3>3, <3>4 DEF Holds
      <4>2. QED
        BY <3>2, <3>4, <4>1
    <3>5. QED
      BY <3>1, <3>4
  <2>7. CASE ~(top.kind = "routed" /\ top.out # "answered")
    <3>1. ASSUME NEW k \in Kids, NEW h \in {Own(k), Extra(k)}, h \in taken, kid[k].at # "answered"
          PROVE  h \in Unsaid(k)
      <4>1. CASE kid[k].at \in Returned
        BY <2>7, <4>1, <3>1 DEF Unsaid
      <4>2. CASE kid[k].at = "refused"
        <5>1. Said(h)
          BY <2>3, <3>1
        <5>2. h = Own(k) /\ kid[k].how = "burst"
          BY <1>1, <3>1, <4>2, <5>1 DEF IInv, KidInv, Honest, Broken
        <5>3. QED
          BY <2>7, <4>2, <5>2 DEF Unsaid, Returned
      <4>3. QED
        BY <2>5, <3>1, <4>1, <4>2 DEF Collected
    <3>2. CASE top.out = "crashed"
      <4>1. top.kind = "direct"
        BY <1>1, <2>1, <2>7, <3>2, Parts, CallTreeAssumption DEF Concludes, TopRecord
      <4>2. top.told = {} /\ (\A k \in Kids : kid[k].at # "answered") /\ Price \notin taken
        BY <1>1, <3>2, <4>1 DEF IInv, DirectInv, HubInv
      <4>3. ASSUME NEW h \in taken PROVE h \in unsaid
        <5>1. PICK k \in Kids : h \in {Own(k), Extra(k)}
          BY <4>2, <4>3 DEF Holds
        <5>2. QED
          BY <3>1, <4>2, <4>3, <5>1
      <4>4. QED
        BY <4>2, <4>3
    <3>3. CASE top.out \in {"answered", "failed"}
      <4>1. TellsOfPrice /\ TellsOfKids
        BY <1>1, <2>7, <3>3 DEF IInv, Tells
      <4>2. ASSUME NEW h \in top.told PROVE h \in taken \cup orphaned
        <5>1. CASE h = Price
          BY <2>4, <4>1, <4>2, <5>1 DEF TellsOfPrice
        <5>2. ASSUME NEW k \in Kids, h \in {Own(k), Extra(k)} PROVE h \in taken \cup orphaned
          BY <2>3, <2>4, <4>1, <4>2, <5>2 DEF TellsOfKids
        <5>3. QED
          BY <2>4, <4>2, <5>1, <5>2 DEF Holds
      <4>3. ASSUME NEW h \in taken PROVE h \in top.told \cup unsaid
        <5>1. CASE h = Price
          BY <4>1, <4>3, <5>1 DEF TellsOfPrice
        <5>2. ASSUME NEW k \in Kids, h \in {Own(k), Extra(k)} PROVE h \in top.told \cup unsaid
          <6>1. CASE kid[k].at = "answered"
            BY <2>3, <4>1, <4>3, <5>2, <6>1 DEF TellsOfKids
          <6>2. CASE kid[k].at # "answered"
            BY <3>1, <4>3, <5>2, <6>2
          <6>3. QED
            BY <6>1, <6>2
        <5>3. QED
          BY <4>3, <5>1, <5>2 DEF Holds
      <4>4. QED
        BY <4>2, <4>3
    <3>4. QED
      BY <2>1, <3>2, <3>3 DEF Concludes
  <2>8. QED
    BY <2>6, <2>7
<1>2. QED
  BY <1>1, Inductive, PTL
=============================================================================
