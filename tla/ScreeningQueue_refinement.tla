----------------------- MODULE ScreeningQueue_refinement -----------------------
(***************************************************************************)
(* The proof that the screening queue implements ScreeningOutcome, for     *)
(* every value of the constants.                                           *)
(*                                                                         *)
(* A chat of a screening is seen through its rows.  While QueueInv holds   *)
(* they all have one status, so any row tells what the reviewer sees       *)
(* (RowTells), before a step and after it.  Hence a step maps to the       *)
(* abstract one that its rows suggest: an admission to Request, a retry to *)
(* Reopen, a deletion to Delete, a result to Conclude, an error to GiveUp, *)
(* and everything workers do among themselves to a stuttering step.        *)
(***************************************************************************)
EXTENDS ScreeningQueue_proofs

Requests == Screenings \X Chats

Reviewed == [r \in Requests |-> OutcomeOf(r)]

Flagged == [r \in Requests |-> FoundBy(r)]

(* The same as functions of the tables, to speak of two states at once. *)
OutcomeIn(tbl, r) ==
    IF \E i \in ItemsOf(r[1], r[2]) : tbl[i].status \in {"queued", "running"} THEN "open"
    ELSE IF \E i \in ItemsOf(r[1], r[2]) : tbl[i].status = "screened" THEN "screened"
    ELSE IF \E i \in ItemsOf(r[1], r[2]) : tbl[i].status = "error" THEN "error"
    ELSE IF \E i \in ItemsOf(r[1], r[2]) : tbl[i].status = "deleted" THEN "deleted" ELSE "none"

FoundIn(fnd, r) == {i[2] : i \in {j \in ItemsOf(r[1], r[2]) : fnd[j] > 0}}

(* What a reviewer sees of a row. *)
View(st) == IF st \in {"queued", "running"} THEN "open" ELSE st

Typed(tbl) == \A i \in Items : tbl[i].status \in ItemStatus

NotSplit(tbl) ==
    \A i, j \in Items :
        SameChat(i, j) /\ tbl[i].status # "none" /\ tbl[j].status # "none"
            => tbl[i].status = tbl[j].status

Consistent(tbl) == Typed(tbl) /\ NotSplit(tbl)

LEMMA OutcomeOfIs ==
    ASSUME NEW r \in Requests
    PROVE  OutcomeOf(r) = OutcomeIn(item, r) /\ (OutcomeOf(r))' = OutcomeIn(item', r)
<1>1. OutcomeOf(r) = OutcomeIn(item, r)
  BY DEF OutcomeOf, OutcomeIn
<1>2. (OutcomeOf(r))' = OutcomeIn(item', r)
  BY DEF OutcomeOf, OutcomeIn, ItemsOf, Items
<1> QED
  BY <1>1, <1>2

LEMMA FoundByIs ==
    ASSUME NEW r \in Requests
    PROVE  FoundBy(r) = FoundIn(findings, r) /\ (FoundBy(r))' = FoundIn(findings', r)
  BY DEF FoundBy, FoundIn, ItemsOf, Items

LEMMA InvariantMeansConsistent ==
    ASSUME TypeOK, QueueInv
    PROVE  Consistent(item)
  BY DEF TypeOK, ItemRow, QueueInv, ChatsNotSplit, Consistent, Typed, NotSplit

LEMMA InvariantMeansConsistentNext ==
    ASSUME TypeOK', QueueInv'
    PROVE  Consistent(item')
  BY DEF TypeOK, ItemRow, QueueInv, ChatsNotSplit, Consistent, Typed, NotSplit, SameChat, Items

-----------------------------------------------------------------------------
(* Tables. *)
LEMMA RowTells ==
    ASSUME NEW tbl, Consistent(tbl), NEW r \in Requests, NEW i \in ItemsOf(r[1], r[2]),
           tbl[i].status # "none"
    PROVE  OutcomeIn(tbl, r) = View(tbl[i].status)
<1>1. i \in Items /\ tbl[i].status \in {"queued", "running", "screened", "error", "deleted"}
  BY DEF Consistent, Typed, ItemStatus, ItemsOf
<1>2. \A j \in ItemsOf(r[1], r[2]) : tbl[j].status # "none" => tbl[j].status = tbl[i].status
  BY <1>1 DEF Consistent, NotSplit, SameChat, ItemsOf
<1> QED
  BY <1>1, <1>2 DEF OutcomeIn, View

LEMMA NoRowTells ==
    ASSUME NEW tbl, NEW r \in Requests,
           \A i \in ItemsOf(r[1], r[2]) : tbl[i].status = "none"
    PROVE  OutcomeIn(tbl, r) = "none"
  BY DEF OutcomeIn

LEMMA NoneMeansNoRow ==
    ASSUME NEW tbl, Consistent(tbl), NEW r \in Requests, OutcomeIn(tbl, r) = "none",
           NEW i \in ItemsOf(r[1], r[2])
    PROVE  tbl[i].status = "none"
<1>1. i \in Items /\ tbl[i].status \in ItemStatus
  BY DEF Consistent, Typed, ItemsOf
<1> QED
  BY <1>1, RowTells DEF ItemStatus, View

LEMMA SameView ==
    ASSUME NEW old, NEW new, Typed(old), Typed(new), NEW r \in Requests,
           \A i \in ItemsOf(r[1], r[2]) : View(new[i].status) = View(old[i].status)
    PROVE  OutcomeIn(new, r) = OutcomeIn(old, r)
<1>1. \A i \in ItemsOf(r[1], r[2]) : new[i].status \in ItemStatus /\ old[i].status \in ItemStatus
  BY DEF Typed, ItemsOf
<1>2. \A i \in ItemsOf(r[1], r[2]) :
         /\ new[i].status \in {"queued", "running"} <=> old[i].status \in {"queued", "running"}
         /\ new[i].status = "screened" <=> old[i].status = "screened"
         /\ new[i].status = "error" <=> old[i].status = "error"
         /\ new[i].status = "deleted" <=> old[i].status = "deleted"
  BY <1>1 DEF ItemStatus, View
<1> QED
  BY <1>2 DEF OutcomeIn

LEMMA SameFound ==
    ASSUME NEW old, NEW new, NEW r \in Requests,
           \A i \in ItemsOf(r[1], r[2]) : new[i] = old[i]
    PROVE  FoundIn(new, r) = FoundIn(old, r)
  BY DEF FoundIn

(* The rows of two requests are apart. *)
LEMMA RequestsApart ==
    ASSUME NEW r \in Requests, NEW q \in Requests, q # r, NEW i \in ItemsOf(q[1], q[2])
    PROVE  i \notin ItemsOf(r[1], r[2])
<1>1. q[1] # r[1] \/ q[2] # r[2]
  BY DEF Requests
<1> QED
  BY <1>1 DEF ItemsOf

-----------------------------------------------------------------------------
(* Steps. *)
Both == TypeOK /\ QueueInv /\ TypeOK' /\ QueueInv'

LEMMA BothConsistent ==
    ASSUME Both
    PROVE  /\ Consistent(item) /\ Consistent(item') /\ Typed(item) /\ Typed(item')
           /\ \A r \in Requests : OutcomeOf(r) = OutcomeIn(item, r) /\ (OutcomeOf(r))' = OutcomeIn(item', r)
           /\ \A r \in Requests : FoundBy(r) = FoundIn(findings, r) /\ (FoundBy(r))' = FoundIn(findings', r)
<1>1. Consistent(item) /\ Consistent(item')
  BY InvariantMeansConsistent, InvariantMeansConsistentNext DEF Both
<1> QED
  BY <1>1, OutcomeOfIs, FoundByIs DEF Consistent

Stutters == Reviewed' = Reviewed /\ Flagged' = Flagged

LEMMA StutterStep ==
    ASSUME Both, findings' = findings, \A i \in Items : View(item'[i].status) = View(item[i].status)
    PROVE  Stutters
<1>1. ASSUME NEW r \in Requests PROVE (OutcomeOf(r))' = OutcomeOf(r) /\ (FoundBy(r))' = FoundBy(r)
  <2>1. \A i \in ItemsOf(r[1], r[2]) : View(item'[i].status) = View(item[i].status)
    BY DEF ItemsOf
  <2>2. OutcomeIn(item', r) = OutcomeIn(item, r)
    BY <2>1, BothConsistent, SameView
  <2>3. FoundIn(findings', r) = FoundIn(findings, r)
    OBVIOUS
  <2> QED
    BY <2>2, <2>3, BothConsistent
<1> QED
  BY <1>1 DEF Stutters, Reviewed, Flagged, Requests

(* A transaction that closes the rows of one claim. *)
LEMMA CloseStep ==
    ASSUME Both, NEW r \in Requests, NEW S \in SUBSET ItemsOf(r[1], r[2]), S # {},
           NEW st \in {"error", "screened"},
           \A i \in S : item[i].status \in {"queued", "running"} /\ item'[i].status = st,
           \A i \in Items \ S : item'[i] = item[i] /\ findings'[i] = findings[i]
    PROVE  /\ OutcomeOf(r) = "open" /\ (OutcomeOf(r))' = st
           /\ \A q \in Requests \ {r} : (OutcomeOf(q))' = OutcomeOf(q) /\ (FoundBy(q))' = FoundBy(q)
<1>1. PICK i \in S : TRUE
  OBVIOUS
<1>2. OutcomeIn(item, r) = "open"
  BY <1>1, BothConsistent, RowTells DEF View
<1>3. OutcomeIn(item', r) = st
  BY <1>1, BothConsistent, RowTells DEF View
<1>4. ASSUME NEW q \in Requests \ {r}
      PROVE  (OutcomeOf(q))' = OutcomeOf(q) /\ (FoundBy(q))' = FoundBy(q)
  <2>1. \A j \in ItemsOf(q[1], q[2]) : j \in Items \ S
    BY RequestsApart DEF ItemsOf
  <2>2. OutcomeIn(item', q) = OutcomeIn(item, q)
    BY <2>1, BothConsistent, SameView
  <2>3. FoundIn(findings', q) = FoundIn(findings, q)
    BY <2>1, SameFound
  <2> QED
    BY <2>2, <2>3, BothConsistent
<1> QED
  BY <1>2, <1>3, <1>4, BothConsistent

LEMMA GiveUpStep ==
    ASSUME Both, NEW r \in Requests, NEW S \in SUBSET ItemsOf(r[1], r[2]), S # {},
           \A i \in S : item[i].status \in {"queued", "running"} /\ item'[i].status = "error",
           \A i \in Items \ S : item'[i] = item[i], findings' = findings
    PROVE  Outcome!GiveUp(r)
<1>1. /\ OutcomeOf(r) = "open" /\ (OutcomeOf(r))' = "error"
      /\ \A q \in Requests \ {r} : (OutcomeOf(q))' = OutcomeOf(q) /\ (FoundBy(q))' = FoundBy(q)
  BY CloseStep
<1>2. (FoundBy(r))' = FoundBy(r)
  BY BothConsistent
<1>3. Reviewed' = [Reviewed EXCEPT ![r] = "error"] /\ Flagged' = Flagged /\ Reviewed[r] = "open"
  BY <1>1, <1>2 DEF Reviewed, Flagged, Requests
<1> QED
  BY <1>3 DEF Outcome!GiveUp, Reviewed, Flagged, Requests

LEMMA ConcludeStep ==
    ASSUME Both, NEW r \in Requests, NEW S \in SUBSET ItemsOf(r[1], r[2]), S # {},
           \A i \in S : item[i].status \in {"queued", "running"} /\ item'[i].status = "screened",
           \A i \in Items \ S : item'[i] = item[i] /\ findings'[i] = findings[i]
    PROVE  Outcome!Conclude(r)
<1>1. /\ OutcomeOf(r) = "open" /\ (OutcomeOf(r))' = "screened"
      /\ \A q \in Requests \ {r} : (OutcomeOf(q))' = OutcomeOf(q) /\ (FoundBy(q))' = FoundBy(q)
  BY CloseStep
<1>2. FoundIn(findings', r) \in SUBSET Messages
  BY DEF FoundIn, ItemsOf, Items
<1>3. (FoundBy(r))' \in SUBSET Messages
  BY <1>2, BothConsistent
<1>4. Reviewed' = [Reviewed EXCEPT ![r] = "screened"] /\ Reviewed[r] = "open"
  BY <1>1 DEF Reviewed, Requests
<1>5. Flagged' = [Flagged EXCEPT ![r] = (FoundBy(r))']
  BY <1>1 DEF Flagged, Requests
<1> QED
  BY <1>3, <1>4, <1>5 DEF Outcome!Conclude, Reviewed, Flagged, Requests

-----------------------------------------------------------------------------
(* One lemma for each action that a reviewer sees. *)
LEMMA InitMaps == Init => Outcome!Init
<1> SUFFICES ASSUME Init PROVE Outcome!Init
  OBVIOUS
<1>1. \A i \in Items : item[i].status = "none" /\ findings[i] = 0
  BY DEF Init, NoItem
<1>2. ASSUME NEW r \in Requests PROVE OutcomeOf(r) = "none" /\ FoundBy(r) = {}
  <2>1. \A i \in ItemsOf(r[1], r[2]) : item[i].status = "none" /\ findings[i] = 0
    BY <1>1 DEF ItemsOf
  <2>2. OutcomeIn(item, r) = "none"
    BY <2>1, NoRowTells
  <2>3. FoundIn(findings, r) = {}
    BY <2>1 DEF FoundIn
  <2> QED
    BY <2>2, <2>3, OutcomeOfIs, FoundByIs
<1> QED
  BY <1>2 DEF Outcome!Init, Outcome!Requests, Requests, Screenings

LEMMA AdmitMaps ==
    ASSUME Both, NEW u \in Users, Admit(u)
    PROVE  \E s \in Screenings : Outcome!Request(s)
<1> DEFINE s == admitted + 1
           opened == {c \in Chats : \E m \in Selected : ChatOf[m] = c}
<1>1. s \in Screenings /\ admitted \in Nat
  BY ScreeningConstants DEF ScreeningConstants, Screenings, Both, TypeOK, Admit
<1>2. \A i \in Items : item'[i] = IF i[1] = s /\ i[2] \in Selected THEN QueuedFor(u) ELSE item[i]
  BY DEF Admit
<1>3. QueuedFor(u).status = "queued" /\ NoItem.status = "none"
  BY DEF QueuedFor, NoItem
<1>4. \A i \in Items : i[1] = s => item[i].status = "none"
  <2>1. \A i \in Items : i[1] = s => i[1] > admitted
    BY <1>1
  <2> QED
    BY <1>3, <2>1 DEF Both, QueueInv, NotYetAdmitted
<1>5. ASSUME NEW c \in Chats PROVE Reviewed[<<s, c>>] = "none"
  <2>1. <<s, c>> \in Requests
    BY <1>1 DEF Requests
  <2>2. \A i \in ItemsOf(s, c) : item[i].status = "none"
    BY <1>4 DEF ItemsOf
  <2>3. OutcomeIn(item, <<s, c>>) = "none"
    BY <2>1, <2>2, NoRowTells
  <2> QED
    BY <2>1, <2>3, BothConsistent DEF Reviewed
<1>6. opened \in SUBSET Chats /\ opened # {}
  <2>1. PICK m \in Messages : m \in Selected
    BY DEF Admit, Selected
  <2>2. ChatOf[m] \in opened
    BY <2>1, ScreeningConstants DEF ScreeningConstants
  <2> QED
    BY <2>2
<1>7. ASSUME NEW r \in Requests, r[1] = s, r[2] \in opened PROVE (OutcomeOf(r))' = "open"
  <2>1. PICK m \in Selected : ChatOf[m] = r[2]
    BY <1>7
  <2>2. <<s, m>> \in Items /\ <<s, m>> \in ItemsOf(r[1], r[2])
    BY <1>1, <1>7, <2>1 DEF Items, ItemsOf, Selected
  <2>3. item'[<<s, m>>].status = "queued"
    BY <1>2, <1>3, <2>2
  <2>4. OutcomeIn(item', r) = "open"
    BY <2>2, <2>3, BothConsistent, RowTells DEF View
  <2> QED
    BY <2>4, BothConsistent
<1>8. ASSUME NEW r \in Requests, ~(r[1] = s /\ r[2] \in opened) PROVE (OutcomeOf(r))' = OutcomeOf(r)
  <2>1. \A i \in ItemsOf(r[1], r[2]) : item'[i] = item[i]
    BY <1>2, <1>8 DEF ItemsOf, Requests
  <2>2. OutcomeIn(item', r) = OutcomeIn(item, r)
    BY <2>1, BothConsistent, SameView
  <2> QED
    BY <2>2, BothConsistent
<1>9. Flagged' = Flagged
  BY BothConsistent DEF Admit, Flagged, Requests
<1>10. Reviewed' = [r \in Requests |-> IF r[1] = s /\ r[2] \in opened THEN "open" ELSE Reviewed[r]]
  BY <1>7, <1>8 DEF Reviewed, Requests
<1> HIDE DEF s, opened
<1>11. Outcome!Request(s)
  BY <1>5, <1>6, <1>9, <1>10 DEF Outcome!Request, Outcome!Requests, Reviewed, Flagged, Requests, Screenings
<1> QED
  BY <1>1, <1>11

LEMMA RetryMaps ==
    ASSUME Both, NEW u \in Users, NEW s \in Screenings, Retry(u, s)
    PROVE  Outcome!Reopen(s)
<1> DEFINE failed == {r \in Requests : ItemsOf(r[1], r[2]) \cap Retriable(s) # {}}
<1>1. \A i \in Items : item'[i] = IF i \in Retriable(s) THEN Requeued(item[i], u) ELSE item[i]
  BY DEF Retry
<1>2. \A i \in Items : Requeued(item[i], u).status = "queued"
  BY ItemFields DEF Requeued, ItemRow, Both
<1>3. \A i \in Retriable(s) : i \in Items /\ item[i].status = "error" /\ i[1] = s
  BY DEF Retriable
<1>4. ASSUME NEW r \in failed
      PROVE  r[1] = s /\ OutcomeOf(r) = "error" /\ (OutcomeOf(r))' = "open"
  <2>1. PICK i \in Retriable(s) : i \in ItemsOf(r[1], r[2])
    OBVIOUS
  <2>2. r[1] = s /\ item[i].status = "error" /\ item'[i].status = "queued"
    BY <1>1, <1>2, <1>3, <2>1 DEF ItemsOf
  <2>3. OutcomeIn(item, r) = "error"
    BY <2>1, <2>2, BothConsistent, RowTells DEF View
  <2>4. OutcomeIn(item', r) = "open"
    BY <2>1, <2>2, BothConsistent, RowTells DEF View
  <2> QED
    BY <2>2, <2>3, <2>4, BothConsistent
<1>5. ASSUME NEW r \in Requests \ failed PROVE (OutcomeOf(r))' = OutcomeOf(r)
  <2>1. \A i \in ItemsOf(r[1], r[2]) : item'[i] = item[i]
    BY <1>1 DEF ItemsOf
  <2>2. OutcomeIn(item', r) = OutcomeIn(item, r)
    BY <2>1, BothConsistent, SameView
  <2> QED
    BY <2>2, BothConsistent
<1>6. failed # {}
  <2>1. PICK i \in Retriable(s) : TRUE
    BY DEF Retry
  <2>2. <<s, ChatOf[i[2]]>> \in Requests /\ i \in ItemsOf(s, ChatOf[i[2]])
    BY <1>3, ItemFields DEF Requests, ItemsOf, Both
  <2> QED
    BY <2>2
<1>7. Flagged' = Flagged
  BY BothConsistent DEF Retry, Flagged, Requests
<1>8. Reviewed' = [r \in Requests |-> IF r \in failed THEN "open" ELSE Reviewed[r]]
  BY <1>4, <1>5 DEF Reviewed, Requests
<1>9. failed \in SUBSET {r \in Requests : r[1] = s /\ Reviewed[r] = "error"}
  BY <1>4 DEF Reviewed
<1> HIDE DEF failed
<1> QED
  BY <1>6, <1>7, <1>8, <1>9 DEF Outcome!Reopen, Outcome!Requests, Reviewed, Flagged, Requests, Screenings

LEMMA DeleteMaps ==
    ASSUME Both, NEW c \in Chats, DeleteChat(c)
    PROVE  Outcome!Delete(c)
<1>1. \A i \in Items : item'[i] = IF ChatOf[i[2]] = c /\ item[i].status # "none"
                                  THEN Tombstone(item[i]) ELSE item[i]
  BY DEF DeleteChat
<1>2. \A i \in Items : Tombstone(item[i]).status = "deleted"
  BY ItemFields DEF Tombstone, ItemRow, Both
<1>3. \A i \in Items : findings'[i] = IF ChatOf[i[2]] = c THEN 0 ELSE findings[i]
  BY DEF DeleteChat
<1>4. ASSUME NEW r \in Requests, r[2] = c, OutcomeOf(r) # "none" PROVE (OutcomeOf(r))' = "deleted"
  <2>1. OutcomeIn(item, r) # "none"
    BY <1>4, BothConsistent
  <2>2. PICK i \in ItemsOf(r[1], r[2]) : item[i].status # "none"
    BY <2>1, NoRowTells
  <2>3. item'[i].status = "deleted"
    BY <1>1, <1>2, <1>4, <2>2 DEF ItemsOf
  <2>4. OutcomeIn(item', r) = "deleted"
    BY <2>2, <2>3, BothConsistent, RowTells DEF View
  <2> QED
    BY <2>4, BothConsistent
<1>5. ASSUME NEW r \in Requests, ~(r[2] = c /\ OutcomeOf(r) # "none") PROVE (OutcomeOf(r))' = OutcomeOf(r)
  <2>1. r[2] = c => \A i \in ItemsOf(r[1], r[2]) : item[i].status = "none"
    BY <1>5, BothConsistent, NoneMeansNoRow
  <2>2. \A i \in ItemsOf(r[1], r[2]) : item'[i] = item[i]
    BY <1>1, <2>1 DEF ItemsOf
  <2>3. OutcomeIn(item', r) = OutcomeIn(item, r)
    BY <2>2, BothConsistent, SameView
  <2> QED
    BY <2>3, BothConsistent
<1>6. ASSUME NEW r \in Requests PROVE (FoundBy(r))' = IF r[2] = c THEN {} ELSE FoundBy(r)
  <2>1. CASE r[2] = c
    <3>1. \A i \in ItemsOf(r[1], r[2]) : findings'[i] = 0
      BY <1>3, <2>1 DEF ItemsOf
    <3>2. FoundIn(findings', r) = {}
      BY <3>1 DEF FoundIn
    <3> QED
      BY <2>1, <3>2, BothConsistent
  <2>2. CASE r[2] # c
    <3>1. \A i \in ItemsOf(r[1], r[2]) : findings'[i] = findings[i]
      BY <1>3, <2>2 DEF ItemsOf
    <3> QED
      BY <2>2, <3>1, SameFound, BothConsistent
  <2> QED
    BY <2>1, <2>2
<1>7. Reviewed' = [r \in Requests |-> IF r[2] = c /\ Reviewed[r] # "none" THEN "deleted" ELSE Reviewed[r]]
  BY <1>4, <1>5 DEF Reviewed, Requests
<1>8. Flagged' = [r \in Requests |-> IF r[2] = c THEN {} ELSE Flagged[r]]
  BY <1>6 DEF Flagged, Requests
<1> QED
  BY <1>7, <1>8 DEF Outcome!Delete, Outcome!Requests, Reviewed, Flagged, Requests, Screenings

-----------------------------------------------------------------------------
(* One lemma for each action of a worker that writes the tables. *)
LEMMA ClaimIsOfRequest ==
    ASSUME TypeOK, NEW w \in Workers, NEW i \in ItemsOf(worker[w].s, worker[w].c)
    PROVE  <<worker[w].s, worker[w].c>> \in Requests
  BY ItemFields DEF ItemsOf, Requests

LEMMA FailMaps ==
    ASSUME Both, NEW w \in Workers, NEW code, item' = FailClaimed(w, code), findings' = findings
    PROVE  Stutters \/ \E r \in Requests : Outcome!GiveUp(r)
<1> DEFINE r == <<worker[w].s, worker[w].c>>
<1>1. \A i \in Items : item'[i] = IF i \in Claimed(w) THEN Failed(item[i], code) ELSE item[i]
  BY DEF FailClaimed
<1>2. \A i \in Items : Failed(item[i], code).status = "error"
  BY ItemFields DEF Failed, ItemRow, Both
<1>3. /\ Claimed(w) \in SUBSET ItemsOf(r[1], r[2])
      /\ \A i \in Claimed(w) : i \in Items /\ item[i].status = "running"
  BY ClaimedSet DEF Claimed
<1>4. CASE Claimed(w) = {}
  BY <1>1, <1>4, StutterStep
<1>5. CASE Claimed(w) # {}
  <2>1. r \in Requests
    BY <1>3, <1>5, ClaimIsOfRequest DEF Both
  <2>2. \A i \in Claimed(w) : item[i].status \in {"queued", "running"} /\ item'[i].status = "error"
    BY <1>1, <1>2, <1>3
  <2>3. \A i \in Items \ Claimed(w) : item'[i] = item[i]
    BY <1>1
  <2> HIDE DEF r
  <2>4. Outcome!GiveUp(r)
    BY <1>3, <1>5, <2>1, <2>2, <2>3, GiveUpStep
  <2> QED
    BY <2>1, <2>4
<1> QED
  BY <1>4, <1>5

LEMMA FinishMaps ==
    ASSUME Both, NEW w \in Workers, FinishEffect(w)
    PROVE  Stutters \/ \E r \in Requests : Outcome!GiveUp(r) \/ Outcome!Conclude(r)
<1> DEFINE r == <<worker[w].s, worker[w].c>>
           hash == worker[w].seen
<1>1. CASE UNCHANGED <<item, findings>>
  BY <1>1, StutterStep
<1>2. CASE \E code : item' = FailClaimed(w, code) /\ UNCHANGED findings
  BY <1>2, FailMaps
<1>3. CASE /\ Claimed(w) # {}
           /\ item' = [i \in Items |-> IF i \in Claimed(w) THEN Screened(item[i], hash)
                                       ELSE item[i]]
           /\ findings' = [i \in Items |-> IF i \in Claimed(w) /\ i[2] \in worker[w].flags
                                           THEN findings[i] + 1 ELSE findings[i]]
  <2>1. \A i \in Items : item'[i] = IF i \in Claimed(w) THEN Screened(item[i], hash) ELSE item[i]
    BY <1>3
  <2>2. \A i \in Items : Screened(item[i], hash).status = "screened"
    BY ItemFields DEF Screened, ItemRow, Both
  <2>3. /\ Claimed(w) \in SUBSET ItemsOf(r[1], r[2])
        /\ \A i \in Claimed(w) : i \in Items /\ item[i].status = "running"
    BY ClaimedSet DEF Claimed
  <2>4. r \in Requests
    BY <1>3, <2>3, ClaimIsOfRequest DEF Both
  <2>5. \A i \in Claimed(w) : item[i].status \in {"queued", "running"} /\ item'[i].status = "screened"
    BY <2>1, <2>2, <2>3
  <2>6. \A i \in Items \ Claimed(w) : item'[i] = item[i] /\ findings'[i] = findings[i]
    BY <1>3, <2>1
  <2> HIDE DEF r
  <2>7. Outcome!Conclude(r)
    BY <1>3, <2>3, <2>4, <2>5, <2>6, ConcludeStep
  <2> QED
    BY <2>4, <2>7
<1> QED
  BY <1>1, <1>2, <1>3 DEF FinishEffect

LEMMA ClaimTakeMaps ==
    ASSUME Both, NEW w \in Workers, ClaimTake(w)
    PROVE  Stutters \/ \E r \in Requests : Outcome!GiveUp(r)
<1> DEFINE r == <<worker[w].s, worker[w].c>>
           its == Open(worker[w].s, worker[w].c)
<1>1. findings' = findings
  BY DEF ClaimTake
<1>2. /\ its \in SUBSET ItemsOf(r[1], r[2])
      /\ \A i \in its : i \in Items /\ item[i].status \in {"queued", "running"}
  BY OpenSet DEF Open
<1>3. CASE item' = item
  BY <1>1, <1>3, StutterStep
<1>4. CASE its # {} /\ item' = [i \in Items |-> IF i \in its THEN Interrupted(item[i]) ELSE item[i]]
  <2>1. \A i \in Items : item'[i] = IF i \in its THEN Interrupted(item[i]) ELSE item[i]
    BY <1>4
  <2>2. \A i \in Items : Interrupted(item[i]).status = "error"
    BY ItemFields DEF Interrupted, ItemRow, Both
  <2>3. r \in Requests
    BY <1>2, <1>4, ClaimIsOfRequest DEF Both
  <2>4. \A i \in its : item[i].status \in {"queued", "running"} /\ item'[i].status = "error"
    BY <1>2, <2>1, <2>2
  <2>5. \A i \in Items \ its : item'[i] = item[i]
    BY <2>1
  <2> HIDE DEF r, its
  <2>6. Outcome!GiveUp(r)
    BY <1>1, <1>2, <1>4, <2>3, <2>4, <2>5, GiveUpStep
  <2> QED
    BY <2>3, <2>6
<1>5. ASSUME NEW t, item' = [i \in Items |-> IF i \in its THEN Leased(item[i], t) ELSE item[i]]
      PROVE  Stutters
  <2>1. \A i \in Items : item'[i] = IF i \in its THEN Leased(item[i], t) ELSE item[i]
    BY <1>5
  <2>2. \A i \in Items : Leased(item[i], t).status = "running"
    BY ItemFields DEF Leased, ItemRow, Both
  <2>3. \A i \in Items : View(item'[i].status) = View(item[i].status)
    BY <1>2, <2>1, <2>2 DEF View
  <2> QED
    BY <1>1, <2>3, StutterStep
<1> QED
  BY <1>3, <1>4, <1>5 DEF ClaimTake, ClaimItems, TakenOver

(* A renewed or expired lease changes no status. *)
LEMMA LeaseMaps ==
    ASSUME Both, NEW S, NEW b \in BOOLEAN, findings' = findings,
           item' = [i \in Items |-> IF i \in S THEN [item[i] EXCEPT !.live = b] ELSE item[i]]
    PROVE  Stutters
<1>1. \A i \in Items : [item[i] EXCEPT !.live = b].status = item[i].status
  BY ItemFields DEF ItemRow, Both
<1>2. \A i \in Items : item'[i].status = item[i].status
  BY <1>1
<1> QED
  BY <1>2, StutterStep

-----------------------------------------------------------------------------
LEMMA StepMaps ==
    ASSUME TypeOK, QueueInv, [Next]_vars
    PROVE  Stutters \/ Outcome!Next
<1>0. Both
  BY TypeStep, InvStep DEF Both
<1>1. ASSUME UNCHANGED <<item, findings>> PROVE Stutters
  BY <1>0, <1>1, StutterStep
<1>2. ASSUME NEW c \in Chats, DeleteChat(c) PROVE Outcome!Next
  BY <1>0, <1>2, DeleteMaps DEF Outcome!Next
<1>3. ASSUME NEW u \in Users, Admit(u) PROVE Outcome!Next
  BY <1>0, <1>3, AdmitMaps DEF Outcome!Next, Screenings
<1>4. ASSUME NEW u \in Users, NEW s \in Screenings, Retry(u, s) PROVE Outcome!Next
  BY <1>0, <1>4, RetryMaps DEF Outcome!Next, Screenings
<1>5. Requests = Outcome!Requests
  BY DEF Requests, Outcome!Requests, Screenings
<1>6. ASSUME NEW w \in Workers, ClaimTake(w) PROVE Stutters \/ Outcome!Next
  BY <1>0, <1>5, <1>6, ClaimTakeMaps DEF Outcome!Next
<1>7. ASSUME NEW w \in Workers, Finish(w) \/ FinishRaises(w) PROVE Stutters \/ Outcome!Next
  <2>1. FinishEffect(w) \/ UNCHANGED <<item, findings>>
    BY <1>7 DEF Finish, FinishRaises
  <2> QED
    BY <1>0, <1>1, <1>5, <2>1, FinishMaps DEF Outcome!Next
<1>8. ASSUME NEW w \in Workers, Fail(w) PROVE Stutters \/ Outcome!Next
  <2>1. item' = FailClaimed(w, worker[w].code) /\ findings' = findings
    BY <1>8 DEF Fail
  <2> QED
    BY <1>0, <1>5, <2>1, FailMaps DEF Outcome!Next
<1>9. ASSUME NEW w \in Workers, Heartbeat(w) PROVE Stutters
  BY <1>0, <1>9, LeaseMaps DEF Heartbeat
<1>10. ASSUME NEW s \in Screenings, NEW c \in Chats, LeaseExpires(s, c) PROVE Stutters
  BY <1>0, <1>10, LeaseMaps DEF LeaseExpires
<1>11. Scheduler \in Users
  BY ScreeningConstants DEF ScreeningConstants
<1>12. ASSUME AdmitDaily PROVE Stutters \/ Outcome!Next
  BY <1>1, <1>3, <1>11, <1>12 DEF AdmitDaily
<1> QED
  BY <1>1, <1>2, <1>3, <1>4, <1>6, <1>7, <1>8, <1>9, <1>10, <1>12
     DEF Next, Work, vars, CommitMessage, ChangeAccess, StartScreening, Deploy,
         ClaimSelect, Prepare, ScreenReturns, ScreenRaises, HeartbeatLost, Crash

(* The queue implements the reviewer's view of it, for every number of      *)
(* screenings, chats, messages, workers and tokens: however claims are      *)
(* taken over, fail, are retried or lose their chat, no step does more to   *)
(* the outcomes and findings than one step of ScreeningOutcome.             *)
THEOREM QueueImplementsOutcome == Spec => ImplementsOutcome
<1>1. Init => Outcome!Init
  BY InitMaps
<1>2. TypeOK /\ QueueInv /\ [Next]_vars => [Outcome!Next]_(Outcome!outcomeVars)
  <2> SUFFICES ASSUME TypeOK, QueueInv, [Next]_vars
               PROVE  Outcome!Next \/ Outcome!outcomeVars' = Outcome!outcomeVars
    OBVIOUS
  <2>1. Stutters => Outcome!outcomeVars' = Outcome!outcomeVars
    BY DEF Stutters, Outcome!outcomeVars, Reviewed, Flagged, Requests
  <2> QED
    BY <2>1, StepMaps
<1> QED
  BY <1>1, <1>2, TypeCorrect, InvCorrect, PTL DEF Spec, ImplementsOutcome, Outcome!Spec
=============================================================================
