------------------------ MODULE ScreeningQueue_proofs ------------------------
(***************************************************************************)
(* Proofs about ScreeningQueue, for every value of its constants: first    *)
(* the types of the rows and of what workers remember, then the safety     *)
(* invariant, and with it what one step may do to a row.                   *)
(***************************************************************************)
EXTENDS ScreeningQueue, TLAPS

USE ScreeningConstants DEF ScreeningConstants, Screenings, Uncommitted

LEMMA AttemptRange ==
    /\ MaxAttempts \in Nat
    /\ 0 \in 0..MaxAttempts
    /\ \A n \in 0..MaxAttempts : n < MaxAttempts => n + 1 \in 0..MaxAttempts
  OBVIOUS

LEMMA NewRows == NoItem \in ItemRow /\ \A u \in Users : QueuedFor(u) \in ItemRow
  BY AttemptRange DEF ItemRow, ItemStatus, NoItem, QueuedFor

LEMMA RowUpdates ==
    ASSUME NEW row \in ItemRow
    PROVE  /\ Tombstone(row) \in ItemRow
           /\ Interrupted(row) \in ItemRow
           /\ \A u \in Users : Requeued(row, u) \in ItemRow
           /\ \A t \in Tokens : row.attempts < MaxAttempts => Leased(row, t) \in ItemRow
           /\ \A code \in Codes \cup {None} : Failed(row, code) \in ItemRow
           /\ \A hash \in SUBSET Messages : Screened(row, hash) \in ItemRow
           /\ \A b \in BOOLEAN : [row EXCEPT !.live = b] \in ItemRow
  <1>1. Tombstone(row) \in ItemRow
    BY DEF ItemRow, ItemStatus, Tombstone
  <1>2. Interrupted(row) \in ItemRow
    BY DEF ItemRow, ItemStatus, Interrupted, Codes
  <1>3. \A u \in Users : Requeued(row, u) \in ItemRow
    BY AttemptRange DEF ItemRow, ItemStatus, Requeued
  <1>4. ASSUME NEW t \in Tokens, row.attempts < MaxAttempts PROVE Leased(row, t) \in ItemRow
    BY <1>4, AttemptRange DEF ItemRow, ItemStatus, Leased
  <1>5. \A code \in Codes \cup {None} : Failed(row, code) \in ItemRow
    BY DEF ItemRow, ItemStatus, Failed
  <1>6. \A hash \in SUBSET Messages : Screened(row, hash) \in ItemRow
    BY DEF ItemRow, ItemStatus, Screened
  <1>7. \A b \in BOOLEAN : [row EXCEPT !.live = b] \in ItemRow
    BY DEF ItemRow
  <1> QED BY <1>1, <1>2, <1>3, <1>4, <1>5, <1>6, <1>7

LEMMA IdleTyped == Idle \in WorkerState
  BY DEF Idle, WorkerState, WorkerStep

THEOREM TypeInit == Init => TypeOK
  BY NewRows, IdleTyped DEF Init, TypeOK

(* The rows of S replaced by well-typed rows leave a well-typed table. *)
LEMMA ItemFields ==
    ASSUME TypeOK, NEW i \in Items
    PROVE  /\ item[i] \in ItemRow
           /\ i[1] \in Screenings /\ i[2] \in Messages /\ ChatOf[i[2]] \in Chats
           /\ item[i].attempts \in 0..MaxAttempts
           /\ item[i].code \in Codes \cup {None}
           /\ item[i].token \in Tokens \cup {None}
  BY DEF TypeOK, Items, ItemRow

LEMMA WorkerFields ==
    ASSUME TypeOK, NEW w \in Workers
    PROVE  /\ worker[w] \in WorkerState
           /\ worker[w].targets \subseteq Messages
           /\ worker[w].seen \subseteq Messages
           /\ worker[w].code \in Codes \cup {None}
           /\ worker[w].s \in {0} \cup Screenings
  BY DEF TypeOK, WorkerState

(* The worker's memory after a claim, a preparation and a provider's answer. *)
LEMMA WorkerUpdates ==
    ASSUME NEW row \in WorkerState
    PROVE  /\ \A t \in Tokens : [row EXCEPT !.pc = "claimed", !.token = t] \in WorkerState
           /\ \A S, T \in SUBSET Messages :
                 [row EXCEPT !.pc = "screening", !.targets = S, !.seen = T] \in WorkerState
           /\ \A S \in SUBSET Messages :
                 [row EXCEPT !.pc = "finishing", !.flags = S] \in WorkerState
  <1>1. ASSUME NEW t \in Tokens
        PROVE  [row EXCEPT !.pc = "claimed", !.token = t] \in WorkerState
    BY DEF WorkerState, WorkerStep
  <1>2. ASSUME NEW S \in SUBSET Messages, NEW T \in SUBSET Messages
        PROVE  [row EXCEPT !.pc = "screening", !.targets = S, !.seen = T] \in WorkerState
    BY DEF WorkerState, WorkerStep
  <1>3. ASSUME NEW S \in SUBSET Messages
        PROVE  [row EXCEPT !.pc = "finishing", !.flags = S] \in WorkerState
    BY DEF WorkerState, WorkerStep
  <1> QED BY <1>1, <1>2, <1>3

LEMMA FailingTyped ==
    ASSUME TypeOK, NEW w \in Workers, NEW code \in Codes
    PROVE  Failing(w, code) \in [Workers -> WorkerState]
  <1> DEFINE new == [worker[w] EXCEPT !.pc = "failing", !.code = code, !.targets = {},
                                     !.seen = {}, !.flags = {}]
  <1>1. worker[w] \in WorkerState
    BY WorkerFields
  <1>2. new \in WorkerState
    BY <1>1 DEF WorkerState, WorkerStep
  <1>3. Failing(w, code) = [worker EXCEPT ![w] = new]
    BY DEF Failing, TypeOK
  <1> QED BY <1>2, <1>3 DEF TypeOK

LEMMA FailClaimedTyped ==
    ASSUME TypeOK, NEW w \in Workers, NEW code \in Codes \cup {None}
    PROVE  FailClaimed(w, code) \in [Items -> ItemRow]
  BY RowUpdates, ItemFields DEF FailClaimed

LEMMA FinishTyped ==
    ASSUME TypeOK, NEW w \in Workers, FinishEffect(w)
    PROVE  item' \in [Items -> ItemRow] /\ findings' \in [Items -> Nat]
  <1>0. item \in [Items -> ItemRow] /\ findings \in [Items -> Nat]
    BY DEF TypeOK
  <1>1. CASE UNCHANGED <<item, findings>>
    BY <1>0, <1>1
  <1>2. CASE \E code \in Codes : item' = FailClaimed(w, code) /\ UNCHANGED findings
    BY <1>0, <1>2, FailClaimedTyped
  <1>3. CASE /\ item' = [i \in Items |-> IF i \in Claimed(w) THEN Screened(item[i], worker[w].seen)
                                         ELSE item[i]]
             /\ findings' = [i \in Items |-> IF i \in Claimed(w) /\ i[2] \in worker[w].flags
                                             THEN findings[i] + 1 ELSE findings[i]]
    BY <1>0, <1>3, RowUpdates, ItemFields, WorkerFields
  <1> QED BY <1>1, <1>2, <1>3 DEF FinishEffect, Codes

THEOREM TypeStep == TypeOK /\ [Next]_vars => TypeOK'
  <1> SUFFICES ASSUME TypeOK, [Next]_vars PROVE TypeOK'
    OBVIOUS
  <1> USE DEF TypeOK
  <1>1. ASSUME NEW m \in Messages, CommitMessage(m) PROVE TypeOK'
    BY <1>1 DEF CommitMessage
  <1>2. ASSUME NEW c \in Chats, DeleteChat(c) PROVE TypeOK'
    BY <1>2, RowUpdates, ItemFields DEF DeleteChat
  <1>3. ASSUME NEW u \in Users, ChangeAccess(u) PROVE TypeOK'
    BY <1>3 DEF ChangeAccess
  <1>4. ASSUME NEW u \in Users, Admit(u) PROVE TypeOK'
    BY <1>4, NewRows, ItemFields DEF Admit
  <1>5. ASSUME AdmitDaily PROVE TypeOK'
    BY <1>4, <1>5 DEF AdmitDaily
  <1>6. ASSUME Deploy PROVE TypeOK'
    BY <1>6, IdleTyped DEF Deploy
  <1>7. ASSUME NEW u \in Users, NEW s \in Screenings, Retry(u, s) PROVE TypeOK'
    BY <1>7, RowUpdates, ItemFields DEF Retry
  <1>8. ASSUME NEW w \in Workers, ClaimSelect(w) PROVE TypeOK'
    <2>1. PICK i \in Oldest : worker' = [worker EXCEPT ![w] =
                  [Idle EXCEPT !.pc = "claiming", !.s = i[1], !.c = ChatOf[i[2]]]]
      BY <1>8 DEF ClaimSelect
    <2>2. i[1] \in Screenings /\ ChatOf[i[2]] \in Chats
      BY ItemFields DEF Oldest, Claimables
    <2>3. [Idle EXCEPT !.pc = "claiming", !.s = i[1], !.c = ChatOf[i[2]]] \in WorkerState
      BY <2>2 DEF Idle, WorkerState, WorkerStep
    <2> QED BY <1>8, <2>1, <2>3 DEF ClaimSelect
  <1>9. ASSUME NEW w \in Workers, ClaimTake(w) PROVE TypeOK'
    <2> DEFINE its == Open(worker[w].s, worker[w].c)
    <2>1. CASE TakenOver(its) /\ worker' = [worker EXCEPT ![w] = Idle] /\ UNCHANGED item
      BY <1>9, <2>1, IdleTyped DEF ClaimTake
    <2>2. CASE ClaimItems(w, its)
      <3>1. CASE /\ item' = [i \in Items |-> IF i \in its THEN Interrupted(item[i]) ELSE item[i]]
                 /\ worker' = [worker EXCEPT ![w] = Idle]
        BY <1>9, <3>1, RowUpdates, ItemFields, IdleTyped DEF ClaimTake
      <3>2. ASSUME NEW t \in Tokens \ UsedTokens, ~\E i \in its : item[i].attempts >= MaxAttempts,
                   item' = [i \in Items |-> IF i \in its THEN Leased(item[i], t) ELSE item[i]],
                   worker' = [worker EXCEPT ![w].pc = "claimed", ![w].token = t]
            PROVE  TypeOK'
        <4>1. \A i \in its : i \in Items /\ item[i].attempts < MaxAttempts
          BY <3>2, ItemFields, AttemptRange DEF Open, ItemsOf
        <4>2. item' \in [Items -> ItemRow]
          BY <3>2, <4>1, RowUpdates, ItemFields
        <4>3. worker' = [worker EXCEPT ![w] = [worker[w] EXCEPT !.pc = "claimed", !.token = t]]
          BY <3>2
        <4>4. [worker[w] EXCEPT !.pc = "claimed", !.token = t] \in WorkerState
          BY WorkerFields, WorkerUpdates
        <4> QED BY <1>9, <4>2, <4>3, <4>4 DEF ClaimTake
      <3> QED BY <2>2, <3>1, <3>2 DEF ClaimItems
    <2> QED BY <1>9, <2>1, <2>2 DEF ClaimTake
  <1>10. ASSUME NEW w \in Workers, Prepare(w) PROVE TypeOK'
    <2>1. CASE worker' = [worker EXCEPT ![w] = Idle]
      BY <1>10, <2>1, IdleTyped DEF Prepare
    <2>2. CASE worker' = Failing(w, PrepareFailure(w)) /\ PrepareFailure(w) # None
      BY <1>10, <2>2, FailingTyped DEF Prepare, PrepareFailure, Codes
    <2>3. CASE worker' = [worker EXCEPT ![w].pc = "screening",
                             ![w].targets = {i[2] : i \in Claimed(w)},
                             ![w].seen = Transcript(worker[w].s, worker[w].c)]
      <3> DEFINE new == [worker[w] EXCEPT !.pc = "screening",
                             !.targets = {i[2] : i \in Claimed(w)},
                             !.seen = Transcript(worker[w].s, worker[w].c)]
      <3>1. {i[2] : i \in Claimed(w)} \subseteq Messages
        BY ItemFields DEF Claimed, ItemsOf
      <3>2. Transcript(worker[w].s, worker[w].c) \subseteq Messages
        BY DEF Transcript
      <3>3. new \in WorkerState
        BY <3>1, <3>2, WorkerFields, WorkerUpdates
      <3>4. worker' = [worker EXCEPT ![w] = new]
        BY <2>3
      <3> QED BY <1>10, <3>3, <3>4 DEF Prepare
    <2> QED BY <1>10, <2>1, <2>2, <2>3 DEF Prepare
  <1>11. ASSUME NEW w \in Workers, ScreenReturns(w) PROVE TypeOK'
    <2>1. PICK flags \in SUBSET worker[w].targets :
             worker' = [worker EXCEPT ![w].pc = "finishing", ![w].flags = flags]
      BY <1>11 DEF ScreenReturns
    <2>2. flags \in SUBSET Messages
      BY WorkerFields
    <2>3. [worker[w] EXCEPT !.pc = "finishing", !.flags = flags] \in WorkerState
      BY <2>2, WorkerFields, WorkerUpdates
    <2>4. worker' = [worker EXCEPT ![w] = [worker[w] EXCEPT !.pc = "finishing", !.flags = flags]]
      BY <2>1
    <2> QED BY <1>11, <2>3, <2>4 DEF ScreenReturns
  <1>12. ASSUME NEW w \in Workers, ScreenRaises(w) PROVE TypeOK'
    BY <1>12, FailingTyped DEF ScreenRaises
  <1>13. ASSUME NEW w \in Workers, Heartbeat(w) PROVE TypeOK'
    BY <1>13, RowUpdates, ItemFields DEF Heartbeat
  <1>14. ASSUME NEW w \in Workers, HeartbeatLost(w) \/ Crash(w) PROVE TypeOK'
    BY <1>14, IdleTyped DEF HeartbeatLost, Crash
  <1>15. ASSUME NEW w \in Workers, Finish(w) PROVE TypeOK'
    BY <1>15, FinishTyped, IdleTyped DEF Finish
  <1>16. ASSUME NEW w \in Workers, FinishRaises(w) PROVE TypeOK'
    BY <1>16, FinishTyped, FailingTyped DEF FinishRaises, Codes
  <1>17. ASSUME NEW w \in Workers, Fail(w) PROVE TypeOK'
    BY <1>17, FailClaimedTyped, WorkerFields, IdleTyped DEF Fail
  <1>18. ASSUME NEW s \in Screenings, NEW c \in Chats, LeaseExpires(s, c) PROVE TypeOK'
    BY <1>18, RowUpdates, ItemFields DEF LeaseExpires
  <1>19. CASE UNCHANGED vars
    BY <1>19 DEF vars
  <1> QED
    BY <1>1, <1>2, <1>3, <1>4, <1>5, <1>6, <1>7, <1>8, <1>9, <1>10, <1>11, <1>12, <1>13,
       <1>14, <1>15, <1>16, <1>17, <1>18, <1>19 DEF Next, Work, StartScreening

THEOREM TypeCorrect == Spec => []TypeOK
  BY TypeInit, TypeStep, PTL DEF Spec

-----------------------------------------------------------------------------
(* The safety invariant                                                    *)

HIDE DEF Uncommitted

LEMMA InitInv == Init => QueueInv
  BY IdleTyped DEF Init, QueueInv, ChatsNotSplit, TokensFence, FindingsOnce, ScreenedWhole,
     NotYetAdmitted, LiveRuns, ReadWhole, NoItem, Idle, Items

(* The four ways in which a step leaves a part of the invariant alone. *)

LEMMA NotSplitStep ==
    ASSUME ChatsNotSplit, NEW S \in SUBSET Items,
           \A i, j \in Items : SameChat(i, j) /\ item[i].status # "none" /\ item[j].status # "none"
                                  => (i \in S <=> j \in S),
           \A i \in Items : item[i].status = "none" => item'[i].status = "none",
           \A i \in Items \ S : item'[i] = item[i],
           \A i, j \in S : item[i] = item[j] => item'[i] = item'[j]
    PROVE  ChatsNotSplit'
  BY DEF ChatsNotSplit, SameChat

LEMMA FenceStep ==
    ASSUME TokensFence,
           \A i \in Items : item'[i].token \in {item[i].token, None},
           \A i \in Items : (item'[i].token # None) <=> (item'[i].status = "running"),
           \A w \in Workers : \/ worker'[w].token = None
                              \/ /\ worker'[w].token = worker[w].token
                                 /\ worker'[w].s = worker[w].s /\ worker'[w].c = worker[w].c
    PROVE  TokensFence'
  BY DEF TokensFence, SameChat, ItemsOf

LEMMA VerdictStep ==
    ASSUME FindingsOnce, ScreenedWhole, findings' = findings,
           \A i \in Items : item[i].status = "screened" => item'[i] = item[i],
           \A i \in Items : item'[i].status = "screened" => item[i].status = "screened"
    PROVE  FindingsOnce' /\ ScreenedWhole'
  <1>1. FindingsOnce'
    BY DEF FindingsOnce
  <1>2. ASSUME NEW i \in Items, item'[i].status = "screened"
        PROVE  item'[i].hash = {j[2] : j \in {k \in Items : SameChat(i, k) /\ item'[k].status = "screened"}}
    <2>1. {k \in Items : SameChat(i, k) /\ item'[k].status = "screened"}
            = {k \in Items : SameChat(i, k) /\ item[k].status = "screened"}
      OBVIOUS
    <2>2. item'[i].hash = item[i].hash /\ item[i].status = "screened"
      BY <1>2
    <2> QED BY <2>1, <2>2 DEF ScreenedWhole
  <1>3. ScreenedWhole'
    BY <1>2 DEF ScreenedWhole, SameChat
  <1> QED BY <1>1, <1>3

LEMMA ReadStep ==
    ASSUME ReadWhole,
           \A w \in Workers : \/ worker'[w].pc \notin {"screening", "finishing"}
                              \/ worker'[w].targets = worker'[w].seen
                              \/ /\ worker[w].pc \in {"screening", "finishing"}
                                 /\ worker'[w].targets = worker[w].targets
                                 /\ worker'[w].seen = worker[w].seen
    PROVE  ReadWhole'
  BY DEF ReadWhole

(* Sets of items that one transaction writes together. *)
LEMMA SharedStatus ==
    ASSUME TypeOK, ChatsNotSplit, NEW i \in Items, NEW j \in Items, SameChat(i, j),
           item[i].status # "none", item[j].status # "none"
    PROVE  item[i] = item[j]
  BY DEF ChatsNotSplit

LEMMA ClaimedSet ==
    ASSUME NEW w \in Workers
    PROVE  /\ Claimed(w) \in SUBSET Items
           /\ \A i \in Claimed(w) : item[i].status = "running" /\ item[i].token = worker[w].token
           /\ \A i, j \in Claimed(w) : SameChat(i, j)
           /\ \A i \in Claimed(w), j \in Items : SameChat(i, j) /\ item[j] = item[i] => j \in Claimed(w)
  BY DEF Claimed, ItemsOf, SameChat

LEMMA OpenSet ==
    ASSUME NEW s, NEW c
    PROVE  /\ Open(s, c) \in SUBSET Items
           /\ \A i \in Open(s, c) : item[i].status \in {"queued", "running"}
           /\ \A i, j \in Open(s, c) : SameChat(i, j)
           /\ \A i \in Open(s, c), j \in Items : SameChat(i, j) /\ item[j] = item[i] => j \in Open(s, c)
  BY DEF Open, ItemsOf, SameChat

(* Steps that leave the tables alone. *)
LEMMA MemoryStep ==
    ASSUME TypeOK, QueueInv, UNCHANGED <<admitted, item, findings>>,
           \A v \in Workers : \/ worker'[v].token = None
                              \/ /\ worker'[v].token = worker[v].token
                                 /\ worker'[v].s = worker[v].s /\ worker'[v].c = worker[v].c,
           \A v \in Workers : \/ worker'[v].pc \notin {"screening", "finishing"}
                              \/ worker'[v].targets = worker'[v].seen
                              \/ /\ worker[v].pc \in {"screening", "finishing"}
                                 /\ worker'[v].targets = worker[v].targets
                                 /\ worker'[v].seen = worker[v].seen
    PROVE  QueueInv'
  <1>1. ReadWhole'
    BY ReadStep DEF QueueInv
  <1>2. TokensFence'
    BY DEF QueueInv, TokensFence, SameChat, ItemsOf
  <1>3. ChatsNotSplit' /\ FindingsOnce' /\ ScreenedWhole' /\ NotYetAdmitted' /\ LiveRuns'
    BY DEF QueueInv, ChatsNotSplit, FindingsOnce, ScreenedWhole, NotYetAdmitted, LiveRuns,
           SameChat, Items
  <1> QED BY <1>1, <1>2, <1>3 DEF QueueInv

LEMMA IdleStep ==
    ASSUME TypeOK, QueueInv, NEW w \in Workers, UNCHANGED <<admitted, item, findings>>,
           worker' = [worker EXCEPT ![w] = Idle]
    PROVE  QueueInv'
  BY MemoryStep DEF Idle, TypeOK

LEMMA FailingStep ==
    ASSUME TypeOK, NEW w \in Workers, NEW code, worker' = Failing(w, code)
    PROVE  \A v \in Workers : /\ worker'[v].token = worker[v].token
                              /\ worker'[v].s = worker[v].s /\ worker'[v].c = worker[v].c
                              /\ worker'[v].pc = "failing" \/ worker'[v] = worker[v]
  <1>1. \A v \in Workers : v # w => worker'[v] = worker[v]
    BY DEF Failing, TypeOK
  <1>2. worker'[w] = [worker[w] EXCEPT !.pc = "failing", !.code = code, !.targets = {},
                                       !.seen = {}, !.flags = {}]
    BY DEF Failing, TypeOK
  <1>3. /\ worker'[w].token = worker[w].token /\ worker'[w].pc = "failing"
        /\ worker'[w].s = worker[w].s /\ worker'[w].c = worker[w].c
    BY <1>2, WorkerFields DEF WorkerState
  <1> QED BY <1>1, <1>3

(* A transaction of a claim: it writes items S, all of one chat and alike, and *)
(* gives none of them a token or a verdict. *)
LEMMA RowsStep ==
    ASSUME TypeOK, QueueInv, NEW S \in SUBSET Items,
           \A i \in Items \ S : item'[i] = item[i],
           \A i, j \in S : item[i] = item[j] => item'[i] = item'[j],
           \A i, j \in Items : SameChat(i, j) /\ item[i] = item[j] => (i \in S <=> j \in S),
           \A i \in S : /\ item[i].status \notin {"none", "screened"}
                        /\ item'[i].status \notin {"none", "screened"}
                        /\ item'[i].token \in {item[i].token, None}
                        /\ item'[i].token # None <=> item'[i].status = "running"
                        /\ item'[i].live => item'[i].status = "running",
           UNCHANGED <<admitted, findings>>,
           \A v \in Workers : \/ worker'[v].token = None
                              \/ /\ worker'[v].token = worker[v].token
                                 /\ worker'[v].s = worker[v].s /\ worker'[v].c = worker[v].c,
           \A v \in Workers : \/ worker'[v].pc \notin {"screening", "finishing"}
                              \/ worker'[v] = worker[v]
    PROVE  QueueInv'
  <1>1. ChatsNotSplit'
    <2>1. \A i, j \in Items : SameChat(i, j) /\ item[i].status # "none" /\ item[j].status # "none"
                                  => (i \in S <=> j \in S)
      BY SharedStatus DEF QueueInv
    <2>2. \A i \in Items : item[i].status = "none" => item'[i].status = "none"
      OBVIOUS
    <2> QED BY <2>1, <2>2, NotSplitStep DEF QueueInv
  <1>2. TokensFence'
    <2>1. \A i \in Items : (item'[i].token # None) <=> (item'[i].status = "running")
      BY DEF QueueInv, TokensFence
    <2>2. \A i \in Items : item'[i].token \in {item[i].token, None}
      OBVIOUS
    <2> QED BY <2>1, <2>2, FenceStep DEF QueueInv
  <1>3. FindingsOnce' /\ ScreenedWhole'
    <2>1. \A i \in Items : item[i].status = "screened" => item'[i] = item[i]
      OBVIOUS
    <2>2. \A i \in Items : item'[i].status = "screened" => item[i].status = "screened"
      OBVIOUS
    <2> QED BY <2>1, <2>2, VerdictStep DEF QueueInv
  <1>4. NotYetAdmitted'
    <2>1. \A i \in Items \ S : i[1] > admitted => item'[i] = NoItem
      BY DEF QueueInv, NotYetAdmitted
    <2>2. \A i \in S : ~(i[1] > admitted)
      <3>1. NoItem.status = "none"
        BY DEF NoItem
      <3> QED BY <3>1 DEF QueueInv, NotYetAdmitted
    <2> QED BY <2>1, <2>2 DEF NotYetAdmitted, Items
  <1>5. LiveRuns'
    BY DEF QueueInv, LiveRuns
  <1>6. ReadWhole'
    BY DEF QueueInv, ReadWhole
  <1> QED BY <1>1, <1>2, <1>3, <1>4, <1>5, <1>6 DEF QueueInv

(* One lemma for each action that writes the tables. *)
LEMMA AdmitInv ==
    ASSUME TypeOK, QueueInv, NEW u \in Users, Admit(u)
    PROVE  QueueInv'
  <1> DEFINE New == {i \in Items : i[1] = admitted + 1 /\ i[2] \in Selected}
  <1>1. \A i \in Items : item'[i] = IF i \in New THEN QueuedFor(u) ELSE item[i]
    BY DEF Admit
  <1>2. QueuedFor(u).status = "queued" /\ QueuedFor(u).token = None /\ QueuedFor(u).live = FALSE
    BY DEF QueuedFor, NoItem
  <1>3. \A i \in Items : i[1] = admitted + 1 => item[i] = NoItem
    BY DEF QueueInv, NotYetAdmitted, Items, TypeOK
  <1>4. NoItem.status = "none" /\ NoItem.token = None
    BY DEF NoItem
  <1>5. ChatsNotSplit'
    <2> SUFFICES ASSUME NEW i \in Items, NEW j \in Items, SameChat(i, j),
                        item'[i].status # "none", item'[j].status # "none"
                 PROVE  item'[i] = item'[j]
      BY DEF ChatsNotSplit, SameChat
    <2>1. CASE i[1] = admitted + 1
      BY <2>1, <1>1, <1>3, <1>4 DEF SameChat
    <2>2. CASE i[1] # admitted + 1
      BY <2>2, <1>1, SharedStatus DEF SameChat, QueueInv
    <2> QED BY <2>1, <2>2
  <1>6. TokensFence'
    <2>1. \A i \in Items : item'[i].token \in {item[i].token, None}
      BY <1>1, <1>2
    <2>2. \A i \in Items : (item'[i].token # None) <=> (item'[i].status = "running")
      BY <1>1, <1>2 DEF QueueInv, TokensFence
    <2> QED BY <2>1, <2>2, FenceStep DEF QueueInv, Admit
  <1>7. FindingsOnce' /\ ScreenedWhole'
    <2>1. \A i \in Items : item[i].status = "screened" => item'[i] = item[i]
      BY <1>1, <1>3, <1>4
    <2>2. \A i \in Items : item'[i].status = "screened" => item[i].status = "screened"
      BY <1>1, <1>2
    <2> QED BY <2>1, <2>2, VerdictStep DEF QueueInv, Admit
  <1>8. NotYetAdmitted'
    <2>1. admitted' = admitted + 1 /\ admitted \in Nat
      BY DEF Admit, TypeOK
    <2>2. \A i \in Items : i[1] \in Nat
      BY DEF Items
    <2>3. \A i \in Items : i[1] > admitted' => i[1] > admitted /\ i \notin New
      BY <2>1, <2>2
    <2>4. \A i \in Items : i[1] > admitted' => item'[i] = NoItem
      BY <1>1, <2>3 DEF QueueInv, NotYetAdmitted
    <2> QED BY <2>4 DEF NotYetAdmitted, Items
  <1>9. LiveRuns'
    BY <1>1, <1>2 DEF QueueInv, LiveRuns
  <1>10. ReadWhole'
    BY DEF Admit, QueueInv, ReadWhole
  <1> QED BY <1>5, <1>6, <1>7, <1>8, <1>9, <1>10 DEF QueueInv

LEMMA DeleteInv ==
    ASSUME TypeOK, QueueInv, NEW c \in Chats, DeleteChat(c)
    PROVE  QueueInv'
  <1> DEFINE Gone == {i \in Items : ChatOf[i[2]] = c /\ item[i].status # "none"}
  <1>1. \A i \in Items : item'[i] = IF i \in Gone THEN Tombstone(item[i]) ELSE item[i]
    BY DEF DeleteChat
  <1>2. \A i \in Items : Tombstone(item[i]).status = "deleted" /\ Tombstone(item[i]).token = None
                         /\ Tombstone(item[i]).live = FALSE
    BY ItemFields DEF Tombstone, ItemRow
  <1>3. ChatsNotSplit'
    <2>1. \A i, j \in Items : SameChat(i, j) /\ item[i].status # "none" /\ item[j].status # "none"
                                  => (i \in Gone <=> j \in Gone)
      BY DEF SameChat
    <2> QED BY <1>1, <2>1, NotSplitStep DEF QueueInv
  <1>4. TokensFence'
    <2>1. \A i \in Items : item'[i].token \in {item[i].token, None}
      BY <1>1, <1>2
    <2>2. \A i \in Items : (item'[i].token # None) <=> (item'[i].status = "running")
      BY <1>1, <1>2 DEF QueueInv, TokensFence
    <2> QED BY <2>1, <2>2, FenceStep DEF QueueInv, DeleteChat
  <1>5. FindingsOnce'
    BY <1>1 DEF DeleteChat, QueueInv, FindingsOnce
  <1>6. ScreenedWhole'
    <2> SUFFICES ASSUME NEW i \in Items, item'[i].status = "screened"
                 PROVE  item'[i].hash = {j[2] : j \in {k \in Items : SameChat(i, k) /\ item'[k].status = "screened"}}
      BY DEF ScreenedWhole, SameChat
    <2>1. i \notin Gone /\ item[i].status = "screened" /\ ChatOf[i[2]] # c
      BY <1>1, <1>2
    <2>2. \A k \in Items : SameChat(i, k) => item'[k] = item[k]
      BY <1>1, <2>1 DEF SameChat
    <2>3. {k \in Items : SameChat(i, k) /\ item'[k].status = "screened"}
            = {k \in Items : SameChat(i, k) /\ item[k].status = "screened"}
      BY <2>2
    <2> QED BY <1>1, <2>1, <2>3 DEF QueueInv, ScreenedWhole
  <1>7. NotYetAdmitted'
    <2>1. \A i \in Gone : ~(i[1] > admitted)
      <3>1. NoItem.status = "none"
        BY DEF NoItem
      <3> QED BY <3>1 DEF QueueInv, NotYetAdmitted
    <2>2. \A i \in Items : i[1] > admitted => item'[i] = NoItem
      BY <1>1, <2>1 DEF QueueInv, NotYetAdmitted
    <2> QED BY <2>2 DEF NotYetAdmitted, Items, DeleteChat
  <1>8. LiveRuns'
    BY <1>1, <1>2 DEF QueueInv, LiveRuns
  <1>9. ReadWhole'
    BY DEF DeleteChat, QueueInv, ReadWhole
  <1> QED BY <1>3, <1>4, <1>5, <1>6, <1>7, <1>8, <1>9 DEF QueueInv

LEMMA RetryInv ==
    ASSUME TypeOK, QueueInv, NEW u \in Users, NEW s \in Screenings, Retry(u, s)
    PROVE  QueueInv'
  <1>1. \A i \in Items : item'[i] = IF i \in Retriable(s) THEN Requeued(item[i], u) ELSE item[i]
    BY DEF Retry
  <1>2. \A i \in Items : /\ Requeued(item[i], u).status = "queued"
                         /\ Requeued(item[i], u).token = None /\ Requeued(item[i], u).live = FALSE
    BY ItemFields DEF Requeued, ItemRow
  <1>3. /\ Retriable(s) \in SUBSET Items
        /\ \A i \in Retriable(s) : item[i].status = "error"
        /\ \A i, j \in Items : SameChat(i, j) /\ item[i] = item[j]
                                => (i \in Retriable(s) <=> j \in Retriable(s))
    BY DEF Retriable, SameChat
  <1>4. UNCHANGED <<admitted, findings, worker>>
    BY DEF Retry
  <1>5. /\ \A i \in Items \ Retriable(s) : item'[i] = item[i]
        /\ \A i, j \in Retriable(s) : item[i] = item[j] => item'[i] = item'[j]
    BY <1>1, <1>3
  <1> QED BY <1>1, <1>2, <1>3, <1>4, <1>5, RowsStep

LEMMA ClaimSelectInv ==
    ASSUME TypeOK, QueueInv, NEW w \in Workers, ClaimSelect(w)
    PROVE  QueueInv'
  <1>1. PICK i \in Oldest : worker' = [worker EXCEPT ![w] =
                [Idle EXCEPT !.pc = "claiming", !.s = i[1], !.c = ChatOf[i[2]]]]
    BY DEF ClaimSelect
  <1>2. \A v \in Workers : v # w => worker'[v] = worker[v]
    BY <1>1 DEF TypeOK
  <1>3. worker'[w].token = None /\ worker'[w].pc = "claiming"
    BY <1>1 DEF TypeOK, Idle
  <1>4. UNCHANGED <<admitted, item, findings>>
    BY DEF ClaimSelect
  <1> QED BY <1>2, <1>3, <1>4, MemoryStep

LEMMA ClaimTakeInv ==
    ASSUME TypeOK, QueueInv, NEW w \in Workers, ClaimTake(w)
    PROVE  QueueInv'
  <1> DEFINE its == Open(worker[w].s, worker[w].c)
  <1>1. UNCHANGED <<admitted, findings>>
    BY DEF ClaimTake
  <1>2. CASE TakenOver(its) /\ worker' = [worker EXCEPT ![w] = Idle] /\ UNCHANGED item
    BY <1>1, <1>2, IdleStep
  <1>3. \A i, j \in Items : SameChat(i, j) /\ item[i] = item[j] => (i \in its <=> j \in its)
    BY OpenSet DEF SameChat
  <1>4. CASE /\ item' = [i \in Items |-> IF i \in its THEN Interrupted(item[i]) ELSE item[i]]
             /\ worker' = [worker EXCEPT ![w] = Idle]
    <2>1. \A i \in Items : item'[i] = IF i \in its THEN Interrupted(item[i]) ELSE item[i]
      BY <1>4
    <2>2. \A i \in Items : /\ Interrupted(item[i]).status = "error"
                           /\ Interrupted(item[i]).token = None /\ Interrupted(item[i]).live = FALSE
      BY ItemFields DEF Interrupted, ItemRow
    <2>3. \A v \in Workers : worker'[v] = worker[v] \/ worker'[v] = Idle
      BY <1>4 DEF TypeOK
    <2>4. Idle.token = None /\ Idle.pc = "idle"
      BY DEF Idle
    <2>5. /\ its \in SUBSET Items
          /\ \A i \in its : item[i].status \in {"queued", "running"}
          /\ \A i \in Items \ its : item'[i] = item[i]
          /\ \A i, j \in its : item[i] = item[j] => item'[i] = item'[j]
      BY <2>1, OpenSet
    <2> QED BY <1>1, <1>3, <2>1, <2>2, <2>3, <2>4, <2>5, RowsStep
  <1>5. ASSUME NEW t \in Tokens \ UsedTokens,
               item' = [i \in Items |-> IF i \in its THEN Leased(item[i], t) ELSE item[i]],
               worker' = [worker EXCEPT ![w].pc = "claimed", ![w].token = t]
        PROVE  QueueInv'
    <2>1. \A i \in Items : item'[i] = IF i \in its THEN Leased(item[i], t) ELSE item[i]
      BY <1>5
    <2>2. \A i \in Items : Leased(item[i], t).status = "running" /\ Leased(item[i], t).token = t
      BY ItemFields DEF Leased, ItemRow
    <2>3. /\ its \in SUBSET Items
          /\ \A i \in its : item[i].status \in {"queued", "running"}
          /\ \A i \in Items \ its : item'[i] = item[i]
          /\ \A i, j \in its : item[i] = item[j] => item'[i] = item'[j]
          /\ \A i, j \in its : SameChat(i, j)
          /\ its \subseteq ItemsOf(worker[w].s, worker[w].c)
      BY <2>1, OpenSet DEF Open
    <2>4. worker[w] \in WorkerState
      BY WorkerFields
    <2>5. /\ worker'[w].token = t /\ worker'[w].pc = "claimed"
          /\ worker'[w].s = worker[w].s /\ worker'[w].c = worker[w].c
          /\ \A v \in Workers : v # w => worker'[v] = worker[v]
      BY <1>5, <2>4 DEF TypeOK, WorkerState
    <2>6. ChatsNotSplit'
      <3>1. \A i, j \in Items : SameChat(i, j) /\ item[i].status # "none" /\ item[j].status # "none"
                                    => (i \in its <=> j \in its)
        BY <1>3, SharedStatus DEF QueueInv
      <3>2. \A i \in Items : item[i].status = "none" => item'[i].status = "none"
        BY <2>1, <2>3
      <3> QED BY <2>3, <3>1, <3>2, NotSplitStep DEF QueueInv
    <2>7. TokensFence'
      <3>1. t # None /\ \A i \in Items : item[i].token # t
        BY DEF UsedTokens
      <3>2. \A v \in Workers : worker[v].token # t
        BY DEF UsedTokens
      <3>3. \A i \in Items : item'[i].token = t <=> i \in its
        BY <2>1, <2>2, <3>1
      <3>4. \A v \in Workers : worker'[v].token = t <=> v = w
        BY <2>5, <3>2
      <3>5. \A i \in Items : (item'[i].token # None) <=> (item'[i].status = "running")
        BY <2>1, <2>2, <3>1 DEF QueueInv, TokensFence
      <3>6. ASSUME NEW i \in Items, NEW j \in Items, item'[i].token = item'[j].token,
                   item'[i].token # None
            PROVE  SameChat(i, j)
        BY <2>1, <2>3, <3>3, <3>6 DEF QueueInv, TokensFence
      <3>7. ASSUME NEW v \in Workers, NEW i \in Items, worker'[v].token # None,
                   item'[i].token = worker'[v].token
            PROVE  i \in ItemsOf(worker'[v].s, worker'[v].c)
        BY <2>1, <2>3, <2>5, <3>3, <3>4, <3>7 DEF QueueInv, TokensFence
      <3>8. ASSUME NEW u \in Workers, NEW v \in Workers, worker'[u].token = worker'[v].token,
                   worker'[u].token # None
            PROVE  u = v
        BY <2>5, <3>4, <3>8 DEF QueueInv, TokensFence
      <3>9. \A i, j \in Items : SameChat(i, j)' <=> SameChat(i, j)
        BY DEF SameChat
      <3>10. \A v \in Workers : ItemsOf(worker[v].s, worker[v].c)' = ItemsOf(worker'[v].s, worker'[v].c)
        BY DEF ItemsOf, Items
      <3> QED BY <3>5, <3>6, <3>7, <3>8, <3>9, <3>10 DEF TokensFence, Items
    <2>8. FindingsOnce' /\ ScreenedWhole'
      <3>1. \A i \in Items : item[i].status = "screened" => item'[i] = item[i]
        BY <2>3
      <3>2. \A i \in Items : item'[i].status = "screened" => item[i].status = "screened"
        BY <2>1, <2>2
      <3> QED BY <1>1, <3>1, <3>2, VerdictStep DEF QueueInv
    <2>9. NotYetAdmitted'
      <3>1. \A i \in its : ~(i[1] > admitted)
        <4>1. NoItem.status = "none"
          BY DEF NoItem
        <4> QED BY <2>3, <4>1 DEF QueueInv, NotYetAdmitted
      <3>2. \A i \in Items : i[1] > admitted => item'[i] = NoItem
        BY <2>1, <3>1 DEF QueueInv, NotYetAdmitted
      <3> QED BY <1>1, <3>2 DEF NotYetAdmitted, Items
    <2>10. LiveRuns'
      BY <2>1, <2>2 DEF QueueInv, LiveRuns
    <2>11. ReadWhole'
      BY <2>5 DEF QueueInv, ReadWhole
    <2> QED BY <2>6, <2>7, <2>8, <2>9, <2>10, <2>11 DEF QueueInv
  <1> QED BY <1>2, <1>4, <1>5 DEF ClaimTake, ClaimItems

LEMMA PrepareInv ==
    ASSUME TypeOK, QueueInv, NEW w \in Workers, Prepare(w)
    PROVE  QueueInv'
  <1>1. UNCHANGED <<admitted, item, findings>>
    BY DEF Prepare
  <1>2. CASE worker' = [worker EXCEPT ![w] = Idle]
    BY <1>1, <1>2, IdleStep
  <1>3. CASE worker' = Failing(w, PrepareFailure(w))
    BY <1>1, <1>3, FailingStep, MemoryStep
  <1>4. CASE /\ PrepareFailure(w) = None
             /\ worker' = [worker EXCEPT ![w].pc = "screening",
                                         ![w].targets = {i[2] : i \in Claimed(w)},
                                         ![w].seen = Transcript(worker[w].s, worker[w].c)]
    <2>1. {i[2] : i \in Claimed(w)} = Transcript(worker[w].s, worker[w].c)
      BY <1>4 DEF PrepareFailure, Codes
    <2>2. /\ worker'[w].token = worker[w].token /\ worker'[w].s = worker[w].s
          /\ worker'[w].c = worker[w].c
          /\ worker'[w].targets = {i[2] : i \in Claimed(w)}
          /\ worker'[w].seen = Transcript(worker[w].s, worker[w].c)
      <3>1. worker[w] \in WorkerState
        BY WorkerFields
      <3>2. worker'[w] = [worker[w] EXCEPT !.pc = "screening",
                                           !.targets = {i[2] : i \in Claimed(w)},
                                           !.seen = Transcript(worker[w].s, worker[w].c)]
        BY <1>4 DEF TypeOK
      <3> QED BY <3>1, <3>2 DEF WorkerState
    <2>3. \A v \in Workers : v # w => worker'[v] = worker[v]
      BY <1>4 DEF TypeOK
    <2> QED BY <1>1, <2>1, <2>2, <2>3, MemoryStep
  <1> QED BY <1>2, <1>3, <1>4 DEF Prepare

LEMMA ScreenInv ==
    ASSUME TypeOK, QueueInv, NEW w \in Workers, ScreenReturns(w) \/ ScreenRaises(w)
    PROVE  QueueInv'
  <1>1. UNCHANGED <<admitted, item, findings>>
    BY DEF ScreenReturns, ScreenRaises
  <1>2. CASE ScreenReturns(w)
    <2>1. PICK flags : worker' = [worker EXCEPT ![w].pc = "finishing", ![w].flags = flags]
      BY <1>2 DEF ScreenReturns
    <2>2. /\ worker'[w].token = worker[w].token /\ worker'[w].s = worker[w].s
          /\ worker'[w].c = worker[w].c
          /\ worker'[w].targets = worker[w].targets /\ worker'[w].seen = worker[w].seen
      BY <2>1, WorkerFields DEF TypeOK, WorkerState
    <2>3. \A v \in Workers : v # w => worker'[v] = worker[v]
      BY <2>1 DEF TypeOK
    <2>4. worker[w].pc = "screening"
      BY <1>2 DEF ScreenReturns
    <2> QED BY <1>1, <2>2, <2>3, <2>4, MemoryStep
  <1>3. CASE ScreenRaises(w)
    <2>1. PICK code : worker' = Failing(w, code)
      BY <1>3 DEF ScreenRaises
    <2> QED BY <1>1, <2>1, FailingStep, MemoryStep
  <1> QED BY <1>2, <1>3

(* A claim's update: finish_error and the heartbeat. *)
LEMMA ClaimedAlike ==
    ASSUME NEW w \in Workers
    PROVE  \A i, j \in Items : SameChat(i, j) /\ item[i] = item[j]
                                  => (i \in Claimed(w) <=> j \in Claimed(w))
  BY ClaimedSet DEF SameChat

LEMMA FailClaimedInv ==
    ASSUME TypeOK, QueueInv, NEW w \in Workers, NEW code, item' = FailClaimed(w, code),
           UNCHANGED <<admitted, findings>>,
           \A v \in Workers : worker'[v] = worker[v] \/ worker'[v] = Idle
                \/ (/\ worker'[v].token = worker[v].token /\ worker'[v].pc = "failing"
                    /\ worker'[v].s = worker[v].s /\ worker'[v].c = worker[v].c)
    PROVE  QueueInv'
  <1>1. \A i \in Items : item'[i] = IF i \in Claimed(w) THEN Failed(item[i], code) ELSE item[i]
    BY DEF FailClaimed
  <1>2. \A i \in Items : /\ Failed(item[i], code).status = "error"
                         /\ Failed(item[i], code).token = None /\ Failed(item[i], code).live = FALSE
    BY ItemFields DEF Failed, ItemRow
  <1>3. Idle.token = None /\ Idle.pc = "idle"
    BY DEF Idle
  <1>4. /\ Claimed(w) \in SUBSET Items
        /\ \A i \in Claimed(w) : item[i].status = "running"
        /\ \A i \in Items \ Claimed(w) : item'[i] = item[i]
        /\ \A i, j \in Claimed(w) : item[i] = item[j] => item'[i] = item'[j]
    BY <1>1, ClaimedSet
  <1> QED BY <1>1, <1>2, <1>3, <1>4, ClaimedAlike, RowsStep

LEMMA HeartbeatInv ==
    ASSUME TypeOK, QueueInv, NEW w \in Workers, Heartbeat(w)
    PROVE  QueueInv'
  <1>1. \A i \in Items : item'[i] = IF i \in Claimed(w) THEN [item[i] EXCEPT !.live = TRUE] ELSE item[i]
    BY DEF Heartbeat
  <1>2. \A i \in Items : /\ [item[i] EXCEPT !.live = TRUE].status = item[i].status
                         /\ [item[i] EXCEPT !.live = TRUE].token = item[i].token
    BY ItemFields DEF ItemRow
  <1>3. \A i \in Items : (item[i].token # None) <=> (item[i].status = "running")
    BY DEF QueueInv, TokensFence
  <1>4. UNCHANGED <<admitted, findings, worker>>
    BY DEF Heartbeat
  <1>5. /\ Claimed(w) \in SUBSET Items
        /\ \A i \in Claimed(w) : item[i].status = "running"
        /\ \A i \in Items \ Claimed(w) : item'[i] = item[i]
        /\ \A i, j \in Claimed(w) : item[i] = item[j] => item'[i] = item'[j]
    BY <1>1, ClaimedSet
  <1>6. ASSUME NEW i \in Claimed(w)
        PROVE  /\ item'[i].status = "running"
               /\ item'[i].token = item[i].token /\ item'[i].token # None
    <2>1. i \in Items /\ item[i].status = "running"
      BY <1>5
    <2>2. item'[i] = [item[i] EXCEPT !.live = TRUE]
      BY <1>1, <2>1
    <2>3. item'[i].status = item[i].status /\ item'[i].token = item[i].token
      BY <1>2, <2>1, <2>2
    <2>4. item[i].token # None
      BY <1>3, <2>1
    <2> QED BY <2>1, <2>3, <2>4
  <1> QED BY <1>4, <1>5, <1>6, ClaimedAlike, RowsStep

LEMMA LeaseExpiresInv ==
    ASSUME TypeOK, QueueInv, NEW s \in Screenings, NEW c \in Chats, LeaseExpires(s, c)
    PROVE  QueueInv'
  <1> DEFINE Held == {i \in ItemsOf(s, c) : item[i].live}
  <1>1. \A i \in Items : item'[i] = IF i \in ItemsOf(s, c) THEN [item[i] EXCEPT !.live = FALSE] ELSE item[i]
    BY DEF LeaseExpires
  <1>2. \A i \in Items : ~item[i].live => [item[i] EXCEPT !.live = FALSE] = item[i]
    <2> SUFFICES ASSUME NEW i \in Items, ~item[i].live
                 PROVE  [item[i] EXCEPT !.live = FALSE] = item[i]
      OBVIOUS
    <2>1. item[i] \in ItemRow
      BY ItemFields
    <2>2. item[i].live = FALSE
      BY <2>1 DEF ItemRow
    <2> QED BY <2>1, <2>2 DEF ItemRow
  <1>3. \A i \in Items : item'[i] = IF i \in Held THEN [item[i] EXCEPT !.live = FALSE] ELSE item[i]
    BY <1>1, <1>2 DEF ItemsOf
  <1>4. \A i \in Items : /\ [item[i] EXCEPT !.live = FALSE].status = item[i].status
                         /\ [item[i] EXCEPT !.live = FALSE].token = item[i].token
                         /\ [item[i] EXCEPT !.live = FALSE].live = FALSE
    BY ItemFields DEF ItemRow
  <1>5. \A i \in Items : (item[i].token # None) <=> (item[i].status = "running")
    BY DEF QueueInv, TokensFence
  <1>6. UNCHANGED <<admitted, findings, worker>>
    BY DEF LeaseExpires
  <1>7. /\ Held \in SUBSET Items
        /\ \A i \in Held : item[i].status = "running"
        /\ \A i \in Items \ Held : item'[i] = item[i]
        /\ \A i, j \in Held : item[i] = item[j] => item'[i] = item'[j]
    BY <1>3 DEF ItemsOf, QueueInv, LiveRuns
  <1>8. \A i, j \in Items : SameChat(i, j) /\ item[i] = item[j] => (i \in Held <=> j \in Held)
    BY DEF SameChat, ItemsOf
  <1> HIDE DEF Held
  <1>9. ASSUME NEW i \in Held
        PROVE  /\ item'[i].status = "running"
               /\ item'[i].token = item[i].token /\ item'[i].token # None
    <2>1. i \in Items /\ item[i].status = "running"
      BY <1>7
    <2>2. item'[i] = [item[i] EXCEPT !.live = FALSE]
      BY <1>3, <2>1
    <2>3. item'[i].status = item[i].status /\ item'[i].token = item[i].token
      BY <1>4, <2>1, <2>2
    <2>4. item[i].token # None
      BY <1>5, <2>1
    <2> QED BY <2>1, <2>3, <2>4
  <1> QED BY <1>6, <1>7, <1>8, <1>9, RowsStep

LEMMA FinishInv ==
    ASSUME TypeOK, QueueInv, NEW w \in Workers, worker[w].pc = "finishing", FinishEffect(w),
           UNCHANGED admitted,
           \A v \in Workers : worker'[v] = worker[v] \/ worker'[v] = Idle
                \/ (/\ worker'[v].token = worker[v].token /\ worker'[v].pc = "failing"
                    /\ worker'[v].s = worker[v].s /\ worker'[v].c = worker[v].c)
    PROVE  QueueInv'
  <1> DEFINE S == Claimed(w)
             hash == worker[w].seen
  <1>0. Idle.token = None /\ Idle.pc = "idle"
    BY DEF Idle
  <1>1. CASE UNCHANGED <<item, findings>>
    BY <1>0, <1>1, MemoryStep
  <1>2. CASE \E code : item' = FailClaimed(w, code) /\ UNCHANGED findings
    BY <1>2, FailClaimedInv
  <1>3. CASE /\ SameContext(w)
             /\ item' = [i \in Items |-> IF i \in S THEN Screened(item[i], hash) ELSE item[i]]
             /\ findings' = [i \in Items |-> IF i \in S /\ i[2] \in worker[w].flags
                                             THEN findings[i] + 1 ELSE findings[i]]
    <2>1. \A i \in Items : item'[i] = IF i \in S THEN Screened(item[i], hash) ELSE item[i]
      BY <1>3
    <2>2. \A i \in Items : /\ Screened(item[i], hash).status = "screened"
                           /\ Screened(item[i], hash).hash = hash
                           /\ Screened(item[i], hash).token = None
                           /\ Screened(item[i], hash).live = FALSE
      BY ItemFields DEF Screened, ItemRow
    <2>3. /\ S \in SUBSET Items
          /\ \A i \in S : item[i].status = "running"
          /\ \A i, j \in S : SameChat(i, j)
      BY ClaimedSet
    <2>4. \A i, j \in Items : SameChat(i, j) /\ item[i].status # "none" /\ item[j].status # "none"
                                  => (i \in S <=> j \in S)
      BY ClaimedAlike, SharedStatus DEF QueueInv
    <2>5. ChatsNotSplit'
      <3>1. \A i \in Items : item[i].status = "none" => item'[i].status = "none"
        BY <2>1, <2>3
      <3>2. \A i, j \in S : item[i] = item[j] => item'[i] = item'[j]
        BY <2>1, <2>3
      <3>3. \A i \in Items \ S : item'[i] = item[i]
        BY <2>1
      <3> QED BY <2>3, <2>4, <3>1, <3>2, <3>3, NotSplitStep DEF QueueInv
    <2>6. TokensFence'
      <3>1. \A i \in Items : (item'[i].token # None) <=> (item'[i].status = "running")
        BY <2>1, <2>2 DEF QueueInv, TokensFence
      <3>2. \A i \in Items : item'[i].token \in {item[i].token, None}
        BY <2>1, <2>2
      <3> QED BY <1>0, <3>1, <3>2, FenceStep DEF QueueInv
    <2>7. FindingsOnce'
      <3>1. ASSUME NEW i \in Items PROVE findings'[i] <= 1 /\ (findings'[i] = 1 => item'[i].status = "screened")
        <4>1. findings[i] \in Nat
          BY DEF TypeOK
        <4>2. findings[i] <= 1 /\ (findings[i] = 1 => item[i].status = "screened")
          BY DEF QueueInv, FindingsOnce
        <4>3. CASE i \in S
          <5>1. findings[i] = 0
            BY <2>3, <4>1, <4>2, <4>3
          <5>2. findings'[i] \in {0, 1}
            BY <1>3, <5>1
          <5> QED BY <2>1, <2>2, <4>3, <5>2
        <4>4. CASE i \notin S
          BY <1>3, <2>1, <4>2, <4>4
        <4> QED BY <4>3, <4>4
      <3> QED BY <3>1 DEF FindingsOnce, Items
    <2>8. ScreenedWhole'
      <3>1. {i[2] : i \in S} = hash
        BY <1>3 DEF SameContext, QueueInv, ReadWhole
      <3>2. ASSUME NEW i \in Items, item'[i].status = "screened"
            PROVE  item'[i].hash = {j[2] : j \in {k \in Items : SameChat(i, k) /\ item'[k].status = "screened"}}
        <4>1. CASE i \in S
          <5>1. \A k \in Items : SameChat(i, k) /\ item'[k].status = "screened" => k \in S
            BY <2>1, <2>4, <2>3, <4>1
          <5>2. \A k \in S : k \in Items /\ SameChat(i, k) /\ item'[k].status = "screened"
            BY <2>1, <2>2, <2>3, <4>1
          <5>3. {k \in Items : SameChat(i, k) /\ item'[k].status = "screened"} = S
            BY <5>1, <5>2
          <5> QED BY <2>1, <2>2, <3>1, <4>1, <5>3
        <4>2. CASE i \notin S
          <5>1. item'[i] = item[i]
            BY <2>1, <4>2
          <5>2. \A k \in Items : SameChat(i, k) =>
                   (item'[k].status = "screened" <=> item[k].status = "screened")
            BY <2>1, <2>3, <2>4, <3>2, <4>2, <5>1
          <5>3. {k \in Items : SameChat(i, k) /\ item'[k].status = "screened"}
                  = {k \in Items : SameChat(i, k) /\ item[k].status = "screened"}
            BY <5>2
          <5> QED BY <3>2, <5>1, <5>3 DEF QueueInv, ScreenedWhole
        <4> QED BY <4>1, <4>2
      <3> QED BY <3>2 DEF ScreenedWhole, SameChat, Items
    <2>9. NotYetAdmitted'
      <3>1. \A i \in S : ~(i[1] > admitted)
        <4>1. NoItem.status = "none"
          BY DEF NoItem
        <4> QED BY <2>3, <4>1 DEF QueueInv, NotYetAdmitted
      <3>2. \A i \in Items : i[1] > admitted => item'[i] = NoItem
        BY <2>1, <3>1 DEF QueueInv, NotYetAdmitted
      <3> QED BY <3>2 DEF NotYetAdmitted, Items
    <2>10. LiveRuns'
      BY <2>1, <2>2 DEF QueueInv, LiveRuns
    <2>11. ReadWhole'
      BY <1>0 DEF QueueInv, ReadWhole
    <2> QED BY <2>5, <2>6, <2>7, <2>8, <2>9, <2>10, <2>11 DEF QueueInv
  <1> QED BY <1>1, <1>2, <1>3 DEF FinishEffect

THEOREM InvStep == TypeOK /\ QueueInv /\ [Next]_vars => QueueInv'
  <1> SUFFICES ASSUME TypeOK, QueueInv, [Next]_vars PROVE QueueInv'
    OBVIOUS
  <1>1. ASSUME NEW m \in Messages, CommitMessage(m) PROVE QueueInv'
    BY <1>1, MemoryStep DEF CommitMessage
  <1>2. ASSUME NEW c \in Chats, DeleteChat(c) PROVE QueueInv'
    BY <1>2, DeleteInv
  <1>3. ASSUME NEW u \in Users, ChangeAccess(u) PROVE QueueInv'
    BY <1>3, MemoryStep DEF ChangeAccess
  <1>4. ASSUME NEW u \in Users, Admit(u) PROVE QueueInv'
    BY <1>4, AdmitInv
  <1>5. ASSUME AdmitDaily PROVE QueueInv'
    <2>1. CASE Admit(Scheduler)
      BY <2>1, <1>4
    <2>2. CASE admitted' = admitted + 1 /\ UNCHANGED <<item, findings, worker>>
      <3>1. NotYetAdmitted'
        <4>1. \A i \in Items : i[1] > admitted' => i[1] > admitted
          BY <2>2 DEF TypeOK, Items
        <4> QED BY <2>2, <4>1 DEF QueueInv, NotYetAdmitted, Items
      <3>2. ChatsNotSplit' /\ TokensFence' /\ FindingsOnce' /\ ScreenedWhole' /\ LiveRuns' /\ ReadWhole'
        BY <2>2 DEF QueueInv, ChatsNotSplit, TokensFence, FindingsOnce, ScreenedWhole, LiveRuns,
                    ReadWhole, SameChat, ItemsOf, Items
      <3> QED BY <3>1, <3>2 DEF QueueInv
    <2> QED BY <1>5, <2>1, <2>2 DEF AdmitDaily
  <1>6. ASSUME Deploy PROVE QueueInv'
    <2>1. \A v \in Workers : worker'[v].token = None /\ worker'[v].pc = "idle"
      BY <1>6 DEF Deploy, Idle
    <2> QED BY <1>6, <2>1, MemoryStep DEF Deploy
  <1>7. ASSUME NEW u \in Users, NEW s \in Screenings, Retry(u, s) PROVE QueueInv'
    BY <1>7, RetryInv
  <1>8. ASSUME NEW w \in Workers, Work(w) PROVE QueueInv'
    <2>1. CASE ClaimSelect(w)
      BY <2>1, ClaimSelectInv
    <2>2. CASE ClaimTake(w)
      BY <2>2, ClaimTakeInv
    <2>3. CASE Prepare(w)
      BY <2>3, PrepareInv
    <2>4. CASE ScreenReturns(w) \/ ScreenRaises(w)
      BY <2>4, ScreenInv
    <2>5. CASE Finish(w)
      <3>1. \A v \in Workers : worker'[v] = worker[v] \/ worker'[v] = Idle
        BY <2>5 DEF Finish, TypeOK
      <3> QED BY <2>5, <3>1, FinishInv DEF Finish
    <2>6. CASE FinishRaises(w)
      <3>1. worker' = Failing(w, "provider_error") /\ UNCHANGED admitted /\ worker[w].pc = "finishing"
        BY <2>6 DEF FinishRaises
      <3>2. CASE FinishEffect(w)
        BY <3>1, <3>2, FailingStep, FinishInv
      <3>3. CASE UNCHANGED <<item, findings>>
        BY <3>1, <3>3, FailingStep, MemoryStep
      <3> QED BY <2>6, <3>2, <3>3 DEF FinishRaises
    <2>7. CASE Fail(w)
      <3>1. \A v \in Workers : worker'[v] = worker[v] \/ worker'[v] = Idle
        BY <2>7 DEF Fail, TypeOK
      <3> QED BY <2>7, <3>1, FailClaimedInv DEF Fail
    <2> QED BY <1>8, <2>1, <2>2, <2>3, <2>4, <2>5, <2>6, <2>7 DEF Work
  <1>9. ASSUME NEW w \in Workers, Heartbeat(w) PROVE QueueInv'
    BY <1>9, HeartbeatInv
  <1>10. ASSUME NEW w \in Workers, HeartbeatLost(w) \/ Crash(w) PROVE QueueInv'
    BY <1>10, IdleStep DEF HeartbeatLost, Crash
  <1>11. ASSUME NEW s \in Screenings, NEW c \in Chats, LeaseExpires(s, c) PROVE QueueInv'
    BY <1>11, LeaseExpiresInv
  <1>12. CASE UNCHANGED vars
    BY <1>12, MemoryStep DEF vars
  <1> QED
    BY <1>1, <1>2, <1>3, <1>4, <1>5, <1>6, <1>7, <1>8, <1>9, <1>10, <1>11, <1>12
       DEF Next, StartScreening

THEOREM InvCorrect == Spec => []QueueInv
  BY TypeInit, TypeStep, InitInv, InvStep, PTL DEF Spec

(* The items of one chat in one screening change together, whatever workers, *)
(* routes and the clock do and in whatever order. *)
THEOREM ChatsStayWhole == Spec => []ChatsNotSplit
  <1>1. QueueInv => ChatsNotSplit
    BY DEF QueueInv
  <1> QED BY <1>1, InvCorrect, PTL

(* A worker that lost its claim never matches the claim condition again. *)
THEOREM TokensAlwaysFence == Spec => []TokensFence
  <1>1. QueueInv => TokensFence
    BY DEF QueueInv
  <1> QED BY <1>1, InvCorrect, PTL

(* No finding is stored twice, or for an item that was not screened. *)
THEOREM FindingsAreOnce == Spec => []FindingsOnce
  <1>1. QueueInv => FindingsOnce
    BY DEF QueueInv
  <1> QED BY <1>1, InvCorrect, PTL

(* A stored transcript hash covers exactly the screened messages of its chat. *)
THEOREM ScreenedAlwaysWhole == Spec => []ScreenedWhole
  <1>1. QueueInv => ScreenedWhole
    BY DEF QueueInv
  <1> QED BY <1>1, InvCorrect, PTL

(***************************************************************************)
(* What a step may do to one row, and the action properties it gives.      *)
(***************************************************************************)
Admits(i)  == item[i].status = "none" /\ item'[i].status = "queued" /\ item'[i].token = None
Deletes(i) == item[i].status # "none" /\ item'[i].status = "deleted" /\ item'[i].token = None
Retries(i) ==
    /\ item[i].status = "error" /\ item[i].code \in RETRIABLE_ERROR_CODES
    /\ item'[i].status = "queued" /\ item'[i].attempts = 0 /\ item'[i].token = None
Takes(i)   == item[i].status \in {"queued", "running"} /\ ~item[i].live
Closes(i)  == item[i].status = "running" /\ item'[i].token = None
Renews(i)  == item[i].status = "running" /\ item'[i].token = item[i].token

RowStep(i) ==
    \/ item'[i] = item[i] \/ Admits(i) \/ Deletes(i) \/ Retries(i)
    \/ Takes(i) \/ Closes(i) \/ Renews(i)

LEMMA FinishRowStep ==
    ASSUME TypeOK, NEW w \in Workers, FinishEffect(w), NEW i \in Items
    PROVE  RowStep(i)
  <1>1. CASE item' = item
    BY <1>1 DEF RowStep
  <1>2. CASE \E code : item' = FailClaimed(w, code)
    <2>1. PICK code : item' = FailClaimed(w, code)
      BY <1>2
    <2>2. item'[i] = IF i \in Claimed(w) THEN Failed(item[i], code) ELSE item[i]
      BY <2>1 DEF FailClaimed
    <2>3. Failed(item[i], code).token = None
      BY ItemFields DEF Failed, ItemRow
    <2> QED BY <2>2, <2>3, ClaimedSet DEF RowStep, Closes
  <1>3. CASE item' = [j \in Items |-> IF j \in Claimed(w) THEN Screened(item[j], worker[w].seen)
                                     ELSE item[j]]
    <2>1. item[i] \in ItemRow
      BY ItemFields
    <2>2. Screened(item[i], worker[w].seen).token = None
      BY <2>1 DEF Screened, ItemRow
    <2> QED BY <1>3, <2>2, ClaimedSet DEF RowStep, Closes
  <1> QED BY <1>1, <1>2, <1>3 DEF FinishEffect

(* The life of a row: every step of every process that changes one is an      *)
(* admission, a deletion, a retry, a claim whose lease is not live, or the     *)
(* holder closing or renewing its own claim.                                  *)
THEOREM RowLifecycle ==
    ASSUME TypeOK, QueueInv, [Next]_vars, NEW i \in Items
    PROVE  RowStep(i)
  <1>1. ASSUME item' = item PROVE RowStep(i)
    BY <1>1 DEF RowStep
  <1>2. ASSUME NEW c \in Chats, DeleteChat(c) PROVE RowStep(i)
    <2>1. Tombstone(item[i]).status = "deleted" /\ Tombstone(item[i]).token = None
      BY ItemFields DEF Tombstone, ItemRow
    <2> QED BY <1>2, <2>1 DEF DeleteChat, RowStep, Deletes
  <1>3. ASSUME NEW u \in Users, Admit(u) PROVE RowStep(i)
    <2>1. QueuedFor(u).status = "queued" /\ QueuedFor(u).token = None /\ NoItem.status = "none"
      BY DEF QueuedFor, NoItem
    <2>2. i[1] = admitted + 1 => item[i] = NoItem
      BY DEF QueueInv, NotYetAdmitted, Items, TypeOK
    <2> QED BY <1>3, <2>1, <2>2 DEF Admit, RowStep, Admits
  <1>4. ASSUME NEW u \in Users, NEW s \in Screenings, Retry(u, s) PROVE RowStep(i)
    <2>1. /\ Requeued(item[i], u).status = "queued" /\ Requeued(item[i], u).attempts = 0
          /\ Requeued(item[i], u).token = None
      BY ItemFields DEF Requeued, ItemRow
    <2> QED BY <1>4, <2>1 DEF Retry, Retriable, RowStep, Retries
  <1>5. ASSUME NEW w \in Workers, ClaimTake(w) PROVE RowStep(i)
    <2> DEFINE its == Open(worker[w].s, worker[w].c)
    <2>1. CASE ~TakenOver(its) /\ (i \notin its => item'[i] = item[i])
      <3>1. i \in its => Takes(i)
        BY <2>1, OpenSet DEF TakenOver, Takes, QueueInv, LiveRuns
      <3> QED BY <2>1, <3>1 DEF RowStep
    <2>2. ~TakenOver(its) /\ ClaimItems(w, its) => (i \notin its => item'[i] = item[i])
      BY DEF ClaimItems
    <2> QED BY <1>1, <1>5, <2>1, <2>2 DEF ClaimTake
  <1>6. ASSUME NEW w \in Workers, Finish(w) \/ FinishRaises(w) PROVE RowStep(i)
    BY <1>1, <1>6, FinishRowStep DEF Finish, FinishRaises
  <1>7. ASSUME NEW w \in Workers, Fail(w) PROVE RowStep(i)
    <2>1. item'[i] = IF i \in Claimed(w) THEN Failed(item[i], worker[w].code) ELSE item[i]
      BY <1>7 DEF Fail, FailClaimed
    <2>2. Failed(item[i], worker[w].code).token = None
      BY ItemFields DEF Failed, ItemRow
    <2> QED BY <2>1, <2>2, ClaimedSet DEF RowStep, Closes
  <1>8. ASSUME NEW w \in Workers, Heartbeat(w) PROVE RowStep(i)
    <2>1. item'[i] = IF i \in Claimed(w) THEN [item[i] EXCEPT !.live = TRUE] ELSE item[i]
      BY <1>8 DEF Heartbeat
    <2>2. [item[i] EXCEPT !.live = TRUE].token = item[i].token
      BY ItemFields DEF ItemRow
    <2> QED BY <2>1, <2>2, ClaimedSet DEF RowStep, Renews
  <1>9. ASSUME NEW s \in Screenings, NEW c \in Chats, LeaseExpires(s, c) PROVE RowStep(i)
    <2>1. item'[i] = item[i] \/ item'[i] = [item[i] EXCEPT !.live = FALSE]
      BY <1>9 DEF LeaseExpires
    <2>2. item[i] \in ItemRow
      BY ItemFields
    <2>3. [item[i] EXCEPT !.live = FALSE].token = item[i].token
      BY <2>2 DEF ItemRow
    <2>4. ~item[i].live => [item[i] EXCEPT !.live = FALSE] = item[i]
      <3>1. ASSUME ~item[i].live PROVE item[i].live = FALSE
        BY <2>2, <3>1 DEF ItemRow
      <3> QED BY <2>2, <3>1 DEF ItemRow
    <2> QED BY <2>1, <2>3, <2>4 DEF RowStep, Renews, QueueInv, LiveRuns
  <1> QED
    BY <1>1, <1>2, <1>3, <1>4, <1>5, <1>6, <1>7, <1>8, <1>9
       DEF Next, Work, vars, CommitMessage, ChangeAccess, StartScreening, AdmitDaily, Deploy,
           ClaimSelect, Prepare, ScreenReturns, ScreenRaises, HeartbeatLost, Crash

(* A lease that is live is never taken over: the second read of claim_next *)
(* under the row locks finds every renewal that came before it.            *)
THEOREM NoLeaseIsStolen == Spec => NoLeaseStolen
  <1>1. ASSUME TypeOK, QueueInv, [Next]_vars, NEW i \in Items, item[i].live, item'[i].token # None
        PROVE  item'[i].token = item[i].token
    <2>1. item[i].status = "running"
      BY <1>1 DEF QueueInv, LiveRuns
    <2> QED BY <1>1, <2>1, RowLifecycle DEF RowStep, Admits, Deletes, Retries, Takes, Closes, Renews
  <1>2. TypeOK /\ QueueInv /\ [Next]_vars
           => [\A i \in Items : item[i].live /\ item'[i].token # None
                                    => item'[i].token = item[i].token]_vars
    BY <1>1
  <1> QED BY <1>2, TypeCorrect, InvCorrect, PTL DEF Spec, NoLeaseStolen

(* A verdict is only ever deleted, a tombstone stays one, and a failure is   *)
(* undone only by a retry of a retriable code.                               *)
THEOREM VerdictsAreFinal == Spec => VerdictsFinal
  <1>1. ASSUME TypeOK, QueueInv, [Next]_vars, NEW i \in Items
        PROVE  /\ item[i].status = "screened" =>
                     item'[i].status = "deleted" \/ item'[i] = item[i]
               /\ item[i].status = "deleted" => item'[i].status = "deleted"
               /\ item[i].status = "error" /\ item'[i] # item[i] =>
                     \/ item'[i].status = "deleted"
                     \/ /\ item'[i].status = "queued" /\ item'[i].attempts = 0
                        /\ item[i].code \in RETRIABLE_ERROR_CODES
    BY <1>1, RowLifecycle DEF RowStep, Admits, Deletes, Retries, Takes, Closes, Renews
  <1>2. TypeOK /\ QueueInv /\ [Next]_vars
           => [\A i \in Items :
                  /\ item[i].status = "screened" =>
                        item'[i].status = "deleted" \/ item'[i] = item[i]
                  /\ item[i].status = "deleted" => item'[i].status = "deleted"
                  /\ item[i].status = "error" /\ item'[i] # item[i] =>
                        \/ item'[i].status = "deleted"
                        \/ /\ item'[i].status = "queued" /\ item'[i].attempts = 0
                           /\ item[i].code \in RETRIABLE_ERROR_CODES]_vars
    BY <1>1
  <1> QED BY <1>2, TypeCorrect, InvCorrect, PTL DEF Spec, VerdictsFinal
=============================================================================
