--------------------------- MODULE EvalRuns_proofs ---------------------------
(***************************************************************************)
(* Proofs about the evaluation runs, for any number of runs and streams.   *)
(*                                                                         *)
(* Tasks, watchers, requests and expiry all write rows through Become, and *)
(* each of them only makes one of three moves (Moves).  None of the moves  *)
(* starts from a run that is over, and each adds the one event that the    *)
(* status it reaches allows (Matches): hence the outcomes are final and    *)
(* the events bounded.  With the guards of the moves (Allowed) the runs    *)
(* implement RunRecord.                                                    *)
(***************************************************************************)
EXTENDS EvalRuns, TLAPS

(* How many events with a status a run has stored. *)
Matches(st, n) ==
    /\ st = "none" => n = 0
    /\ st = "start" => n = 1
    /\ st = "cancelling" => n = 2
    /\ st \in Over => n \in 2..3

Moves(old, new) ==
    \/ old = "none" /\ new = "start"
    \/ old = "start" /\ new = "cancelling"
    \/ old \in Active /\ new \in Over

RowsOK ==
    /\ status \in [Runs -> Statuses]
    /\ stale \in [Runs -> BOOLEAN]
    /\ events \in [Runs -> Seq(Statuses)]
    /\ stream \in [Streams -> StreamState]
    /\ \A r \in Runs : Matches(status[r], Len(events[r]))

CaseState == [open : 0..MaxCases, raised : BOOLEAN]

TasksOK ==
    /\ task \in [Runs -> TaskState]
    /\ cases \in [Runs -> CaseState]
    /\ watch \in [Runs -> {"off", "wait"} \cup Active]
    /\ asked \in [Runs -> BOOLEAN]

IInv == RowsOK /\ TasksOK

(* What a step leaves of the runs that are over. *)
OverStays ==
    \A r \in Runs : status[r] \in Over => status'[r] = status[r] /\ events'[r] = events[r]

LEMMA MatchesBounded ==
    ASSUME NEW st \in Statuses, NEW n \in Nat, Matches(st, n)
    PROVE  n \leq 3
<1>1. CASE st \in Over
  BY <1>1 DEF Matches
<1>2. CASE st \in {"none", "start", "cancelling"}
  BY <1>2 DEF Matches
<1> QED
  BY <1>1, <1>2 DEF Statuses, Active

LEMMA MatchesMove ==
    ASSUME NEW old, NEW new, NEW n \in Nat, Moves(old, new), Matches(old, n)
    PROVE  Matches(new, n + 1)
<1>1. CASE old = "none" /\ new = "start"
  BY <1>1 DEF Matches, Over
<1>2. CASE old = "start" /\ new = "cancelling"
  BY <1>2 DEF Matches, Over
<1>3. CASE old \in Active /\ new \in Over
  <2>1. n \in {1, 2} /\ new \notin {"none", "start", "cancelling"}
    BY <1>3 DEF Matches, Active, Over
  <2> QED
    BY <2>1 DEF Matches
<1> QED
  BY <1>1, <1>2, <1>3 DEF Moves

LEMMA InvariantImpliesType == IInv => TypeOK
<1>1. ASSUME IInv PROVE \A r \in Runs : Len(events[r]) \leq 3
  <2>1. \A r \in Runs : status[r] \in Statuses /\ Len(events[r]) \in Nat
    BY <1>1 DEF IInv, RowsOK
  <2> QED
    BY <1>1, <2>1, MatchesBounded DEF IInv, RowsOK
<1> QED
  BY <1>1 DEF IInv, RowsOK, TasksOK, CaseState, TypeOK

-----------------------------------------------------------------------------
(* Steps that write rows. *)
LEMMA BecomeKeepsRows ==
    ASSUME RowsOK, NEW X \in SUBSET Runs, NEW st \in Statuses,
           \A r \in X : Moves(status[r], st), Become(X, st)
    PROVE  RowsOK' /\ OverStays
<1>1. status' \in [Runs -> Statuses] /\ stale' \in [Runs -> BOOLEAN]
  BY DEF RowsOK, Become
<1>2. /\ events' \in [Runs -> Seq(Statuses)]
      /\ \A r \in Runs : Len(events'[r]) = IF r \in X THEN Len(events[r]) + 1 ELSE Len(events[r])
  <2>1. \A r \in Runs : /\ Append(events[r], st) \in Seq(Statuses)
                        /\ Len(Append(events[r], st)) = Len(events[r]) + 1
    BY DEF RowsOK
  <2>2. events' = [r \in Runs |-> IF r \in X THEN Append(events[r], st) ELSE events[r]]
    BY DEF Become
  <2>3. events \in [Runs -> Seq(Statuses)]
    BY DEF RowsOK
  <2> QED
    BY <2>1, <2>2, <2>3
<1>3. stream' \in [Streams -> StreamState]
  <2>1. \A s \in Streams : /\ stream[s] \in StreamState
                           /\ [stream[s] EXCEPT !.woken = TRUE] \in StreamState
    BY DEF RowsOK, StreamState
  <2> QED
    BY <2>1 DEF Become
<1>4. \A r \in Runs : Matches(status'[r], Len(events'[r]))
  <2> SUFFICES ASSUME NEW r \in Runs PROVE Matches(status'[r], Len(events'[r]))
    OBVIOUS
  <2>1. Len(events[r]) \in Nat /\ Matches(status[r], Len(events[r]))
    BY DEF RowsOK
  <2>2. CASE r \in X
    <3>1. status'[r] = st /\ Len(events'[r]) = Len(events[r]) + 1 /\ Moves(status[r], st)
      BY <2>2, <1>2 DEF Become
    <3>2. Matches(st, Len(events[r]) + 1)
      BY <2>1, <3>1, MatchesMove
    <3> QED
      BY <3>1, <3>2
  <2>3. CASE r \notin X
    BY <2>1, <2>3, <1>2 DEF Become
  <2> QED
    BY <2>2, <2>3
<1>5. OverStays
  <2>1. \A r \in X : status[r] \notin Over
    BY DEF Moves, Active, Over
  <2> QED
    BY <2>1 DEF Become, OverStays
<1> QED
  BY <1>1, <1>2, <1>3, <1>4, <1>5 DEF RowsOK

LEMMA RowsUnchanged ==
    ASSUME RowsOK, UNCHANGED rows
    PROVE  RowsOK' /\ OverStays
  BY DEF RowsOK, OverStays, rows

(* Steps that only write heartbeats. *)
LEMMA HeartbeatKeepsRows ==
    ASSUME RowsOK, NEW r \in Runs, NEW b \in BOOLEAN, stale' = [stale EXCEPT ![r] = b],
           UNCHANGED <<status, events, stream>>
    PROVE  RowsOK' /\ OverStays
  BY DEF RowsOK, OverStays

LEMMA PublishLogKeepsRows ==
    ASSUME RowsOK, NEW r \in Runs, PublishLog(r)
    PROVE  RowsOK' /\ OverStays
<1>1. stale[r] \in BOOLEAN
  BY DEF RowsOK
<1>2. (stale[r] /\ status[r] \notin Active) \in BOOLEAN
  OBVIOUS
<1>3. stale' = [stale EXCEPT ![r] = stale[r] /\ status[r] \notin Active]
  BY DEF PublishLog
<1> QED
  BY <1>2, <1>3, HeartbeatKeepsRows DEF PublishLog

LEMMA MayPublishKeepsRows ==
    ASSUME RowsOK, NEW r \in Runs, NEW st \in Over, MayPublish(r, st)
    PROVE  RowsOK' /\ OverStays
<1>1. CASE status[r] \in Active /\ Become({r}, st)
  <2>1. {r} \in SUBSET Runs /\ st \in Statuses /\ \A q \in {r} : Moves(status[q], st)
    BY <1>1 DEF Statuses, Moves
  <2> QED
    BY <1>1, <2>1, BecomeKeepsRows
<1>2. CASE UNCHANGED rows
  BY <1>2, RowsUnchanged
<1> QED
  BY <1>1, <1>2 DEF MayPublish, Publish

(* Streams read; they change no row. *)
LEMMA StreamsKeepRows ==
    ASSUME RowsOK, NEW s \in Streams, Replay(s) \/ ReadOn(s) \/ Leave(s)
    PROVE  RowsOK' /\ OverStays
<1>1. stream[s] \in StreamState /\ Ended("told") \in StreamState /\ Ended("off") \in StreamState
  <2>1. 0 \in 0..MaxRuns
    BY EvalConstants
  <2> QED
    BY <2>1 DEF RowsOK, Ended, StreamState
<1>2. /\ [stream[s] EXCEPT !.pc = "follow"] \in StreamState
      /\ [stream[s] EXCEPT !.woken = FALSE] \in StreamState
  BY <1>1 DEF StreamState
<1>3. \E st \in StreamState : stream' = [stream EXCEPT ![s] = st]
  BY <1>1, <1>2 DEF Replay, ReadOn, Leave, Follow
<1>4. stream' \in [Streams -> StreamState]
  BY <1>3 DEF RowsOK
<1> QED
  BY <1>4 DEF RowsOK, OverStays, Replay, ReadOn, Leave

LEMMA AttachKeepsRows ==
    ASSUME RowsOK, NEW s \in Streams, NEW r \in Runs, Attach(s, r)
    PROVE  RowsOK' /\ OverStays
<1>1. r \in 0..MaxRuns
  BY EvalConstants DEF Runs
<1>2. [pc |-> "listen", run |-> r, woken |-> FALSE] \in StreamState
  BY <1>1 DEF StreamState
<1>3. stream' \in [Streams -> StreamState]
  BY <1>2 DEF RowsOK, Attach, Follow
<1> QED
  BY <1>3 DEF RowsOK, OverStays, Attach

-----------------------------------------------------------------------------
(* Every step makes moves of rows that are not over, or none. *)
LEMMA RowsStep ==
    ASSUME IInv, Next
    PROVE  RowsOK' /\ OverStays
<1>1. RowsOK /\ \A r \in Runs : task[r].out \in Over
  BY DEF IInv, TasksOK, TaskState
<1>2. ASSUME NEW r \in Runs, Start(r) PROVE RowsOK' /\ OverStays
  <2>1. {r} \in SUBSET Runs /\ "start" \in Statuses /\ \A q \in {r} : Moves(status[q], "start")
    BY <1>2 DEF Start, NextRun, Moves, Statuses, Active
  <2> QED
    BY <1>1, <1>2, <2>1, BecomeKeepsRows DEF Start
<1>3. ASSUME NEW r \in Runs, TimePasses(r) PROVE RowsOK' /\ OverStays
  BY <1>1, <1>3, HeartbeatKeepsRows DEF TimePasses
<1>4. ASSUME NEW r \in Runs, Logs(r) \/ CaseLogs(r) \/ CaseRaises(r) PROVE RowsOK' /\ OverStays
  BY <1>1, <1>4, PublishLogKeepsRows, RowsUnchanged DEF Logs, CaseLogs, CaseRaises
<1>5. ASSUME NEW r \in Runs,
             StartCases(r) \/ CaseEnds(r) \/ CasesEnd(r) \/ SuiteEnds(r) \/ CleansUp(r)
      PROVE  RowsOK' /\ OverStays
  BY <1>1, <1>5, RowsUnchanged DEF StartCases, CaseEnds, CasesEnd, SuiteEnds, CleansUp
<1>6. ASSUME NEW r \in Runs, Finish(r) \/ FinishRaises(r) \/ End(r) PROVE RowsOK' /\ OverStays
  BY <1>1, <1>6, MayPublishKeepsRows DEF Finish, FinishRaises, End, MayPublish
<1>7. ASSUME NEW r \in Runs, Caught(r) PROVE RowsOK' /\ OverStays
  BY <1>1, <1>7, PublishLogKeepsRows, RowsUnchanged DEF Caught
<1>8. ASSUME NEW r \in Runs, Interrupt(r) PROVE RowsOK' /\ OverStays
  BY <1>1, <1>8, MayPublishKeepsRows, RowsUnchanged DEF Interrupt
<1>9. ASSUME NEW r \in Runs, HeartbeatWrite(r) PROVE RowsOK' /\ OverStays
  BY <1>1, <1>9, HeartbeatKeepsRows DEF HeartbeatWrite
<1>10. ASSUME NEW r \in Runs, HeartbeatRead(r) \/ HeartbeatFails(r) \/ LocalCancel(r) \/ Crash(r)
       PROVE  RowsOK' /\ OverStays
  BY <1>1, <1>10, RowsUnchanged DEF HeartbeatRead, HeartbeatFails, LocalCancel, Crash
<1>11. ASSUME NEW r \in Runs, Stop(r) PROVE RowsOK' /\ OverStays
  <2>1. CASE status[r] = "start" /\ Become({r}, "cancelling")
    <3>1. /\ {r} \in SUBSET Runs /\ "cancelling" \in Statuses
          /\ \A q \in {r} : Moves(status[q], "cancelling")
      BY <2>1 DEF Moves, Statuses, Active
    <3> QED
      BY <1>1, <2>1, <3>1, BecomeKeepsRows
  <2>2. CASE UNCHANGED rows
    BY <1>1, <2>2, RowsUnchanged
  <2> QED
    BY <1>11, <2>1, <2>2 DEF Stop
<1>12. ASSUME Visit PROVE RowsOK' /\ OverStays
  <2>1. PICK X \in SUBSET Silent : Become(X, "error")
    BY <1>12 DEF Visit
  <2>2. X \in SUBSET Runs /\ "error" \in Statuses /\ \A r \in X : Moves(status[r], "error")
    BY <2>1 DEF Silent, Moves, Statuses, Over
  <2> QED
    BY <1>1, <2>1, <2>2, BecomeKeepsRows
<1>13. ASSUME NEW s \in Streams, Replay(s) \/ ReadOn(s) \/ Leave(s) PROVE RowsOK' /\ OverStays
  BY <1>1, <1>13, StreamsKeepRows
<1>14. ASSUME NEW s \in Streams, NEW r \in Runs, Attach(s, r) PROVE RowsOK' /\ OverStays
  BY <1>1, <1>14, AttachKeepsRows
<1> QED
  BY <1>2, <1>3, <1>4, <1>5, <1>6, <1>7, <1>8, <1>9, <1>10, <1>11, <1>12, <1>13, <1>14 DEF Next

-----------------------------------------------------------------------------
(* The task of one run, as a record. *)
Pcs == {"none", "run", "gather", "report", "finish", "caught", "broke", "end", "cleanup", "done"}

LEMMA TaskStateIs == TaskState = [pc : Pcs, out : Over, hit : BOOLEAN, listed : BOOLEAN]
  BY DEF TaskState, Pcs

LEMMA GoesTyped ==
    ASSUME task \in [Runs -> TaskState], NEW r \in Runs, NEW pc \in Pcs
    PROVE  [task EXCEPT ![r].pc = pc] \in [Runs -> TaskState]
  BY TaskStateIs

LEMMA GoesWithOutTyped ==
    ASSUME task \in [Runs -> TaskState], NEW r \in Runs, NEW pc \in Pcs, NEW out \in Over
    PROVE  [task EXCEPT ![r].pc = pc, ![r].out = out] \in [Runs -> TaskState]
  BY TaskStateIs

LEMMA GoesUnhitTyped ==
    ASSUME task \in [Runs -> TaskState], NEW r \in Runs, NEW pc \in Pcs
    PROVE  [task EXCEPT ![r].pc = pc, ![r].hit = FALSE] \in [Runs -> TaskState]
  BY TaskStateIs

LEMMA GoesUnlistedTyped ==
    ASSUME task \in [Runs -> TaskState], NEW r \in Runs, NEW pc \in Pcs
    PROVE  [task EXCEPT ![r].pc = pc, ![r].listed = FALSE] \in [Runs -> TaskState]
  BY TaskStateIs

LEMMA GoesUnhitUnlistedTyped ==
    ASSUME task \in [Runs -> TaskState], NEW r \in Runs, NEW pc \in Pcs
    PROVE  [task EXCEPT ![r].pc = pc, ![r].hit = FALSE, ![r].listed = FALSE] \in [Runs -> TaskState]
  BY TaskStateIs

LEMMA GoneTyped ==
    ASSUME task \in [Runs -> TaskState], NEW r \in Runs
    PROVE  [task EXCEPT ![r] = Gone] \in [Runs -> TaskState]
<1>1. Gone \in TaskState
  BY DEF TaskState, Gone, Over
<1> QED
  BY <1>1

LEMMA CancelTyped ==
    ASSUME TasksOK, NEW r \in Runs, Cancel(r)
    PROVE  task' \in [Runs -> TaskState]
<1>1. task \in [Runs -> TaskState] /\ (task[r].pc # "done") \in BOOLEAN
  BY DEF TasksOK
<1> QED
  BY <1>1, TaskStateIs DEF Cancel

LEMMA WatchUpdates ==
    ASSUME TasksOK, NEW r \in Runs, NEW w \in {"off", "wait"} \cup Active
    PROVE  [watch EXCEPT ![r] = w] \in [Runs -> {"off", "wait"} \cup Active]
  BY DEF TasksOK

(* The cases of one run: started, one of them over, none of them left. *)
LEMMA CasesTyped ==
    ASSUME cases \in [Runs -> CaseState], NEW r \in Runs
    PROVE  /\ [cases EXCEPT ![r].open = MaxCases] \in [Runs -> CaseState]
           /\ [cases EXCEPT ![r].open = 0] \in [Runs -> CaseState]
           /\ cases[r].open > 0 =>
                 /\ [cases EXCEPT ![r].open = @ - 1] \in [Runs -> CaseState]
                 /\ [cases EXCEPT ![r] = [open |-> @.open - 1, raised |-> TRUE]] \in [Runs -> CaseState]
<1>1. MaxCases \in 0..MaxCases /\ 0 \in 0..MaxCases
  BY EvalConstants
<1>2. cases[r].open \in 0..MaxCases /\ cases[r].open > 0 => cases[r].open - 1 \in 0..MaxCases
  BY EvalConstants DEF CaseState
<1> QED
  BY <1>1, <1>2 DEF CaseState

(* Every step keeps the types of the tasks, the watchers and the requests. *)
LEMMA TasksStep ==
    ASSUME IInv, Next
    PROVE  TasksOK'
<1>1. /\ TasksOK
      /\ task \in [Runs -> TaskState] /\ watch \in [Runs -> {"off", "wait"} \cup Active]
      /\ asked \in [Runs -> BOOLEAN] /\ cases \in [Runs -> CaseState]
  BY DEF IInv, TasksOK
<1>2. Pcs = {"none", "run", "gather", "report", "finish", "caught", "broke", "end", "cleanup", "done"}
  BY DEF Pcs
<1>3. "complete" \in Over /\ "error" \in Over /\ "cancelled" \in Over
  BY DEF Over
<1>4. ASSUME NEW r \in Runs, Start(r) PROVE TasksOK'
  <2>1. [pc |-> "run", out |-> "complete", hit |-> FALSE, listed |-> TRUE] \in TaskState
    BY <1>2, <1>3, TaskStateIs
  <2>2. task' \in [Runs -> TaskState]
    BY <1>1, <1>4, <2>1 DEF Start
  <2>3. watch' \in [Runs -> {"off", "wait"} \cup Active]
    BY <1>1, <1>4, WatchUpdates DEF Start
  <2> QED
    BY <1>1, <1>4, <2>2, <2>3 DEF Start, TasksOK
<1>5. ASSUME NEW r \in Runs, TimePasses(r) \/ Logs(r) PROVE TasksOK'
  BY <1>1, <1>5 DEF TimePasses, Logs, TasksOK
<1>19. ASSUME NEW r \in Runs, StartCases(r) \/ CasesEnd(r) PROVE TasksOK'
  <2>1. task' \in [Runs -> TaskState]
    <3>1. PICK pc \in Pcs : Goes(r, pc)
      BY <1>2, <1>19 DEF StartCases, CasesEnd
    <3> QED
      BY <1>1, <3>1, GoesTyped DEF Goes
  <2>2. cases' \in [Runs -> CaseState]
    BY <1>1, <1>19, CasesTyped DEF StartCases, CasesEnd
  <2> QED
    BY <1>1, <1>19, <2>1, <2>2 DEF StartCases, CasesEnd, TasksOK
<1>20. ASSUME NEW r \in Runs, CaseLogs(r) \/ CaseEnds(r) \/ CaseRaises(r) PROVE TasksOK'
  <2>1. cases' \in [Runs -> CaseState]
    BY <1>1, <1>20, CasesTyped DEF CaseLogs, CaseEnds, CaseRaises, CaseGoesOn
  <2> QED
    BY <1>1, <1>20, <2>1 DEF CaseLogs, CaseEnds, CaseRaises, TasksOK
<1>6. ASSUME NEW r \in Runs, SuiteEnds(r) PROVE TasksOK'
  <2>1. task' \in [Runs -> TaskState]
    <3>1. ASSUME NEW out \in {"complete", "error"},
                 task' = [task EXCEPT ![r].pc = "finish", ![r].out = out]
          PROVE  task' \in [Runs -> TaskState]
      BY <1>1, <1>2, <1>3, <3>1, GoesWithOutTyped
    <3>2. ASSUME Goes(r, "broke") PROVE task' \in [Runs -> TaskState]
      BY <1>1, <1>2, <1>3, <3>2, GoesTyped DEF Goes
    <3> QED
      BY <1>6, <3>1, <3>2 DEF SuiteEnds
  <2> QED
    BY <1>1, <1>6, <2>1 DEF SuiteEnds, TasksOK
<1>7. ASSUME NEW r \in Runs, Finish(r) \/ FinishRaises(r) \/ End(r) PROVE TasksOK'
  <2>1. task' \in [Runs -> TaskState]
    <3>1. PICK pc \in Pcs : task' = [task EXCEPT ![r].pc = pc, ![r].listed = FALSE]
      BY <1>2, <1>7 DEF Finish, FinishRaises, End
    <3> QED
      BY <1>1, <3>1, GoesUnlistedTyped
  <2> QED
    BY <1>1, <1>7, <2>1 DEF Finish, FinishRaises, End, TasksOK
<1>8. ASSUME NEW r \in Runs, Caught(r) PROVE TasksOK'
  <2>1. task' \in [Runs -> TaskState]
    <3>1. PICK out \in Over : task' = [task EXCEPT ![r].pc = "end", ![r].out = out]
      BY <1>3, <1>8 DEF Caught
    <3> QED
      BY <1>1, <1>2, <3>1, GoesWithOutTyped
  <2> QED
    BY <1>1, <1>8, <2>1 DEF Caught, TasksOK
<1>9. ASSUME NEW r \in Runs, CleansUp(r) \/ Crash(r) PROVE TasksOK'
  <2>1. task' \in [Runs -> TaskState]
    <3>1. task' = [task EXCEPT ![r] = Gone]
      BY <1>9 DEF CleansUp, Crash
    <3> QED
      BY <1>1, <3>1, GoneTyped
  <2>2. watch' \in [Runs -> {"off", "wait"} \cup Active]
    BY <1>1, <1>9, WatchUpdates DEF CleansUp, Crash
  <2>3. cases' \in [Runs -> CaseState] /\ asked' \in [Runs -> BOOLEAN]
    BY <1>1, <1>9, CasesTyped DEF CleansUp, Crash
  <2> QED
    BY <2>1, <2>2, <2>3 DEF TasksOK
<1>10. ASSUME NEW r \in Runs, Interrupt(r) PROVE TasksOK'
  <2>1. task' \in [Runs -> TaskState]
    <3>1. \/ \E pc \in Pcs : task' = [task EXCEPT ![r].pc = pc, ![r].hit = FALSE]
          \/ \E pc \in Pcs : task' = [task EXCEPT ![r].pc = pc, ![r].hit = FALSE, ![r].listed = FALSE]
          \/ task' = [task EXCEPT ![r] = Gone]
      BY <1>2, <1>10 DEF Interrupt
    <3>2. CASE \E pc \in Pcs : task' = [task EXCEPT ![r].pc = pc, ![r].hit = FALSE]
      <4>1. PICK pc \in Pcs : task' = [task EXCEPT ![r].pc = pc, ![r].hit = FALSE]
        BY <3>2
      <4>2. [task EXCEPT ![r].pc = pc, ![r].hit = FALSE] \in [Runs -> TaskState]
        BY <1>1, GoesUnhitTyped
      <4> QED
        BY <4>1, <4>2
    <3>3. CASE \E pc \in Pcs : task' = [task EXCEPT ![r].pc = pc, ![r].hit = FALSE, ![r].listed = FALSE]
      <4>1. PICK pc \in Pcs : task' = [task EXCEPT ![r].pc = pc, ![r].hit = FALSE, ![r].listed = FALSE]
        BY <3>3
      <4>2. [task EXCEPT ![r].pc = pc, ![r].hit = FALSE, ![r].listed = FALSE] \in [Runs -> TaskState]
        BY <1>1, GoesUnhitUnlistedTyped
      <4> QED
        BY <4>1, <4>2
    <3>4. CASE task' = [task EXCEPT ![r] = Gone]
      BY <1>1, <3>4, GoneTyped
    <3> QED
      BY <3>1, <3>2, <3>3, <3>4
  <2>2. watch' = watch \/ watch' = [watch EXCEPT ![r] = "off"]
    BY <1>10 DEF Interrupt
  <2>3. watch' \in [Runs -> {"off", "wait"} \cup Active]
    BY <1>1, <2>2, WatchUpdates
  <2>4. asked' \in [Runs -> BOOLEAN]
    BY <1>1, <1>10 DEF Interrupt
  <2>5. cases' \in [Runs -> CaseState]
    <3>1. cases' = cases \/ cases' = [cases EXCEPT ![r].open = 0]
      BY <1>10 DEF Interrupt
    <3> QED
      BY <1>1, <3>1, CasesTyped
  <2> QED
    BY <2>1, <2>3, <2>4, <2>5 DEF TasksOK
<1>11. ASSUME NEW r \in Runs, HeartbeatRead(r) PROVE TasksOK'
  <2>1. task' \in [Runs -> TaskState]
    BY <1>1, <1>11, CancelTyped DEF HeartbeatRead
  <2>2. watch' \in [Runs -> {"off", "wait"} \cup Active]
    BY <1>1, <1>11, WatchUpdates DEF HeartbeatRead
  <2> QED
    BY <1>1, <1>11, <2>1, <2>2 DEF HeartbeatRead, TasksOK
<1>12. ASSUME NEW r \in Runs, HeartbeatWrite(r) PROVE TasksOK'
  <2>1. task' \in [Runs -> TaskState]
    BY <1>1, <1>12, CancelTyped DEF HeartbeatWrite
  <2>2. watch' \in [Runs -> {"off", "wait"} \cup Active]
    BY <1>1, <1>12, WatchUpdates DEF HeartbeatWrite
  <2> QED
    BY <1>1, <1>12, <2>1, <2>2 DEF HeartbeatWrite, TasksOK
<1>13. ASSUME NEW r \in Runs, HeartbeatFails(r) PROVE TasksOK'
  <2>1. watch' \in [Runs -> {"off", "wait"} \cup Active]
    BY <1>1, <1>13, WatchUpdates DEF HeartbeatFails
  <2> QED
    BY <1>1, <1>13, <2>1 DEF HeartbeatFails, TasksOK
<1>14. ASSUME NEW r \in Runs, Stop(r) PROVE TasksOK'
  <2>1. task[r].listed \in BOOLEAN /\ asked[r] \in BOOLEAN
    BY <1>1, TaskStateIs
  <2>2. asked' \in [Runs -> BOOLEAN]
    BY <1>1, <1>14, <2>1 DEF Stop
  <2> QED
    BY <1>1, <1>14, <2>2 DEF Stop, TasksOK
<1>15. ASSUME NEW r \in Runs, LocalCancel(r) PROVE TasksOK'
  <2>1. task' \in [Runs -> TaskState]
    BY <1>1, <1>15, CancelTyped DEF LocalCancel
  <2> QED
    BY <1>1, <1>15, <2>1 DEF LocalCancel, TasksOK
<1>16. ASSUME Visit PROVE TasksOK'
  BY <1>1, <1>16 DEF Visit, TasksOK
<1>17. ASSUME NEW s \in Streams, Replay(s) \/ ReadOn(s) \/ Leave(s) PROVE TasksOK'
  BY <1>1, <1>17 DEF Replay, ReadOn, Leave, TasksOK
<1>18. ASSUME NEW s \in Streams, NEW r \in Runs, Attach(s, r) PROVE TasksOK'
  BY <1>1, <1>18 DEF Attach, TasksOK
<1> QED
  BY <1>4, <1>5, <1>6, <1>7, <1>8, <1>9, <1>10, <1>11, <1>12, <1>13, <1>14, <1>15, <1>16,
     <1>17, <1>18, <1>19, <1>20 DEF Next

-----------------------------------------------------------------------------
LEMMA InitEstablishesInvariant == Init => IInv
<1> SUFFICES ASSUME Init PROVE IInv
  OBVIOUS
<1>1. RowsOK
  <2>1. 0 \in 0..MaxRuns
    BY EvalConstants
  <2>2. Ended("off") \in StreamState
    BY <2>1 DEF Ended, StreamState
  <2>3. stream \in [Streams -> StreamState]
    BY <2>2 DEF Init
  <2>4. /\ status \in [Runs -> Statuses] /\ stale \in [Runs -> BOOLEAN]
        /\ events \in [Runs -> Seq(Statuses)]
    BY DEF Init, Statuses
  <2>5. \A r \in Runs : status[r] = "none" /\ Len(events[r]) = 0
    BY DEF Init
  <2> QED
    BY <2>3, <2>4, <2>5 DEF RowsOK, Matches, Over
<1>2. TasksOK
  <2>1. [pc |-> "none", out |-> "complete", hit |-> FALSE, listed |-> FALSE] \in TaskState
    BY DEF TaskState, Over
  <2>2. [open |-> 0, raised |-> FALSE] \in CaseState
    BY EvalConstants DEF CaseState
  <2> QED
    BY <2>1, <2>2 DEF Init, TasksOK
<1> QED
  BY <1>1, <1>2 DEF IInv

LEMMA StepKeepsInvariant == IInv /\ [Next]_vars => IInv'
<1>1. CASE IInv /\ Next
  BY <1>1, RowsStep, TasksStep DEF IInv
<1>2. CASE IInv /\ UNCHANGED vars
  BY <1>2 DEF IInv, RowsOK, TasksOK, vars
<1> QED
  BY <1>1, <1>2

LEMMA InvariantHolds == Spec => []IInv
<1> QED
  BY InitEstablishesInvariant, StepKeepsInvariant, PTL DEF Spec

(* The rows, tasks and streams stay well formed, and a run never stores     *)
(* more than three events with a status.                                    *)
THEOREM TypeCorrect == Spec => []TypeOK
<1> QED
  BY InvariantHolds, InvariantImpliesType, PTL

LEMMA OutcomesStep ==
    IInv /\ [Next]_vars =>
        [\A r \in Runs : status[r] \in Over => status'[r] = status[r] /\ events'[r] = events[r]]_vars
<1>1. CASE IInv /\ Next
  BY <1>1, RowsStep DEF OverStays
<1> QED
  BY <1>1

(* A run that is over stays as it ended, in its row and in its events.      *)
THEOREM OutcomesAreFinal == Spec => OutcomesFinal
<1> QED
  BY InvariantHolds, OutcomesStep, PTL DEF Spec, OutcomesFinal

-----------------------------------------------------------------------------
(* Runs implement RunRecord.                                                *)

Follows(s) == stream[s].pc \in {"listen", "follow"}

(* Only runs that are over have an event that ends them, and who follows    *)
(* follows a run.                                                           *)
TellInv ==
    /\ \A r \in Runs : HasEnd(r) => status[r] \in Over
    /\ \A s \in Streams : Follows(s) => stream[s].run \in Runs

(* The writes of rows: one begins when none is active, one is stopped, some *)
(* end.                                                                     *)
Allowed(X, st) ==
    \/ st = "start" /\ \E r \in Runs : /\ X = {r} /\ status[r] = "none"
                                       /\ \A q \in Runs : status[q] \notin Active
    \/ st = "cancelling" /\ \E r \in Runs : X = {r} /\ status[r] = "start"
    \/ st \in Over /\ \A r \in X : status[r] \in Active

Writes ==
    \E X \in SUBSET Runs, st \in Statuses : X # {} /\ Allowed(X, st) /\ Become(X, st)

Quiet == UNCHANGED <<status, events, stream>>

Connects(s) == Replay(s) \/ ReadOn(s) \/ Leave(s) \/ \E r \in Runs : Attach(s, r)

(* Every step writes rows in one of these ways, is one of a connection, or  *)
(* shows in neither.                                                        *)
LEMMA StepsAre ==
    ASSUME IInv, Next
    PROVE  Writes \/ Quiet \/ \E s \in Streams : Connects(s)
<1>1. \A r \in Runs : task[r].out \in Over
  BY DEF IInv, TasksOK, TaskState
<1>2. ASSUME NEW r \in Runs, Start(r) PROVE Writes
  <2>1. Allowed({r}, "start") /\ Become({r}, "start")
    BY <1>2 DEF Start, NextRun, Allowed
  <2> QED BY <2>1 DEF Writes, Statuses, Active
<1>3. ASSUME NEW r \in Runs, NEW st \in Over, MayPublish(r, st) PROVE Writes \/ Quiet
  <2>1. CASE status[r] \in Active /\ Become({r}, st)
    <3>1. Allowed({r}, st)
      BY <2>1 DEF Allowed
    <3> QED BY <2>1, <3>1 DEF Writes, Statuses
  <2>2. CASE UNCHANGED rows
    BY <2>2 DEF rows, Quiet
  <2> QED BY <1>3, <2>1, <2>2 DEF MayPublish, Publish
<1>4. ASSUME NEW r \in Runs, Finish(r) \/ FinishRaises(r) \/ End(r) PROVE Writes \/ Quiet
  BY <1>1, <1>3, <1>4 DEF Finish, FinishRaises, End, MayPublish
<1>5. ASSUME NEW r \in Runs, Interrupt(r) PROVE Writes \/ Quiet
  BY <1>1, <1>3, <1>5 DEF Interrupt, rows, Quiet
<1>6. ASSUME NEW r \in Runs, Stop(r) PROVE Writes \/ Quiet
  <2>1. CASE status[r] = "start" /\ Become({r}, "cancelling")
    <3>1. Allowed({r}, "cancelling")
      BY <2>1 DEF Allowed
    <3> QED BY <2>1, <3>1 DEF Writes, Statuses, Active
  <2>2. CASE UNCHANGED rows
    BY <2>2 DEF rows, Quiet
  <2> QED BY <1>6, <2>1, <2>2 DEF Stop
<1>7. ASSUME Visit PROVE Writes
  <2>1. PICK X \in SUBSET Silent : X # {} /\ Become(X, "error")
    BY <1>7 DEF Visit
  <2>2. X \in SUBSET Runs /\ Allowed(X, "error")
    BY <2>1 DEF Silent, Allowed, Over
  <2> QED BY <2>1, <2>2 DEF Writes, Statuses, Over
<1>8. ASSUME NEW r \in Runs,
             \/ TimePasses(r) \/ Logs(r) \/ StartCases(r) \/ CaseLogs(r) \/ CaseEnds(r)
             \/ CaseRaises(r) \/ CasesEnd(r) \/ SuiteEnds(r) \/ CleansUp(r) \/ Caught(r)
             \/ HeartbeatRead(r) \/ HeartbeatWrite(r) \/ HeartbeatFails(r)
             \/ LocalCancel(r) \/ Crash(r)
      PROVE  Quiet
  BY <1>8 DEF TimePasses, Logs, StartCases, CaseLogs, CaseEnds, CaseRaises, CasesEnd, SuiteEnds, CleansUp, Caught, HeartbeatRead, HeartbeatWrite,
              HeartbeatFails, LocalCancel, Crash, PublishLog, rows, Quiet
<1> QED BY <1>2, <1>4, <1>5, <1>6, <1>7, <1>8 DEF Next, Connects

(* What a write leaves of the connections. *)
LEMMA WakingIsUnseen ==
    ASSUME IInv, NEW X, NEW st, Become(X, st)
    PROVE  /\ \A s \in Streams : Follower(s)' = Follower(s)
           /\ \A s \in Streams : stream'[s].pc = stream[s].pc /\ stream'[s].run = stream[s].run
<1>1. \A s \in Streams : stream[s] \in StreamState
  BY DEF IInv, RowsOK
<1>2. ASSUME NEW s \in Streams
      PROVE  stream'[s].pc = stream[s].pc /\ stream'[s].run = stream[s].run
  <2>1. stream'[s] = IF stream[s].run \in X THEN [stream[s] EXCEPT !.woken = TRUE] ELSE stream[s]
    BY DEF Become
  <2> QED BY <1>1, <2>1 DEF StreamState
<1> QED BY <1>2 DEF Follower

(* An event is an earlier one or the one appended. *)
LEMMA AppendedIs ==
    ASSUME NEW S, NEW seq \in Seq(S), NEW st \in S
    PROVE  \A n \in DOMAIN Append(seq, st) :
               \/ Append(seq, st)[n] = st
               \/ n \in DOMAIN seq /\ Append(seq, st)[n] = seq[n]
<1>1. /\ Append(seq, st) \in Seq(S) /\ Len(Append(seq, st)) = Len(seq) + 1 /\ Len(seq) \in Nat
      /\ Append(seq, st)[Len(seq) + 1] = st
      /\ \A n \in 1..Len(seq) : Append(seq, st)[n] = seq[n]
  OBVIOUS
<1>2. DOMAIN Append(seq, st) = 1..(Len(seq) + 1) /\ DOMAIN seq = 1..Len(seq)
  BY <1>1
<1> QED BY <1>1, <1>2

(* Nothing has ended at first, and no step says that something has. *)
LEMMA TellInit == Init => TellInv
  BY DEF Init, TellInv, HasEnd, Ended, Follows

(* An end is recorded with the status it is the end of.                     *)
LEMMA TellStep == IInv /\ TellInv /\ [Next]_vars => TellInv'
<1> SUFFICES ASSUME IInv, TellInv, [Next]_vars PROVE TellInv'
  OBVIOUS
<1>1. CASE Writes
  <2>1. PICK X \in SUBSET Runs, st \in Statuses : X # {} /\ Allowed(X, st) /\ Become(X, st)
    BY <1>1 DEF Writes
  <2>2. ASSUME NEW r \in Runs, HasEnd(r)' PROVE status'[r] \in Over
    <3>1. events[r] \in Seq(Statuses)
      BY DEF IInv, RowsOK
    <3>2. CASE r \notin X
      <4>1. events'[r] = events[r] /\ status'[r] = status[r]
        BY <2>1, <3>2 DEF Become
      <4> QED BY <2>2, <4>1 DEF HasEnd, TellInv
    <3>3. CASE r \in X
      <4>1. events'[r] = Append(events[r], st) /\ status'[r] = st
        BY <2>1, <3>3 DEF Become
      <4>2. status[r] \notin Over
        BY <2>1, <3>3 DEF Allowed, Active, Over
      <4>3. \A n \in DOMAIN events[r] : events[r][n] \notin Over
        BY <4>2 DEF TellInv, HasEnd
      <4>4. \A n \in DOMAIN Append(events[r], st) :
                \/ Append(events[r], st)[n] = st
                \/ n \in DOMAIN events[r] /\ Append(events[r], st)[n] = events[r][n]
        BY <3>1, AppendedIs
      <4> QED BY <2>2, <4>1, <4>3, <4>4 DEF HasEnd
    <3> QED BY <3>2, <3>3
  <2> QED BY <2>1, <2>2, WakingIsUnseen DEF TellInv, Follows
<1>2. CASE Quiet
  BY <1>2 DEF Quiet, TellInv, HasEnd, Follows
<1>3. CASE \E s \in Streams : Connects(s)
  <2>1. PICK s \in Streams : Connects(s)
    BY <1>3
  <2>2. UNCHANGED <<status, events>>
    BY <2>1 DEF Connects, Replay, ReadOn, Leave, Attach
  <2>3. stream \in [Streams -> StreamState]
    BY DEF IInv, RowsOK
  <2>4. \A t \in Streams \ {s} : stream'[t] = stream[t]
    BY <2>1, <2>3 DEF Connects, Replay, ReadOn, Leave, Attach, Follow
  <2>5. Follows(s)' => stream'[s].run \in Runs
    <3>1. CASE Leave(s)
      BY <2>3, <3>1 DEF Leave, Follow, Ended, Follows
    <3>2. CASE \E r \in Runs : Attach(s, r)
      BY <2>3, <3>2 DEF Attach, Follow
    <3>3. CASE Replay(s) \/ ReadOn(s)
      <4>1. stream'[s] \in {Ended("told"), [stream[s] EXCEPT !.pc = "follow"],
                            [stream[s] EXCEPT !.woken = FALSE]} /\ Follows(s)
        BY <2>3, <3>3 DEF Replay, ReadOn, Follow, Follows
      <4>2. stream[s] \in StreamState
        BY <2>3
      <4> QED BY <4>1, <4>2 DEF StreamState, Ended, Follows, TellInv
    <3> QED BY <2>1, <3>1, <3>2, <3>3 DEF Connects
  <2> QED BY <2>2, <2>4, <2>5 DEF TellInv, HasEnd, Follows
<1>4. CASE UNCHANGED vars
  BY <1>4 DEF vars, TellInv, HasEnd, Follows
<1> QED BY <1>1, <1>2, <1>3, <1>4, StepsAre

(* Only runs that are over have stored an event that ends them. *)
THEOREM EndsAreEnds == Spec => []TellInv
  BY TellInit, TellStep, InvariantHolds, PTL DEF Spec

-----------------------------------------------------------------------------
(* What those who start and follow runs see.                                *)
Seen == [s \in Streams |-> Follower(s)]

(* Both modules name the statuses alike. *)
LEMMA RecordDefs ==
    /\ Recorded!Runs = Runs
    /\ Recorded!Active = Active
    /\ Recorded!Over = Over
  BY DEF Recorded!Runs, Runs, Recorded!Active, Active, Recorded!Over, Over

(* Each write is a step of the record. *)
LEMMA WritesAreRecorded ==
    ASSUME IInv, Writes
    PROVE  Recorded!Next
<1>1. PICK X \in SUBSET Runs, st \in Statuses : X # {} /\ Allowed(X, st) /\ Become(X, st)
  BY DEF Writes
<1>2. UNCHANGED Seen
  BY <1>1, WakingIsUnseen DEF Seen
<1>3. Recorded!Record(X, st)
  BY <1>1, <1>2, RecordDefs DEF Become, Recorded!Record, Seen
<1>4. CASE st = "start" /\ \E r \in Runs : /\ X = {r} /\ status[r] = "none"
                                           /\ \A q \in Runs : status[q] \notin Active
  <2>1. PICK r \in Runs : /\ X = {r} /\ status[r] = "none"
                          /\ \A q \in Runs : status[q] \notin Active
    BY <1>4
  <2>2. Recorded!Begin(r)
    BY <1>3, <1>4, <2>1, RecordDefs DEF Recorded!Begin
  <2> QED BY <2>2, RecordDefs DEF Recorded!Next
<1>5. CASE st = "cancelling" /\ \E r \in Runs : X = {r} /\ status[r] = "start"
  <2>1. PICK r \in Runs : X = {r} /\ status[r] = "start"
    BY <1>5
  <2>2. Recorded!RequestStop(r)
    BY <1>3, <1>5, <2>1 DEF Recorded!RequestStop
  <2> QED BY <2>2, RecordDefs DEF Recorded!Next
<1>6. CASE st \in Over /\ \A r \in X : status[r] \in Active
  <2>1. X \in SUBSET {r \in Recorded!Runs : status[r] \in Recorded!Active} /\ st \in Recorded!Over
    BY <1>6, RecordDefs
  <2>2. Recorded!End
    BY <1>1, <1>3, <2>1 DEF Recorded!End
  <2> QED BY <2>2 DEF Recorded!Next
<1> QED BY <1>1, <1>4, <1>5, <1>6 DEF Allowed

(* A connection begins to follow, hears of the end, leaves, or reads on.    *)
LEMMA ConnectionsAreSeen ==
    ASSUME IInv, TellInv, NEW s \in Streams, Connects(s)
    PROVE  Recorded!Next \/ UNCHANGED Recorded!recordVars
<1>1. UNCHANGED <<status, events>>
  BY DEF Connects, Replay, ReadOn, Leave, Attach
<1>2. stream \in [Streams -> StreamState] /\ stream[s] \in StreamState
  BY DEF IInv, RowsOK
<1>3. PICK st : stream' = [stream EXCEPT ![s] = st]
  BY DEF Connects, Replay, ReadOn, Leave, Attach, Follow
<1>4. /\ stream'[s] = st
      /\ Seen' = [Seen EXCEPT ![s] = Follower(s)']
      /\ Follower(s)' = Follower(s) => UNCHANGED Seen
  BY <1>2, <1>3 DEF Seen, Follower
<1>5. Seen[s] = Follower(s)
  BY DEF Seen
<1>6. CASE Leave(s)
  <2>1. Follower(s).state = "following" /\ Follower(s)' = Recorded!Nobody
    BY <1>2, <1>6 DEF Leave, Follow, Ended, Follower, Recorded!Nobody
  <2>2. Recorded!Leave(s)
    BY <1>1, <1>4, <1>5, <2>1 DEF Recorded!Leave, Recorded!Turns, Seen
  <2> QED BY <2>2 DEF Recorded!Next
<1>7. ASSUME NEW r \in Runs, Attach(s, r) PROVE Recorded!Next
  <2>1. /\ Follower(s).state # "following" /\ status[r] # "none"
        /\ Follower(s)' = [state |-> "following", run |-> r]
    BY <1>2, <1>7 DEF Attach, Follow, Follower
  <2>2. Recorded!Follow(s, r)
    BY <1>1, <1>4, <1>5, <2>1 DEF Recorded!Follow, Recorded!Turns, Seen
  <2> QED BY <2>2, RecordDefs DEF Recorded!Next
<1>8. CASE Replay(s) \/ ReadOn(s)
  <2>1. Follows(s) /\ stream[s].run \in Runs /\ Follower(s).state = "following"
        /\ Follower(s).run = stream[s].run
    BY <1>8 DEF Replay, ReadOn, Follows, TellInv, Follower
  <2>2. CASE HasEnd(stream[s].run)
    <3>1. status[stream[s].run] \in Over
      BY <2>1, <2>2 DEF TellInv
    <3>2. stream'[s] = Ended("told")
      BY <1>2, <1>8, <2>2 DEF Replay, ReadOn, Follow
    <3>3. Follower(s)' = [state |-> "told", run |-> 0]
      BY <3>2 DEF Follower, Ended
    <3>4. Recorded!Hear(s)
      BY <1>1, <1>4, <1>5, <2>1, <3>1, <3>3, RecordDefs DEF Recorded!Hear, Recorded!Turns, Seen
    <3> QED BY <3>4 DEF Recorded!Next
  <2>3. CASE ~HasEnd(stream[s].run)
    <3>1. stream'[s] \in {[stream[s] EXCEPT !.pc = "follow"], [stream[s] EXCEPT !.woken = FALSE]}
      BY <1>2, <1>8, <2>3 DEF Replay, ReadOn, Follow
    <3>2. stream'[s].pc \in {"listen", "follow"} /\ stream'[s].run = stream[s].run
      BY <1>2, <2>1, <3>1 DEF StreamState, Follows
    <3>3. Follower(s)' = Follower(s)
      BY <2>1, <3>2 DEF Follower, Follows
    <3> QED BY <1>1, <1>4, <3>3 DEF Recorded!recordVars, Seen
  <2> QED BY <2>2, <2>3
<1> QED BY <1>6, <1>7, <1>8 DEF Connects

(* The refinement: initial states and steps. *)
LEMMA RecordInit == Init => Recorded!Init
<1> SUFFICES ASSUME Init PROVE Recorded!Init
  OBVIOUS
<1>1. \A s \in Streams : Follower(s) = Recorded!Nobody
  BY DEF Init, Ended, Follower, Recorded!Nobody
<1> QED BY <1>1, RecordDefs DEF Init, Recorded!Init

LEMMA RecordStep == IInv /\ TellInv /\ [Next]_vars => [Recorded!Next]_(Recorded!recordVars)
<1> SUFFICES ASSUME IInv, TellInv, [Next]_vars
             PROVE  Recorded!Next \/ UNCHANGED Recorded!recordVars
  OBVIOUS
<1>1. ASSUME Quiet \/ UNCHANGED vars PROVE UNCHANGED Recorded!recordVars
  BY <1>1 DEF Quiet, vars, Recorded!recordVars, Follower
<1> QED BY <1>1, StepsAre, WritesAreRecorded, ConnectionsAreSeen

(* However tasks, watchers, requests and visits interleave and crash, runs   *)
(* implement the record of RunRecord.                                       *)
THEOREM RunsImplementRecord == Spec => ImplementsRunRecord
  BY RecordInit, RecordStep, InvariantHolds, EndsAreEnds, PTL
  DEF Spec, ImplementsRunRecord, Recorded!Spec
=============================================================================
