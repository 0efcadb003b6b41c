------------------------- MODULE RagBuildJobs_proofs -------------------------
(***************************************************************************)
(* Proofs about the builds of the retrieval index, for any number of       *)
(* builds, steps, cancel requests and streams.                             *)
(*                                                                         *)
(* Two facts carry the others.  A row is active only once its build has    *)
(* taken the lock (RowsAndBuilds), so a cancel request that finds the lock *)
(* free knows that the build it marked is over (CancelsKnowTheirBuild).    *)
(* Hence nobody but the build touches the row of a live build, except to   *)
(* mark it, and a mark stays until the build has looked (AskedIsMarked).   *)
(***************************************************************************)
EXTENDS RagBuildJobs, TLAPS

(* Where a build has not started its row yet. *)
NotStarted == {"none", "lock", "start"}

(* What the place of a build says of its row and of its outcome. *)
RowsAndBuilds ==
    \A j \in Jobs :
        /\ j > created => build[j].pc = "none"
        /\ build[j].pc \in NotStarted => status[j] \notin Active /\ ~asked[j]
        /\ build[j].pc \in NotStarted \cup Looking => build[j].outcome = "none"
        /\ build[j].pc \in {"finish", "write"} => build[j].outcome \in Finished

(* What a cancel request knows of the build whose row it read. *)
CancelsKnowTheirBuild ==
    \A c \in Cancels :
        /\ cancel[c].pc # "idle" =>
              cancel[c].job \in Jobs /\ build[cancel[c].job].pc \notin NotStarted
        /\ cancel[c].pc = "probing" => lock = c
        /\ cancel[c].pc \in {"probing", "clear", "clearing"} =>
              build[cancel[c].job].pc \notin Live

(* The mark stays while the build may still look. *)
AskedIsMarked ==
    \A j \in Jobs : asked[j] /\ build[j].pc \in Looking => status[j] = "cancelling"

(* Whoever is about to finish a row finds it unfinished. *)
RowsStayOpen ==
    /\ \A j \in Jobs :
        /\ build[j].pc = "none" => status[j] = "none"
        /\ build[j].pc = "lock" => status[j] = "pending"
        /\ build[j].pc = "write" => status[j] \in Unfinished
    /\ \A c \in Cancels :
        cancel[c].pc = "clearing" => status[cancel[c].job] \in Unfinished \cup {"cancelled"}

IInv ==
    /\ RowsAndBuilds
    /\ BuildersOwnTheLock
    /\ CancelsKnowTheirBuild
    /\ AskedIsMarked
    /\ RowsStayOpen
    /\ CancellationsAreObeyed

-----------------------------------------------------------------------------
(* What the updates of a coroutine's record leave of its type. *)
Places == {"none", "notify", "done", "dead"} \cup Live
Outcomes == {"none", "lost"} \cup Finished

LEMMA BuildStateIs ==
    BuildState = [pc : Places, step : 1 .. Steps, started : BOOLEAN, outcome : Outcomes]
  BY DEF BuildState, Places, Outcomes

LEMMA GoesTyped ==
    ASSUME NEW b \in [Jobs -> BuildState], NEW j \in Jobs, NEW p \in Places
    PROVE  [b EXCEPT ![j].pc = p] \in [Jobs -> BuildState]
  BY BuildStateIs

LEMMA GoesWithOutcomeTyped ==
    ASSUME NEW b \in [Jobs -> BuildState], NEW j \in Jobs, NEW p \in Places,
           NEW o \in Outcomes
    PROVE  [b EXCEPT ![j].pc = p, ![j].outcome = o] \in [Jobs -> BuildState]
  BY BuildStateIs

LEMMA GoesToStepTyped ==
    ASSUME NEW b \in [Jobs -> BuildState], NEW j \in Jobs, NEW p \in Places,
           NEW n \in 1 .. Steps
    PROVE  [b EXCEPT ![j].pc = p, ![j].step = n] \in [Jobs -> BuildState]
  BY BuildStateIs

LEMMA GoesStartedTyped ==
    ASSUME NEW b \in [Jobs -> BuildState], NEW j \in Jobs, NEW p \in Places
    PROVE  [b EXCEPT ![j].pc = p, ![j].started = TRUE] \in [Jobs -> BuildState]
  BY BuildStateIs

(* How a build ends, as one update of its record. *)
LEMMA EndsIs ==
    ASSUME TypeOK, NEW j \in Jobs, NEW o \in Outcomes, Ends(j, o)
    PROVE  /\ build' \in [Jobs -> BuildState]
           /\ build'[j].pc = "finish"
           /\ build'[j].outcome = o
           /\ \A i \in Jobs \ {j} : build'[i] = build[i]
<1>1. build \in [Jobs -> BuildState]
  BY DEF TypeOK
<1>2. "finish" \in Places /\ 1 \in 1 .. Steps
  BY RagConstants DEF Places, Live, Owning
<1>3. build' \in [Jobs -> BuildState]
  BY <1>1, <1>2, BuildStateIs DEF Ends
<1>4. build'[j].pc = "finish" /\ build'[j].outcome = o
  BY <1>1, BuildStateIs DEF Ends
<1>5. \A i \in Jobs \ {j} : build'[i] = build[i]
  BY <1>1 DEF Ends
<1> QED
  BY <1>3, <1>4, <1>5

(* Streams that open, close and get events stay streams. *)
LEMMA ShutTyped ==
    ASSUME NEW j \in Jobs \cup {None}, NEW m \in Jobs \cup {None}
    PROVE  Told(j, m) \in StreamState /\ Left \in StreamState
  BY DEF Told, Left, Shut, StreamState

LEMMA OnOtherTyped ==
    ASSUME NEW j \in Jobs \cup {None}, NEW m \in Jobs \cup {None}
    PROVE  OnOther(j, m) \in StreamState
  BY DEF OnOther, StreamState, None

LEMMA OnOwnTyped ==
    ASSUME NEW j \in Jobs, NEW k \in Jobs \cup {None}
    PROVE  OnOwn(j, k) \in StreamState
  BY DEF OnOwn, StreamState

LEMMA BecomesTyped ==
    ASSUME TypeOK, NEW s \in Streams, NEW st \in StreamState, Becomes(s, st)
    PROVE  stream' \in [Streams -> StreamState]
  BY DEF TypeOK, Becomes

LEMMA AfterTyped ==
    ASSUME NEW st \in StreamState, NEW k \in Jobs \cup {None}, NEW what
    PROVE  After(st, k, what) \in StreamState
<1>1. [st EXCEPT !.heard = None, !.ended = FALSE] \in StreamState
  BY DEF StreamState
<1>2. [st EXCEPT !.heard = k, !.ended = (what = "end")] \in StreamState
  BY DEF StreamState
<1>3. Told(k, st.missed) \in StreamState
  <2>1. st.missed \in Jobs \cup {None}
    BY DEF StreamState
  <2> QED
    BY <2>1, ShutTyped
<1> QED
  BY <1>1, <1>2, <1>3 DEF After

LEMMA PublishesTyped ==
    ASSUME TypeOK, NEW k \in Jobs \cup {None}, NEW what, Publishes(k, what)
    PROVE  stream' \in [Streams -> StreamState]
<1>1. stream \in [Streams -> StreamState]
  BY DEF TypeOK
<1>2. \A s \in Streams : After(stream[s], k, what) \in StreamState
  BY <1>1, AfterTyped
<1> QED
  BY <1>1, <1>2 DEF Publishes

LEMMA AtOwnEndTyped ==
    ASSUME NEW st \in StreamState, NEW j \in Jobs, NEW from
    PROVE  AtOwnEnd(st, j, from) \in StreamState
<1>1. st.heard \in Jobs \cup {None}
  BY DEF StreamState
<1>2. /\ Told(j, None) \in StreamState /\ Told(st.heard, j) \in StreamState
      /\ OnOther(st.heard, j) \in StreamState
  BY <1>1, ShutTyped, OnOtherTyped
<1> QED
  BY <1>2 DEF AtOwnEnd

LEMMA PublishesNamelessTyped ==
    ASSUME TypeOK, NEW j \in Jobs, PublishesNameless(j)
    PROVE  stream' \in [Streams -> StreamState]
<1>1. \A s \in Streams : stream[s] \in StreamState
  BY DEF TypeOK
<1>2. \A s \in Streams : [stream[s] EXCEPT !.ended = TRUE] \in StreamState
  BY <1>1 DEF StreamState
<1>3. \A s \in Streams : \A from : AtOwnEnd(stream[s], j, from) \in StreamState
  BY <1>1, AtOwnEndTyped
<1> QED
  BY <1>1, <1>2, <1>3 DEF PublishesNameless

(* Every step keeps the types; the outcome a build writes is a status. *)
LEMMA TypeStep ==
    ASSUME TypeOK, RowsAndBuilds, Next
    PROVE  TypeOK'
<1>1. ASSUME StartScheduled PROVE TypeOK'
  <2>1. created + 1 \in Jobs
    BY <1>1, RagConstants DEF StartScheduled, Create, TypeOK, Jobs
  <2>2. build' \in [Jobs -> BuildState]
    BY <1>1, <2>1, GoesTyped DEF TypeOK, StartScheduled, Create, Places, Live
  <2> QED
    BY <1>1, <2>1, <2>2, RagConstants DEF TypeOK, StartScheduled, Create, Statuses,
       Unfinished
<1>2. ASSUME NEW s \in Streams, Follow(s) PROVE TypeOK'
  <2>1. PICK j \in Jobs : Becomes(s, OnOther(j, None))
    BY <1>2 DEF Follow
  <2>2. stream' \in [Streams -> StreamState]
    BY <2>1, OnOtherTyped, BecomesTyped
  <2> QED
    BY <1>2, <2>2 DEF Follow, TypeOK
<1>3. ASSUME NEW s \in Streams, StartManual(s) PROVE TypeOK'
  <2>1. created + 1 \in Jobs
    BY <1>3, RagConstants DEF StartManual, Create, TypeOK, Jobs
  <2>2. build' \in [Jobs -> BuildState]
    BY <1>3, <2>1, GoesTyped DEF TypeOK, StartManual, Create, Places, Live
  <2>3. stream' \in [Streams -> StreamState]
    <3>1. PICK k \in Jobs \cup {None} : Becomes(s, OnOwn(created + 1, k))
      BY <1>3 DEF StartManual
    <3> QED
      BY <2>1, <3>1, OnOwnTyped, BecomesTyped
  <2> QED
    BY <1>3, <2>1, <2>2, <2>3, RagConstants DEF TypeOK, StartManual, Create, Statuses,
       Unfinished
<1>4. ASSUME NEW s \in Streams, Disconnect(s) PROVE TypeOK'
  <2>1. stream' \in [Streams -> StreamState]
    BY <1>4, ShutTyped, BecomesTyped DEF Disconnect
  <2> QED
    BY <1>4, <2>1 DEF Disconnect, TypeOK
<1>5. ASSUME NEW j \in Jobs, AcquireLock(j) PROVE TypeOK'
  <2>1. build' \in [Jobs -> BuildState]
    BY <1>5, GoesTyped DEF TypeOK, AcquireLock, Goes, Places, Live, Owning
  <2> QED
    BY <1>5, <2>1 DEF TypeOK, AcquireLock
<1>6. ASSUME NEW j \in Jobs, NoLock(j) PROVE TypeOK'
  <2>1. PICK o \in {"skipped", "failed", "cancelled", "lost"} :
            /\ status' = IF o = "lost" THEN status ELSE [status EXCEPT ![j] = o]
            /\ build' = [build EXCEPT ![j].pc = "notify", ![j].outcome = o]
    BY <1>6 DEF NoLock
  <2>2. o \in Outcomes /\ "notify" \in Places
    BY DEF Outcomes, Finished, Places
  <2>3. build' \in [Jobs -> BuildState]
    BY <2>1, <2>2, GoesWithOutcomeTyped DEF TypeOK
  <2> QED
    BY <1>6, <2>1, <2>3 DEF TypeOK, NoLock, Statuses, Finished
<1>7. ASSUME NEW j \in Jobs, StartJob(j) PROVE TypeOK'
  <2>1. build' \in [Jobs -> BuildState]
    BY <1>7, GoesStartedTyped DEF TypeOK, StartJob, Places, Live, Owning, Looking
  <2>2. stream' \in [Streams -> StreamState]
    BY <1>7, PublishesTyped DEF StartJob
  <2> QED
    BY <1>7, <2>1, <2>2 DEF TypeOK, StartJob, Statuses, Unfinished
<1>8. ASSUME NEW j \in Jobs, LookBefore(j) PROVE TypeOK'
  <2>1. CASE Ends(j, "cancelled")
    BY <1>8, <2>1, EndsIs DEF LookBefore, TypeOK, Outcomes, Finished
  <2>2. CASE Goes(j, "work")
    BY <1>8, <2>2, GoesTyped DEF LookBefore, TypeOK, Goes, Places, Live, Owning, Looking
  <2> QED
    BY <1>8, <2>1, <2>2 DEF LookBefore
<1>9. ASSUME NEW j \in Jobs, Work(j) PROVE TypeOK'
  <2>1. build' \in [Jobs -> BuildState]
    BY <1>9, GoesTyped DEF TypeOK, Work, Goes, Places, Live, Owning, Looking
  <2>2. stream' \in [Streams -> StreamState]
    BY <1>9, PublishesTyped DEF Work
  <2> QED
    BY <1>9, <2>1, <2>2 DEF TypeOK, Work, Recorded
<1>10. ASSUME NEW j \in Jobs, LookAfter(j) PROVE TypeOK'
  <2>1. ASSUME NEW o \in {"cancelled", "completed"}, Ends(j, o) PROVE TypeOK'
    BY <1>10, <2>1, EndsIs DEF LookAfter, TypeOK, Outcomes, Finished
  <2>2. CASE /\ build[j].step # Steps
             /\ build' = [build EXCEPT ![j].pc = "before", ![j].step = @ + 1]
    <3>1. build[j].step + 1 \in 1 .. Steps
      BY <2>2, BuildStateIs DEF TypeOK
    <3>2. build' \in [Jobs -> BuildState]
      BY <2>2, <3>1, GoesToStepTyped DEF TypeOK, Places, Live, Owning, Looking
    <3> QED
      BY <1>10, <3>2 DEF LookAfter, TypeOK
  <2> QED
    BY <1>10, <2>1, <2>2 DEF LookAfter
<1>11. ASSUME NEW j \in Jobs, Raise(j) PROVE TypeOK'
  BY <1>11, EndsIs DEF Raise, TypeOK, Outcomes, Finished
<1>12. ASSUME NEW j \in Jobs, FinishRead(j) PROVE TypeOK'
  <2>1. build' \in [Jobs -> BuildState]
    BY <1>12, GoesTyped DEF TypeOK, FinishRead, Goes, Places, Live, Owning
  <2> QED
    BY <1>12, <2>1 DEF TypeOK, FinishRead
<1>13. ASSUME NEW j \in Jobs, FinishWrite(j) PROVE TypeOK'
  <2>1. build' \in [Jobs -> BuildState]
    BY <1>13, GoesTyped DEF TypeOK, FinishWrite, Goes, Places, Live, Owning
  <2> QED
    BY <1>13, <2>1 DEF TypeOK, FinishWrite, RowsAndBuilds, Statuses
<1>14. ASSUME NEW j \in Jobs, FinishFails(j) PROVE TypeOK'
  <2>1. build' \in [Jobs -> BuildState]
    BY <1>14, GoesWithOutcomeTyped DEF TypeOK, FinishFails, Places, Live, Owning, Outcomes
  <2> QED
    BY <1>14, <2>1 DEF TypeOK, FinishFails
<1>15. ASSUME NEW j \in Jobs, Release(j) PROVE TypeOK'
  <2>1. build' \in [Jobs -> BuildState]
    BY <1>15, GoesTyped DEF TypeOK, Release, Goes, Places
  <2> QED
    BY <1>15, <2>1 DEF TypeOK, Release
<1>16. ASSUME NEW j \in Jobs, Notify(j) PROVE TypeOK'
  <2>1. build' \in [Jobs -> BuildState]
    BY <1>16, GoesTyped DEF TypeOK, Notify, Goes, Places
  <2>2. stream' \in [Streams -> StreamState]
    BY <1>16, PublishesTyped, PublishesNamelessTyped DEF Notify
  <2> QED
    BY <1>16, <2>1, <2>2 DEF TypeOK, Notify
<1>17. ASSUME NEW j \in Jobs, NotifyFails(j) PROVE TypeOK'
  <2>1. build' \in [Jobs -> BuildState]
    BY <1>17, GoesWithOutcomeTyped DEF TypeOK, NotifyFails, Places, Outcomes
  <2>2. stream' \in [Streams -> StreamState]
    BY <1>17, ShutTyped DEF TypeOK, NotifyFails
  <2> QED
    BY <1>17, <2>1, <2>2 DEF TypeOK, NotifyFails
<1>18. ASSUME NEW j \in Jobs, Crash(j) PROVE TypeOK'
  <2>1. "dead" \in Places /\ 1 \in 1 .. Steps
    BY RagConstants DEF Places
  <2>2. build' \in [Jobs -> BuildState]
    BY <1>18, <2>1, GoesToStepTyped DEF TypeOK, Crash
  <2>3. stream' \in [Streams -> StreamState]
    BY <1>18, ShutTyped DEF TypeOK, Crash
  <2> QED
    BY <1>18, <2>2, <2>3 DEF TypeOK, Crash
<1>28. ASSUME NEW j \in Jobs, Logs(j) PROVE TypeOK'
  <2>1. stream' \in [Streams -> StreamState]
    BY <1>28, PublishesTyped DEF Logs
  <2> QED
    BY <1>28, <2>1 DEF Logs, TypeOK
<1>27. \A c \in Cancels : cancel[c].job \in Jobs \cup {None}
  BY DEF TypeOK, CancelState
<1>19. ASSUME NEW c \in Cancels, CancelRead(c) PROVE TypeOK'
  BY <1>19 DEF CancelRead, TypeOK, CancelState
<1>20. ASSUME NEW c \in Cancels, CancelWrite(c) PROVE TypeOK'
  BY <1>20 DEF CancelWrite, TypeOK, Statuses, Unfinished, CancelState
<1>21. ASSUME NEW c \in Cancels, LockHeld(c) PROVE TypeOK'
  <2>1. stream' \in [Streams -> StreamState]
    BY <1>21, <1>27, PublishesTyped DEF LockHeld
  <2> QED
    BY <1>21, <2>1 DEF LockHeld, NoCancel, TypeOK, CancelState
<1>22. ASSUME NEW c \in Cancels, ProbeLock(c) PROVE TypeOK'
  <2>1. stream' \in [Streams -> StreamState]
    BY <1>22, <1>27, PublishesTyped DEF ProbeLock
  <2> QED
    BY <1>22, <2>1 DEF ProbeLock, TypeOK, CancelState
<1>23. ASSUME NEW c \in Cancels, ProbeRelease(c) PROVE TypeOK'
  BY <1>23 DEF ProbeRelease, TypeOK, CancelState
<1>24. ASSUME NEW c \in Cancels, ClearRead(c) PROVE TypeOK'
  <2>1. stream' \in [Streams -> StreamState]
    BY <1>24, <1>27, PublishesTyped DEF TypeOK, ClearRead
  <2> QED
    BY <1>24, <2>1 DEF TypeOK, ClearRead, NoCancel, CancelState
<1>25. ASSUME NEW c \in Cancels, ClearWrite(c) PROVE TypeOK'
  <2>1. stream' \in [Streams -> StreamState]
    BY <1>25, <1>27, PublishesTyped DEF TypeOK, ClearWrite
  <2> QED
    BY <1>25, <2>1 DEF TypeOK, ClearWrite, NoCancel, CancelState, Statuses, Finished
<1>26. ASSUME NEW c \in Cancels, CancelDies(c) PROVE TypeOK'
  BY <1>26 DEF CancelDies, NoCancel, TypeOK, CancelState
<1> QED
  BY <1>1, <1>2, <1>3, <1>4, <1>5, <1>6, <1>7, <1>8, <1>9, <1>10, <1>11, <1>12, <1>13,
     <1>14, <1>15, <1>16, <1>17, <1>18, <1>19, <1>20, <1>21, <1>22, <1>23, <1>24, <1>25,
     <1>26, <1>28 DEF Next, BuildStep, CancelStep

(* A build leaves "start" with a running row, and a cancel request marks     *)
(* only rows of builds that did.                                            *)
LEMMA RowsStep ==
    ASSUME TypeOK, RowsAndBuilds, CancelsKnowTheirBuild, Next
    PROVE  RowsAndBuilds'
<1>1. CASE UNCHANGED <<created, build, status, asked>>
  BY <1>1 DEF RowsAndBuilds
<1>2. ASSUME StartScheduled PROVE RowsAndBuilds'
  BY <1>2 DEF StartScheduled, Create, TypeOK, RowsAndBuilds, NotStarted, Active, Jobs
<1>3. ASSUME NEW s \in Streams, StartManual(s) PROVE RowsAndBuilds'
  BY <1>3 DEF StartManual, Create, TypeOK, RowsAndBuilds, NotStarted, Active, Jobs
<1>4. ASSUME NEW j \in Jobs, AcquireLock(j) PROVE RowsAndBuilds'
  BY <1>4 DEF AcquireLock, Goes, RowsAndBuilds, NotStarted
<1>5. ASSUME NEW j \in Jobs, NoLock(j) PROVE RowsAndBuilds'
  BY <1>5 DEF NoLock, TypeOK, RowsAndBuilds, NotStarted, Looking
<1>6. ASSUME NEW j \in Jobs, StartJob(j) PROVE RowsAndBuilds'
  BY <1>6 DEF StartJob, TypeOK, RowsAndBuilds, NotStarted
<1>7. ASSUME NEW j \in Jobs, LookBefore(j) PROVE RowsAndBuilds'
  <2>1. CASE Ends(j, "cancelled")
    <3>1. /\ build' \in [Jobs -> BuildState]
          /\ build'[j].pc = "finish" /\ build'[j].outcome = "cancelled"
          /\ \A i \in Jobs \ {j} : build'[i] = build[i]
      BY <2>1, EndsIs DEF Outcomes, Finished
    <3> QED
      BY <1>7, <2>1, <3>1 DEF LookBefore, RowsAndBuilds, NotStarted, Looking, Finished
  <2>2. CASE Goes(j, "work")
    BY <1>7, <2>2 DEF LookBefore, Goes, RowsAndBuilds, NotStarted, Looking
  <2> QED
    BY <1>7, <2>1, <2>2 DEF LookBefore
<1>8. ASSUME NEW j \in Jobs, Work(j) PROVE RowsAndBuilds'
  BY <1>8 DEF Work, Goes, Recorded, RowsAndBuilds, NotStarted, Looking
<1>9. ASSUME NEW j \in Jobs, LookAfter(j) PROVE RowsAndBuilds'
  <2>1. CASE Ends(j, "cancelled")
    <3>1. /\ build' \in [Jobs -> BuildState]
          /\ build'[j].pc = "finish" /\ build'[j].outcome = "cancelled"
          /\ \A i \in Jobs \ {j} : build'[i] = build[i]
      BY <2>1, EndsIs DEF Outcomes, Finished
    <3> QED
      BY <1>9, <2>1, <3>1 DEF LookAfter, RowsAndBuilds, NotStarted, Looking, Finished
  <2>2. CASE Ends(j, "completed") /\ status[j] \notin {"cancelling", "cancelled"}
    <3>1. /\ build' \in [Jobs -> BuildState]
          /\ build'[j].pc = "finish" /\ build'[j].outcome = "completed"
          /\ \A i \in Jobs \ {j} : build'[i] = build[i]
      BY <2>2, EndsIs DEF Outcomes, Finished
    <3> QED
      BY <1>9, <2>2, <3>1 DEF LookAfter, RowsAndBuilds, NotStarted, Looking, Finished
  <2>3. CASE build' = [build EXCEPT ![j].pc = "before", ![j].step = @ + 1]
    BY <1>9, <2>3 DEF LookAfter, TypeOK, RowsAndBuilds, NotStarted, Looking
  <2> QED
    BY <1>9, <2>1, <2>2, <2>3 DEF LookAfter
<1>10. ASSUME NEW j \in Jobs, Raise(j) PROVE RowsAndBuilds'
  <2>1. PICK o \in {"failed", "cancelled"} : Ends(j, o)
    BY <1>10 DEF Raise
  <2>2. /\ build' \in [Jobs -> BuildState]
        /\ build'[j].pc = "finish" /\ build'[j].outcome = o
        /\ \A i \in Jobs \ {j} : build'[i] = build[i]
    BY <2>1, EndsIs DEF Outcomes, Finished
  <2> QED
    BY <1>10, <2>2 DEF Raise, RowsAndBuilds, NotStarted, Looking, Finished
<1>11. ASSUME NEW j \in Jobs, FinishRead(j) PROVE RowsAndBuilds'
  BY <1>11 DEF FinishRead, Goes, RowsAndBuilds, NotStarted, Looking
<1>12. ASSUME NEW j \in Jobs, FinishWrite(j) PROVE RowsAndBuilds'
  BY <1>12 DEF FinishWrite, Goes, RowsAndBuilds, NotStarted, Looking
<1>13. ASSUME NEW j \in Jobs, FinishFails(j) PROVE RowsAndBuilds'
  BY <1>13 DEF FinishFails, TypeOK, RowsAndBuilds, NotStarted, Looking
<1>14. ASSUME NEW j \in Jobs, Release(j) PROVE RowsAndBuilds'
  BY <1>14 DEF Release, Goes, RowsAndBuilds, NotStarted, Looking
<1>15. ASSUME NEW j \in Jobs, Notify(j) PROVE RowsAndBuilds'
  BY <1>15 DEF Notify, Goes, RowsAndBuilds, NotStarted, Looking
<1>16. ASSUME NEW j \in Jobs, NotifyFails(j) PROVE RowsAndBuilds'
  BY <1>16 DEF NotifyFails, TypeOK, RowsAndBuilds, NotStarted, Looking
<1>17. ASSUME NEW j \in Jobs, Crash(j) PROVE RowsAndBuilds'
  BY <1>17 DEF Crash, TypeOK, RowsAndBuilds, NotStarted, Live, Owning, Looking
<1>18. ASSUME NEW c \in Cancels, CancelWrite(c) PROVE RowsAndBuilds'
  BY <1>18 DEF CancelWrite, RowsAndBuilds, CancelsKnowTheirBuild
<1>19. ASSUME NEW c \in Cancels, ClearWrite(c) PROVE RowsAndBuilds'
  BY <1>19 DEF ClearWrite, RowsAndBuilds, Active
<1> QED
  BY <1>1, <1>2, <1>3, <1>4, <1>5, <1>6, <1>7, <1>8, <1>9, <1>10, <1>11, <1>12, <1>13,
     <1>14, <1>15, <1>16, <1>17, <1>18, <1>19 DEF Next, BuildStep, CancelStep, Follow,
     Disconnect, Logs, CancelRead, LockHeld, ProbeLock, ProbeRelease, ClearRead, CancelDies

(* Builds and cancel requests have different names, so neither gives up *)
(* the other's lock.                                                       *)
LEMMA LockStep ==
    ASSUME TypeOK, BuildersOwnTheLock, CancelsKnowTheirBuild, Next
    PROVE  BuildersOwnTheLock'
<1>1. CASE UNCHANGED <<build, lock>>
  BY <1>1 DEF BuildersOwnTheLock
<1>2. ASSUME StartScheduled PROVE BuildersOwnTheLock'
  BY <1>2 DEF StartScheduled, Create, BuildersOwnTheLock, Owning, Looking
<1>3. ASSUME NEW s \in Streams, StartManual(s) PROVE BuildersOwnTheLock'
  BY <1>3 DEF StartManual, Create, BuildersOwnTheLock, Owning, Looking
<1>4. ASSUME NEW j \in Jobs, AcquireLock(j) PROVE BuildersOwnTheLock'
  BY <1>4 DEF AcquireLock, Goes, BuildersOwnTheLock, Jobs, None
<1>5. ASSUME NEW j \in Jobs, NoLock(j) PROVE BuildersOwnTheLock'
  BY <1>5 DEF NoLock, TypeOK, BuildersOwnTheLock, Owning, Looking
<1>6. ASSUME NEW j \in Jobs, StartJob(j) PROVE BuildersOwnTheLock'
  BY <1>6 DEF StartJob, TypeOK, BuildersOwnTheLock, Owning
<1>7. ASSUME NEW j \in Jobs, LookBefore(j) PROVE BuildersOwnTheLock'
  <2>1. CASE Ends(j, "cancelled")
    <3>1. /\ build' \in [Jobs -> BuildState]
          /\ build'[j].pc = "finish" /\ build'[j].outcome = "cancelled"
          /\ \A i \in Jobs \ {j} : build'[i] = build[i]
      BY <2>1, EndsIs DEF Outcomes, Finished
    <3> QED
      BY <1>7, <2>1, <3>1 DEF LookBefore, BuildersOwnTheLock, Owning, Looking
  <2>2. CASE Goes(j, "work")
    BY <1>7, <2>2 DEF LookBefore, Goes, BuildersOwnTheLock, Owning, Looking
  <2> QED
    BY <1>7, <2>1, <2>2 DEF LookBefore
<1>8. ASSUME NEW j \in Jobs, Work(j) PROVE BuildersOwnTheLock'
  BY <1>8 DEF Work, Goes, BuildersOwnTheLock, Owning, Looking
<1>9. ASSUME NEW j \in Jobs, LookAfter(j) PROVE BuildersOwnTheLock'
  <2>1. CASE Ends(j, "cancelled")
    <3>1. /\ build' \in [Jobs -> BuildState]
          /\ build'[j].pc = "finish" /\ build'[j].outcome = "cancelled"
          /\ \A i \in Jobs \ {j} : build'[i] = build[i]
      BY <2>1, EndsIs DEF Outcomes, Finished
    <3> QED
      BY <1>9, <2>1, <3>1 DEF LookAfter, BuildersOwnTheLock, Owning, Looking
  <2>2. CASE Ends(j, "completed") /\ status[j] \notin {"cancelling", "cancelled"}
    <3>1. /\ build' \in [Jobs -> BuildState]
          /\ build'[j].pc = "finish" /\ build'[j].outcome = "completed"
          /\ \A i \in Jobs \ {j} : build'[i] = build[i]
      BY <2>2, EndsIs DEF Outcomes, Finished
    <3> QED
      BY <1>9, <2>2, <3>1 DEF LookAfter, BuildersOwnTheLock, Owning, Looking
  <2>3. CASE build' = [build EXCEPT ![j].pc = "before", ![j].step = @ + 1]
    BY <1>9, <2>3 DEF LookAfter, TypeOK, BuildersOwnTheLock, Owning, Looking
  <2> QED
    BY <1>9, <2>1, <2>2, <2>3 DEF LookAfter
<1>10. ASSUME NEW j \in Jobs, Raise(j) PROVE BuildersOwnTheLock'
  <2>1. PICK o \in {"failed", "cancelled"} : Ends(j, o)
    BY <1>10 DEF Raise
  <2>2. /\ build' \in [Jobs -> BuildState]
        /\ build'[j].pc = "finish" /\ build'[j].outcome = o
        /\ \A i \in Jobs \ {j} : build'[i] = build[i]
    BY <2>1, EndsIs DEF Outcomes, Finished
  <2> QED
    BY <1>10, <2>2 DEF Raise, BuildersOwnTheLock, Owning
<1>11. ASSUME NEW j \in Jobs, FinishRead(j) PROVE BuildersOwnTheLock'
  BY <1>11 DEF FinishRead, Goes, BuildersOwnTheLock, Owning
<1>12. ASSUME NEW j \in Jobs, FinishWrite(j) PROVE BuildersOwnTheLock'
  BY <1>12 DEF FinishWrite, Goes, BuildersOwnTheLock, Owning
<1>13. ASSUME NEW j \in Jobs, FinishFails(j) PROVE BuildersOwnTheLock'
  BY <1>13 DEF FinishFails, TypeOK, BuildersOwnTheLock, Owning
<1>14. ASSUME NEW j \in Jobs, Release(j) PROVE BuildersOwnTheLock'
  BY <1>14 DEF Release, Goes, TypeOK, BuildersOwnTheLock, Owning, Looking
<1>15. ASSUME NEW j \in Jobs, Notify(j) PROVE BuildersOwnTheLock'
  BY <1>15 DEF Notify, Goes, BuildersOwnTheLock, Owning, Looking
<1>16. ASSUME NEW j \in Jobs, NotifyFails(j) PROVE BuildersOwnTheLock'
  BY <1>16 DEF NotifyFails, TypeOK, BuildersOwnTheLock, Owning, Looking
<1>17. ASSUME NEW j \in Jobs, Crash(j) PROVE BuildersOwnTheLock'
  BY <1>17 DEF Crash, TypeOK, BuildersOwnTheLock, Owning, Looking
<1>18. ASSUME NEW c \in Cancels, ProbeLock(c) PROVE BuildersOwnTheLock'
  BY <1>18 DEF ProbeLock, BuildersOwnTheLock, Jobs, None
<1>19. ASSUME NEW c \in Cancels, ProbeRelease(c) PROVE BuildersOwnTheLock'
  BY <1>19, RagConstants DEF ProbeRelease, BuildersOwnTheLock, CancelsKnowTheirBuild, Jobs
<1>20. ASSUME NEW c \in Cancels, CancelDies(c) PROVE BuildersOwnTheLock'
  BY <1>20, RagConstants DEF CancelDies, NoCancel, BuildersOwnTheLock, Jobs
<1> QED
  BY <1>1, <1>2, <1>3, <1>4, <1>5, <1>6, <1>7, <1>8, <1>9, <1>10, <1>11, <1>12, <1>13,
     <1>14, <1>15, <1>16, <1>17, <1>18, <1>19, <1>20 DEF Next, BuildStep, CancelStep,
     Follow, Disconnect, Logs, CancelRead, CancelWrite, LockHeld, ClearRead, ClearWrite

(* The probe shows that the marked build does not own the lock; having      *)
(* started, it is over, and builds do not start again.                      *)
LEMMA CancelsStep ==
    ASSUME TypeOK, RowsAndBuilds, BuildersOwnTheLock, CancelsKnowTheirBuild, Next
    PROVE  CancelsKnowTheirBuild'
<1>1. CASE UNCHANGED <<cancel, build, lock>>
  BY <1>1 DEF CancelsKnowTheirBuild
<1>2. ASSUME StartScheduled PROVE CancelsKnowTheirBuild'
  BY <1>2 DEF StartScheduled, Create, TypeOK, RowsAndBuilds, CancelsKnowTheirBuild,
     NotStarted
<1>3. ASSUME NEW s \in Streams, StartManual(s) PROVE CancelsKnowTheirBuild'
  BY <1>3 DEF StartManual, Create, TypeOK, RowsAndBuilds, CancelsKnowTheirBuild,
     NotStarted
<1>4. ASSUME NEW j \in Jobs, AcquireLock(j) PROVE CancelsKnowTheirBuild'
  BY <1>4, RagConstants DEF AcquireLock, Goes, CancelsKnowTheirBuild, NotStarted, None
<1>5. ASSUME NEW j \in Jobs, NoLock(j) PROVE CancelsKnowTheirBuild'
  BY <1>5 DEF NoLock, TypeOK, CancelsKnowTheirBuild, NotStarted
<1>6. ASSUME NEW j \in Jobs, StartJob(j) PROVE CancelsKnowTheirBuild'
  BY <1>6 DEF StartJob, TypeOK, CancelsKnowTheirBuild, NotStarted
<1>7. ASSUME NEW j \in Jobs, LookBefore(j) PROVE CancelsKnowTheirBuild'
  <2>1. CASE Ends(j, "cancelled")
    <3>1. /\ build' \in [Jobs -> BuildState]
          /\ build'[j].pc = "finish" /\ build'[j].outcome = "cancelled"
          /\ \A i \in Jobs \ {j} : build'[i] = build[i]
      BY <2>1, EndsIs DEF Outcomes, Finished
    <3> QED
      BY <1>7, <2>1, <3>1 DEF LookBefore, CancelsKnowTheirBuild, NotStarted, Live, Owning,
         Looking
  <2>2. CASE Goes(j, "work")
    BY <1>7, <2>2 DEF LookBefore, Goes, CancelsKnowTheirBuild, NotStarted, Live, Owning,
       Looking
  <2> QED
    BY <1>7, <2>1, <2>2 DEF LookBefore
<1>8. ASSUME NEW j \in Jobs, Work(j) PROVE CancelsKnowTheirBuild'
  BY <1>8 DEF Work, Goes, CancelsKnowTheirBuild, NotStarted, Live, Owning, Looking
<1>9. ASSUME NEW j \in Jobs, LookAfter(j) PROVE CancelsKnowTheirBuild'
  <2>1. CASE Ends(j, "cancelled")
    <3>1. /\ build' \in [Jobs -> BuildState]
          /\ build'[j].pc = "finish" /\ build'[j].outcome = "cancelled"
          /\ \A i \in Jobs \ {j} : build'[i] = build[i]
      BY <2>1, EndsIs DEF Outcomes, Finished
    <3> QED
      BY <1>9, <2>1, <3>1 DEF LookAfter, CancelsKnowTheirBuild, NotStarted, Live, Owning,
         Looking
  <2>2. CASE Ends(j, "completed") /\ status[j] \notin {"cancelling", "cancelled"}
    <3>1. /\ build' \in [Jobs -> BuildState]
          /\ build'[j].pc = "finish" /\ build'[j].outcome = "completed"
          /\ \A i \in Jobs \ {j} : build'[i] = build[i]
      BY <2>2, EndsIs DEF Outcomes, Finished
    <3> QED
      BY <1>9, <2>2, <3>1 DEF LookAfter, CancelsKnowTheirBuild, NotStarted, Live, Owning,
         Looking
  <2>3. CASE build' = [build EXCEPT ![j].pc = "before", ![j].step = @ + 1]
    BY <1>9, <2>3 DEF LookAfter, TypeOK, CancelsKnowTheirBuild, NotStarted, Live, Owning,
       Looking
  <2> QED
    BY <1>9, <2>1, <2>2, <2>3 DEF LookAfter
<1>10. ASSUME NEW j \in Jobs, Raise(j) PROVE CancelsKnowTheirBuild'
  <2>1. PICK o \in {"failed", "cancelled"} : Ends(j, o)
    BY <1>10 DEF Raise
  <2>2. /\ build' \in [Jobs -> BuildState]
        /\ build'[j].pc = "finish" /\ build'[j].outcome = o
        /\ \A i \in Jobs \ {j} : build'[i] = build[i]
    BY <2>1, EndsIs DEF Outcomes, Finished
  <2> QED
    BY <1>10, <2>2 DEF Raise, CancelsKnowTheirBuild, NotStarted, Live, Owning
<1>11. ASSUME NEW j \in Jobs, FinishRead(j) PROVE CancelsKnowTheirBuild'
  BY <1>11 DEF FinishRead, Goes, CancelsKnowTheirBuild, NotStarted, Live, Owning
<1>12. ASSUME NEW j \in Jobs, FinishWrite(j) PROVE CancelsKnowTheirBuild'
  BY <1>12 DEF FinishWrite, Goes, CancelsKnowTheirBuild, NotStarted, Live, Owning
<1>13. ASSUME NEW j \in Jobs, FinishFails(j) PROVE CancelsKnowTheirBuild'
  BY <1>13 DEF FinishFails, TypeOK, CancelsKnowTheirBuild, NotStarted, Live, Owning
<1>14. ASSUME NEW j \in Jobs, Release(j) PROVE CancelsKnowTheirBuild'
  BY <1>14, RagConstants DEF Release, Goes, BuildersOwnTheLock, CancelsKnowTheirBuild,
     NotStarted, Live, Owning, Jobs
<1>15. ASSUME NEW j \in Jobs, Notify(j) PROVE CancelsKnowTheirBuild'
  BY <1>15 DEF Notify, Goes, CancelsKnowTheirBuild, NotStarted, Live, Owning, Looking
<1>16. ASSUME NEW j \in Jobs, NotifyFails(j) PROVE CancelsKnowTheirBuild'
  BY <1>16 DEF NotifyFails, TypeOK, CancelsKnowTheirBuild, NotStarted, Live, Owning,
     Looking
<1>17. ASSUME NEW j \in Jobs, Crash(j) PROVE CancelsKnowTheirBuild'
  BY <1>17, RagConstants DEF Crash, TypeOK, CancelsKnowTheirBuild, NotStarted, Live,
     Owning, Looking, Jobs
<1>18. ASSUME NEW c \in Cancels, CancelRead(c) PROVE CancelsKnowTheirBuild'
  BY <1>18 DEF CancelRead, IsNewest, ManualActive, RowsAndBuilds, CancelsKnowTheirBuild
<1>19. ASSUME NEW c \in Cancels, CancelWrite(c) PROVE CancelsKnowTheirBuild'
  BY <1>19 DEF CancelWrite, CancelsKnowTheirBuild
<1>20. ASSUME NEW c \in Cancels, LockHeld(c) PROVE CancelsKnowTheirBuild'
  BY <1>20 DEF LockHeld, NoCancel, CancelsKnowTheirBuild
<1>21. ASSUME NEW c \in Cancels, ProbeLock(c) PROVE CancelsKnowTheirBuild'
  BY <1>21, RagConstants DEF ProbeLock, BuildersOwnTheLock, CancelsKnowTheirBuild,
     NotStarted, Live, Jobs, None
<1>22. ASSUME NEW c \in Cancels, ProbeRelease(c) PROVE CancelsKnowTheirBuild'
  BY <1>22 DEF ProbeRelease, TypeOK, CancelsKnowTheirBuild
<1>23. ASSUME NEW c \in Cancels, ClearRead(c) PROVE CancelsKnowTheirBuild'
  <2>1. CASE cancel' = [cancel EXCEPT ![c].pc = "clearing"]
    BY <1>23, <2>1 DEF ClearRead, CancelsKnowTheirBuild
  <2>2. CASE cancel' = [cancel EXCEPT ![c] = NoCancel]
    BY <1>23, <2>2 DEF ClearRead, NoCancel, CancelsKnowTheirBuild
  <2> QED
    BY <1>23, <2>1, <2>2 DEF ClearRead
<1>24. ASSUME NEW c \in Cancels, ClearWrite(c) PROVE CancelsKnowTheirBuild'
  BY <1>24 DEF ClearWrite, NoCancel, CancelsKnowTheirBuild
<1>25. ASSUME NEW c \in Cancels, CancelDies(c) PROVE CancelsKnowTheirBuild'
  BY <1>25 DEF CancelDies, NoCancel, TypeOK, CancelsKnowTheirBuild
<1> QED
  BY <1>1, <1>2, <1>3, <1>4, <1>5, <1>6, <1>7, <1>8, <1>9, <1>10, <1>11, <1>12, <1>13,
     <1>14, <1>15, <1>16, <1>17, <1>18, <1>19, <1>20, <1>21, <1>22, <1>23, <1>24, <1>25
     DEF Next, BuildStep, CancelStep, Follow, Disconnect, Logs

(* Nobody but its own finish unmarks the row of a live build. *)
LEMMA AskedStep ==
    ASSUME TypeOK, RowsAndBuilds, CancelsKnowTheirBuild, AskedIsMarked, Next
    PROVE  AskedIsMarked'
<1>1. CASE UNCHANGED <<asked, build, status>>
  BY <1>1 DEF AskedIsMarked
<1>2. ASSUME StartScheduled PROVE AskedIsMarked'
  BY <1>2 DEF StartScheduled, Create, TypeOK, AskedIsMarked, Looking
<1>3. ASSUME NEW s \in Streams, StartManual(s) PROVE AskedIsMarked'
  BY <1>3 DEF StartManual, Create, TypeOK, AskedIsMarked, Looking
<1>4. ASSUME NEW j \in Jobs, AcquireLock(j) PROVE AskedIsMarked'
  BY <1>4 DEF AcquireLock, Goes, AskedIsMarked, Looking
<1>5. ASSUME NEW j \in Jobs, NoLock(j) PROVE AskedIsMarked'
  BY <1>5 DEF NoLock, TypeOK, AskedIsMarked, Looking
<1>6. ASSUME NEW j \in Jobs, StartJob(j) PROVE AskedIsMarked'
  BY <1>6 DEF StartJob, TypeOK, RowsAndBuilds, AskedIsMarked, NotStarted
<1>7. ASSUME NEW j \in Jobs, LookBefore(j) PROVE AskedIsMarked'
  <2>1. CASE Ends(j, "cancelled")
    <3>1. /\ build' \in [Jobs -> BuildState]
          /\ build'[j].pc = "finish" /\ build'[j].outcome = "cancelled"
          /\ \A i \in Jobs \ {j} : build'[i] = build[i]
      BY <2>1, EndsIs DEF Outcomes, Finished
    <3> QED
      BY <1>7, <2>1, <3>1 DEF LookBefore, AskedIsMarked, Looking
  <2>2. CASE Goes(j, "work")
    BY <1>7, <2>2 DEF LookBefore, Goes, AskedIsMarked, Looking
  <2> QED
    BY <1>7, <2>1, <2>2 DEF LookBefore
<1>8. ASSUME NEW j \in Jobs, Work(j) PROVE AskedIsMarked'
  BY <1>8 DEF Work, Goes, Recorded, AskedIsMarked, Looking
<1>9. ASSUME NEW j \in Jobs, LookAfter(j) PROVE AskedIsMarked'
  <2>1. CASE Ends(j, "cancelled")
    <3>1. /\ build' \in [Jobs -> BuildState]
          /\ build'[j].pc = "finish" /\ build'[j].outcome = "cancelled"
          /\ \A i \in Jobs \ {j} : build'[i] = build[i]
      BY <2>1, EndsIs DEF Outcomes, Finished
    <3> QED
      BY <1>9, <2>1, <3>1 DEF LookAfter, AskedIsMarked, Looking
  <2>2. CASE Ends(j, "completed") /\ status[j] \notin {"cancelling", "cancelled"}
    <3>1. /\ build' \in [Jobs -> BuildState]
          /\ build'[j].pc = "finish" /\ build'[j].outcome = "completed"
          /\ \A i \in Jobs \ {j} : build'[i] = build[i]
      BY <2>2, EndsIs DEF Outcomes, Finished
    <3> QED
      BY <1>9, <2>2, <3>1 DEF LookAfter, AskedIsMarked, Looking
  <2>3. CASE build' = [build EXCEPT ![j].pc = "before", ![j].step = @ + 1]
    BY <1>9, <2>3 DEF LookAfter, TypeOK, AskedIsMarked, Looking
  <2> QED
    BY <1>9, <2>1, <2>2, <2>3 DEF LookAfter
<1>10. ASSUME NEW j \in Jobs, Raise(j) PROVE AskedIsMarked'
  <2>1. PICK o \in {"failed", "cancelled"} : Ends(j, o)
    BY <1>10 DEF Raise
  <2>2. /\ build' \in [Jobs -> BuildState]
        /\ build'[j].pc = "finish" /\ build'[j].outcome = o
        /\ \A i \in Jobs \ {j} : build'[i] = build[i]
    BY <2>1, EndsIs DEF Outcomes, Finished
  <2> QED
    BY <1>10, <2>2 DEF Raise, AskedIsMarked, Looking
<1>11. ASSUME NEW j \in Jobs, FinishRead(j) PROVE AskedIsMarked'
  BY <1>11 DEF FinishRead, Goes, AskedIsMarked, Looking
<1>12. ASSUME NEW j \in Jobs, FinishWrite(j) PROVE AskedIsMarked'
  BY <1>12 DEF FinishWrite, Goes, AskedIsMarked, Looking
<1>13. ASSUME NEW j \in Jobs, FinishFails(j) PROVE AskedIsMarked'
  BY <1>13 DEF FinishFails, TypeOK, AskedIsMarked, Looking
<1>14. ASSUME NEW j \in Jobs, Release(j) PROVE AskedIsMarked'
  BY <1>14 DEF Release, Goes, AskedIsMarked, Looking
<1>15. ASSUME NEW j \in Jobs, Notify(j) PROVE AskedIsMarked'
  BY <1>15 DEF Notify, Goes, AskedIsMarked, Looking
<1>16. ASSUME NEW j \in Jobs, NotifyFails(j) PROVE AskedIsMarked'
  BY <1>16 DEF NotifyFails, TypeOK, AskedIsMarked, Looking
<1>17. ASSUME NEW j \in Jobs, Crash(j) PROVE AskedIsMarked'
  BY <1>17 DEF Crash, TypeOK, AskedIsMarked, Looking
<1>18. ASSUME NEW c \in Cancels, CancelWrite(c) PROVE AskedIsMarked'
  BY <1>18 DEF CancelWrite, TypeOK, AskedIsMarked
<1>19. ASSUME NEW c \in Cancels, ClearWrite(c) PROVE AskedIsMarked'
  BY <1>19 DEF ClearWrite, CancelsKnowTheirBuild, AskedIsMarked, Live, Owning
<1> QED
  BY <1>1, <1>2, <1>3, <1>4, <1>5, <1>6, <1>7, <1>8, <1>9, <1>10, <1>11, <1>12, <1>13,
     <1>14, <1>15, <1>16, <1>17, <1>18, <1>19 DEF Next, BuildStep, CancelStep, Follow,
     Disconnect, Logs, CancelRead, LockHeld, ProbeLock, ProbeRelease, ClearRead, CancelDies

(* A build that is asked sees the mark at its last look. *)
LEMMA ObeyStep ==
    ASSUME TypeOK, RowsAndBuilds, AskedIsMarked, CancellationsAreObeyed, Next
    PROVE  CancellationsAreObeyed'
<1>1. CASE UNCHANGED <<asked, build, status>>
  BY <1>1 DEF CancellationsAreObeyed
<1>2. ASSUME StartScheduled PROVE CancellationsAreObeyed'
  BY <1>2 DEF StartScheduled, Create, CancellationsAreObeyed
<1>3. ASSUME NEW s \in Streams, StartManual(s) PROVE CancellationsAreObeyed'
  BY <1>3 DEF StartManual, Create, CancellationsAreObeyed
<1>4. ASSUME NEW j \in Jobs, AcquireLock(j) PROVE CancellationsAreObeyed'
  BY <1>4 DEF AcquireLock, Goes, CancellationsAreObeyed
<1>5. ASSUME NEW j \in Jobs, NoLock(j) PROVE CancellationsAreObeyed'
  BY <1>5 DEF NoLock, TypeOK, CancellationsAreObeyed
<1>6. ASSUME NEW j \in Jobs, StartJob(j) PROVE CancellationsAreObeyed'
  BY <1>6 DEF StartJob, TypeOK, CancellationsAreObeyed
<1>7. ASSUME NEW j \in Jobs, LookBefore(j) PROVE CancellationsAreObeyed'
  <2>1. CASE Ends(j, "cancelled")
    <3>1. /\ build' \in [Jobs -> BuildState]
          /\ build'[j].pc = "finish" /\ build'[j].outcome = "cancelled"
          /\ \A i \in Jobs \ {j} : build'[i] = build[i]
      BY <2>1, EndsIs DEF Outcomes, Finished
    <3> QED
      BY <1>7, <2>1, <3>1 DEF LookBefore, CancellationsAreObeyed
  <2>2. CASE Goes(j, "work")
    BY <1>7, <2>2 DEF LookBefore, Goes, CancellationsAreObeyed
  <2> QED
    BY <1>7, <2>1, <2>2 DEF LookBefore
<1>8. ASSUME NEW j \in Jobs, Work(j) PROVE CancellationsAreObeyed'
  BY <1>8 DEF Work, Goes, Recorded, CancellationsAreObeyed
<1>9. ASSUME NEW j \in Jobs, LookAfter(j) PROVE CancellationsAreObeyed'
  <2>1. CASE Ends(j, "cancelled")
    <3>1. /\ build' \in [Jobs -> BuildState]
          /\ build'[j].pc = "finish" /\ build'[j].outcome = "cancelled"
          /\ \A i \in Jobs \ {j} : build'[i] = build[i]
      BY <2>1, EndsIs DEF Outcomes, Finished
    <3> QED
      BY <1>9, <2>1, <3>1 DEF LookAfter, CancellationsAreObeyed
  <2>2. CASE Ends(j, "completed") /\ status[j] \notin {"cancelling", "cancelled"}
    <3>1. /\ build' \in [Jobs -> BuildState]
          /\ build'[j].pc = "finish" /\ build'[j].outcome = "completed"
          /\ \A i \in Jobs \ {j} : build'[i] = build[i]
      BY <2>2, EndsIs DEF Outcomes, Finished
    <3> QED
      BY <1>9, <2>2, <3>1 DEF LookAfter, AskedIsMarked, CancellationsAreObeyed, Looking
  <2>3. CASE build' = [build EXCEPT ![j].pc = "before", ![j].step = @ + 1]
    BY <1>9, <2>3 DEF LookAfter, TypeOK, CancellationsAreObeyed
  <2> QED
    BY <1>9, <2>1, <2>2, <2>3 DEF LookAfter
<1>10. ASSUME NEW j \in Jobs, Raise(j) PROVE CancellationsAreObeyed'
  <2>1. PICK o \in {"failed", "cancelled"} : Ends(j, o)
    BY <1>10 DEF Raise
  <2>2. /\ build' \in [Jobs -> BuildState]
        /\ build'[j].pc = "finish" /\ build'[j].outcome = o
        /\ \A i \in Jobs \ {j} : build'[i] = build[i]
    BY <2>1, EndsIs DEF Outcomes, Finished
  <2> QED
    BY <1>10, <2>2 DEF Raise, CancellationsAreObeyed
<1>11. ASSUME NEW j \in Jobs, FinishRead(j) PROVE CancellationsAreObeyed'
  BY <1>11 DEF FinishRead, Goes, CancellationsAreObeyed
<1>12. ASSUME NEW j \in Jobs, FinishWrite(j) PROVE CancellationsAreObeyed'
  BY <1>12 DEF FinishWrite, Goes, CancellationsAreObeyed
<1>13. ASSUME NEW j \in Jobs, FinishFails(j) PROVE CancellationsAreObeyed'
  BY <1>13 DEF FinishFails, TypeOK, CancellationsAreObeyed
<1>14. ASSUME NEW j \in Jobs, Release(j) PROVE CancellationsAreObeyed'
  BY <1>14 DEF Release, Goes, CancellationsAreObeyed
<1>15. ASSUME NEW j \in Jobs, Notify(j) PROVE CancellationsAreObeyed'
  BY <1>15 DEF Notify, Goes, CancellationsAreObeyed
<1>16. ASSUME NEW j \in Jobs, NotifyFails(j) PROVE CancellationsAreObeyed'
  BY <1>16 DEF NotifyFails, TypeOK, CancellationsAreObeyed
<1>17. ASSUME NEW j \in Jobs, Crash(j) PROVE CancellationsAreObeyed'
  BY <1>17 DEF Crash, TypeOK, CancellationsAreObeyed
<1>18. ASSUME NEW c \in Cancels, CancelWrite(c) PROVE CancellationsAreObeyed'
  BY <1>18 DEF CancelWrite, TypeOK, RowsAndBuilds, CancellationsAreObeyed
<1>19. ASSUME NEW c \in Cancels, ClearWrite(c) PROVE CancellationsAreObeyed'
  BY <1>19 DEF ClearWrite, CancellationsAreObeyed
<1> QED
  BY <1>1, <1>2, <1>3, <1>4, <1>5, <1>6, <1>7, <1>8, <1>9, <1>10, <1>11, <1>12, <1>13,
     <1>14, <1>15, <1>16, <1>17, <1>18, <1>19 DEF Next, BuildStep, CancelStep, Follow,
     Disconnect, Logs, CancelRead, LockHeld, ProbeLock, ProbeRelease, ClearRead, CancelDies

(* While a build or a cancel request is about to finish a row, only another *)
(* cancel request may have finished it.                                     *)
LEMMA OpenStep ==
    ASSUME TypeOK, RowsAndBuilds, CancelsKnowTheirBuild, RowsStayOpen, Next
    PROVE  RowsStayOpen'
<1>1. CASE UNCHANGED <<build, status, cancel>>
  BY <1>1 DEF RowsStayOpen
<1>2. ASSUME StartScheduled PROVE RowsStayOpen'
  BY <1>2 DEF StartScheduled, Create, TypeOK, RowsStayOpen, Unfinished
<1>3. ASSUME NEW s \in Streams, StartManual(s) PROVE RowsStayOpen'
  BY <1>3 DEF StartManual, Create, TypeOK, RowsStayOpen, Unfinished
<1>4. ASSUME NEW j \in Jobs, AcquireLock(j) PROVE RowsStayOpen'
  BY <1>4 DEF AcquireLock, Goes, RowsStayOpen
<1>5. ASSUME NEW j \in Jobs, NoLock(j) PROVE RowsStayOpen'
  BY <1>5 DEF NoLock, TypeOK, CancelsKnowTheirBuild, RowsStayOpen, Live
<1>6. ASSUME NEW j \in Jobs, StartJob(j) PROVE RowsStayOpen'
  BY <1>6 DEF StartJob, TypeOK, RowsStayOpen, Unfinished
<1>7. ASSUME NEW j \in Jobs, LookBefore(j) PROVE RowsStayOpen'
  <2>1. CASE Ends(j, "cancelled")
    <3>1. /\ build' \in [Jobs -> BuildState]
          /\ build'[j].pc = "finish" /\ build'[j].outcome = "cancelled"
          /\ \A i \in Jobs \ {j} : build'[i] = build[i]
      BY <2>1, EndsIs DEF Outcomes, Finished
    <3> QED
      BY <1>7, <2>1, <3>1 DEF LookBefore, RowsStayOpen
  <2>2. CASE Goes(j, "work")
    BY <1>7, <2>2 DEF LookBefore, Goes, RowsStayOpen
  <2> QED
    BY <1>7, <2>1, <2>2 DEF LookBefore
<1>8. ASSUME NEW j \in Jobs, Work(j) PROVE RowsStayOpen'
  BY <1>8 DEF Work, Goes, Recorded, RowsStayOpen
<1>9. ASSUME NEW j \in Jobs, LookAfter(j) PROVE RowsStayOpen'
  <2>1. CASE Ends(j, "cancelled")
    <3>1. /\ build' \in [Jobs -> BuildState]
          /\ build'[j].pc = "finish" /\ build'[j].outcome = "cancelled"
          /\ \A i \in Jobs \ {j} : build'[i] = build[i]
      BY <2>1, EndsIs DEF Outcomes, Finished
    <3> QED
      BY <1>9, <2>1, <3>1 DEF LookAfter, RowsStayOpen
  <2>2. CASE Ends(j, "completed") /\ status[j] \notin {"cancelling", "cancelled"}
    <3>1. /\ build' \in [Jobs -> BuildState]
          /\ build'[j].pc = "finish" /\ build'[j].outcome = "completed"
          /\ \A i \in Jobs \ {j} : build'[i] = build[i]
      BY <2>2, EndsIs DEF Outcomes, Finished
    <3> QED
      BY <1>9, <2>2, <3>1 DEF LookAfter, RowsStayOpen
  <2>3. CASE build' = [build EXCEPT ![j].pc = "before", ![j].step = @ + 1]
    BY <1>9, <2>3 DEF LookAfter, TypeOK, RowsStayOpen
  <2> QED
    BY <1>9, <2>1, <2>2, <2>3 DEF LookAfter
<1>10. ASSUME NEW j \in Jobs, Raise(j) PROVE RowsStayOpen'
  <2>1. PICK o \in {"failed", "cancelled"} : Ends(j, o)
    BY <1>10 DEF Raise
  <2>2. /\ build' \in [Jobs -> BuildState]
        /\ build'[j].pc = "finish" /\ build'[j].outcome = o
        /\ \A i \in Jobs \ {j} : build'[i] = build[i]
    BY <2>1, EndsIs DEF Outcomes, Finished
  <2> QED
    BY <1>10, <2>2 DEF Raise, RowsStayOpen
<1>11. ASSUME NEW j \in Jobs, FinishRead(j) PROVE RowsStayOpen'
  BY <1>11 DEF FinishRead, Goes, RowsStayOpen
<1>12. ASSUME NEW j \in Jobs, FinishWrite(j) PROVE RowsStayOpen'
  BY <1>12 DEF FinishWrite, Goes, TypeOK, CancelsKnowTheirBuild, RowsStayOpen, Live,
     Owning
<1>13. ASSUME NEW j \in Jobs, FinishFails(j) PROVE RowsStayOpen'
  BY <1>13 DEF FinishFails, TypeOK, RowsStayOpen
<1>14. ASSUME NEW j \in Jobs, Release(j) PROVE RowsStayOpen'
  BY <1>14 DEF Release, Goes, RowsStayOpen
<1>15. ASSUME NEW j \in Jobs, Notify(j) PROVE RowsStayOpen'
  BY <1>15 DEF Notify, Goes, RowsStayOpen
<1>16. ASSUME NEW j \in Jobs, NotifyFails(j) PROVE RowsStayOpen'
  BY <1>16 DEF NotifyFails, TypeOK, RowsStayOpen
<1>17. ASSUME NEW j \in Jobs, Crash(j) PROVE RowsStayOpen'
  BY <1>17 DEF Crash, TypeOK, RowsStayOpen
<1>18. ASSUME NEW c \in Cancels, CancelRead(c) PROVE RowsStayOpen'
  BY <1>18 DEF CancelRead, RowsStayOpen
<1>19. ASSUME NEW c \in Cancels, CancelWrite(c) PROVE RowsStayOpen'
  BY <1>19 DEF CancelWrite, CancelsKnowTheirBuild, RowsStayOpen, NotStarted, Unfinished
<1>20. ASSUME NEW c \in Cancels, LockHeld(c) PROVE RowsStayOpen'
  BY <1>20 DEF LockHeld, NoCancel, RowsStayOpen
<1>21. ASSUME NEW c \in Cancels, ProbeLock(c) PROVE RowsStayOpen'
  BY <1>21 DEF ProbeLock, RowsStayOpen
<1>22. ASSUME NEW c \in Cancels, ProbeRelease(c) PROVE RowsStayOpen'
  BY <1>22 DEF ProbeRelease, RowsStayOpen
<1>23. ASSUME NEW c \in Cancels, ClearRead(c) PROVE RowsStayOpen'
  <2>1. CASE cancel' = [cancel EXCEPT ![c].pc = "clearing"]
    BY <1>23, <2>1 DEF ClearRead, NoCancel, Clearable, RowsStayOpen
  <2>2. CASE cancel' = [cancel EXCEPT ![c] = NoCancel]
    BY <1>23, <2>2 DEF ClearRead, NoCancel, RowsStayOpen
  <2> QED
    BY <1>23, <2>1, <2>2 DEF ClearRead
<1>24. ASSUME NEW c \in Cancels, ClearWrite(c) PROVE RowsStayOpen'
  BY <1>24 DEF ClearWrite, NoCancel, CancelsKnowTheirBuild, RowsStayOpen, Live, Owning,
     Unfinished
<1>25. ASSUME NEW c \in Cancels, CancelDies(c) PROVE RowsStayOpen'
  BY <1>25 DEF CancelDies, NoCancel, RowsStayOpen
<1> QED
  BY <1>1, <1>2, <1>3, <1>4, <1>5, <1>6, <1>7, <1>8, <1>9, <1>10, <1>11, <1>12, <1>13,
     <1>14, <1>15, <1>16, <1>17, <1>18, <1>19, <1>20, <1>21, <1>22, <1>23, <1>24, <1>25
     DEF Next, BuildStep, CancelStep, Follow, Disconnect, Logs

(* Types and the invariant hold initially. *)
LEMMA InitInv ==
    ASSUME Init
    PROVE  TypeOK /\ IInv
<1>1. Absent \in BuildState
  BY RagConstants, BuildStateIs DEF Absent, Places, Outcomes
<1>2. TypeOK
  BY <1>1, ShutTyped, RagConstants DEF Init, TypeOK, Statuses, CancelState, NoCancel
<1>3. RowsAndBuilds /\ BuildersOwnTheLock /\ AskedIsMarked /\ CancellationsAreObeyed
  BY DEF Init, RowsAndBuilds, BuildersOwnTheLock, AskedIsMarked, CancellationsAreObeyed,
     Absent, Owning, Looking, Active
<1>4. CancelsKnowTheirBuild /\ RowsStayOpen
  BY DEF Init, CancelsKnowTheirBuild, RowsStayOpen, NoCancel, Absent
<1> QED
  BY <1>2, <1>3, <1>4 DEF IInv

(* Every step keeps them. *)
LEMMA NextInv ==
    ASSUME TypeOK, IInv, [Next]_vars
    PROVE  TypeOK' /\ IInv'
<1>1. CASE Next
  BY <1>1, TypeStep, RowsStep, LockStep, CancelsStep, AskedStep, ObeyStep, OpenStep DEF
     IInv
<1>2. CASE UNCHANGED vars
  BY <1>2 DEF vars, TypeOK, IInv, RowsAndBuilds, BuildersOwnTheLock,
     CancelsKnowTheirBuild, AskedIsMarked, CancellationsAreObeyed, RowsStayOpen
<1> QED
  BY <1>1, <1>2

(* The rows, the lock and the coroutines keep their types, and the          *)
(* invariant holds, whatever the numbers of builds and requests.            *)
THEOREM TypeAndInvariant == Spec => [](TypeOK /\ IInv)
<1>1. Init => TypeOK /\ IInv
  BY InitInv
<1>2. (TypeOK /\ IInv) /\ [Next]_vars => (TypeOK /\ IInv)'
  BY NextInv
<1> QED
  BY <1>1, <1>2, PTL DEF Spec

(* TypeOK of every build, cancel request and stream. *)
THEOREM TypeCorrect == Spec => []TypeOK
  BY TypeAndInvariant

(* No two builds execute steps of the pipeline at once. *)
THEOREM OneBuilderAtATime == Spec => []BuildersOwnTheLock
<1>1. IInv => BuildersOwnTheLock
  BY DEF IInv
<1> QED
  BY <1>1, TypeAndInvariant, PTL

(* A cancellation stored before the last look of a build is never lost to   *)
(* a progress update or to another cancellation.                            *)
THEOREM CancellationsAlwaysObeyed == Spec => []CancellationsAreObeyed
<1>1. IInv => CancellationsAreObeyed
  BY DEF IInv
<1> QED
  BY <1>1, TypeAndInvariant, PTL

(* A cancel request that found the lock free finishes only rows of builds   *)
(* that are over, however long it takes.                                    *)
THEOREM LiveBuildsNeverCleared == Spec => []LiveBuildsAreNotCleared
<1>1. IInv => LiveBuildsAreNotCleared
  BY DEF IInv, CancelsKnowTheirBuild, LiveBuildsAreNotCleared
<1> QED
  BY <1>1, TypeAndInvariant, PTL

(* Only the write of a cancel request changes the status of a finished row. *)
LEMMA ReopenStep ==
    ASSUME TypeOK, IInv, NEW j \in Jobs, Next, status[j] \in Finished, status'[j] # status[j]
    PROVE  \E c \in Cancels : CancelWrite(c) /\ cancel[c].job = j
<1>1. CASE StartScheduled \/ \E s \in Streams : StartManual(s)
  BY <1>1 DEF StartScheduled, StartManual, Create, TypeOK, IInv, RowsAndBuilds,
     RowsStayOpen, BuildState, Unfinished, Finished
<1>2. ASSUME NEW i \in Jobs, NoLock(i) \/ StartJob(i) PROVE FALSE
  BY <1>2 DEF NoLock, StartJob, TypeOK, IInv, RowsStayOpen, Finished
<1>3. ASSUME NEW i \in Jobs, FinishWrite(i) PROVE FALSE
  BY <1>3 DEF FinishWrite, IInv, RowsStayOpen, Unfinished, Finished
<1>4. ASSUME NEW c \in Cancels, ClearWrite(c) PROVE FALSE
  BY <1>4 DEF ClearWrite, IInv, RowsStayOpen, Unfinished, Finished
<1>5. ASSUME NEW c \in Cancels, CancelWrite(c) PROVE cancel[c].job = j
  BY <1>5 DEF CancelWrite
<1>6. CASE UNCHANGED status
  BY <1>6
<1>7. \/ UNCHANGED status
      \/ StartScheduled
      \/ \E s \in Streams : StartManual(s)
      \/ \E i \in Jobs : NoLock(i) \/ StartJob(i) \/ FinishWrite(i)
      \/ \E c \in Cancels : ClearWrite(c) \/ CancelWrite(c)
  BY DEF Next, BuildStep, CancelStep, Follow, Disconnect, Logs, AcquireLock, LookBefore, Work,
     LookAfter, Raise, FinishRead, FinishFails, Release, Notify, NotifyFails, Crash,
     CancelRead, LockHeld, ProbeLock, ProbeRelease, ClearRead, CancelDies, Recorded
<1> QED
  BY <1>1, <1>2, <1>3, <1>4, <1>5, <1>6, <1>7

(* A finished row changes only when a cancel request that read it while it  *)
(* was running writes it: finishes, clears and starts never reopen one.     *)
THEOREM OnlyLateCancelsEverReopen == Spec => OnlyLateCancelsReopen
<1> DEFINE Reopened ==
        \A j \in Jobs :
            status[j] \in Finished /\ status'[j] # status[j] =>
                \E c \in Cancels : CancelWrite(c) /\ cancel[c].job = j
<1>1. TypeOK /\ IInv /\ [Next]_vars => [Reopened]_vars
  BY ReopenStep
<1>2. Spec => [][Reopened]_vars
  BY <1>1, TypeAndInvariant, PTL DEF Spec
<1> QED
  BY <1>2 DEF OnlyLateCancelsReopen

=============================================================================
