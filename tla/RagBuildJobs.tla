---------------------------- MODULE RagBuildJobs ----------------------------
(***************************************************************************)
(* Builds of the retrieval index: one advisory lock, a row per build, and  *)
(* requests that start, follow and cancel builds.                          *)
(*                                                                         *)
(* A build (rag/pipeline.py) creates its row, tries the lock, becomes      *)
(* running, executes its steps with a look at the row before and after     *)
(* each, finishes the row and releases the lock.  A cancellation           *)
(* (api/routes/rag.py) marks the newest active manual row and, when nobody *)
(* holds the lock, finishes the row itself.  To find out it takes the lock *)
(* for a moment.  Only the start locks the row; every other update of      *)
(* rag/job_tracking.py reads the row and writes it later, so it is two     *)
(* actions here.  A stream request follows the active manual build or      *)
(* starts one.                                                             *)
(***************************************************************************)
EXTENDS Naturals

CONSTANTS MaxJobs,   \* bound: builds ever created
          Steps,     \* steps of a build
          Cancels,   \* cancel requests that may be under way at once
          Streams    \* stream requests that may be under way at once

ASSUME RagConstants ==
    /\ MaxJobs \in Nat
    /\ Steps \in Nat \ {0}
    /\ Cancels \cap Nat = {}

Jobs == 1 .. MaxJobs
None == 0

VARIABLES
    created,   \* how many rows were created; the newest has the last started_at
    trigger,   \* RagBuildJob.trigger
    status,    \* RagBuildJob.status
    lock,      \* holder of the pipeline's advisory lock: a build, a cancel or None
    build,     \* the coroutine of each build: where it is, its step, whether its
               \* row was started, its outcome
    cancel,    \* the handler of each cancel: where it is, the row it read
    stream,    \* stream_rag_build of each connection
    asked      \* history: a cancellation was stored before the build's last look

vars == <<created, trigger, status, lock, build, cancel, stream, asked>>

Active == {"running", "cancelling"}
Unfinished == {"pending", "running", "cancelling"}
Finished == {"completed", "failed", "cancelled", "skipped"}

(* A stream that is not open: it has left, or was told of the end of build  *)
(* j.  The end of its own build m it may have missed.                       *)
Shut(state, j, m) ==
    [state |-> state, job |-> j, own |-> FALSE, heard |-> None, ended |-> FALSE, missed |-> m]
Left == Shut("left", None, None)
Told(j, m) == Shut("told", j, m)

(* Where a build may be.  It owns the lock from "start" to "release".       *)
Looking == {"before", "work", "after"}
Owning == {"start", "finish", "write", "release"} \cup Looking
Live == Owning \cup {"lock"}

Absent == [pc |-> "none", step |-> 1, started |-> FALSE, outcome |-> "none"]
NoCancel == [pc |-> "idle", job |-> None]

Init ==
    /\ created = 0
    /\ trigger = [j \in Jobs |-> "scheduled"]
    /\ status = [j \in Jobs |-> "none"]
    /\ lock = None
    /\ build = [j \in Jobs |-> Absent]
    /\ cancel = [c \in Cancels |-> NoCancel]
    /\ stream = [s \in Streams |-> Left]
    /\ asked = [j \in Jobs |-> FALSE]

-----------------------------------------------------------------------------
(* Streams                                                                 *)

ManualActive == {j \in Jobs : trigger[j] = "manual" /\ status[j] \in Active}
IsNewest(j) == j \in ManualActive /\ \A k \in ManualActive : k <= j

Create(kind) ==
    /\ created < MaxJobs
    /\ created' = created + 1
    /\ trigger' = [trigger EXCEPT ![created + 1] = kind]
    /\ status' = [status EXCEPT ![created + 1] = "pending"]
    /\ build' = [build EXCEPT ![created + 1].pc = "lock"]

Owns(s, j) == stream[s].state = "open" /\ stream[s].job = j /\ stream[s].own
Nameless(st) == st.state = "open" /\ st.own /\ ~build[st.job].started

(* What an event that names build k, news of it or its end, does to a       *)
(* stream.  A stream passes on what names its build.  While the build it    *)
(* started has no name yet, what it gets waits in its queue, and the first  *)
(* build named there counts, unless an end without a name comes before.     *)
After(st, k, what) ==
    CASE st.state # "open" -> st
      [] st.state = "open" /\ st.job = k ->
            IF what = "end" THEN Told(k, st.missed) ELSE [st EXCEPT !.heard = None, !.ended = FALSE]
      [] st.state = "open" /\ st.job # k ->
            IF Nameless(st) /\ ~st.ended /\ st.heard \in {None, k}
            THEN [st EXCEPT !.heard = k, !.ended = (what = "end")]
            ELSE st

(* Builds of the scheduler publish nothing. *)
Publishes(k, what) ==
    stream' = IF trigger[k] = "manual"
              THEN [s \in Streams |-> After(stream[s], k, what)]
              ELSE stream

Becomes(s, st) == stream' = [stream EXCEPT ![s] = st]

OnOther(j, m) == [state |-> "open", job |-> j, own |-> FALSE,
                  heard |-> None, ended |-> FALSE, missed |-> m]
OnOwn(j, k) == [state |-> "open", job |-> j, own |-> TRUE, heard |-> k,
                ended |-> k # None /\ build[k].pc \in {"done", "dead"}, missed |-> None]

(* The stream listens first and reads the active build then, so no event    *)
(* after the read is missed: one step.                                      *)
Follow(s) ==
    /\ stream[s].state # "open"
    /\ \E j \in Jobs : IsNewest(j) /\ Becomes(s, OnOther(j, None))
    /\ UNCHANGED <<created, trigger, status, lock, build, cancel, asked>>

(* No build is active: the stream starts one, in a task of its own.  Of a   *)
(* build that is over it may have got the last events since it listens.     *)
StartManual(s) ==
    /\ stream[s].state # "open"
    /\ ManualActive = {}
    /\ Create("manual")
    /\ \E k \in {None} \cup {i \in Jobs : trigger[i] = "manual" /\ build[i].started} :
            Becomes(s, OnOwn(created + 1, k))
    /\ UNCHANGED <<lock, cancel, asked>>

(* The scheduler or the command line. *)
StartScheduled ==
    /\ Create("scheduled")
    /\ UNCHANGED <<lock, cancel, stream, asked>>

(* The end of a build that was never started names no build.  Its own       *)
(* stream passes it on, or has heard of another build first: then it drops  *)
(* it and goes by that one, and only the task's cancellation reaches it     *)
(* even so.  To another stream without a name it is the end of its build.   *)
AtOwnEnd(st, j, from) ==
    IF st.heard = None \/ from = "task" THEN Told(j, None)
    ELSE IF st.ended THEN Told(st.heard, j)
    ELSE OnOther(st.heard, j)

PublishesNameless(j) ==
    \E from \in {"queue"} \cup (IF build[j].outcome = "cancelled" THEN {"task"} ELSE {}) :
        stream' = [s \in Streams |->
            CASE Owns(s, j) -> AtOwnEnd(stream[s], j, from)
              [] ~Owns(s, j) /\ Nameless(stream[s]) /\ stream[s].heard = None ->
                    [stream[s] EXCEPT !.ended = TRUE]
              [] OTHER -> stream[s]]

(* The client goes away; a build it started goes on. *)
Disconnect(s) ==
    /\ stream[s].state = "open"
    /\ Becomes(s, Left)
    /\ UNCHANGED <<created, trigger, status, lock, build, cancel, asked>>

-----------------------------------------------------------------------------
(* Builds                                                                  *)

Goes(j, pc) == build' = [build EXCEPT ![j].pc = pc]
Ends(j, outcome) ==
    build' = [build EXCEPT ![j].pc = "finish", ![j].step = 1, ![j].outcome = outcome]

AcquireLock(j) ==
    /\ build[j].pc = "lock"
    /\ lock = None
    /\ lock' = j
    /\ Goes(j, "start")
    /\ UNCHANGED <<created, trigger, status, cancel, stream, asked>>

(* The lock is taken, or trying it failed.  Nobody else writes a row that   *)
(* is pending, so its read and its write are one step; the database may     *)
(* refuse them.                                                             *)
NoLock(j) ==
    /\ build[j].pc = "lock"
    /\ \E outcome \in {"skipped", "failed", "cancelled", "lost"} :
        /\ outcome = "skipped" => lock # None
        /\ status' = IF outcome = "lost" THEN status ELSE [status EXCEPT ![j] = outcome]
        /\ build' = [build EXCEPT ![j].pc = "notify", ![j].outcome = outcome]
    /\ UNCHANGED <<created, trigger, lock, cancel, stream, asked>>

StartJob(j) ==
    /\ build[j].pc = "start"
    /\ status[j] = "pending"
    /\ status' = [status EXCEPT ![j] = "running"]
    /\ build' = [build EXCEPT ![j].pc = "before", ![j].started = TRUE]
    /\ Publishes(j, "news")
    /\ UNCHANGED <<created, trigger, lock, cancel, asked>>

LookBefore(j) ==
    /\ build[j].pc = "before"
    /\ IF status[j] \in {"cancelling", "cancelled"}
       THEN Ends(j, "cancelled")
       ELSE Goes(j, "work")
    /\ UNCHANGED <<created, trigger, status, lock, cancel, stream, asked>>

(* Mutant: a progress update writes the status it has read. *)
RecordedMutant(j) == [status EXCEPT ![j] = "running"]

(* Progress is recorded before and after the operation of a step: it writes *)
(* current_step and the steps, never the status.                            *)
Recorded(j) == status

Work(j) ==
    /\ build[j].pc = "work"
    /\ status' = Recorded(j)
    /\ Publishes(j, "news")
    /\ Goes(j, "after")
    /\ UNCHANGED <<created, trigger, lock, cancel, asked>>

(* What a build logs is published from a queue of its own. *)
Logs(j) ==
    /\ build[j].started /\ build[j].pc \in Owning \cup {"notify"}
    /\ Publishes(j, "news")
    /\ UNCHANGED <<created, trigger, status, lock, build, cancel, asked>>

(* Mutant: one step too many. *)
LookAfterMutant(j) ==
    /\ build[j].pc = "after"
    /\ IF status[j] \in {"cancelling", "cancelled"}
       THEN Ends(j, "cancelled")
       ELSE IF build[j].step > Steps
       THEN Ends(j, "completed")
       ELSE build' = [build EXCEPT ![j].pc = "before", ![j].step = @ + 1]
    /\ UNCHANGED <<created, trigger, status, lock, cancel, stream, asked>>

LookAfter(j) ==
    /\ build[j].pc = "after"
    /\ IF status[j] \in {"cancelling", "cancelled"}
       THEN Ends(j, "cancelled")
       ELSE IF build[j].step = Steps
       THEN Ends(j, "completed")
       ELSE build' = [build EXCEPT ![j].pc = "before", ![j].step = @ + 1]
    /\ UNCHANGED <<created, trigger, status, lock, cancel, stream, asked>>

(* A step, a database call or the process's shutdown raises. *)
Raise(j) ==
    /\ build[j].pc \in {"start"} \cup Looking
    /\ \E outcome \in {"failed", "cancelled"} : Ends(j, outcome)
    /\ UNCHANGED <<created, trigger, status, lock, cancel, stream, asked>>

(* Mutant: a build that is asked to cancel is taken for finished. *)
FinishReadMutant(j) ==
    /\ build[j].pc = "finish"
    /\ Goes(j, IF status[j] \in {"pending", "running"} THEN "write" ELSE "release")
    /\ UNCHANGED <<created, trigger, status, lock, cancel, stream, asked>>

FinishRead(j) ==
    /\ build[j].pc = "finish"
    /\ Goes(j, IF status[j] \in Unfinished THEN "write" ELSE "release")
    /\ UNCHANGED <<created, trigger, status, lock, cancel, stream, asked>>

FinishWrite(j) ==
    /\ build[j].pc = "write"
    /\ status' = [status EXCEPT ![j] = build[j].outcome]
    /\ Goes(j, "release")
    /\ UNCHANGED <<created, trigger, lock, cancel, stream, asked>>

(* The database fails the update: the row stays as it is. *)
FinishFails(j) ==
    /\ build[j].pc \in {"finish", "write"}
    /\ build' = [build EXCEPT ![j].pc = "release", ![j].outcome = "lost"]
    /\ UNCHANGED <<created, trigger, status, lock, cancel, stream, asked>>

(* Mutant: the lock is released before the row is finished. *)
ReleaseMutant(j) ==
    /\ build[j].pc = "finish"
    /\ lock = j
    /\ lock' = None
    /\ UNCHANGED <<created, trigger, status, build, cancel, stream, asked>>

Release(j) ==
    /\ build[j].pc = "release"
    /\ lock' = None
    /\ Goes(j, "notify")
    /\ UNCHANGED <<created, trigger, status, cancel, stream, asked>>

(* Mutant: the terminal event is left out when the build did not complete. *)
NotifyMutant(j) ==
    /\ build[j].pc = "notify"
    /\ Goes(j, "done")
    /\ IF build[j].outcome = "completed" THEN Publishes(j, "end") ELSE UNCHANGED stream
    /\ UNCHANGED <<created, trigger, status, lock, cancel, asked>>

Notify(j) ==
    /\ build[j].pc = "notify"
    /\ Goes(j, "done")
    /\ IF build[j].started \/ trigger[j] # "manual" THEN Publishes(j, "end") ELSE PublishesNameless(j)
    /\ UNCHANGED <<created, trigger, status, lock, cancel, asked>>

(* The notification is refused: only the stream whose task it was hears it. *)
NotifyFails(j) ==
    /\ build[j].pc = "notify"
    /\ build' = [build EXCEPT ![j].pc = "done", ![j].outcome = "lost"]
    /\ stream' = [s \in Streams |-> IF Owns(s, j) THEN Told(j, None) ELSE stream[s]]
    /\ UNCHANGED <<created, trigger, status, lock, cancel, asked>>

(* The process dies, and the stream that started the build, its database    *)
(* session and the lock with it.                                            *)
Crash(j) ==
    /\ build[j].pc \in Live \cup {"notify"}
    /\ build' = [build EXCEPT ![j].pc = "dead", ![j].step = 1]
    /\ lock' = IF lock = j THEN None ELSE lock
    /\ stream' = [s \in Streams |-> IF Owns(s, j) THEN Left ELSE stream[s]]
    /\ UNCHANGED <<created, trigger, status, cancel, asked>>

-----------------------------------------------------------------------------
(* Cancellations                                                           *)

CancelRead(c) ==
    /\ cancel[c].pc = "idle"
    /\ \E j \in Jobs :
        /\ IsNewest(j)
        /\ cancel' = [cancel EXCEPT ![c] =
                        [pc |-> IF status[j] = "cancelling" THEN "probe" ELSE "mark",
                         job |-> j]]
    /\ UNCHANGED <<created, trigger, status, lock, build, stream, asked>>

(* The row is marked, whatever has become of it since it was read. *)
CancelWrite(c) ==
    LET j == cancel[c].job
    IN  /\ cancel[c].pc = "mark"
        /\ status' = [status EXCEPT ![j] = "cancelling"]
        /\ asked' = [asked EXCEPT ![j] = @ \/ build[j].pc \in Looking]
        /\ cancel' = [cancel EXCEPT ![c].pc = "probe"]
        /\ UNCHANGED <<created, trigger, lock, build, stream>>

(* The mark is published.  Somebody holds the lock: the build will see it. *)
LockHeld(c) ==
    /\ cancel[c].pc = "probe"
    /\ lock # None
    /\ cancel' = [cancel EXCEPT ![c] = NoCancel]
    /\ Publishes(cancel[c].job, "news")
    /\ UNCHANGED <<created, trigger, status, lock, build, asked>>

(* Mutant: the outcome of the attempt to take the lock is not looked at. *)
ProbeLockMutant(c) ==
    /\ cancel[c].pc = "probe"
    /\ cancel' = [cancel EXCEPT ![c].pc = "clear"]
    /\ Publishes(cancel[c].job, "news")
    /\ UNCHANGED <<created, trigger, status, lock, build, asked>>

ProbeLock(c) ==
    /\ cancel[c].pc = "probe"
    /\ lock = None
    /\ lock' = c
    /\ cancel' = [cancel EXCEPT ![c].pc = "probing"]
    /\ Publishes(cancel[c].job, "news")
    /\ UNCHANGED <<created, trigger, status, build, asked>>

ProbeRelease(c) ==
    /\ cancel[c].pc = "probing"
    /\ lock' = None
    /\ cancel' = [cancel EXCEPT ![c].pc = "clear"]
    /\ UNCHANGED <<created, trigger, status, build, stream, asked>>

(* Mutant: the row is finished without a look at its status. *)
ClearableMutant(j) == TRUE

Clearable(j) == status[j] \in Unfinished

(* A row that was finished meanwhile is left alone, yet reported cancelled. *)
ClearRead(c) ==
    LET j == cancel[c].job
    IN  /\ cancel[c].pc = "clear"
        /\ \/ /\ Clearable(j)
              /\ cancel' = [cancel EXCEPT ![c].pc = "clearing"]
              /\ UNCHANGED stream
           \/ /\ ~Clearable(j)
              /\ cancel' = [cancel EXCEPT ![c] = NoCancel]
              /\ Publishes(j, "end")
        /\ UNCHANGED <<created, trigger, status, lock, build, asked>>

ClearWrite(c) ==
    LET j == cancel[c].job
    IN  /\ cancel[c].pc = "clearing"
        /\ status' = [status EXCEPT ![j] = "cancelled"]
        /\ cancel' = [cancel EXCEPT ![c] = NoCancel]
        /\ Publishes(j, "end")
        /\ UNCHANGED <<created, trigger, lock, build, asked>>

(* The request dies anywhere. *)
CancelDies(c) ==
    /\ cancel[c].pc # "idle"
    /\ cancel' = [cancel EXCEPT ![c] = NoCancel]
    /\ lock' = IF lock = c THEN None ELSE lock
    /\ UNCHANGED <<created, trigger, status, build, stream, asked>>

-----------------------------------------------------------------------------
BuildStep(j) ==
    \/ AcquireLock(j) \/ NoLock(j) \/ StartJob(j)
    \/ LookBefore(j) \/ Work(j) \/ LookAfter(j) \/ Raise(j)
    \/ FinishRead(j) \/ FinishWrite(j) \/ FinishFails(j)
    \/ Release(j) \/ Notify(j) \/ NotifyFails(j)

CancelStep(c) ==
    \/ CancelWrite(c) \/ LockHeld(c) \/ ProbeLock(c) \/ ProbeRelease(c)
    \/ ClearRead(c) \/ ClearWrite(c)

Next ==
    \/ StartScheduled
    \/ \E s \in Streams : Follow(s) \/ StartManual(s) \/ Disconnect(s)
    \/ \E j \in Jobs : BuildStep(j) \/ Logs(j) \/ Crash(j)
    \/ \E c \in Cancels : CancelRead(c) \/ CancelStep(c) \/ CancelDies(c)

Spec == Init /\ [][Next]_vars

(* Builds and cancel handlers are coroutines whose database and provider    *)
(* calls return; requests, crashes and disconnections need not happen.      *)
FairSpec ==
    /\ Spec
    /\ \A j \in Jobs : WF_vars(BuildStep(j))
    /\ \A c \in Cancels : WF_vars(CancelStep(c))

-----------------------------------------------------------------------------
(* What must hold                                                          *)

Statuses == {"none"} \cup Unfinished \cup Finished
BuildState ==
    [pc : {"none", "notify", "done", "dead"} \cup Live,
     step : 1 .. Steps,
     started : BOOLEAN,
     outcome : {"none", "lost"} \cup Finished]
CancelState ==
    [pc : {"idle", "mark", "probe", "probing", "clear", "clearing"},
     job : Jobs \cup {None}]
StreamState ==
    [state : {"left", "open", "told"}, job : Jobs \cup {None}, own : BOOLEAN,
     heard : Jobs \cup {None}, ended : BOOLEAN, missed : Jobs \cup {None}]

(* The shape of the rows, of the lock and of the coroutines. *)
TypeOK ==
    /\ created \in 0 .. MaxJobs
    /\ trigger \in [Jobs -> {"manual", "scheduled"}]
    /\ status \in [Jobs -> Statuses]
    /\ lock \in Jobs \cup Cancels \cup {None}
    /\ build \in [Jobs -> BuildState]
    /\ cancel \in [Cancels -> CancelState]
    /\ stream \in [Streams -> StreamState]
    /\ asked \in [Jobs -> BOOLEAN]

(* A build holds the lock through all its steps, until its row is finished: *)
(* two builds never write the index at once.                                *)
BuildersOwnTheLock == \A j \in Jobs : build[j].pc \in Owning => lock = j

(* A cancellation that was stored before the build's last look stops it: no *)
(* progress update, second cancellation or finish brings the build back to  *)
(* completion.                                                              *)
CancellationsAreObeyed ==
    \A j \in Jobs : asked[j] =>
        status[j] # "completed" /\ build[j].outcome # "completed"

(* A cancel request finishes a row itself only when its build is over: the  *)
(* probe of the lock is evidence that stays true.                           *)
LiveBuildsAreNotCleared ==
    \A c \in Cancels : cancel[c].pc \in {"clear", "clearing"} =>
        build[cancel[c].job].pc \notin Live

(* A finished row keeps its status, unless a cancel request read it while   *)
(* the build was running and marks it afterwards.                           *)
OnlyLateCancelsReopen ==
    [][\A j \in Jobs :
        status[j] \in Finished /\ status'[j] # status[j] =>
            \E c \in Cancels : CancelWrite(c) /\ cancel[c].job = j]_vars

(* Without the exception: what the guards of job_tracking.py call a         *)
(* "terminal job" does not stay one.                                        *)
TerminalJobsStayTerminal ==
    [][\A j \in Jobs : status[j] \in Finished => status'[j] = status[j]]_vars

(* A build is skipped because another build is running. *)
SkippedOnlyForABuild ==
    [][\A j \in Jobs :
        status[j] = "pending" /\ status'[j] = "skipped" => lock \in Jobs]_vars

(* Every build that was created ends with a finished row, unless its        *)
(* process dies or the database refuses the last update.                    *)
BuildsEnd ==
    \A j \in Jobs :
        build[j].pc = "lock" ~>
            status[j] \in Finished \/ build[j].pc = "dead" \/ build[j].outcome = "lost"

(* Whoever follows a build that lives, the one it started or another, is    *)
(* told of that build's end, unless it leaves, the build's process dies or  *)
(* the database refuses the build's last words.  The one exception is a     *)
(* build that never started because another one had the lock, or for an     *)
(* error: when its stream had heard of another build by then, it goes by    *)
(* that one and drops the end of its own, which names no build.             *)
FollowersAreTold ==
    \A s \in Streams : \A j \in Jobs :
        stream[s].state = "open" /\ stream[s].job = j /\ build[j].pc \in Live ~>
            \/ stream[s].state = "told" /\ stream[s].job = j
            \/ stream[s].state = "left"
            \/ build[j].pc = "dead" \/ build[j].outcome = "lost"
            \/ stream[s].missed = j /\ ~build[j].started

=============================================================================
