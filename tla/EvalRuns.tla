------------------------------ MODULE EvalRuns ------------------------------
(***************************************************************************)
(* The evaluation runs of one user: the rows and their events, the task    *)
(* that executes a run and the watcher beside it, the requests that stop   *)
(* runs or give up on silent ones, and the streams that follow them.       *)
(*                                                                         *)
(* The task prepares the databases, runs every case in a task of its own   *)
(* and waits for them with asyncio.gather, and stores the report.  When    *)
(* one case raises, gather raises at once and the other cases go on.       *)
(*                                                                         *)
(* A task knows of its cancellation only at its next await, where it is    *)
(* thrown into whatever it does by then, its own clean-up included.  Of    *)
(* the events only those that carry a status are kept; the others refresh  *)
(* the heartbeat like those do.                                            *)
(***************************************************************************)
EXTENDS Naturals, Sequences

CONSTANTS
    MaxRuns,   \* bound: runs ever started
    MaxCases,  \* case tasks of a run: cases times repeats
    Streams    \* connections that may follow a run

ASSUME EvalConstants == MaxRuns \in Nat /\ MaxCases \in Nat

Runs == 1..MaxRuns

VARIABLES
    status,    \* EvalRunJob.status, "none" for a row not there yet
    stale,     \* heartbeat_at is more than 30 seconds ago
    events,    \* EvalRunEvent rows with a status
    task,      \* the coroutine _run_suite of each run
    cases,     \* its case tasks: how many still execute, whether one has raised
    watch,     \* its _watch_persisted_status: off, waiting, or the status it has read
    asked,     \* a stop request is in the run's own process
    stream     \* _stream_persisted_eval_run of each connection

vars == <<status, stale, events, task, cases, watch, asked, stream>>

rows == <<status, stale, events, stream>>

Active == {"start", "cancelling"}

Over == {"complete", "error", "cancelled"}

(***************************************************************************)
(* Rows and events.  A commit wakes the connections that listen.           *)
(***************************************************************************)
Become(X, st) ==
    /\ status' = [r \in Runs |-> IF r \in X THEN st ELSE status[r]]
    /\ stale'  = [r \in Runs |-> stale[r] /\ r \notin X]
    /\ events' = [r \in Runs |-> IF r \in X THEN Append(events[r], st) ELSE events[r]]
    /\ stream' = [s \in Streams |->
                     IF stream[s].run \in X THEN [stream[s] EXCEPT !.woken = TRUE] ELSE stream[s]]

Publish(r, st) ==
    IF status[r] \in Active THEN Become({r}, st) ELSE UNCHANGED rows

(* The commit of an event that the caller does not hear of. *)
MayPublish(r, st) == Publish(r, st) \/ UNCHANGED rows

PublishLog(r) ==
    /\ stale' = [stale EXCEPT ![r] = @ /\ status[r] \notin Active]
    /\ UNCHANGED <<status, events, stream>>

NextRun == {r \in Runs : status[r] = "none" /\ \A q \in 1..(r - 1) : status[q] # "none"}

(* create_eval_run gives up on silent runs first, like Visit; the row goes  *)
(* in if the user has no active one then, and its task and watcher start.   *)
Start(r) ==
    /\ r \in NextRun
    /\ \A q \in Runs : status[q] \notin Active
    /\ Become({r}, "start")
    /\ task'  = [task EXCEPT ![r] = [pc |-> "run", out |-> "complete", hit |-> FALSE, listed |-> TRUE]]
    /\ watch' = [watch EXCEPT ![r] = "wait"]
    /\ UNCHANGED <<cases, asked>>

Silent == {r \in Runs : status[r] \in Active /\ stale[r]}

(* What a task or a watcher may have locked at this moment is skipped. *)
MayLock(r) ==
    \/ task[r].pc \in {"run", "report", "finish", "caught", "broke", "end"}
    \/ cases[r].open > 0 \/ watch[r] \in Active

(* Mutant: expiry stores its verdict without a notification. *)
VisitMutant ==
    /\ \E X \in SUBSET Silent :
          /\ X # {} /\ \A r \in Silent \ X : MayLock(r)
          /\ status' = [r \in Runs |-> IF r \in X THEN "error" ELSE status[r]]
          /\ stale'  = [r \in Runs |-> stale[r] /\ r \notin X]
          /\ events' = [r \in Runs |-> IF r \in X THEN Append(events[r], "error") ELSE events[r]]
    /\ UNCHANGED <<task, cases, watch, asked, stream>>

(* _expire_stale_runs, in the requests for the current run, for a stream    *)
(* and for a new run.                                                       *)
Visit ==
    /\ \E X \in SUBSET Silent :
          /\ X # {} /\ \A r \in Silent \ X : MayLock(r)
          /\ Become(X, "error")
    /\ UNCHANGED <<task, cases, watch, asked>>

TimePasses(r) ==
    /\ status[r] \in Active /\ ~stale[r]
    /\ stale' = [stale EXCEPT ![r] = TRUE]
    /\ UNCHANGED <<status, events, task, cases, watch, asked, stream>>

-----------------------------------------------------------------------------
(* The task. *)
(* A task that has ended.  If it is still listed, cancelling it does nothing. *)
Gone == [pc |-> "done", out |-> "complete", hit |-> FALSE, listed |-> FALSE]

At(r, pc) == task[r].pc = pc /\ ~task[r].hit

Goes(r, pc) == task' = [task EXCEPT ![r].pc = pc]

Logs(r) ==
    /\ At(r, "run") \/ At(r, "report")
    /\ PublishLog(r)
    /\ UNCHANGED <<task, cases, watch, asked>>

(* The databases are prepared, and evaluate starts the cases.               *)
StartCases(r) ==
    /\ At(r, "run")
    /\ Goes(r, "gather")
    /\ cases' = [cases EXCEPT ![r].open = MaxCases]
    /\ UNCHANGED <<rows, watch, asked>>

(* Cancelling the task cancels what it awaits: gather, unless that is over, *)
(* hands it on to every case.                                               *)
Stopping(r) == task[r].pc = "gather" /\ task[r].hit /\ ~cases[r].raised

CaseGoesOn(r) == cases[r].open > 0 /\ ~Stopping(r)

(* _run_single: progress is published when a case starts and ends.          *)
CaseLogs(r) ==
    /\ CaseGoesOn(r)
    /\ PublishLog(r)
    /\ UNCHANGED <<task, cases, watch, asked>>

CaseEnds(r) ==
    /\ CaseGoesOn(r)
    /\ cases' = [cases EXCEPT ![r].open = @ - 1]
    /\ UNCHANGED <<rows, task, watch, asked>>

(* The database fails its progress, before the commit or after. *)
CaseRaises(r) ==
    /\ CaseGoesOn(r)
    /\ PublishLog(r) \/ UNCHANGED rows
    /\ cases' = [cases EXCEPT ![r] = [open |-> @.open - 1, raised |-> TRUE]]
    /\ UNCHANGED <<task, watch, asked>>

(* Gather ends with the last case or with the first that raises. *)
CasesEnd(r) ==
    /\ At(r, "gather")
    /\ \/ cases[r].raised /\ Goes(r, "broke")
       \/ ~cases[r].raised /\ cases[r].open = 0 /\ Goes(r, "report")
    /\ UNCHANGED <<rows, cases, watch, asked>>

(* The suite is through, within the threshold or not, or something raises   *)
(* before or after the cases.                                               *)
SuiteEnds(r) ==
    /\ \/ /\ At(r, "report")
          /\ \E out \in {"complete", "error"} :
                task' = [task EXCEPT ![r].pc = "finish", ![r].out = out]
       \/ /\ At(r, "run") \/ At(r, "report")
          /\ Goes(r, "broke")
    /\ UNCHANGED <<rows, cases, watch, asked>>

Finish(r) ==
    /\ At(r, "finish")
    /\ Publish(r, task[r].out)
    /\ task' = [task EXCEPT ![r].pc = "cleanup", ![r].listed = FALSE]
    /\ UNCHANGED <<cases, watch, asked>>

(* The database fails _finish, before its commit or after. *)
FinishRaises(r) ==
    /\ At(r, "finish")
    /\ MayPublish(r, task[r].out)
    /\ task' = [task EXCEPT ![r].pc = "broke", ![r].listed = FALSE]
    /\ UNCHANGED <<cases, watch, asked>>

(* The handlers write to the log, whatever comes of it, and finish. *)
Caught(r) ==
    /\ At(r, "caught") \/ At(r, "broke")
    /\ task' = [task EXCEPT ![r].pc = "end",
                            ![r].out = IF task[r].pc = "caught" THEN "cancelled" ELSE "error"]
    /\ PublishLog(r) \/ UNCHANGED rows
    /\ UNCHANGED <<cases, watch, asked>>

End(r) ==
    /\ At(r, "end")
    /\ MayPublish(r, task[r].out)
    /\ task' = [task EXCEPT ![r].pc = "cleanup", ![r].listed = FALSE]
    /\ UNCHANGED <<cases, watch, asked>>

(* The finally of _run_suite: the engine is disposed of and the watcher cancelled. *)
CleansUp(r) ==
    /\ At(r, "cleanup")
    /\ task'  = [task EXCEPT ![r] = Gone]
    /\ watch' = [watch EXCEPT ![r] = "off"]
    /\ UNCHANGED <<rows, cases, asked>>

(* CancelledError, thrown where the task waits.  A commit in flight may     *)
(* have been stored or not; past the suite nothing catches it, and from     *)
(* the clean-up on the watcher may be left to find the task gone.           *)
Interrupt(r) ==
    /\ task[r].hit
    /\ \/ /\ task[r].pc \in {"run", "gather", "report"}
          /\ task' = [task EXCEPT ![r].pc = "caught", ![r].hit = FALSE]
          /\ cases' = IF Stopping(r) THEN [cases EXCEPT ![r].open = 0] ELSE cases
          /\ UNCHANGED <<rows, watch>>
       \/ /\ task[r].pc = "finish"
          /\ MayPublish(r, task[r].out)
          /\ task' = [task EXCEPT ![r].pc = "caught", ![r].hit = FALSE, ![r].listed = FALSE]
          /\ UNCHANGED <<cases, watch>>
       \/ /\ task[r].pc \in {"caught", "broke"}
          /\ task' = [task EXCEPT ![r].pc = "cleanup", ![r].hit = FALSE]
          /\ UNCHANGED <<rows, cases, watch>>
       \/ /\ task[r].pc = "end"
          /\ MayPublish(r, task[r].out)
          /\ task' = [task EXCEPT ![r].pc = "cleanup", ![r].hit = FALSE, ![r].listed = FALSE]
          /\ UNCHANGED <<cases, watch>>
       \/ /\ task[r].pc = "cleanup"
          /\ task' = [task EXCEPT ![r] = Gone]
          /\ watch' \in {watch, [watch EXCEPT ![r] = "off"]}
          /\ UNCHANGED <<rows, cases>>
    /\ UNCHANGED asked

-----------------------------------------------------------------------------
(***************************************************************************)
(* The watcher.  heartbeat_eval_run reads the row without a lock; what it  *)
(* writes, and what it returns, is about the row it has read.              *)
(***************************************************************************)
Cancel(r) == task' = [task EXCEPT ![r].hit = task[r].pc # "done"]

(* Mutant: a row that is over ends the watcher and not the task. *)
HeartbeatReadMutant(r) ==
    /\ watch[r] = "wait"
    /\ IF status[r] \in Active
       THEN watch' = [watch EXCEPT ![r] = status[r]]
       ELSE watch' = [watch EXCEPT ![r] = "off"]
    /\ UNCHANGED <<rows, cases, asked, task>>

HeartbeatRead(r) ==
    /\ watch[r] = "wait"
    /\ IF status[r] \in Active
       THEN watch' = [watch EXCEPT ![r] = status[r]] /\ UNCHANGED task
       ELSE watch' = [watch EXCEPT ![r] = "off"] /\ Cancel(r)
    /\ UNCHANGED <<rows, cases, asked>>

(* Mutant: the row goes back as it was read, status and all. *)
HeartbeatWriteMutant(r) ==
    /\ watch[r] \in Active
    /\ stale'  = [stale EXCEPT ![r] = FALSE]
    /\ status' = [status EXCEPT ![r] = watch[r]]
    /\ watch'  = [watch EXCEPT ![r] = IF watch[r] = "start" /\ task[r].pc # "done" THEN "wait" ELSE "off"]
    /\ IF watch[r] = "start" THEN UNCHANGED task ELSE Cancel(r)
    /\ UNCHANGED <<events, cases, asked, stream>>

HeartbeatWrite(r) ==
    /\ watch[r] \in Active
    /\ stale' = [stale EXCEPT ![r] = FALSE]
    /\ watch' = [watch EXCEPT ![r] = IF watch[r] = "start" /\ task[r].pc # "done" THEN "wait" ELSE "off"]
    /\ IF watch[r] = "start" THEN UNCHANGED task ELSE Cancel(r)
    /\ UNCHANGED <<status, events, cases, asked, stream>>

HeartbeatFails(r) ==
    /\ watch[r] \in Active
    /\ watch' = [watch EXCEPT ![r] = IF task[r].pc # "done" THEN "wait" ELSE "off"]
    /\ UNCHANGED <<rows, task, cases, asked>>

-----------------------------------------------------------------------------
(***************************************************************************)
(* Stop requests.  The process that serves one cancels the task at once if *)
(* the run is its own; otherwise the watcher finds the status.             *)
(***************************************************************************)
(* Mutant: every request is stored, not only the first. *)
StopMutant(r) ==
    /\ status[r] # "none"
    /\ IF status[r] \in Active THEN Become({r}, "cancelling") ELSE UNCHANGED rows
    /\ \E own \in BOOLEAN : asked' = [asked EXCEPT ![r] = @ \/ (own /\ task[r].listed)]
    /\ UNCHANGED <<task, cases, watch>>

Stop(r) ==
    /\ status[r] # "none"
    /\ IF status[r] = "start" THEN Become({r}, "cancelling") ELSE UNCHANGED rows
    /\ \E own \in BOOLEAN : asked' = [asked EXCEPT ![r] = @ \/ (own /\ task[r].listed)]
    /\ UNCHANGED <<task, cases, watch>>

LocalCancel(r) ==
    /\ asked[r]
    /\ asked' = [asked EXCEPT ![r] = FALSE]
    /\ IF task[r].listed THEN Cancel(r) ELSE UNCHANGED task
    /\ UNCHANGED <<rows, cases, watch>>

(* The process of the run dies, at any await of the task. *)
Crash(r) ==
    /\ task[r].pc \notin {"none", "done"} \/ cases[r].open > 0
    /\ cases' = [cases EXCEPT ![r].open = 0]
    /\ task'  = [task EXCEPT ![r] = Gone]
    /\ watch' = [watch EXCEPT ![r] = "off"]
    /\ asked' = [asked EXCEPT ![r] = FALSE]
    /\ UNCHANGED rows

-----------------------------------------------------------------------------
(***************************************************************************)
(* Streams.  A connection listens, replays the stored events, then reads   *)
(* on whenever it is woken, until it has sent the event that ends the run. *)
(***************************************************************************)
Follow(s, st) == stream' = [stream EXCEPT ![s] = st]

Ended(pc) == [pc |-> pc, run |-> 0, woken |-> FALSE]

Attach(s, r) ==
    /\ stream[s].pc \in {"off", "told"}
    /\ status[r] # "none"
    /\ Follow(s, [pc |-> "listen", run |-> r, woken |-> FALSE])
    /\ UNCHANGED <<status, stale, events, task, cases, watch, asked>>

HasEnd(r) == \E n \in DOMAIN events[r] : events[r][n] \in Over

Replay(s) ==
    /\ stream[s].pc = "listen"
    /\ Follow(s, IF HasEnd(stream[s].run) THEN Ended("told") ELSE [stream[s] EXCEPT !.pc = "follow"])
    /\ UNCHANGED <<status, stale, events, task, cases, watch, asked>>

ReadOn(s) ==
    /\ stream[s].pc = "follow" /\ stream[s].woken
    /\ Follow(s, IF HasEnd(stream[s].run) THEN Ended("told") ELSE [stream[s] EXCEPT !.woken = FALSE])
    /\ UNCHANGED <<status, stale, events, task, cases, watch, asked>>

Leave(s) ==
    /\ stream[s].pc \in {"listen", "follow"}
    /\ Follow(s, Ended("off"))
    /\ UNCHANGED <<status, stale, events, task, cases, watch, asked>>

-----------------------------------------------------------------------------
Init ==
    /\ status = [r \in Runs |-> "none"]
    /\ stale  = [r \in Runs |-> FALSE]
    /\ events = [r \in Runs |-> <<>>]
    /\ task   = [r \in Runs |-> [pc |-> "none", out |-> "complete", hit |-> FALSE, listed |-> FALSE]]
    /\ cases  = [r \in Runs |-> [open |-> 0, raised |-> FALSE]]
    /\ watch  = [r \in Runs |-> "off"]
    /\ asked  = [r \in Runs |-> FALSE]
    /\ stream = [s \in Streams |-> Ended("off")]

Next ==
    \/ \E r \in Runs :
          \/ Start(r) \/ TimePasses(r)
          \/ Logs(r) \/ StartCases(r) \/ CaseLogs(r) \/ CaseEnds(r) \/ CaseRaises(r) \/ CasesEnd(r)
          \/ SuiteEnds(r) \/ Finish(r) \/ FinishRaises(r) \/ Caught(r) \/ End(r)
          \/ CleansUp(r) \/ Interrupt(r)
          \/ HeartbeatRead(r) \/ HeartbeatWrite(r) \/ HeartbeatFails(r)
          \/ Stop(r) \/ LocalCancel(r) \/ Crash(r)
          \/ \E s \in Streams : Attach(s, r)
    \/ Visit
    \/ \E s \in Streams : Replay(s) \/ ReadOn(s) \/ Leave(s)

Spec == Init /\ [][Next]_vars

(***************************************************************************)
(* A task that can go on does, a watcher wakes every two seconds and the   *)
(* database takes one of its heartbeats in the end, an admitted request    *)
(* goes on, a connection reads what it is woken for, and the clock does    *)
(* not stop for a row without a watcher.  How long the suite and its cases *)
(* run, and whether anything fails, is left open.                          *)
(***************************************************************************)
GoesOn(r) ==
    CasesEnd(r) \/ Finish(r) \/ FinishRaises(r) \/ Caught(r) \/ End(r) \/ CleansUp(r) \/ Interrupt(r)

FairSpec ==
    /\ Spec
    /\ \A r \in Runs :
          /\ WF_vars(GoesOn(r))
          /\ WF_vars(HeartbeatRead(r)) /\ SF_vars(HeartbeatWrite(r))
          /\ WF_vars(LocalCancel(r))
          /\ WF_vars(watch[r] = "off" /\ TimePasses(r))
    /\ \A s \in Streams : WF_vars(Replay(s)) /\ WF_vars(ReadOn(s))

-----------------------------------------------------------------------------
Statuses == {"none"} \cup Active \cup Over

TaskState == [pc : {"none", "run", "gather", "report", "finish", "caught", "broke", "end", "cleanup", "done"},
              out : Over, hit : BOOLEAN, listed : BOOLEAN]

StreamState == [pc : {"off", "listen", "follow", "told"}, run : 0..MaxRuns, woken : BOOLEAN]

(* The rows, the tasks and the streams have the values the code gives       *)
(* them, and a run stores at most three events with a status, however often *)
(* it is stopped, given up on and finished.                                 *)
TypeOK ==
    /\ status \in [Runs -> Statuses]
    /\ stale \in [Runs -> BOOLEAN]
    /\ events \in [Runs -> Seq(Statuses)]
    /\ \A r \in Runs : Len(events[r]) \leq 3
    /\ task \in [Runs -> TaskState]
    /\ cases \in [Runs -> [open : 0..MaxCases, raised : BOOLEAN]]
    /\ watch \in [Runs -> {"off", "wait"} \cup Active]
    /\ asked \in [Runs -> BOOLEAN]
    /\ stream \in [Streams -> StreamState]

(* A run that is over stays as it ended, in its row and in its events,      *)
(* whatever a late task, a stop request, an expiry, or a heartbeat that     *)
(* read the row before it ended still writes.                               *)
OutcomesFinal ==
    [][\A r \in Runs : status[r] \in Over => status'[r] = status[r] /\ events'[r] = events[r]]_vars

(* A run that was asked to stop, in any process, or that was given up on    *)
(* as silent does not go on executing: its task ends, though its process    *)
(* learns of neither but from the row, and its cases with it.  Only those   *)
(* that were left behind when another case raised (runner.py, gather) go on *)
(* to their own end: nobody holds on to them.                               *)
StopsAreObeyed ==
    \A r \in Runs :
        status[r] \notin {"none", "start"}
            ~> task[r].pc = "done" /\ (cases[r].open = 0 \/ cases[r].raised)

(* While somebody visits the evaluations, whoever follows a run of which    *)
(* nothing executes any more, because it ended or its process died, is told *)
(* of its end or has left.                                                  *)
Visited == WF_vars(Visit)

FollowersHear ==
    Visited =>
        \A s \in Streams, r \in Runs :
            (/\ stream[s].run = r /\ stream[s].pc \in {"listen", "follow"}
             /\ task[r].pc = "done" /\ cases[r].open = 0)
                ~> stream[s].pc \in {"told", "off"}

(* With crashes, interrupts at any await, expiry of silent runs and         *)
(* heartbeats that write late, those who start and follow runs see what     *)
(* RunRecord promises (service.py, _run_suite, run_tracking.py, and         *)
(* evals.py, _stream_persisted_eval_run).                                   *)
Follower(s) ==
    [state |-> IF stream[s].pc \in {"listen", "follow"} THEN "following" ELSE stream[s].pc,
     run |-> stream[s].run]

Recorded == INSTANCE RunRecord WITH follower <- [s \in Streams |-> Follower(s)]

ImplementsRunRecord == Recorded!Spec
=============================================================================
