------------------------- MODULE GenerationAttempts -------------------------
(***************************************************************************)
(* One turn of the internal chat, from the browser's Send to a stored      *)
(* answer or an error the author may retry. The browser names every send   *)
(* with a fresh generation attempt id. The stream route inserts a pending  *)
(* attempt row, commits, and starts a worker that outlives the request;    *)
(* the worker calls the chatbot and the guardrails, stores the turn and    *)
(* the outcome in one commit, and ends the event stream. A scheduled sweep *)
(* fails attempts whose worker is presumed dead, and a browser that lost   *)
(* the stream asks the attempt-status route what became of its turn.       *)
(*                                                                         *)
(* One existing conversation, one author, one browser tab. A tick of time  *)
(* is LLM_REQUEST_TIMEOUT (5 minutes): a provider call sees at most one    *)
(* tick pass.                                                              *)
(***************************************************************************)
EXTENDS Integers

CONSTANTS
    MaxSends,             \* bound: turns sent, numbered in order
    MaxCopies,            \* bound: copies of one request that reach the server
    StaleAfter,           \* STALE_GENERATION_ATTEMPT_AFTER, in ticks
    MaxGuardrailsRetries  \* MAX_GUARDRAILS_RETRIES

ASSUME AttemptConstants ==
    /\ MaxSends \in Nat
    /\ MaxCopies \in Nat
    /\ StaleAfter \in Nat
    /\ MaxGuardrailsRetries \in Nat

Attempts == 1..MaxSends

AttemptStatus == {"none", "pending", "completed", "failed", "deleted"}
WorkerStep    == {"none", "chatbot", "guardrails", "storing", "emitting", "failing", "done"}
StreamState   == {"closed", "open", "answer", "retryable", "unknown", "ended"}
View          == {"idle", "waiting", "reconciling", "blocked"}

VARIABLES
    exists,    \* the conversation row
    status,    \* the chat_generation_attempt table; "none" is no row yet
    age,       \* ticks since each attempt's created_at
    turns,     \* stored turns (message rows) of each attempt
    requests,  \* copies of each request the server has not looked at
    handlers,  \* request handlers past the existing-attempt check
    worker,    \* the worker task of each attempt
    stream,    \* what each attempt's event stream delivers
    sent,      \* sends so far
    client,    \* the tab: its view and the attempt it follows
    offered,   \* attempts whose error shows a Retry button
    retried,   \* history: attempts whose Retry was pressed
    swept      \* history: attempts failed by the sweep

vars == <<exists, status, age, turns, requests, handlers, worker, stream,
          sent, client, offered, retried, swept>>

server  == <<exists, status, age, turns, handlers, worker, stream, swept>>
browser == <<sent, client, offered, retried>>

(* A worker at the start of its first step, if it has one. *)
Fresh(pc) == [pc |-> pc, retries |-> 0, late |-> FALSE]

NoStream     == [view |-> "idle", cur |-> 0]
Blocked      == [view |-> "blocked", cur |-> 0]
Following(a) == [view |-> "waiting", cur |-> a]
Asking(a)    == [view |-> "reconciling", cur |-> a]

Alive(a) == worker[a].pc \notin {"none", "done"}
Waits(a) == worker[a].pc \in {"chatbot", "guardrails"}

(* The worker of a goes to step pc, and its clock starts again. *)
Goes(a, pc) == [worker EXCEPT ![a] = [@ EXCEPT !.pc = pc, !.late = FALSE]]
Ends(a)     == [worker EXCEPT ![a] = Fresh("done")]

(* has_pending_generation_attempt *)
SomePending == \E a \in Attempts : status[a] = "pending"

-----------------------------------------------------------------------------
Init ==
    /\ exists = TRUE
    /\ status = [a \in Attempts |-> "none"]
    /\ age = [a \in Attempts |-> 0]
    /\ turns = [a \in Attempts |-> 0]
    /\ requests = [a \in Attempts |-> 0]
    /\ handlers = [a \in Attempts |-> 0]
    /\ worker = [a \in Attempts |-> Fresh("none")]
    /\ stream = [a \in Attempts |-> "closed"]
    /\ sent = 0
    /\ client = NoStream
    /\ offered = {}
    /\ retried = {}
    /\ swept = {}

(***************************************************************************)
(* The browser (sendMessage, abortChat, retryMessage).                     *)
(***************************************************************************)

(* The composer and the Retry buttons are disabled while a turn is loading or  *)
(* pending. The request may be lost, or repeated on its way.                   *)
SendNext ==
    /\ client.view = "idle"
    /\ sent < MaxSends
    /\ sent' = sent + 1
    /\ client' = Following(sent + 1)
    /\ \E n \in 0..MaxCopies : requests' = [requests EXCEPT ![sent + 1] = n]
    /\ UNCHANGED server

Send == SendNext /\ UNCHANGED <<offered, retried>>

(* A retry is a send with a new id. It trims the messages after the retried      *)
(* turn's parent, and the errors among them, unless there is no parent.          *)
Retry(a) ==
    /\ a \in offered
    /\ SendNext
    /\ offered' \in {offered, {b \in offered : b < a}}
    /\ retried' = retried \cup {a}

Abort ==
    /\ client.view \in {"waiting", "reconciling"}
    /\ client' = NoStream
    /\ UNCHANGED <<server, requests, sent, offered, retried>>

(* The chat is loaded again: its messages and flag are the server's. *)
Loaded == /\ client' = IF SomePending THEN Blocked ELSE NoStream
          /\ offered' = {}

Reload ==
    /\ Loaded
    /\ UNCHANGED <<server, requests, sent, retried>>

(* onAssistantMessage and onError *)
Shown(outcome) == IF outcome = "unknown" THEN Blocked ELSE NoStream

Receive ==
    LET a == client.cur
    IN  /\ client.view = "waiting"
        /\ stream[a] \in {"answer", "retryable", "unknown"}
        /\ client' = Shown(stream[a])
        /\ offered' = IF stream[a] = "retryable" THEN offered \cup {a} ELSE offered
        /\ UNCHANGED <<server, requests, sent, retried>>

(* The stream ended, or the request came to nothing, without a primary outcome. *)
NoOutcomeMutant(a) == stream[a] = "ended"

NoOutcome(a) ==
    \/ stream[a] = "ended"
    \/ stream[a] = "closed" /\ requests[a] = 0 /\ handlers[a] = 0

StreamEnds ==
    /\ client.view = "waiting"
    /\ NoOutcome(client.cur)
    /\ client' = Asking(client.cur)
    /\ UNCHANGED <<server, requests, sent, offered, retried>>

(* The connection breaks, or the answer to the request is a 409 because another  *)
(* copy of it came first.                                                        *)
ConnectionBreaks ==
    /\ client.view = "waiting"
    /\ client' = Asking(client.cur)
    /\ UNCHANGED <<server, requests, sent, offered, retried>>

(* reconcileUnknownOutcome: failed offers a retry, completed loads the chat;    *)
(* pending, unknown to the server, or no answer from it blocks the composer.    *)
MayRetryMutant(a) == status[a] \in {"failed", "pending"}

MayRetry(a) == status[a] = "failed"

Reconcile ==
    LET a == client.cur
    IN  /\ client.view = "reconciling"
        /\ \/ /\ MayRetry(a)
              /\ client' = NoStream
              /\ offered' = offered \cup {a}
           \/ status[a] = "completed" /\ Loaded
           \/ client' = Blocked /\ UNCHANGED offered
        /\ UNCHANGED <<server, requests, sent, retried>>

(***************************************************************************)
(* The stream route (send_internal_message_stream).                        *)
(***************************************************************************)

(* A copy of the request arrives: 409 if its attempt exists, 404 if the      *)
(* conversation does not, else the handler goes on.                          *)
Arrive(a) ==
    /\ requests[a] > 0
    /\ requests' = [requests EXCEPT ![a] = @ - 1]
    /\ handlers' = IF status[a] = "none" /\ exists
                   THEN [handlers EXCEPT ![a] = @ + 1] ELSE handlers
    /\ UNCHANGED <<exists, status, age, turns, worker, stream, swept, browser>>

(* INSERT ... ON CONFLICT DO NOTHING and its commit. The loser of two copies     *)
(* answers 409; a conversation deleted meanwhile fails the foreign key.          *)
InsertsMutant(a) == exists
Inserts(a)       == exists /\ status[a] = "none"

Insert(a) ==
    /\ handlers[a] > 0
    /\ handlers' = [handlers EXCEPT ![a] = @ - 1]
    /\ IF Inserts(a)
       THEN /\ status' = [status EXCEPT ![a] = "pending"]
            /\ age' = [age EXCEPT ![a] = 0]
            /\ worker' = [worker EXCEPT ![a] = Fresh("chatbot")]
            /\ stream' = [stream EXCEPT ![a] = "open"]
       ELSE UNCHANGED <<status, age, worker, stream>>
    /\ UNCHANGED <<exists, turns, swept, requests, browser>>

HandlerDies(a) ==
    /\ handlers[a] > 0
    /\ handlers' = [handlers EXCEPT ![a] = @ - 1]
    /\ UNCHANGED <<exists, status, age, turns, worker, stream, swept, requests, browser>>

(***************************************************************************)
(* The worker (handle_conversation_turn and worker).                       *)
(***************************************************************************)

(* The chatbot answers, and the guardrails are asked about the answer. *)
Chatbot(a) ==
    /\ worker[a].pc = "chatbot"
    /\ worker' = Goes(a, "guardrails")
    /\ UNCHANGED <<exists, status, age, turns, handlers, stream, swept, requests, browser>>

GuardrailsPass(a) ==
    /\ worker[a].pc = "guardrails"
    /\ worker' = Goes(a, "storing")
    /\ UNCHANGED <<exists, status, age, turns, handlers, stream, swept, requests, browser>>

(* Guardrails reject the answer: again, or, with the retries used up, store it   *)
(* as blocked.                                                                   *)
RejectedMutant(a) ==
    [worker EXCEPT ![a] = [pc |-> IF @.retries > MaxGuardrailsRetries THEN "storing"
                                                                      ELSE "chatbot",
                           retries |-> @.retries + 1, late |-> FALSE]]

Rejected(a) ==
    [worker EXCEPT ![a] = [pc |-> IF @.retries + 1 > MaxGuardrailsRetries THEN "storing"
                                                                          ELSE "chatbot",
                           retries |-> @.retries + 1, late |-> FALSE]]

GuardrailsFail(a) ==
    /\ worker[a].pc = "guardrails"
    /\ worker' = Rejected(a)
    /\ UNCHANGED <<exists, status, age, turns, handlers, stream, swept, requests, browser>>

(* A provider call, a template or a query raises before anything is stored. *)
Raise(a) ==
    /\ worker[a].pc \in {"chatbot", "guardrails", "storing"}
    /\ worker' = Goes(a, "failing")
    /\ UNCHANGED <<exists, status, age, turns, handlers, stream, swept, requests, browser>>

(* One commit writes the turn and completes the attempt, whatever its status.    *)
(* In a deleted conversation it raises.                                          *)
Stored(a) ==
    /\ turns' = [turns EXCEPT ![a] = @ + 1]
    /\ status' = [status EXCEPT ![a] = "completed"]

Store(a) ==
    /\ worker[a].pc = "storing"
    /\ IF exists THEN Stored(a) /\ worker' = Goes(a, "emitting")
       ELSE UNCHANGED <<turns, status>> /\ worker' = Goes(a, "failing")
    /\ UNCHANGED <<exists, age, handlers, stream, swept, requests, browser>>

(* The commit is applied but the connection fails before it is acknowledged. *)
StoreUnacknowledged(a) ==
    /\ worker[a].pc = "storing"
    /\ exists
    /\ Stored(a)
    /\ worker' = Goes(a, "failing")
    /\ UNCHANGED <<exists, age, handlers, stream, swept, requests, browser>>

(* The answer is emitted, with its metrics or, if they raise, without. *)
Emit(a) ==
    /\ worker[a].pc = "emitting"
    /\ stream' = [stream EXCEPT ![a] = "answer"]
    /\ worker' = Ends(a)
    /\ UNCHANGED <<exists, status, age, turns, handlers, swept, requests, browser>>

(* _finalize_failed_generation_attempt: only a pending attempt fails. *)
FinalizedMutant(a) == IF status[a] # "deleted" THEN [status EXCEPT ![a] = "failed"] ELSE status
Finalized(a)       == IF status[a] = "pending" THEN [status EXCEPT ![a] = "failed"] ELSE status

Told(s) == CASE s = "failed" -> "retryable"
             [] s = "completed" -> "answer"
             [] OTHER -> "unknown"

(* The attempt tells what to emit. When the session fails it may or may not have *)
(* been finalized, and the outcome is unknown, or lost with the task.            *)
UnresolvedMutant == {"unknown", "ended", "retryable"}
Unresolved       == {"unknown", "ended"}

Finalize(a) ==
    /\ worker[a].pc = "failing"
    /\ \/ /\ status' = Finalized(a)
          /\ stream' = [stream EXCEPT ![a] = Told(status'[a])]
       \/ /\ status' \in {status, Finalized(a)}
          /\ \E outcome \in Unresolved : stream' = [stream EXCEPT ![a] = outcome]
    /\ worker' = Ends(a)
    /\ UNCHANGED <<exists, age, turns, handlers, swept, requests, browser>>

(* Shutdown cancels the task, which finalizes the attempt if it still can; a   *)
(* killed process leaves the attempt as it is.                                  *)
Stop(a) ==
    /\ Alive(a)
    /\ status' \in {status, Finalized(a)}
    /\ stream' = [stream EXCEPT ![a] = "ended"]
    /\ worker' = Ends(a)
    /\ UNCHANGED <<exists, age, turns, handlers, swept, requests, browser>>

(***************************************************************************)
(* The scheduled sweep, time, and deletion.                                *)
(***************************************************************************)

(* fail_stale_generation_attempts, one conditional UPDATE. *)
StaleMutant == {a \in Attempts : status[a] # "none" /\ age[a] > StaleAfter}
Stale       == {a \in Attempts : status[a] = "pending" /\ age[a] > StaleAfter}

Sweep ==
    /\ Stale # {}
    /\ status' = [a \in Attempts |-> IF a \in Stale THEN "failed" ELSE status[a]]
    /\ swept' = swept \cup Stale
    /\ UNCHANGED <<exists, age, turns, handlers, worker, stream, requests, browser>>

(* Five minutes pass: never twice within one provider call, and never within the *)
(* database steps that follow the calls.                                         *)
OlderMutant(n) == IF n < StaleAfter THEN n + 1 ELSE n
Older(n)       == IF n <= StaleAfter THEN n + 1 ELSE n

Tick ==
    /\ \A a \in Attempts : Alive(a) => Waits(a) /\ ~worker[a].late
    /\ \E a \in Attempts : status[a] = "pending" /\ age[a] <= StaleAfter
    /\ age' = [a \in Attempts |-> IF status[a] = "pending" THEN Older(age[a]) ELSE age[a]]
    /\ worker' = [a \in Attempts |-> [worker[a] EXCEPT !.late = Alive(a)]]
    /\ UNCHANGED <<exists, status, turns, handlers, stream, swept, requests, browser>>

(* delete_internal_conversation, in another tab: messages and attempts cascade. *)
DeleteConversation ==
    /\ exists
    /\ exists' = FALSE
    /\ status' = [a \in Attempts |-> IF status[a] = "none" THEN "none" ELSE "deleted"]
    /\ turns' = [a \in Attempts |-> 0]
    /\ UNCHANGED <<age, handlers, worker, stream, swept, requests, browser>>

-----------------------------------------------------------------------------
Browse == Send \/ Abort \/ Reload \/ ConnectionBreaks \/ \E a \in Attempts : Retry(a)

Follow == Receive \/ StreamEnds \/ Reconcile

Handle(a) == Arrive(a) \/ Insert(a)

Work(a) ==
    \/ Chatbot(a) \/ GuardrailsPass(a) \/ GuardrailsFail(a) \/ Raise(a)
    \/ Store(a) \/ StoreUnacknowledged(a) \/ Emit(a) \/ Finalize(a)

Next ==
    \/ Browse
    \/ Follow
    \/ \E a \in Attempts : Handle(a) \/ HandlerDies(a) \/ Work(a) \/ Stop(a)
    \/ Sweep
    \/ Tick
    \/ DeleteConversation

Spec == Init /\ [][Next]_vars

(* The event loops run, provider calls time out, time passes, the scheduler     *)
(* runs the sweep, and the tab reads what its stream and its requests bring.    *)
(* Nothing is assumed of the author, the network, crashes or deletion.          *)
Fairness ==
    /\ \A a \in Attempts : WF_vars(Handle(a)) /\ WF_vars(Work(a))
    /\ WF_vars(Sweep)
    /\ WF_vars(Tick)
    /\ WF_vars(Follow)

FairSpec == Spec /\ Fairness

(***************************************************************************)
(* Properties                                                              *)
(***************************************************************************)

WorkerState == [pc : WorkerStep, retries : 0..(MaxGuardrailsRetries + 1), late : BOOLEAN]

(* The tables, the tasks and the tab hold values of their types; guardrails send  *)
(* an answer back at most MaxGuardrailsRetries times.                             *)
TypeOK ==
    /\ exists \in BOOLEAN
    /\ status \in [Attempts -> AttemptStatus]
    /\ age \in [Attempts -> 0..(StaleAfter + 1)]
    /\ turns \in [Attempts -> Nat]
    /\ requests \in [Attempts -> 0..MaxCopies]
    /\ handlers \in [Attempts -> Nat]
    /\ worker \in [Attempts -> WorkerState]
    /\ \A a \in Attempts : Waits(a) => worker[a].retries <= MaxGuardrailsRetries
    /\ stream \in [Attempts -> StreamState]
    /\ sent \in 0..MaxSends
    /\ client \in [view : View, cur : 0..sent]
    /\ client.cur = 0 <=> client.view \in {"idle", "blocked"}
    /\ offered \subseteq Attempts
    /\ retried \subseteq Attempts
    /\ swept \subseteq Attempts

(* A send stores its turn at most once, however many copies of the request arrive *)
(* and however the worker fails, and its attempt is completed exactly when the    *)
(* turn is there: no step separates the two.                                      *)
TurnStoredOnce ==
    \A a \in Attempts : turns[a] = IF status[a] = "completed" THEN 1 ELSE 0

(* What an ended stream told the tab stays true: an answer is stored and a        *)
(* retryable failure stored nothing, until the conversation is deleted.           *)
ToldTruth ==
    \A a \in Attempts :
        /\ stream[a] = "answer" => status[a] \in {"completed", "deleted"}
        /\ stream[a] = "retryable" => status[a] \in {"failed", "deleted"}

(* Retry never doubles a turn: an attempt whose error offers Retry, or whose Retry *)
(* was pressed, has no stored turn and never gets one, unless the sweep failed it. *)
RetryStoresNoSecondTurn ==
    \A a \in offered \cup retried : turns[a] = 0 \/ a \in swept

(* An outcome is final: completed stays so, and failed too, unless it was the sweep *)
(* that failed an attempt whose worker then stored its turn after all.              *)
OutcomesFinal ==
    [][\A a \in Attempts :
          /\ status[a] = "completed" => status'[a] \in {"completed", "deleted"}
          /\ status[a] = "failed" =>
                \/ status'[a] \in {"failed", "deleted"}
                \/ status'[a] = "completed" /\ a \in swept /\ Alive(a)]_vars

(* The inductive invariant behind them: a worker that has not stored its turn finds *)
(* the attempt not completed, one that has finds it completed, and while there is   *)
(* a worker only the sweep can have failed its attempt; a Retry is offered once the *)
(* worker is done, or after a sweep.                                                *)
WorkerTracksAttempt ==
    \A a \in Attempts :
        /\ worker[a].pc = "none" <=> status[a] = "none"
        /\ worker[a].pc \in {"chatbot", "guardrails", "storing"} => status[a] # "completed"
        /\ worker[a].pc = "emitting" => status[a] \in {"completed", "deleted"}
        /\ Alive(a) /\ status[a] = "failed" => a \in swept
        /\ stream[a] \in {"answer", "retryable"} => worker[a].pc = "done"

OfferedAreOver ==
    \A a \in offered \cup retried :
        a \in swept \/ (status[a] \in {"failed", "deleted"} /\ worker[a].pc = "done")

AttemptsInv ==
    /\ TurnStoredOnce
    /\ ToldTruth
    /\ WorkerTracksAttempt
    /\ OfferedAreOver

(* The comment on STALE_GENERATION_ATTEMPT_AFTER: "a pending attempt this old has *)
(* lost its worker (restart or crash), not a slow generation".                    *)
SweptLostTheirWorker ==
    [][\A a \in swept' \ swept : ~Alive(a)]_vars

(* No attempt stays pending, and with it the composer blocked, for ever: the worker *)
(* settles it, or the sweep does after a crash, or the conversation is deleted.     *)
AttemptsSettle ==
    \A a \in Attempts : status[a] = "pending" ~> status[a] # "pending"

(* The tab does not wait for ever on a send: it shows an answer, an error with     *)
(* Retry, or an error that tells to load the chat again.                           *)
TabSettles ==
    client.view \in {"waiting", "reconciling"} ~> client.view \in {"idle", "blocked"}

(***************************************************************************)
(* Seen by the author, sends that are lost or doubled, workers that die    *)
(* and a sweep that overtakes them come to this: each turn is stored once  *)
(* or fails for good, except that one the sweep failed under a live worker *)
(* stays in doubt until the worker is over (messages.py,                   *)
(* send_internal_message_stream, and generation_attempts.py).              *)
(***************************************************************************)
OutcomeOf(a) ==
    CASE status[a] = "pending" -> "open"
      [] status[a] = "completed" -> "stored"
      [] status[a] = "failed" /\ Alive(a) -> "doubtful"
      [] OTHER -> status[a]

ToldOf(a) ==
    CASE stream[a] = "answer" -> "answer"
      [] stream[a] = "retryable" -> "error"
      [] OTHER -> "nothing"

Turn == INSTANCE TurnOutcome WITH
            MaxTurns <- MaxSends,
            asked <- sent,
            outcome <- [a \in Attempts |-> OutcomeOf(a)],
            told <- [a \in Attempts |-> ToldOf(a)]

ImplementsTurnOutcome == Turn!Spec

=============================================================================
