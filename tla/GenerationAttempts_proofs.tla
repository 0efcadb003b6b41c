---------------------- MODULE GenerationAttempts_proofs ----------------------
(* Machine-checked proofs about GenerationAttempts, for every number of sends, *)
(* copies of a request, guardrails retries and every stale limit.              *)
EXTENDS GenerationAttempts, TLAPS

USE AttemptConstants DEF AttemptConstants

(***************************************************************************)
(* Types.                                                                  *)
(***************************************************************************)

LEMMA FreshTyped == \A pc \in WorkerStep : Fresh(pc) \in WorkerState
  <1>1. 0 \in 0..(MaxGuardrailsRetries + 1)
    OBVIOUS
  <1> QED BY <1>1 DEF Fresh, WorkerState

LEMMA ViewsTyped ==
    ASSUME TypeOK
    PROVE  /\ \A c \in {NoStream, Blocked} : /\ c \in [view : View, cur : 0..sent]
                                             /\ c.cur = 0
                                             /\ c.view \in {"idle", "blocked"}
           /\ \A a \in 1..sent : \A c \in {Following(a), Asking(a)} :
                    /\ c \in [view : View, cur : 0..sent]
                    /\ c.cur # 0
                    /\ c.view \notin {"idle", "blocked"}
           /\ client.view \in {"waiting", "reconciling"} =>
                    client.cur \in 1..sent /\ client.cur \in Attempts
  BY DEF TypeOK, View, NoStream, Blocked, Following, Asking, Attempts

(* A step of the worker of a is typed if it keeps within its retries. *)
LEMMA WorkerGoes ==
    ASSUME TypeOK, NEW a \in Attempts, NEW pc \in WorkerStep,
           pc \in {"chatbot", "guardrails"} => worker[a].retries <= MaxGuardrailsRetries
    PROVE  /\ Goes(a, pc) \in [Attempts -> WorkerState]
           /\ \A b \in Attempts : Goes(a, pc)[b].pc \in {"chatbot", "guardrails"}
                                      => Goes(a, pc)[b].retries <= MaxGuardrailsRetries
  <1> DEFINE goes == [worker[a] EXCEPT !.pc = pc, !.late = FALSE]
  <1>1. worker \in [Attempts -> WorkerState] /\ worker[a] \in WorkerState
    BY DEF TypeOK
  <1>2. goes \in WorkerState /\ goes.pc = pc /\ goes.retries = worker[a].retries
    BY <1>1 DEF WorkerState
  <1>3. Goes(a, pc) = [worker EXCEPT ![a] = goes]
    BY <1>1 DEF Goes
  <1> HIDE DEF goes
  <1> QED BY <1>1, <1>2, <1>3 DEF TypeOK, Waits

LEMMA WorkerEnds ==
    ASSUME TypeOK, NEW a \in Attempts
    PROVE  /\ Ends(a) \in [Attempts -> WorkerState]
           /\ \A b \in Attempts : Ends(a)[b].pc \in {"chatbot", "guardrails"}
                                      => Ends(a)[b].retries <= MaxGuardrailsRetries
  <1>1. Fresh("done") \in WorkerState /\ Fresh("done").pc = "done"
    BY FreshTyped DEF WorkerStep, Fresh
  <1> QED BY <1>1 DEF TypeOK, Waits, Ends

(* A rejected answer is retried only while retries are left: the counter stays in *)
(* its range because the worker stores the blocked answer as soon as it exceeds.  *)
LEMMA WorkerRejected ==
    ASSUME TypeOK, NEW a \in Attempts, worker[a].pc = "guardrails"
    PROVE  /\ Rejected(a) \in [Attempts -> WorkerState]
           /\ \A b \in Attempts : Rejected(a)[b].pc \in {"chatbot", "guardrails"}
                                      => Rejected(a)[b].retries <= MaxGuardrailsRetries
  <1> DEFINE n == worker[a].retries + 1
             next == [pc |-> IF n > MaxGuardrailsRetries THEN "storing" ELSE "chatbot",
                      retries |-> n, late |-> FALSE]
  <1>1. worker[a].retries \in 0..MaxGuardrailsRetries
    <2>1. worker[a].retries \in 0..(MaxGuardrailsRetries + 1)
      BY DEF TypeOK, WorkerState
    <2>2. worker[a].retries <= MaxGuardrailsRetries
      BY DEF TypeOK, Waits
    <2> QED BY <2>1, <2>2
  <1>2. n \in 0..(MaxGuardrailsRetries + 1)
    BY <1>1
  <1>3. /\ next \in WorkerState
        /\ next.pc \in {"chatbot", "guardrails"} => next.retries <= MaxGuardrailsRetries
    <2> HIDE DEF n
    <2> QED BY <1>2 DEF WorkerState, WorkerStep
  <1>4. Rejected(a) = [worker EXCEPT ![a] = next]
    BY DEF Rejected
  <1> HIDE DEF next
  <1> QED BY <1>3, <1>4 DEF TypeOK, Waits

LEMMA FinalizedTyped ==
    ASSUME TypeOK, NEW a \in Attempts
    PROVE  Finalized(a) \in [Attempts -> AttemptStatus]
  BY DEF Finalized, TypeOK, AttemptStatus

THEOREM TypeInit == Init => TypeOK
  <1> SUFFICES ASSUME Init PROVE TypeOK
    OBVIOUS
  <1>1. Fresh("none") \in WorkerState /\ Fresh("none").pc = "none"
    BY FreshTyped DEF WorkerStep, Fresh
  <1> QED BY <1>1 DEF Init, TypeOK, Waits, NoStream, AttemptStatus, StreamState, View

LEMMA TypeBrowse == TypeOK /\ Browse => TypeOK'
  <1> SUFFICES ASSUME TypeOK, Browse PROVE TypeOK'
    OBVIOUS
  <1>1. ASSUME SendNext PROVE
          /\ sent' \in 0..MaxSends
          /\ client' \in [view : View, cur : 0..sent']
          /\ ~(client'.cur = 0 \/ client'.view \in {"idle", "blocked"})
          /\ requests' \in [Attempts -> 0..MaxCopies]
          /\ UNCHANGED server
    <2>1. sent' = sent + 1 /\ sent' \in 0..MaxSends /\ sent' # 0 /\ sent' \in Attempts
      BY <1>1 DEF SendNext, TypeOK, Attempts
    <2>2. client' = [view |-> "waiting", cur |-> sent']
      BY <1>1, <2>1 DEF SendNext, Following
    <2>3. requests' \in [Attempts -> 0..MaxCopies]
      BY <1>1 DEF SendNext, TypeOK
    <2> QED BY <1>1, <2>1, <2>2, <2>3 DEF SendNext, View
  <1>2. CASE Send
    BY <1>1, <1>2 DEF Send, server, TypeOK, Waits
  <1>3. ASSUME NEW a \in Attempts, Retry(a) PROVE TypeOK'
    BY <1>1, <1>3 DEF Retry, server, TypeOK, Waits
  <1>4. CASE Abort
    BY <1>4, ViewsTyped DEF Abort, server, TypeOK, Waits
  <1>5. CASE Reload
    BY <1>5, ViewsTyped DEF Reload, Loaded, server, TypeOK, Waits
  <1>6. CASE ConnectionBreaks
    BY <1>6, ViewsTyped DEF ConnectionBreaks, server, TypeOK, Waits
  <1> QED BY <1>2, <1>3, <1>4, <1>5, <1>6 DEF Browse

LEMMA TypeFollow == TypeOK /\ Follow => TypeOK'
  <1> SUFFICES ASSUME TypeOK, Follow PROVE TypeOK'
    OBVIOUS
  <1>1. CASE Receive
    BY <1>1, ViewsTyped DEF Receive, Shown, server, TypeOK, Waits
  <1>2. CASE StreamEnds
    BY <1>2, ViewsTyped DEF StreamEnds, server, TypeOK, Waits
  <1>3. CASE Reconcile
    BY <1>3, ViewsTyped DEF Reconcile, Loaded, server, TypeOK, Waits
  <1> QED BY <1>1, <1>2, <1>3 DEF Follow

LEMMA TypeHandle == TypeOK /\ (\E a \in Attempts : Handle(a) \/ HandlerDies(a)) => TypeOK'
  <1> SUFFICES ASSUME TypeOK, NEW a \in Attempts, Handle(a) \/ HandlerDies(a) PROVE TypeOK'
    OBVIOUS
  <1> USE DEF browser
  <1>1. handlers[a] \in Nat /\ requests[a] \in 0..MaxCopies
    BY DEF TypeOK
  <1>2. /\ handlers[a] > 0 => [handlers EXCEPT ![a] = @ - 1] \in [Attempts -> Nat]
        /\ [handlers EXCEPT ![a] = @ + 1] \in [Attempts -> Nat]
        /\ requests[a] > 0 => [requests EXCEPT ![a] = @ - 1] \in [Attempts -> 0..MaxCopies]
    <2>1. /\ handlers[a] > 0 => handlers[a] - 1 \in Nat
          /\ handlers[a] + 1 \in Nat
          /\ requests[a] > 0 => requests[a] - 1 \in 0..MaxCopies
      BY <1>1
    <2> QED BY <2>1 DEF TypeOK
  <1>3. CASE Arrive(a)
    BY <1>2, <1>3 DEF Arrive, TypeOK, Waits
  <1>4. CASE Insert(a)
    <2>1. /\ Fresh("chatbot") \in WorkerState
          /\ Fresh("chatbot").retries <= MaxGuardrailsRetries
      BY FreshTyped DEF WorkerStep, Fresh
    <2>2. CASE Inserts(a)
      <3>1. /\ status' = [status EXCEPT ![a] = "pending"]
            /\ age' = [age EXCEPT ![a] = 0]
            /\ worker' = [worker EXCEPT ![a] = Fresh("chatbot")]
            /\ stream' = [stream EXCEPT ![a] = "open"]
            /\ handlers' \in [Attempts -> Nat]
            /\ UNCHANGED <<exists, turns, swept, requests, browser>>
        BY <1>2, <1>4, <2>2 DEF Insert
      <3>2. age' \in [Attempts -> 0..(StaleAfter + 1)]
        <4>1. 0 \in 0..(StaleAfter + 1)
          OBVIOUS
        <4> QED BY <3>1, <4>1 DEF TypeOK
      <3>3. \A b \in Attempts : Waits(b)' => worker'[b].retries <= MaxGuardrailsRetries
        BY <3>1, <2>1 DEF TypeOK, Waits
      <3> QED BY <3>1, <3>2, <3>3, <2>1 DEF TypeOK, AttemptStatus, StreamState
    <2>3. CASE ~Inserts(a)
      BY <1>2, <1>4, <2>3 DEF Insert, TypeOK, Waits
    <2> QED BY <2>2, <2>3
  <1>5. CASE HandlerDies(a)
    BY <1>2, <1>5 DEF HandlerDies, TypeOK, Waits
  <1> QED BY <1>3, <1>4, <1>5 DEF Handle

LEMMA TypeWork == TypeOK /\ (\E a \in Attempts : Work(a) \/ Stop(a)) => TypeOK'
  <1> SUFFICES ASSUME TypeOK, NEW a \in Attempts, Work(a) \/ Stop(a) PROVE TypeOK'
    OBVIOUS
  <1> USE DEF browser
  <1>1. /\ worker' \in [Attempts -> WorkerState]
        /\ \A b \in Attempts : Waits(b)' => worker'[b].retries <= MaxGuardrailsRetries
    <2>1. CASE Chatbot(a)
      BY <2>1, WorkerGoes DEF Chatbot, TypeOK, Waits, WorkerStep
    <2>2. CASE GuardrailsFail(a)
      BY <2>2, WorkerRejected DEF GuardrailsFail, Waits
    <2>3. CASE GuardrailsPass(a) \/ Raise(a) \/ Store(a) \/ StoreUnacknowledged(a)
      BY <2>3, WorkerGoes
      DEF GuardrailsPass, Raise, Store, StoreUnacknowledged, Waits, WorkerStep
    <2>4. CASE Emit(a) \/ Finalize(a) \/ Stop(a)
      BY <2>4, WorkerEnds DEF Emit, Finalize, Stop, Waits
    <2> QED BY <2>1, <2>2, <2>3, <2>4 DEF Work
  <1>2. /\ status' \in [Attempts -> AttemptStatus]
        /\ turns' \in [Attempts -> Nat]
        /\ stream' \in [Attempts -> StreamState]
        /\ UNCHANGED <<exists, age, handlers, swept, requests, browser>>
    <2>1. CASE Chatbot(a) \/ GuardrailsFail(a) \/ GuardrailsPass(a) \/ Raise(a)
      BY <2>1 DEF TypeOK, Chatbot, GuardrailsFail, GuardrailsPass, Raise
    <2>2. CASE Store(a) \/ StoreUnacknowledged(a)
      <3>1. turns[a] + 1 \in Nat
        BY DEF TypeOK
      <3>2. Stored(a) => turns' \in [Attempts -> Nat] /\ status' \in [Attempts -> AttemptStatus]
        BY <3>1 DEF Stored, TypeOK, AttemptStatus
      <3> QED BY <2>2, <3>2 DEF TypeOK, Store, StoreUnacknowledged
    <2>3. CASE Emit(a)
      BY <2>3 DEF TypeOK, Emit, StreamState
    <2>4. CASE Finalize(a)
      BY <2>4, FinalizedTyped DEF TypeOK, Finalize, Told, Unresolved, StreamState
    <2>5. CASE Stop(a)
      BY <2>5, FinalizedTyped DEF TypeOK, Stop, StreamState
    <2> QED BY <2>1, <2>2, <2>3, <2>4, <2>5 DEF Work
  <1> QED BY <1>1, <1>2 DEF TypeOK

LEMMA TypeEnvironment == TypeOK /\ (Sweep \/ Tick \/ DeleteConversation) => TypeOK'
  <1> SUFFICES ASSUME TypeOK, Sweep \/ Tick \/ DeleteConversation PROVE TypeOK'
    OBVIOUS
  <1> USE DEF browser
  <1>1. CASE Sweep
    BY <1>1 DEF Sweep, Stale, TypeOK, Waits, AttemptStatus
  <1>2. CASE Tick
    <2>1. \A n \in 0..(StaleAfter + 1) : Older(n) \in 0..(StaleAfter + 1)
      BY DEF Older
    <2>2. \A a \in Attempts : worker'[a] = [worker[a] EXCEPT !.late = Alive(a)]
      BY <1>2 DEF Tick
    <2>3. \A a \in Attempts : Alive(a) \in BOOLEAN
      BY DEF Alive
    <2>4. ASSUME NEW a \in Attempts
          PROVE  /\ worker'[a] \in WorkerState
                 /\ worker'[a].pc = worker[a].pc
                 /\ worker'[a].retries = worker[a].retries
      <3>1. worker[a] \in WorkerState
        BY DEF TypeOK
      <3> QED BY <2>2, <2>3, <3>1 DEF WorkerState
    <2>5. worker' \in [Attempts -> WorkerState]
      BY <1>2, <2>4 DEF Tick
    <2>6. age' \in [Attempts -> 0..(StaleAfter + 1)]
      BY <1>2, <2>1 DEF Tick, TypeOK
    <2> QED BY <1>2, <2>4, <2>5, <2>6 DEF Tick, TypeOK, Waits
  <1>3. CASE DeleteConversation
    BY <1>3 DEF DeleteConversation, TypeOK, Waits, AttemptStatus
  <1> QED BY <1>1, <1>2, <1>3

LEMMA TypeStep == TypeOK /\ [Next]_vars => TypeOK'
  <1>1. ASSUME TypeOK, UNCHANGED vars PROVE TypeOK'
    BY <1>1 DEF TypeOK, vars, Waits
  <1> QED BY <1>1, TypeBrowse, TypeFollow, TypeHandle, TypeWork, TypeEnvironment DEF Next

(* The tables, the tasks and the tab keep their types, and guardrails send an answer *)
(* back at most MaxGuardrailsRetries times.                                          *)
THEOREM TypeCorrect == Spec => []TypeOK
  BY TypeInit, TypeStep, PTL DEF Spec

(***************************************************************************)
(* The safety invariants.                                                  *)
(***************************************************************************)

THEOREM InvInit == Init => AttemptsInv
  BY DEF Init, AttemptsInv, TurnStoredOnce, ToldTruth, WorkerTracksAttempt, OfferedAreOver,
         Fresh, Alive

(* The browser changes no attempt, and offers a Retry only for one that is over. *)
LEMMA InvBrowse == TypeOK /\ AttemptsInv /\ (Browse \/ Follow) => AttemptsInv'
  <1> SUFFICES ASSUME TypeOK, AttemptsInv, Browse \/ Follow PROVE AttemptsInv'
    OBVIOUS
  <1>1. UNCHANGED server
    BY DEF Browse, Follow, Send, SendNext, Retry, Abort, Reload, ConnectionBreaks,
           Receive, StreamEnds, Reconcile
  <1>2. ASSUME NEW a \in (offered \cup retried)'
        PROVE  a \in swept \/ (status[a] \in {"failed", "deleted"} /\ worker[a].pc = "done")
    <2>1. CASE a \in offered \cup retried
      BY <2>1 DEF AttemptsInv, OfferedAreOver
    <2>2. ASSUME a \notin offered \cup retried
          PROVE  /\ a = client.cur /\ a \in Attempts
                 /\ (Receive /\ stream[a] = "retryable") \/ (Reconcile /\ MayRetry(a))
      <3>1. \/ Receive /\ a = client.cur /\ stream[a] = "retryable"
            \/ Reconcile /\ a = client.cur /\ MayRetry(a)
        BY <1>2, <2>2
        DEF Browse, Follow, Send, SendNext, Retry, Abort, Reload, ConnectionBreaks,
            Receive, StreamEnds, Reconcile, Loaded
      <3> QED BY <3>1, ViewsTyped DEF Receive, Reconcile
    <2>3. CASE a \notin offered \cup retried
      BY <2>2, <2>3 DEF AttemptsInv, ToldTruth, WorkerTracksAttempt, MayRetry, Alive
    <2> QED BY <2>1, <2>3
  <1> QED BY <1>1, <1>2
          DEF server, AttemptsInv, TurnStoredOnce, ToldTruth, WorkerTracksAttempt, OfferedAreOver,
              Alive

(* Of the copies of a request only one is inserted, and it starts the only worker. *)
LEMMA InvHandle ==
    TypeOK /\ AttemptsInv /\ (\E a \in Attempts : Handle(a) \/ HandlerDies(a)) => AttemptsInv'
  <1> SUFFICES ASSUME TypeOK, AttemptsInv, NEW a \in Attempts, Handle(a) \/ HandlerDies(a)
               PROVE  AttemptsInv'
    OBVIOUS
  <1> USE DEF browser, AttemptsInv, TurnStoredOnce, ToldTruth, WorkerTracksAttempt,
              OfferedAreOver, Alive
  <1>1. CASE Insert(a) /\ Inserts(a)
    <2>1. /\ status[a] = "none" /\ status' = [status EXCEPT ![a] = "pending"]
          /\ worker' = [worker EXCEPT ![a] = Fresh("chatbot")]
          /\ stream' = [stream EXCEPT ![a] = "open"]
          /\ UNCHANGED <<turns, swept, offered, retried>>
      BY <1>1 DEF Insert, Inserts
    <2>2. Fresh("chatbot").pc = "chatbot"
      BY DEF Fresh
    <2> QED BY <2>1, <2>2 DEF TypeOK
  <1>2. CASE ~(Insert(a) /\ Inserts(a))
    <2>1. UNCHANGED <<status, worker, stream, turns, swept, offered, retried>>
      BY <1>2 DEF Handle, Arrive, Insert, HandlerDies
    <2> QED BY <2>1
  <1> QED BY <1>1, <1>2

(* What one step of the worker of a does to a's row, stream and process. *)
LEMMA WorkEffect ==
    ASSUME TypeOK, NEW a \in Attempts, Work(a) \/ Stop(a)
    PROVE  /\ \A b \in Attempts \ {a} : /\ status'[b] = status[b] /\ turns'[b] = turns[b]
                                         /\ stream'[b] = stream[b] /\ worker'[b] = worker[b]
           /\ UNCHANGED <<swept, offered, retried>>
  BY DEF Work, Stop, Chatbot, GuardrailsPass, GuardrailsFail, Raise, Store, StoreUnacknowledged,
         Emit, Finalize, Stored, Goes, Ends, Rejected, Finalized, browser, TypeOK

LEMMA StepReached ==
    ASSUME TypeOK, NEW a \in Attempts
    PROVE  /\ \A pc \in WorkerStep : Goes(a, pc)[a].pc = pc
           /\ Ends(a)[a].pc = "done"
           /\ Rejected(a)[a].pc \in {"storing", "chatbot"}
  <1>1. worker \in [Attempts -> WorkerState] /\ worker[a] \in WorkerState
    BY DEF TypeOK
  <1>2. \A pc \in WorkerStep : [worker[a] EXCEPT !.pc = pc, !.late = FALSE].pc = pc
    BY <1>1 DEF WorkerState
  <1>3. \A pc \in WorkerStep :
          Goes(a, pc) = [worker EXCEPT ![a] = [worker[a] EXCEPT !.pc = pc, !.late = FALSE]]
    BY DEF Goes
  <1>4. \A pc \in WorkerStep : Goes(a, pc)[a].pc = pc
    BY <1>1, <1>2, <1>3
  <1>5. Ends(a)[a].pc = "done" /\ Rejected(a)[a].pc \in {"storing", "chatbot"}
    BY <1>1 DEF Ends, Fresh, Rejected
  <1> QED BY <1>4, <1>5

(* The row of the attempt the worker works on: a turn and its completed attempt appear *)
(* in one commit, and only while there was none; what the stream says is what the row  *)
(* says when the worker ends.                                                          *)
LEMMA WorkRow ==
    ASSUME TypeOK, AttemptsInv, NEW a \in Attempts, Work(a) \/ Stop(a)
    PROVE  /\ worker[a].pc \notin {"none", "done"}
           /\ turns'[a] = IF status'[a] = "completed" THEN 1 ELSE 0
           /\ stream'[a] = "answer" => status'[a] \in {"completed", "deleted"}
           /\ stream'[a] = "retryable" => status'[a] \in {"failed", "deleted"}
           /\ stream'[a] \in {"answer", "retryable"} => worker'[a].pc = "done"
           /\ worker'[a].pc # "none" /\ status'[a] # "none"
           /\ worker'[a].pc \in {"chatbot", "guardrails", "storing"} => status'[a] # "completed"
           /\ worker'[a].pc = "emitting" => status'[a] \in {"completed", "deleted"}
           /\ worker'[a].pc # "done" /\ status'[a] = "failed" => a \in swept
  <1> USE DEF AttemptsInv, TurnStoredOnce, ToldTruth, WorkerTracksAttempt, Alive
  <1>0. /\ \A b \in Attempts : Finalized(a)[b] = IF b = a /\ status[a] = "pending" THEN "failed"
                                                                                  ELSE status[b]
        /\ status[a] \in AttemptStatus
        /\ worker[a].pc = "none" <=> status[a] = "none"
    BY DEF Finalized, TypeOK
  <1>1. CASE Chatbot(a) \/ GuardrailsPass(a) \/ GuardrailsFail(a)
    <2>1. /\ worker[a].pc \in {"chatbot", "guardrails"}
          /\ UNCHANGED <<status, turns, stream>>
      BY <1>1 DEF Chatbot, GuardrailsPass, GuardrailsFail
    <2>2. worker'[a].pc \in {"chatbot", "guardrails", "storing"}
      BY <1>1, StepReached DEF Chatbot, GuardrailsPass, GuardrailsFail, WorkerStep
    <2> QED BY <2>1, <2>2
  <1>2. CASE Raise(a) \/ (Store(a) /\ ~exists)
    <2>1. /\ worker[a].pc \in {"chatbot", "guardrails", "storing"}
          /\ UNCHANGED <<status, turns, stream>>
      BY <1>2 DEF Raise, Store
    <2>2. worker'[a].pc = "failing"
      BY <1>2, StepReached DEF Raise, Store, WorkerStep
    <2> QED BY <2>1, <2>2
  <1>3. CASE (Store(a) /\ exists) \/ StoreUnacknowledged(a)
    <2>1. /\ worker[a].pc = "storing" /\ UNCHANGED stream
          /\ turns'[a] = turns[a] + 1 /\ status'[a] = "completed"
      BY <1>3 DEF Store, StoreUnacknowledged, Stored, TypeOK
    <2>2. worker'[a].pc \in {"emitting", "failing"}
      BY <1>3, StepReached DEF Store, StoreUnacknowledged, WorkerStep
    <2>3. turns[a] = 0
      BY <2>1
    <2> QED BY <2>1, <2>2, <2>3
  <1>4. CASE Emit(a)
    <2>1. /\ worker[a].pc = "emitting" /\ UNCHANGED <<status, turns>>
          /\ stream'[a] = "answer" /\ worker'[a].pc = "done"
      BY <1>4, StepReached DEF Emit, TypeOK
    <2> QED BY <2>1
  <1>5. CASE Finalize(a)
    <2>1. /\ worker[a].pc = "failing" /\ UNCHANGED turns /\ worker'[a].pc = "done"
          /\ status'[a] = status[a] \/ (status[a] = "pending" /\ status'[a] = "failed")
          /\ stream'[a] = Told(status'[a]) \/ stream'[a] \in Unresolved
      BY <1>5, <1>0, StepReached DEF Finalize, TypeOK
    <2> QED BY <2>1, <1>0 DEF Told, Unresolved
  <1>6. CASE Stop(a)
    <2>1. /\ worker[a].pc \notin {"none", "done"} /\ UNCHANGED turns /\ worker'[a].pc = "done"
          /\ status'[a] = status[a] \/ (status[a] = "pending" /\ status'[a] = "failed")
          /\ stream'[a] = "ended"
      BY <1>6, <1>0, StepReached DEF Stop, TypeOK
    <2> QED BY <2>1, <1>0
  <1> QED BY <1>1, <1>2, <1>3, <1>4, <1>5, <1>6 DEF Work

LEMMA InvWork ==
    TypeOK /\ AttemptsInv /\ (\E a \in Attempts : Work(a) \/ Stop(a)) => AttemptsInv'
  <1> SUFFICES ASSUME TypeOK, AttemptsInv, NEW a \in Attempts, Work(a) \/ Stop(a)
               PROVE  AttemptsInv'
    OBVIOUS
  <1>1. OfferedAreOver'
    <2> SUFFICES ASSUME NEW b \in (offered \cup retried)'
                 PROVE  b \in swept' \/ (status'[b] \in {"failed", "deleted"}
                                         /\ worker'[b].pc = "done")
      BY DEF OfferedAreOver
    <2>1. b \in offered \cup retried /\ b \in Attempts /\ UNCHANGED swept
      BY WorkEffect DEF TypeOK
    <2>2. b \in swept \/ (status[b] \in {"failed", "deleted"} /\ worker[b].pc = "done")
      BY <2>1 DEF AttemptsInv, OfferedAreOver
    <2>3. CASE b = a
      BY <2>1, <2>2, <2>3, WorkRow
    <2>4. CASE b # a
      BY <2>1, <2>2, <2>4, WorkEffect
    <2> QED BY <2>3, <2>4
  <1>2. TurnStoredOnce' /\ ToldTruth' /\ WorkerTracksAttempt'
    BY WorkEffect, WorkRow DEF AttemptsInv, TurnStoredOnce, ToldTruth, WorkerTracksAttempt, Alive
  <1> QED BY <1>1, <1>2 DEF AttemptsInv

LEMMA InvEnvironment ==
    TypeOK /\ AttemptsInv /\ (Sweep \/ Tick \/ DeleteConversation) => AttemptsInv'
  <1> SUFFICES ASSUME TypeOK, AttemptsInv, Sweep \/ Tick \/ DeleteConversation
               PROVE  AttemptsInv'
    OBVIOUS
  <1> USE DEF browser, AttemptsInv, TurnStoredOnce, ToldTruth, WorkerTracksAttempt,
              OfferedAreOver, Alive
  <1>1. CASE Sweep
    BY <1>1 DEF Sweep, Stale, TypeOK
  <1>2. CASE Tick
    <2>1. \A a \in Attempts : worker'[a].pc = worker[a].pc
      BY <1>2 DEF Tick, TypeOK, WorkerState
    <2> QED BY <1>2, <2>1 DEF Tick, TypeOK
  <1>3. CASE DeleteConversation
    BY <1>3 DEF DeleteConversation, TypeOK
  <1> QED BY <1>1, <1>2, <1>3

THEOREM InvStep == TypeOK /\ AttemptsInv /\ [Next]_vars => AttemptsInv'
  <1>1. ASSUME AttemptsInv, UNCHANGED vars PROVE AttemptsInv'
    BY <1>1 DEF vars, AttemptsInv, TurnStoredOnce, ToldTruth, WorkerTracksAttempt, OfferedAreOver,
                Alive
  <1> QED BY <1>1, InvBrowse, InvHandle, InvWork, InvEnvironment DEF Next

THEOREM InvCorrect == Spec => []AttemptsInv
  BY InvInit, InvStep, TypeCorrect, PTL DEF Spec

(* Copies of a request, crashes and unacknowledged commits never store a turn twice, nor *)
(* separate it from its completed attempt.                                              *)
THEOREM TurnsAreStoredOnce == Spec => []TurnStoredOnce
  <1>1. AttemptsInv => TurnStoredOnce
    BY DEF AttemptsInv
  <1> QED BY <1>1, InvCorrect, PTL

(* What an ended stream said of its turn is and stays so. *)
THEOREM StreamsTellTheTruth == Spec => []ToldTruth
  <1>1. AttemptsInv => ToldTruth
    BY DEF AttemptsInv
  <1> QED BY <1>1, InvCorrect, PTL

(* Only a sweep that outran a worker can make Retry store a turn twice. *)
THEOREM RetriesAreSafe == Spec => []RetryStoresNoSecondTurn
  <1>1. TypeOK /\ AttemptsInv => RetryStoresNoSecondTurn
    BY DEF AttemptsInv, OfferedAreOver, TurnStoredOnce, RetryStoresNoSecondTurn, TypeOK
  <1> QED BY <1>1, TypeCorrect, InvCorrect, PTL

(***************************************************************************)
(* Outcomes are final.                                                     *)
(***************************************************************************)

LEMMA FinalStep ==
    ASSUME TypeOK, AttemptsInv, [Next]_vars, NEW a \in Attempts
    PROVE  /\ status[a] = "completed" => status'[a] \in {"completed", "deleted"}
           /\ status[a] = "failed" =>
                 \/ status'[a] \in {"failed", "deleted"}
                 \/ status'[a] = "completed" /\ a \in swept /\ Alive(a)
  <1>1. CASE Browse \/ Follow \/ UNCHANGED vars
    <2>1. UNCHANGED status
      BY <1>1 DEF Browse, Follow, Send, SendNext, Retry, Abort, Reload, ConnectionBreaks,
                  Receive, StreamEnds, Reconcile, server, vars
    <2> QED BY <2>1
  <1>2. ASSUME NEW b \in Attempts, Handle(b) \/ HandlerDies(b)
        PROVE  status'[a] = status[a] \/ status[a] = "none"
    BY <1>2 DEF Handle, Arrive, Insert, Inserts, HandlerDies, TypeOK
  <1>3. ASSUME NEW b \in Attempts, Work(b) \/ Stop(b), a # b
        PROVE  status'[a] = status[a]
    BY <1>3, WorkEffect
  <1>4. ASSUME Work(a) \/ Stop(a), status[a] \in {"completed", "failed"}
        PROVE  \/ status'[a] = status[a]
               \/ /\ status[a] = "failed" /\ status'[a] = "completed"
                  /\ a \in swept /\ Alive(a)
    <2>1. CASE Store(a) \/ StoreUnacknowledged(a)
      BY <1>4, <2>1 DEF Store, StoreUnacknowledged, Stored, AttemptsInv, WorkerTracksAttempt,
                        Alive, TypeOK
    <2>2. CASE ~(Store(a) \/ StoreUnacknowledged(a))
      BY <1>4, <2>2 DEF Work, Stop, Chatbot, GuardrailsPass, GuardrailsFail, Raise, Emit,
                        Finalize, Finalized
    <2> QED BY <2>1, <2>2
  <1>5. CASE Sweep \/ Tick \/ DeleteConversation
    BY <1>5 DEF Sweep, Stale, Tick, DeleteConversation, TypeOK
  <1>6. CASE \E b \in Attempts : Work(b) \/ Stop(b)
    BY <1>3, <1>4, <1>6
  <1> QED BY <1>1, <1>2, <1>5, <1>6 DEF Next

(* A completed attempt stays completed, and a failed one failed unless it was swept *)
(* while its worker lived.                                                          *)
THEOREM OutcomesAreFinal == Spec => OutcomesFinal
  <1>1. TypeOK /\ AttemptsInv /\ [Next]_vars =>
          [\A a \in Attempts :
              /\ status[a] = "completed" => status'[a] \in {"completed", "deleted"}
              /\ status[a] = "failed" =>
                    \/ status'[a] \in {"failed", "deleted"}
                    \/ status'[a] = "completed" /\ a \in swept /\ Alive(a)]_vars
    BY FinalStep
  <1> QED BY <1>1, TypeCorrect, InvCorrect, PTL DEF Spec, OutcomesFinal

(***************************************************************************)
(* What the author sees: attempts implement TurnOutcome.                   *)
(***************************************************************************)

(* Besides the safety invariant: rows are deleted with their conversation, a stream *)
(* is open while its worker lives, and only requests that were sent arrive.         *)
SeenInv ==
    \A a \in Attempts :
        /\ status[a] = "deleted" => ~exists
        /\ Alive(a) => stream[a] = "open"
        /\ requests[a] > 0 \/ handlers[a] > 0 => a <= sent

LEMMA SeenInit == Init => SeenInv
  BY DEF Init, SeenInv, Fresh, Alive

(* The browser leaves the server alone, and sends under new numbers. *)
LEMMA SeenBrowse == TypeOK /\ SeenInv /\ (Browse \/ Follow) => SeenInv'
  <1> SUFFICES ASSUME TypeOK, SeenInv, Browse \/ Follow PROVE SeenInv'
    OBVIOUS
  <1>1. UNCHANGED server
    BY DEF Browse, Follow, Send, SendNext, Retry, Abort, Reload, ConnectionBreaks,
           Receive, StreamEnds, Reconcile
  <1>2. \/ UNCHANGED <<requests, sent>>
        \/ sent' = sent + 1 /\ \A a \in Attempts : a # sent + 1 => requests'[a] = requests[a]
    BY DEF Browse, Follow, Send, SendNext, Retry, Abort, Reload, ConnectionBreaks,
           Receive, StreamEnds, Reconcile, TypeOK
  <1>3. sent \in Nat /\ \A a \in Attempts : a \in Nat
    BY DEF TypeOK, Attempts
  <1>4. ASSUME NEW a \in Attempts, (requests[a] > 0 \/ handlers[a] > 0)' PROVE a <= sent'
    BY <1>1, <1>2, <1>3, <1>4 DEF SeenInv, server
  <1>5. UNCHANGED <<exists, status, stream, worker>>
    BY <1>1 DEF server
  <1> QED BY <1>4, <1>5 DEF SeenInv, Alive

LEMMA SeenHandle ==
    TypeOK /\ SeenInv /\ (\E a \in Attempts : Handle(a) \/ HandlerDies(a)) => SeenInv'
  <1> SUFFICES ASSUME TypeOK, SeenInv, NEW a \in Attempts, Handle(a) \/ HandlerDies(a)
               PROVE  SeenInv'
    OBVIOUS
  <1>1. UNCHANGED sent /\ UNCHANGED exists
    BY DEF Handle, Arrive, Insert, HandlerDies, browser
  <1>2. ASSUME NEW b \in Attempts, (requests[b] > 0 \/ handlers[b] > 0)'
        PROVE  requests[b] > 0 \/ handlers[b] > 0
    <2>1. requests[b] \in Nat /\ handlers[b] \in Nat
      BY DEF TypeOK
    <2> QED BY <1>2, <2>1 DEF Handle, Arrive, Insert, HandlerDies, TypeOK
  <1>3. ASSUME NEW b \in Attempts
        PROVE  /\ status'[b] = "deleted" => status[b] = "deleted"
               /\ Alive(b)' => stream'[b] = "open"
    BY DEF Handle, Arrive, Insert, HandlerDies, Fresh, Alive, TypeOK, SeenInv
  <1> QED BY <1>1, <1>2, <1>3 DEF SeenInv

LEMMA SeenWork == TypeOK /\ SeenInv /\ (\E a \in Attempts : Work(a) \/ Stop(a)) => SeenInv'
  <1> SUFFICES ASSUME TypeOK, SeenInv, NEW a \in Attempts, Work(a) \/ Stop(a) PROVE SeenInv'
    OBVIOUS
  <1>1. UNCHANGED <<exists, requests, handlers, sent>>
    BY DEF Work, Stop, Chatbot, GuardrailsPass, GuardrailsFail, Raise, Store, StoreUnacknowledged,
           Emit, Finalize, browser
  <1>2. status'[a] \in {status[a], "completed", "failed"}
    BY DEF Work, Stop, Chatbot, GuardrailsPass, GuardrailsFail, Raise, Store, StoreUnacknowledged,
           Emit, Finalize, Stored, Finalized, TypeOK
  <1>3. Alive(a)' => stream'[a] = "open"
    <2>1. CASE Chatbot(a) \/ GuardrailsPass(a) \/ GuardrailsFail(a) \/ Raise(a)
               \/ Store(a) \/ StoreUnacknowledged(a)
      BY <2>1 DEF Chatbot, GuardrailsPass, GuardrailsFail, Raise, Store, StoreUnacknowledged,
                  SeenInv, Alive
    <2>2. CASE Emit(a) \/ Finalize(a) \/ Stop(a)
      BY <2>2, StepReached DEF Emit, Finalize, Stop, Alive
    <2> QED BY <2>1, <2>2 DEF Work
  <1> QED BY <1>1, <1>2, <1>3, WorkEffect DEF SeenInv, Alive

LEMMA SeenEnvironment ==
    TypeOK /\ SeenInv /\ (Sweep \/ Tick \/ DeleteConversation) => SeenInv'
  <1> SUFFICES ASSUME TypeOK, SeenInv, Sweep \/ Tick \/ DeleteConversation PROVE SeenInv'
    OBVIOUS
  <1>1. \A a \in Attempts : worker'[a].pc = worker[a].pc
    BY DEF Sweep, Tick, DeleteConversation, TypeOK, WorkerState
  <1>2. UNCHANGED <<requests, handlers, sent, stream>>
    BY DEF Sweep, Tick, DeleteConversation, browser
  <1>3. \A a \in Attempts : status'[a] = "deleted" => ~exists'
    BY DEF Sweep, Tick, DeleteConversation, SeenInv, TypeOK
  <1> QED BY <1>1, <1>2, <1>3 DEF SeenInv, Alive

LEMMA SeenStep == TypeOK /\ SeenInv /\ [Next]_vars => SeenInv'
  <1>1. ASSUME SeenInv, UNCHANGED vars PROVE SeenInv'
    BY <1>1 DEF vars, SeenInv, Alive
  <1> QED BY <1>1, SeenBrowse, SeenHandle, SeenWork, SeenEnvironment DEF Next

(* Streams stay open while their workers live, and nothing arrives that was not sent. *)
THEOREM SeenCorrect == Spec => []SeenInv
  BY SeenInit, SeenStep, TypeCorrect, PTL DEF Spec

Outcomes == [a \in Attempts |-> OutcomeOf(a)]
Tellings == [a \in Attempts |-> ToldOf(a)]

LEMMA TurnDefs == Turn!Turns = Attempts
  BY DEF Turn!Turns, Attempts

LEMMA NothingSeen ==
    ASSUME UNCHANGED <<exists, sent, offered, Outcomes, Tellings>>
    PROVE  UNCHANGED Turn!outcomeVars
  BY DEF Turn!outcomeVars, Outcomes, Tellings

(* Rows, streams and workers that end or not are all that is seen of the server. *)
LEMMA SeenAlike ==
    ASSUME NEW a \in Attempts, status'[a] = status[a], Alive(a)' = Alive(a)
    PROVE  OutcomeOf(a)' = OutcomeOf(a)
  BY DEF OutcomeOf

LEMMA ToldAlike ==
    ASSUME NEW a \in Attempts, stream'[a] = stream[a] PROVE ToldOf(a)' = ToldOf(a)
  BY DEF ToldOf

LEMMA AllAlike ==
    ASSUME UNCHANGED <<status, stream>>, \A a \in Attempts : Alive(a)' = Alive(a)
    PROVE  UNCHANGED <<Outcomes, Tellings>>
  <1>1. \A a \in Attempts : OutcomeOf(a)' = OutcomeOf(a) /\ ToldOf(a)' = ToldOf(a)
    BY SeenAlike, ToldAlike
  <1> QED BY <1>1 DEF Outcomes, Tellings

(* A step that changes what is seen of one attempt. *)
LEMMA OneSeen ==
    ASSUME NEW a \in Attempts,
           \A b \in Attempts \ {a} : status'[b] = status[b] /\ stream'[b] = stream[b]
                                     /\ Alive(b)' = Alive(b)
    PROVE  /\ Outcomes' = [Outcomes EXCEPT ![a] = OutcomeOf(a)']
           /\ Tellings' = [Tellings EXCEPT ![a] = ToldOf(a)']
           /\ OutcomeOf(a)' = OutcomeOf(a) => UNCHANGED Outcomes
           /\ ToldOf(a)' = ToldOf(a) => UNCHANGED Tellings
  <1>1. \A b \in Attempts \ {a} : OutcomeOf(b)' = OutcomeOf(b) /\ ToldOf(b)' = ToldOf(b)
    BY SeenAlike, ToldAlike
  <1> QED BY <1>1 DEF Outcomes, Tellings

(* The tab asks, is offered retries of attempts that are over or in doubt, and forgets. *)
LEMMA BrowserIsSeen ==
    ASSUME TypeOK, AttemptsInv, Browse \/ Follow
    PROVE  Turn!Next \/ UNCHANGED Turn!outcomeVars
  <1>1. UNCHANGED server
    BY DEF Browse, Follow, Send, SendNext, Retry, Abort, Reload, ConnectionBreaks,
           Receive, StreamEnds, Reconcile
  <1>2. UNCHANGED <<exists, Outcomes, Tellings>>
    BY <1>1, AllAlike DEF server, Alive
  <1>3. CASE Send
    <2>1. Turn!Ask
      BY <1>2, <1>3 DEF Send, SendNext, Turn!Ask, Outcomes, Tellings
    <2> QED BY <2>1 DEF Turn!Next
  <1>4. ASSUME NEW a \in Attempts, Retry(a) PROVE Turn!Next
    <2>1. Turn!Retry(a)
      BY <1>2, <1>4 DEF Retry, SendNext, Turn!Retry, Outcomes, Tellings
    <2> QED BY <2>1, TurnDefs DEF Turn!Next
  <1>5. ASSUME UNCHANGED <<sent, offered>> PROVE UNCHANGED Turn!outcomeVars
    BY <1>2, <1>5, NothingSeen
  <1>6. ASSUME UNCHANGED sent, offered' = {} PROVE Turn!Next
    <2>1. Turn!Load
      BY <1>2, <1>6 DEF Turn!Load, Outcomes, Tellings
    <2> QED BY <2>1 DEF Turn!Next
  <1>7. ASSUME NEW a \in Attempts, status[a] \in {"failed", "deleted"},
               UNCHANGED sent, offered' = offered \cup {a}
        PROVE  Turn!Next
    <2>1. OutcomeOf(a) \in {"failed", "doubtful", "deleted"}
      BY <1>7 DEF OutcomeOf
    <2>2. Turn!Offer(a)
      BY <1>2, <1>7, <2>1 DEF Turn!Offer, Outcomes, Tellings
    <2> QED BY <2>2, TurnDefs DEF Turn!Next
  <1>8. CASE Abort \/ ConnectionBreaks \/ StreamEnds
    BY <1>5, <1>8 DEF Abort, ConnectionBreaks, StreamEnds
  <1>9. CASE Reload
    BY <1>6, <1>9 DEF Reload, Loaded
  <1>10. CASE Receive
    <2>1. client.cur \in Attempts
      BY <1>10, ViewsTyped DEF Receive
    <2>2. CASE stream[client.cur] = "retryable"
      <3>1. status[client.cur] \in {"failed", "deleted"}
        BY <2>1, <2>2 DEF AttemptsInv, ToldTruth
      <3> QED BY <1>7, <1>10, <2>1, <2>2, <3>1 DEF Receive
    <2>3. CASE stream[client.cur] # "retryable"
      BY <1>5, <1>10, <2>3 DEF Receive
    <2> QED BY <2>2, <2>3
  <1>11. CASE Reconcile
    <2>1. client.cur \in Attempts /\ UNCHANGED sent
      BY <1>11, ViewsTyped DEF Reconcile
    <2>2. CASE MayRetry(client.cur) /\ offered' = offered \cup {client.cur}
      BY <1>7, <2>1, <2>2 DEF MayRetry
    <2> QED BY <1>5, <1>6, <1>11, <2>1, <2>2 DEF Reconcile, Loaded
  <1> QED BY <1>3, <1>4, <1>8, <1>9, <1>10, <1>11 DEF Browse, Follow

(* Of the copies of a request the one that is inserted opens the turn. *)
LEMMA HandlerIsSeen ==
    ASSUME TypeOK, AttemptsInv, SeenInv, NEW a \in Attempts, Handle(a) \/ HandlerDies(a)
    PROVE  Turn!Next \/ UNCHANGED Turn!outcomeVars
  <1>1. CASE Insert(a) /\ Inserts(a)
    <2>1. /\ status[a] = "none" /\ exists
          /\ status' = [status EXCEPT ![a] = "pending"]
          /\ worker' = [worker EXCEPT ![a] = Fresh("chatbot")]
          /\ stream' = [stream EXCEPT ![a] = "open"]
          /\ UNCHANGED <<exists, sent, offered>>
      BY <1>1 DEF Insert, Inserts, browser
    <2>2. a <= sent
      <3>1. handlers[a] > 0
        BY <1>1 DEF Insert
      <3> QED BY <3>1 DEF SeenInv
    <2>3. /\ Outcomes' = [Outcomes EXCEPT ![a] = OutcomeOf(a)']
          /\ ToldOf(a)' = ToldOf(a) => UNCHANGED Tellings
      BY <2>1, OneSeen DEF TypeOK, Alive
    <2>4. OutcomeOf(a) = "none" /\ OutcomeOf(a)' = "open"
      BY <2>1 DEF OutcomeOf, TypeOK
    <2>5. ToldOf(a)' = ToldOf(a)
      BY <2>1 DEF ToldOf, AttemptsInv, WorkerTracksAttempt, TypeOK
    <2>6. Turn!Accept(a)
      BY <2>1, <2>2, <2>3, <2>4, <2>5 DEF Turn!Accept, Outcomes, Tellings
    <2> QED BY <2>6, TurnDefs DEF Turn!Next
  <1>2. CASE ~(Insert(a) /\ Inserts(a))
    <2>1. UNCHANGED <<exists, status, worker, stream, sent, offered>>
      BY <1>2 DEF Handle, Arrive, Insert, HandlerDies, browser
    <2> QED BY <2>1, AllAlike, NothingSeen DEF Alive
  <1> QED BY <1>1, <1>2

(* What is seen of the attempt that its worker works on. *)
LEMMA WorkIsSeen ==
    ASSUME TypeOK, AttemptsInv, SeenInv, NEW a \in Attempts, Work(a) \/ Stop(a)
    PROVE  \/ OutcomeOf(a)' = OutcomeOf(a) /\ ToldOf(a)' = ToldOf(a)
           \/ /\ exists /\ OutcomeOf(a) \in {"open", "doubtful"} /\ OutcomeOf(a)' = "stored"
              /\ ToldOf(a)' = ToldOf(a)
           \/ /\ OutcomeOf(a) \in {"open", "doubtful"} /\ OutcomeOf(a)' = "failed"
              /\ \/ ToldOf(a)' = ToldOf(a)
                 \/ ToldOf(a) = "nothing" /\ ToldOf(a)' = "error"
           \/ /\ OutcomeOf(a) \in {"stored", "deleted"} /\ OutcomeOf(a)' = OutcomeOf(a)
              /\ ToldOf(a) = "nothing" /\ ToldOf(a)' = "answer"
  <1>0. Alive(a) /\ stream[a] = "open" /\ ToldOf(a) = "nothing" /\ status[a] \in AttemptStatus
    <2>1. worker[a].pc \notin {"none", "done"}
      BY WorkRow
    <2> QED BY <2>1 DEF SeenInv, Alive, ToldOf, TypeOK
  <1>1. CASE Chatbot(a) \/ GuardrailsPass(a) \/ GuardrailsFail(a) \/ Raise(a)
             \/ (Store(a) /\ ~exists)
    <2>1. UNCHANGED <<status, stream>>
      BY <1>1 DEF Chatbot, GuardrailsPass, GuardrailsFail, Raise, Store
    <2>2. Alive(a)'
      BY <1>1, StepReached
      DEF Chatbot, GuardrailsPass, GuardrailsFail, Raise, Store, WorkerStep, Alive
    <2> QED BY <1>0, <2>1, <2>2, SeenAlike, ToldAlike
  <1>2. CASE (Store(a) /\ exists) \/ StoreUnacknowledged(a)
    <2>1. /\ exists /\ worker[a].pc = "storing" /\ UNCHANGED stream /\ status'[a] = "completed"
      BY <1>2 DEF Store, StoreUnacknowledged, Stored, TypeOK
    <2>2. status[a] \in {"pending", "failed"}
      BY <1>0, <2>1 DEF AttemptsInv, WorkerTracksAttempt, SeenInv, AttemptStatus
    <2>3. OutcomeOf(a) \in {"open", "doubtful"} /\ OutcomeOf(a)' = "stored"
      BY <1>0, <2>1, <2>2 DEF OutcomeOf
    <2> QED BY <2>1, <2>3, ToldAlike
  <1>3. CASE Emit(a)
    <2>1. /\ worker[a].pc = "emitting" /\ UNCHANGED status /\ stream'[a] = "answer"
      BY <1>3 DEF Emit, TypeOK
    <2>2. status[a] \in {"completed", "deleted"}
      BY <2>1 DEF AttemptsInv, WorkerTracksAttempt
    <2>3. OutcomeOf(a) \in {"stored", "deleted"} /\ OutcomeOf(a)' = OutcomeOf(a)
      BY <2>1, <2>2 DEF OutcomeOf
    <2>4. ToldOf(a)' = "answer"
      BY <2>1 DEF ToldOf
    <2> QED BY <1>0, <2>3, <2>4
  <1>4. CASE Finalize(a) \/ Stop(a)
    <2>1. /\ ~Alive(a)'
          /\ \/ status'[a] = status[a]
             \/ status[a] = "pending" /\ status'[a] = "failed"
          /\ \/ stream'[a] = Told(status'[a])
             \/ stream'[a] \in {"unknown", "ended"}
      BY <1>4, StepReached DEF Finalize, Stop, Finalized, Unresolved, Alive, TypeOK
    <2>2. status[a] # "none"
      BY <1>0 DEF AttemptsInv, WorkerTracksAttempt, Alive
    <2>3. CASE status'[a] = "failed"
      <3>1. OutcomeOf(a) \in {"open", "doubtful"} /\ OutcomeOf(a)' = "failed"
        BY <1>0, <2>1, <2>3 DEF OutcomeOf
      <3>2. ToldOf(a)' \in {"nothing", "error"}
        BY <2>1, <2>3 DEF ToldOf, Told
      <3> QED BY <1>0, <3>1, <3>2
    <2>4. CASE status'[a] # "failed"
      <3>1. status'[a] = status[a] /\ status[a] \in {"pending", "completed", "deleted"}
        BY <1>0, <2>1, <2>2, <2>4 DEF AttemptStatus
      <3>2. OutcomeOf(a)' = OutcomeOf(a)
        BY <3>1 DEF OutcomeOf
      <3>3. CASE stream'[a] = "answer"
        <4>1. status[a] = "completed"
          BY <2>1, <3>1, <3>3 DEF Told
        <4>2. OutcomeOf(a) = "stored" /\ ToldOf(a)' = "answer"
          BY <3>3, <4>1 DEF OutcomeOf, ToldOf
        <4> QED BY <1>0, <3>2, <4>2
      <3>4. CASE stream'[a] # "answer"
        <4>1. stream'[a] \in {"unknown", "ended"}
          BY <2>1, <3>1, <3>4 DEF Told
        <4>2. ToldOf(a)' = "nothing"
          BY <4>1 DEF ToldOf
        <4> QED BY <1>0, <3>2, <4>2
      <3> QED BY <3>3, <3>4
    <2> QED BY <2>3, <2>4
  <1> QED BY <1>1, <1>2, <1>3, <1>4 DEF Work

LEMMA WorkerIsSeen ==
    ASSUME TypeOK, AttemptsInv, SeenInv, NEW a \in Attempts, Work(a) \/ Stop(a)
    PROVE  Turn!Next \/ UNCHANGED Turn!outcomeVars
  <1>1. UNCHANGED <<exists, sent, offered>>
    BY DEF Work, Stop, Chatbot, GuardrailsPass, GuardrailsFail, Raise, Store, StoreUnacknowledged,
           Emit, Finalize, browser
  <1>2. /\ Outcomes' = [Outcomes EXCEPT ![a] = OutcomeOf(a)']
        /\ Tellings' = [Tellings EXCEPT ![a] = ToldOf(a)']
        /\ OutcomeOf(a)' = OutcomeOf(a) => UNCHANGED Outcomes
        /\ ToldOf(a)' = ToldOf(a) => UNCHANGED Tellings
    BY WorkEffect, OneSeen DEF Alive
  <1>3. Outcomes[a] = OutcomeOf(a) /\ Tellings[a] = ToldOf(a)
    BY DEF Outcomes, Tellings
  <1>4. CASE OutcomeOf(a)' = OutcomeOf(a) /\ ToldOf(a)' = ToldOf(a)
    BY <1>1, <1>2, <1>4, NothingSeen
  <1>5. CASE /\ exists /\ OutcomeOf(a) \in {"open", "doubtful"} /\ OutcomeOf(a)' = "stored"
             /\ ToldOf(a)' = ToldOf(a)
    <2>1. Turn!Store(a)
      BY <1>1, <1>2, <1>3, <1>5 DEF Turn!Store, Outcomes, Tellings
    <2> QED BY <2>1, TurnDefs DEF Turn!Next
  <1>6. CASE /\ OutcomeOf(a) \in {"open", "doubtful"} /\ OutcomeOf(a)' = "failed"
             /\ \/ ToldOf(a)' = ToldOf(a)
                \/ ToldOf(a) = "nothing" /\ ToldOf(a)' = "error"
    <2>1. Turn!Fail(a)
      BY <1>1, <1>2, <1>3, <1>6 DEF Turn!Fail, Outcomes, Tellings
    <2> QED BY <2>1, TurnDefs DEF Turn!Next
  <1>7. CASE /\ OutcomeOf(a) \in {"stored", "deleted"} /\ OutcomeOf(a)' = OutcomeOf(a)
             /\ ToldOf(a) = "nothing" /\ ToldOf(a)' = "answer"
    <2>1. Turn!Tell(a)
      BY <1>1, <1>2, <1>3, <1>7 DEF Turn!Tell, Outcomes, Tellings
    <2> QED BY <2>1, TurnDefs DEF Turn!Next
  <1> QED BY <1>4, <1>5, <1>6, <1>7, WorkIsSeen

(* A sweep gives open turns up, those in doubt whose workers live. *)
LEMMA SweepIsSeen ==
    ASSUME TypeOK, AttemptsInv, SeenInv, Sweep
    PROVE  Turn!Next
  <1> DEFINE late == Stale
             over == {t \in Stale : ~Alive(t)}
  <1>1. /\ late # {} /\ over \in SUBSET late
        /\ status' = [t \in Attempts |-> IF t \in late THEN "failed" ELSE status[t]]
        /\ UNCHANGED <<exists, stream, worker, sent, offered>>
    BY DEF Sweep, browser
  <1>2. \A t \in Attempts : Alive(t)' = Alive(t)
    BY <1>1 DEF Alive
  <1>3. late \in SUBSET {t \in Attempts : OutcomeOf(t) = "open"}
    BY DEF Stale, OutcomeOf
  <1>4. ASSUME NEW t \in Attempts
        PROVE  OutcomeOf(t)' = IF t \in over THEN "failed"
                               ELSE IF t \in late THEN "doubtful" ELSE OutcomeOf(t)
    <2>1. CASE t \in late
      BY <1>1, <1>2, <2>1 DEF OutcomeOf
    <2>2. CASE t \notin late
      <3>1. status'[t] = status[t]
        BY <1>1, <2>2
      <3> QED BY <1>2, <2>2, <3>1, SeenAlike
    <2> QED BY <2>1, <2>2
  <1>5. UNCHANGED Tellings
    BY <1>1, ToldAlike DEF Tellings
  <1> HIDE DEF late, over
  <1>6. Outcomes' = [t \in Attempts |-> IF t \in over THEN "failed"
                                        ELSE IF t \in late THEN "doubtful" ELSE Outcomes[t]]
    BY <1>4 DEF Outcomes
  <1>7. late \in SUBSET {t \in Attempts : Outcomes[t] = "open"}
    BY <1>3 DEF Outcomes
  <1>8. Turn!GiveUp
    BY <1>1, <1>5, <1>6, <1>7, TurnDefs DEF Turn!GiveUp, Outcomes, Tellings
  <1> QED BY <1>8 DEF Turn!Next

LEMMA TimePassesUnseen == TypeOK /\ Tick => UNCHANGED Turn!outcomeVars
  <1> SUFFICES ASSUME TypeOK, Tick PROVE UNCHANGED Turn!outcomeVars
    OBVIOUS
  <1>1. \A a \in Attempts : worker'[a].pc = worker[a].pc
    BY DEF Tick, TypeOK, WorkerState
  <1>2. UNCHANGED <<exists, status, stream, sent, offered>>
    BY DEF Tick, browser
  <1> QED BY <1>1, <1>2, AllAlike, NothingSeen DEF Alive

LEMMA DeletionIsSeen ==
    ASSUME TypeOK, DeleteConversation
    PROVE  Turn!Next
  <1>1. /\ exists /\ exists' = FALSE
        /\ \A a \in Attempts : status'[a] = IF status[a] = "none" THEN "none" ELSE "deleted"
        /\ UNCHANGED <<stream, sent, offered>>
    BY DEF DeleteConversation, browser
  <1>2. ASSUME NEW a \in Attempts
        PROVE  OutcomeOf(a)' = IF OutcomeOf(a) = "none" THEN "none" ELSE "deleted"
    BY <1>1 DEF OutcomeOf, TypeOK, AttemptStatus
  <1>3. Outcomes' = [a \in Attempts |-> IF Outcomes[a] = "none" THEN "none" ELSE "deleted"]
    BY <1>2 DEF Outcomes
  <1>4. UNCHANGED Tellings
    BY <1>1, ToldAlike DEF Tellings
  <1>5. Turn!Delete
    BY <1>1, <1>3, <1>4, TurnDefs DEF Turn!Delete, Outcomes, Tellings
  <1> QED BY <1>5 DEF Turn!Next

LEMMA OutcomeInit == Init => Turn!Init
  <1> SUFFICES ASSUME Init PROVE Turn!Init
    OBVIOUS
  <1>1. \A a \in Attempts : OutcomeOf(a) = "none" /\ ToldOf(a) = "nothing"
    BY DEF Init, OutcomeOf, ToldOf
  <1> QED BY <1>1, TurnDefs DEF Init, Turn!Init

LEMMA OutcomeStep ==
    TypeOK /\ AttemptsInv /\ SeenInv /\ [Next]_vars => [Turn!Next]_(Turn!outcomeVars)
  <1> SUFFICES ASSUME TypeOK, AttemptsInv, SeenInv, [Next]_vars
               PROVE  Turn!Next \/ UNCHANGED Turn!outcomeVars
    OBVIOUS
  <1>1. CASE UNCHANGED vars
    BY <1>1, AllAlike, NothingSeen DEF vars, Alive
  <1> QED BY <1>1, BrowserIsSeen, HandlerIsSeen, WorkerIsSeen, SweepIsSeen, TimePassesUnseen,
             DeletionIsSeen
          DEF Next

(* Attempts implement the turns their author is promised. *)
THEOREM AttemptsImplementTurnOutcome == Spec => ImplementsTurnOutcome
  BY OutcomeInit, OutcomeStep, TypeCorrect, InvCorrect, SeenCorrect, PTL
  DEF Spec, ImplementsTurnOutcome, Turn!Spec

=============================================================================
