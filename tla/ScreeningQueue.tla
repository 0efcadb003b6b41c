--------------------------- MODULE ScreeningQueue ---------------------------
(***************************************************************************)
(* The transcript-screening queue of the compliance component: a table of  *)
(* items (one per screening and assistant message), any number of worker   *)
(* processes that claim the items of one chat under a lease, call the      *)
(* provider outside any transaction and write the result back, and the     *)
(* routes that admit a screening, retry its failures and delete a chat.    *)
(*                                                                         *)
(* Every action is one database transaction, or one step of a worker       *)
(* between two transactions; claim_next is two steps, because it reads the *)
(* queue before it locks the items it reads about.                         *)
(***************************************************************************)
EXTENDS Integers, FiniteSets

CONSTANTS
    MaxScreenings,  \* bound: screenings admitted, numbered by created_at
    Chats,
    Messages,       \* assistant messages inside every screening's period
    ChatOf,         \* the chat each message belongs to
    Users,          \* reviewers; Scheduler is the nightly service user
    Scheduler,
    Workers,
    Tokens,         \* lease tokens (uuid4)
    MaxAttempts,    \* MAX_ATTEMPTS
    MaxMessages,    \* COMPLIANCE_MAX_MESSAGES
    ProviderCodes,  \* the error codes a provider call can end with
    None            \* SQL NULL

Codes == {"provider_error", "invalid_evidence", "incomplete",
          "worker_interrupted", "jailbreak_blocked", "too_long",
          "missing_display", "invalid_context", "access_changed",
          "screening_version_changed"}

RETRIABLE_ERROR_CODES ==
    {"provider_error", "invalid_evidence", "incomplete", "worker_interrupted"}

ASSUME ScreeningConstants ==
    /\ MaxScreenings \in Nat
    /\ ChatOf \in [Messages -> Chats]
    /\ Scheduler \in Users
    /\ MaxAttempts \in Nat \ {0}
    /\ MaxMessages \in Nat
    /\ ProviderCodes \subseteq Codes
    /\ None \notin Tokens \cup Users \cup Codes \cup Chats

Screenings == 1..MaxScreenings
Items      == Screenings \X Messages

ItemStatus == {"none", "queued", "running", "screened", "error", "deleted"}
WorkerStep == {"idle", "claiming", "claimed", "screening", "finishing", "failing"}

VARIABLES
    admitted,   \* screenings 1..admitted have a row
    outdated,   \* screenings 1..outdated have another SCREENING_VERSION
    chats,      \* conversations that exist
    created,    \* screenings requested before the message's created_at;
                \* Uncommitted while its turn's transaction is open
    item,       \* the compliance_item table; status "none" is no row, hash {} NULL
    findings,   \* compliance_finding rows of each item
    access,     \* users who may screen these chats
    worker      \* what each worker process holds in memory

vars == <<admitted, outdated, chats, created, item, findings, access, worker>>

Uncommitted == -1

NoItem == [status |-> "none", attempts |-> 0, token |-> None, live |-> FALSE,
           by |-> None, code |-> None, hash |-> {}]

Idle == [pc |-> "idle", s |-> 0, c |-> None, token |-> None,
         targets |-> {}, seen |-> {}, flags |-> {}, code |-> None]

(* A new item row is queued for its requester, with every other column at its default. *)
QueuedFor(u) == [NoItem EXCEPT !.status = "queued", !.by = u]

(* load_transcript: the committed messages of chat c created before screening s. *)
Transcript(s, c) ==
    {m \in Messages : /\ ChatOf[m] = c
                      /\ c \in chats
                      /\ created[m] \in 0..(s - 1)}

ItemsOf(s, c) == {i \in Items : i[1] = s /\ ChatOf[i[2]] = c}

(* Operators named "...Mutant" are the bugs the properties are tried on: none is *)
(* part of the specification. Here: a claim condition without status and token.  *)
ClaimedMutant(w) ==
    {i \in ItemsOf(worker[w].s, worker[w].c) : item[i].status # "none"}

(* _claim_condition: the items of the claim that still carry its token. *)
Claimed(w) ==
    {i \in ItemsOf(worker[w].s, worker[w].c) :
        item[i].token = worker[w].token /\ item[i].status = "running"}

(* authorized_items: one requester for all of them, who still has access. *)
Authorized(its) == \E u \in access : \A i \in its : item[i].by = u

(* A claim transaction holds FOR UPDATE on the conversation until it commits. *)
Locked(c) == \E w \in Workers : worker[w].pc = "claiming" /\ worker[w].c = c

UsedTokens == {item[i].token : i \in Items} \cup {worker[w].token : w \in Workers}

-----------------------------------------------------------------------------
Init ==
    /\ admitted = 0
    /\ outdated = 0
    /\ chats = Chats
    /\ created = [m \in Messages |-> Uncommitted]
    /\ item = [i \in Items |-> NoItem]
    /\ findings = [i \in Items |-> 0]
    /\ access = Users
    /\ worker = [w \in Workers |-> Idle]

(***************************************************************************)
(* The environment: chat turns, deletion, permissions, deployments.        *)
(***************************************************************************)

(* A turn's transaction commits an assistant message. created_at was taken  *)
(* when the row was flushed, so a screening may have been requested since.  *)
CommitMessage(m) ==
    /\ created[m] = Uncommitted
    /\ ChatOf[m] \in chats
    /\ ~Locked(ChatOf[m])
    /\ \E n \in 0..admitted : created' = [created EXCEPT ![m] = n]
    /\ UNCHANGED <<admitted, outdated, chats, item, findings, access, worker>>

(* delete_internal_conversation: FOR UPDATE on the conversation, then its   *)
(* messages go. The foreign keys null the items' message_id, the trigger    *)
(* compliance_item_source_deleted makes them tombstones, findings cascade.  *)
Tombstone(row) == [row EXCEPT !.status = "deleted", !.hash = {}, !.code = None,
                              !.token = None, !.live = FALSE]

DeleteChat(c) ==
    /\ c \in chats
    /\ ~Locked(c)
    /\ chats' = chats \ {c}
    /\ item' = [i \in Items |-> IF ChatOf[i[2]] = c /\ item[i].status # "none"
                                THEN Tombstone(item[i]) ELSE item[i]]
    /\ findings' = [i \in Items |-> IF ChatOf[i[2]] = c THEN 0 ELSE findings[i]]
    /\ UNCHANGED <<admitted, outdated, created, access, worker>>

(* A permission, group or is_active edit. *)
ChangeAccess(u) ==
    /\ access' = IF u \in access THEN access \ {u} ELSE access \cup {u}
    /\ UNCHANGED <<admitted, outdated, chats, created, item, findings, worker>>

(* A release with another SCREENING_VERSION restarts the workers. *)
Deploy ==
    /\ outdated < admitted
    /\ outdated' = admitted
    /\ worker' = [w \in Workers |-> Idle]
    /\ UNCHANGED <<admitted, chats, created, item, findings, access>>

(***************************************************************************)
(* Admission and retry.                                                    *)
(***************************************************************************)

(* source_selection and admit_screening: one item for every message that is *)
(* committed now. *)
Selected == {m \in Messages : ChatOf[m] \in chats /\ created[m] # Uncommitted}

Admit(u) ==
    /\ admitted < MaxScreenings
    /\ Selected # {}
    /\ Cardinality(Selected) <= MaxMessages
    /\ admitted' = admitted + 1
    /\ item' = [i \in Items |-> IF i[1] = admitted + 1 /\ i[2] \in Selected
                                THEN QueuedFor(u) ELSE item[i]]
    /\ UNCHANGED <<outdated, chats, created, findings, access, worker>>

(* start_screening: a reviewer has one screening in progress at a time. *)
StartScreening(u) ==
    /\ u \in access
    /\ \A i \in Items : item[i].by = u => item[i].status \notin {"queued", "running"}
    /\ Admit(u)

(* admit_daily_screening: too many messages leave a row without items. *)
AdmitDaily ==
    /\ Scheduler \in access
    /\ \/ Admit(Scheduler)
       \/ /\ admitted < MaxScreenings
          /\ Cardinality(Selected) > MaxMessages
          /\ admitted' = admitted + 1
          /\ UNCHANGED <<outdated, chats, created, item, findings, access, worker>>

(* retry_failed_items *)
RetriableMutant(s) == {i \in Items : i[1] = s /\ item[i].status = "error"}

Retriable(s) ==
    {i \in Items : /\ i[1] = s
                   /\ item[i].status = "error"
                   /\ item[i].code \in RETRIABLE_ERROR_CODES}

Requeued(row, u) ==
    [row EXCEPT !.status = "queued", !.attempts = 0, !.by = u,
                !.code = None, !.token = None, !.live = FALSE]

Retry(u, s) ==
    /\ u \in access
    /\ s \in (outdated + 1)..admitted
    /\ Retriable(s) # {}
    /\ item' = [i \in Items |-> IF i \in Retriable(s) THEN Requeued(item[i], u) ELSE item[i]]
    /\ UNCHANGED <<admitted, outdated, chats, created, findings, access, worker>>

(***************************************************************************)
(* The worker (run_worker and execute_claim).                              *)
(***************************************************************************)

Expired(i)   == item[i].status = "running" /\ ~item[i].live
ClaimableMutant(i) == item[i].status = "queued"
Claimable(i) == item[i].status = "queued" \/ Expired(i)

(* The chats claim_next may select: those with a claimable item of the      *)
(* oldest screening among the conversations nobody has locked.              *)
Claimables == {i \in Items : Claimable(i) /\ ~Locked(ChatOf[i[2]])}
Oldest     == {i \in Claimables : \A j \in Claimables : i[1] <= j[1]}

(* claim_next, first statement: select and lock a conversation. *)
ClaimSelect(w) ==
    /\ worker[w].pc = "idle"
    /\ \E i \in Oldest :
          worker' = [worker EXCEPT ![w] = [Idle EXCEPT !.pc = "claiming", !.s = i[1],
                                                       !.c = ChatOf[i[2]]]]
    /\ UNCHANGED <<admitted, outdated, chats, created, item, findings, access>>

(* claim_next, the rest: the items are locked and read again, since their   *)
(* holder may have renewed the lease or closed them in between.             *)
OpenMutant(s, c) ==
    LET its == {i \in ItemsOf(s, c) : item[i].status \in {"queued", "running"}}
    IN  IF its = {} THEN {} ELSE {CHOOSE i \in its : TRUE}

Open(s, c) == {i \in ItemsOf(s, c) : item[i].status \in {"queued", "running"}}

TakenOverMutant(its) == its = {}

TakenOver(its) ==
    \/ its = {}
    \/ \E i \in its : item[i].status = "running" /\ item[i].live

Interrupted(row) ==
    [row EXCEPT !.status = "error", !.code = "worker_interrupted", !.token = None, !.live = FALSE]

Leased(row, t) ==
    [row EXCEPT !.status = "running", !.attempts = @ + 1, !.token = t, !.live = TRUE]

ClaimItemsMutant(w, its) ==
    IF \E i \in its : item[i].attempts > MaxAttempts
    THEN /\ item' = [i \in Items |-> IF i \in its THEN Interrupted(item[i]) ELSE item[i]]
         /\ worker' = [worker EXCEPT ![w] = Idle]
    ELSE \E t \in Tokens \ UsedTokens :
            /\ item' = [i \in Items |-> IF i \in its THEN Leased(item[i], t) ELSE item[i]]
            /\ worker' = [worker EXCEPT ![w].pc = "claimed", ![w].token = t]

ClaimItems(w, its) ==
    IF \E i \in its : item[i].attempts >= MaxAttempts
    THEN /\ item' = [i \in Items |-> IF i \in its THEN Interrupted(item[i]) ELSE item[i]]
         /\ worker' = [worker EXCEPT ![w] = Idle]
    ELSE \E t \in Tokens \ UsedTokens :
            /\ item' = [i \in Items |-> IF i \in its THEN Leased(item[i], t) ELSE item[i]]
            /\ worker' = [worker EXCEPT ![w].pc = "claimed", ![w].token = t]

ClaimTake(w) ==
    /\ worker[w].pc = "claiming"
    /\ LET its == Open(worker[w].s, worker[w].c)
       IN  \/ /\ TakenOver(its)
              /\ worker' = [worker EXCEPT ![w] = Idle]
              /\ UNCHANGED item
           \/ /\ ~TakenOver(its)
              /\ ClaimItems(w, its)
    /\ UNCHANGED <<admitted, outdated, chats, created, findings, access>>

(* An exception of execute_claim: its code is written by finish_error, in a *)
(* transaction of its own. *)
Failing(w, code) ==
    [worker EXCEPT ![w].pc = "failing", ![w].code = code, ![w].targets = {},
                   ![w].seen = {}, ![w].flags = {}]

(* prepare_work *)
PrepareFailureMutant(w) ==
    IF ~Authorized(Claimed(w)) THEN "access_changed"
    ELSE IF worker[w].s <= outdated THEN "screening_version_changed" ELSE None

PrepareFailure(w) ==
    LET transcript == Transcript(worker[w].s, worker[w].c)
    IN  IF ~Authorized(Claimed(w)) THEN "access_changed"
        ELSE IF worker[w].s <= outdated THEN "screening_version_changed"
        ELSE IF {i[2] : i \in Claimed(w)} # transcript THEN "invalid_context"
        ELSE None

Prepare(w) ==
    /\ worker[w].pc = "claimed"
    /\ worker' =
         IF Claimed(w) = {} THEN [worker EXCEPT ![w] = Idle]
         ELSE IF PrepareFailure(w) # None THEN Failing(w, PrepareFailure(w))
         ELSE [worker EXCEPT ![w].pc = "screening",
                             ![w].targets = {i[2] : i \in Claimed(w)},
                             ![w].seen = Transcript(worker[w].s, worker[w].c)]
    /\ UNCHANGED <<admitted, outdated, chats, created, item, findings, access>>

(* screen_conversation: the provider flags some of the targets, or fails. *)
ScreenReturns(w) ==
    /\ worker[w].pc = "screening"
    /\ \E flags \in SUBSET worker[w].targets :
          worker' = [worker EXCEPT ![w].pc = "finishing", ![w].flags = flags]
    /\ UNCHANGED <<admitted, outdated, chats, created, item, findings, access>>

ScreenRaises(w) ==
    /\ worker[w].pc = "screening"
    /\ \E code \in ProviderCodes : worker' = Failing(w, code)
    /\ UNCHANGED <<admitted, outdated, chats, created, item, findings, access>>

(* _heartbeat: renew the lease while the claim is held, expired or not ... *)
Heartbeat(w) ==
    /\ worker[w].pc = "screening"
    /\ Claimed(w) # {}
    /\ item' = [i \in Items |-> IF i \in Claimed(w) THEN [item[i] EXCEPT !.live = TRUE]
                                ELSE item[i]]
    /\ UNCHANGED <<admitted, outdated, chats, created, findings, access, worker>>

(* ... and give the claim up when it is gone or the database fails. *)
HeartbeatLost(w) ==
    /\ worker[w].pc = "screening"
    /\ worker' = [worker EXCEPT ![w] = Idle]
    /\ UNCHANGED <<admitted, outdated, chats, created, item, findings, access>>

(* finish_error: an update under the claim condition. *)
FailedMutant(row, code) == [row EXCEPT !.status = "error", !.code = code]

Failed(row, code) ==
    [row EXCEPT !.status = "error", !.code = code, !.token = None, !.live = FALSE]

FailClaimed(w, code) ==
    [i \in Items |-> IF i \in Claimed(w) THEN Failed(item[i], code) ELSE item[i]]

(* finish_result, in one transaction under the conversation's lock. *)
Screened(row, hash) ==
    [row EXCEPT !.status = "screened", !.hash = hash, !.code = None,
                !.token = None, !.live = FALSE]

SameContext(w) ==
    /\ {i[2] : i \in Claimed(w)} = worker[w].targets
    /\ Transcript(worker[w].s, worker[w].c) = worker[w].seen

FinishEffect(w) ==
    IF Claimed(w) = {} THEN UNCHANGED <<item, findings>>
    ELSE IF ~Authorized(Claimed(w))
    THEN item' = FailClaimed(w, "access_changed") /\ UNCHANGED findings
    ELSE IF ~SameContext(w)
    THEN item' = FailClaimed(w, "invalid_context") /\ UNCHANGED findings
    ELSE /\ item' = [i \in Items |-> IF i \in Claimed(w) THEN Screened(item[i], worker[w].seen)
                                     ELSE item[i]]
         /\ findings' = [i \in Items |-> IF i \in Claimed(w) /\ i[2] \in worker[w].flags
                                         THEN findings[i] + 1 ELSE findings[i]]

Finish(w) ==
    /\ worker[w].pc = "finishing"
    /\ ~Locked(worker[w].c)
    /\ FinishEffect(w)
    /\ worker' = [worker EXCEPT ![w] = Idle]
    /\ UNCHANGED <<admitted, outdated, chats, created, access>>

(* The database fails during finish_result: rolled back, or committed with  *)
(* the reply lost. Either way the exception becomes provider_error. *)
FinishRaises(w) ==
    /\ worker[w].pc = "finishing"
    /\ ~Locked(worker[w].c)
    /\ FinishEffect(w) \/ UNCHANGED <<item, findings>>
    /\ worker' = Failing(w, "provider_error")
    /\ UNCHANGED <<admitted, outdated, chats, created, access>>

(* The final transaction of execute_claim; run_worker swallows its failure. *)
Fail(w) ==
    /\ worker[w].pc = "failing"
    /\ item' = FailClaimed(w, worker[w].code)
    /\ worker' = [worker EXCEPT ![w] = Idle]
    /\ UNCHANGED <<admitted, outdated, chats, created, findings, access>>

(* The process dies, is shut down, or run_worker catches a database error:  *)
(* open transactions roll back, whatever the claim holds stays leased.      *)
Crash(w) ==
    /\ worker[w].pc # "idle"
    /\ worker' = [worker EXCEPT ![w] = Idle]
    /\ UNCHANGED <<admitted, outdated, chats, created, item, findings, access>>

(* LEASE_SECONDS pass. A claim transaction lasts milliseconds: a lease it   *)
(* finds renewed outlives it. *)
LeaseExpires(s, c) ==
    /\ ~Locked(c)
    /\ \E i \in ItemsOf(s, c) : item[i].live
    /\ item' = [i \in Items |-> IF i \in ItemsOf(s, c) THEN [item[i] EXCEPT !.live = FALSE]
                                ELSE item[i]]
    /\ UNCHANGED <<admitted, outdated, chats, created, findings, access, worker>>

-----------------------------------------------------------------------------
Work(w) ==
    \/ ClaimSelect(w) \/ ClaimTake(w) \/ Prepare(w)
    \/ ScreenReturns(w) \/ ScreenRaises(w) \/ Finish(w) \/ FinishRaises(w) \/ Fail(w)

Next ==
    \/ \E m \in Messages : CommitMessage(m)
    \/ \E c \in Chats : DeleteChat(c)
    \/ \E u \in Users : ChangeAccess(u) \/ StartScreening(u)
    \/ AdmitDaily
    \/ Deploy
    \/ \E u \in Users, s \in Screenings : Retry(u, s)
    \/ \E w \in Workers : Work(w) \/ Heartbeat(w) \/ HeartbeatLost(w) \/ Crash(w)
    \/ \E s \in Screenings, c \in Chats : LeaseExpires(s, c)

Spec == Init /\ [][Next]_vars

(* run_worker loops for ever and a provider call ends (LLM_REQUEST_TIMEOUT);  *)
(* time passes; and a worker is not killed inside every claim transaction,    *)
(* which lasts milliseconds. Nothing is assumed of crashes elsewhere, of       *)
(* heartbeats, deletions, retries or permission changes.                      *)
Fairness ==
    /\ \A w \in Workers : WF_vars(Work(w)) /\ SF_vars(ClaimTake(w))
    /\ \A s \in Screenings, c \in Chats : WF_vars(LeaseExpires(s, c))

FairSpec == Spec /\ Fairness

(***************************************************************************)
(* Properties                                                              *)
(***************************************************************************)

ItemRow == [status : ItemStatus, attempts : 0..MaxAttempts, token : Tokens \cup {None},
            live : BOOLEAN, by : Users \cup {None}, code : Codes \cup {None},
            hash : SUBSET Messages]

WorkerState == [pc : WorkerStep, s : {0} \cup Screenings, c : Chats \cup {None},
                token : Tokens \cup {None}, targets : SUBSET Messages,
                seen : SUBSET Messages, flags : SUBSET Messages, code : Codes \cup {None}]

(* The rows and the workers' memory hold values of their columns' types. *)
TypeOK ==
    /\ admitted \in 0..MaxScreenings
    /\ outdated \in 0..admitted
    /\ chats \subseteq Chats
    /\ created \in [Messages -> -1..MaxScreenings]
    /\ item \in [Items -> ItemRow]
    /\ findings \in [Items -> Nat]
    /\ access \subseteq Users
    /\ worker \in [Workers -> WorkerState]

SameChat(i, j) == i[1] = j[1] /\ ChatOf[i[2]] = ChatOf[j[2]]

(* "Lock the conversation first so workers cannot split its targets into      *)
(* separate calls" (worker.py:78): the items of one chat in one screening are *)
(* claimed, failed, retried, screened and deleted together, by every process. *)
ChatsNotSplit ==
    \A i, j \in Items :
        SameChat(i, j) /\ item[i].status # "none" /\ item[j].status # "none"
            => item[i] = item[j]

(* A lease token is held by the items of one claim and by no second worker, so *)
(* a worker that lost its lease can never match the claim condition again.     *)
TokensFence ==
    /\ \A i \in Items : (item[i].token # None) <=> (item[i].status = "running")
    /\ \A i, j \in Items : item[i].token = item[j].token /\ item[i].token # None => SameChat(i, j)
    /\ \A w \in Workers, i \in Items :
          worker[w].token # None /\ item[i].token = worker[w].token
              => i \in ItemsOf(worker[w].s, worker[w].c)
    /\ \A v, w \in Workers : worker[v].token = worker[w].token /\ worker[v].token # None => v = w

(* Findings are stored once, by the claim whose result was accepted, and only *)
(* for screened items: no retry, late worker or lost commit reply doubles     *)
(* them, and none outlives its chat.                                          *)
FindingsOnce ==
    \A i \in Items : /\ findings[i] <= 1
                     /\ findings[i] = 1 => item[i].status = "screened"

(* A screened chat was screened whole: the transcript whose hash is stored is *)
(* exactly the set of messages that have an item, and all of them are         *)
(* screened, although messages commit late and chats are deleted meanwhile.   *)
ScreenedWhole ==
    \A i \in Items : item[i].status = "screened" =>
        item[i].hash = {j[2] : j \in {k \in Items : SameChat(i, k) /\ item[k].status = "screened"}}

(* A claim is taken over only after its lease ran out: a renewal that commits *)
(* between the two reads of claim_next keeps the claim with its holder.       *)
NoLeaseStolen ==
    [][\A i \in Items :
          item[i].live /\ item'[i].token # None => item'[i].token = item[i].token]_vars

(* Verdicts are final: a screened item only ever becomes a tombstone, a       *)
(* tombstone stays one, and a failure is undone only by the retry route, which *)
(* starts the attempts afresh and never reopens a failure that would recur.   *)
VerdictsFinal ==
    [][\A i \in Items :
          /\ item[i].status = "screened" =>
                item'[i].status = "deleted" \/ item'[i] = item[i]
          /\ item[i].status = "deleted" => item'[i].status = "deleted"
          /\ item[i].status = "error" /\ item'[i] # item[i] =>
                \/ item'[i].status = "deleted"
                \/ /\ item'[i].status = "queued" /\ item'[i].attempts = 0
                   /\ item[i].code \in RETRIABLE_ERROR_CODES]_vars

(* The inductive invariant behind them: with what a screening has not admitted,  *)
(* what a lease means and what a worker remembers of the transcript it read.     *)
NotYetAdmitted == \A i \in Items : i[1] > admitted => item[i] = NoItem

LiveRuns == \A i \in Items : item[i].live => item[i].status = "running"

ReadWhole ==
    \A w \in Workers : worker[w].pc \in {"screening", "finishing"}
                            => worker[w].targets = worker[w].seen

QueueInv ==
    /\ ChatsNotSplit
    /\ TokensFence
    /\ FindingsOnce
    /\ ScreenedWhole
    /\ NotYetAdmitted
    /\ LiveRuns
    /\ ReadWhole

(* A queued or running item does not stay so: whichever workers crash, lose   *)
(* their lease or meet a database error, the bounded attempts end in a result, *)
(* an error the reviewer sees, or a tombstone.                                 *)
ScreeningsClose ==
    \A i \in Items : item[i].status \in {"queued", "running"}
                         ~> item[i].status \in {"screened", "error", "deleted"}

(* The reviewer's view of the queue: the abstract machine of ScreeningOutcome. *)
OutcomeOf(r) ==
    LET statuses == {item[i].status : i \in ItemsOf(r[1], r[2])}
    IN  IF statuses \cap {"queued", "running"} # {} THEN "open"
        ELSE IF "screened" \in statuses THEN "screened"
        ELSE IF "error" \in statuses THEN "error"
        ELSE IF "deleted" \in statuses THEN "deleted" ELSE "none"

FoundBy(r) == {i[2] : i \in {j \in ItemsOf(r[1], r[2]) : findings[j] > 0}}

Outcome == INSTANCE ScreeningOutcome WITH
    outcome <- [r \in Screenings \X Chats |-> OutcomeOf(r)],
    found   <- [r \in Screenings \X Chats |-> FoundBy(r)]

(* The queue implements it: a screening opens all its chats at once, the findings *)
(* of a chat appear in the one step that closes it, and nothing that is closed    *)
(* opens again or changes its findings but by a retry or a deletion.              *)
ImplementsOutcome == Outcome!Spec

=============================================================================
