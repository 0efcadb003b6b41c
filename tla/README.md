# A verification of the Enrollment Assistant

TLA+ modules of the stateful parts of this repository, TLC configurations that
check them on small instances, and TLAPS proofs for every value of the
constants. A module is written from the code it names; `PROJECT.json` maps each
definition to its lines.

    tlc -workers 2 -config MC_ScreeningQueue.cfg MC_ScreeningQueue.tla
    tlc -workers 2 -config GenerationAttempts.cfg GenerationAttempts.tla
    tlc -workers 2 -config MC_MessageTree.cfg MC_MessageTree.tla
    tlc -workers 2 -config RagBuildJobs.cfg RagBuildJobs.tla
    tlc -workers 2 -config MC_InstructionsStore.cfg MC_InstructionsStore.tla
    tlc -workers 2 -config EvalRuns.cfg EvalRuns.tla
    tlapm ScreeningQueue_refinement.tla
    tlapm GenerationAttempts_proofs.tla
    tlapm MessageTree_walk.tla
    tlapm EvalRuns_proofs.tla

## 1. The system

A FastAPI backend over PostgreSQL, worker processes and an APScheduler process
that share the database with it, and a browser client. Nothing is shared in
memory between processes: components interact through table rows, row and
advisory locks, leases and event streams.

| Component | State it keeps | Operations | What makes it correct |
|---|---|---|---|
| Transcript screening (`compliance/`) | `compliance_screening`, `compliance_item`, `compliance_finding`; leases in the items | admission by a reviewer or at night, claim, heartbeat, result, error, retry, tombstones on deletion | a chat is screened whole by one worker; findings are stored once; verdicts are final; everything admitted closes |
| Screening instructions and decisions | instruction versions, decisions with a revision | save, decide | no lost update; a decision is about the transcript it was made on |
| Generation attempts (`messages.py`) | `chat_generation_attempt`; one asyncio worker and event stream per attempt | send, worker steps, finalize, sweep, status query | a send stores its turn at most once; the client is told the truth; nothing stays pending |
| Chat client (`chat/lib`) | messages shown, loading and pending flags, Retry buttons | send, abort, retry, reconcile, reload | Retry never doubles a turn; the tab never waits for ever |
| Guardrails loop (`chat/engine.py`) | iteration count and history of one turn | chatbot call, guardrails call, block | at most `MAX_GUARDRAILS_RETRIES` repetitions |
| Message tree (`tree_utils.py`) | `message.parent_id`, `active_child_id`, `active_root_message_id` | turn, regenerate, edit, switch branch, delete | the active branch is a path of one conversation and contains what was chosen last |
| Grounding sources | status in the message's metadata | pending, select, fail, retry | one result wins; pending ends |
| Refresh tokens | `refresh_token` chain | create, rotate, revoke, reuse detection | one live token per chain; reuse revokes all |
| Retrieval index builds (`rag/`) | `rag_build_job`, steps, index tables | start, progress, cancel, finish | one build at a time; a cancel is not lost; a build ends and its followers hear of it |
| Chat insights | `chat_insight_run` with a lease | admit, claim, heartbeat, finish | one run at a time; one result per run |
| Evaluation runs (`evals/`) | `eval_run_job`, events; one asyncio task and watcher per run | create, publish, heartbeat, expire, stop, stream | an outcome is final; a run stopped or given up on stops executing, cases included; followers hear of the end |
| Prompt sets (`prompts.py`) | versions, deployed version | save, deploy, undeploy, delete | one deployed version per section |
| Instructions workspace (`app-internal/src/instructions`) | selection, drafts, loaded versions; requests in flight | open, select, edit, save, deploy, delete, reload, leave and come back | drafts are kept; what is shown is what is selected |
| Scheduler | advisory try-locks | nightly jobs, sweeps | a job never runs twice at once |
| Roles, feedback, public chat, tracing, analytics, UI | rows, spans, display state | plain reads and writes | not modelled, see section 11 |

What is hard: two workers on the items of one chat; a read in one transaction
that is used in another after minutes of provider calls; leases that run out
under a live worker; commits that are applied but not acknowledged; processes
that die between two steps; messages that commit late with an early timestamp;
requests that arrive twice; sweeps that guess that a worker is dead. The
`hazards` of `PROJECT.json` list them at their lines, with the properties that
cover them, or with the reason why none does.

## 2. Plan

1. `ScreeningQueue`, refining `ScreeningOutcome`: done, with proofs.
2. `GenerationAttempts`: done, with proofs.
3. `MessageTree`: done, with proofs.
4. `RagBuildJobs`: done, with proofs.
5. `InstructionsStore`: done, with proofs.
6. `EvalRuns`: done, with proofs of its safety properties.
7. Open: `ChatInsights` (admission under an advisory lock, leased runs),
   `RefreshTokens` (concurrent rotation), `GroundingSources` (staleness and retry),
   each with a safety run of two of every actor, a liveness part where something
   must end, and the lease or rotation invariant as a theorem; `ComplianceReview`
   (decisions on a transcript that changed).
8. Refinements, each with its proof: `ScreeningQueue` implements `ScreeningOutcome`,
   `GenerationAttempts` implements `TurnOutcome`, `MessageTree` implements
   `ShownBranch`, `EvalRuns` implements `RunRecord`: done. Open: an abstract build for
   `RagBuildJobs`, which must allow the late cancellations it has.

Order: the first two hold the longest interleavings and the user's data. One
module per component; compositions where they share rows (a deleted
conversation appears in both modules today as an action of its own).

## 3. Transcript screening

`ScreeningQueue` models the item table and any number of workers.

| Model | Code |
|---|---|
| `item[<<s, m>>]` with status, attempts, token, `by`, code, hash | `ComplianceItem` rows, one per screening and assistant message |
| `item[i].live` | `lease_expires_at > now`; time is only the action `LeaseExpires` |
| `worker[w]` | the variables of `execute_claim`; its `pc` is the next transaction |
| `created[m]` | the order of a message's `created_at` among the screenings' `requested_at`; `Uncommitted` until its turn commits, with any earlier timestamp |
| `Locked(c)` | FOR UPDATE on the conversation, held from `ClaimSelect` to `ClaimTake`; other transactions are one step |
| `outdated` | screenings of an earlier `SCREENING_VERSION`; `Deploy` restarts the workers |

`claim_next` is two steps because it reads the queue before it locks the items
it decides on; `prepare_work`, the provider call, `finish_result` and
`finish_error` are one each. `FinishRaises` and `Fail` let the database fail at
any of them, with the commit applied or not; `Crash` drops a worker anywhere.

Properties (statements in the module):
- `ChatsNotSplit`, `TokensFence`, `FindingsOnce`, `ScreenedWhole`: the items of a
  chat move together; a lost lease can never write again; findings and hashes
  belong to the one result that was accepted.
- `NoLeaseStolen`, `VerdictsFinal`: no step takes a live lease or undoes a verdict.
- `ScreeningsClose`: every queued or running item ends.
- `ImplementsOutcome`: the refinement of `ScreeningOutcome`, in which a reviewer
  sees each chat of a screening open, then closed in one step with its findings.

Runs. `screening_safety`: two screenings of a chat of two messages, two workers,
three tokens, two attempts. Two of each is what every hazard needs: a second
worker to take over, a second message to split, a second screening with a
later transcript, a second attempt to expire; a third token lets a claim follow
two dead ones. Tokens, workers and messages are symmetric. About 640,000 states.
`screening_liveness`: one screening, two reviewers (one the nightly user), no
symmetry; `MaxMessages = 1` so that the nightly admission is sometimes too large.
Both allow the system to stop when all is closed and deleted, so deadlock is not
checked.

Fairness: weak fairness of each worker's next step (`run_worker` loops for ever
and a provider call times out), strong fairness of `ClaimTake` (a worker is not
killed inside every claim transaction, which lasts milliseconds), and time passing.
Crashes, heartbeats, deletions, retries and permission edits get none. Without the
strong fairness a worker could die in the same claim for ever; no other crash
needs it, because attempts are counted when a claim commits.

Proofs. `ScreeningQueue_proofs` proves `TypeOK`, and with it that attempts never
pass `MAX_ATTEMPTS`; then `QueueInv`, the conjunction of the
four safety invariants and three facts they need: items of screenings not yet
admitted are empty (else an admission could meet old rows), a live lease means
running (else a tombstone could carry one), and a worker that holds a result read
targets equal to the transcript it saw (else `Finish` could store a hash of other
messages). The argument for the action properties is `FinishRowStep` and
`RowLifecycle`: what one step may do to one row, case by case over `Next`.
`ScreeningQueue_refinement` proves `Spec => ImplementsOutcome`: by `ChatsNotSplit`
every row of a chat tells what the reviewer sees of it (`RowTells`), so a
transaction maps to the abstract step its rows suggest: `Admit` to `Request`, `Retry`
to `Reopen`, `DeleteChat` to `Delete`, an accepted result to `Conclude`, an error or
an exhausted claim to `GiveUp`, and everything else to a stuttering step. That an
admission meets no old outcome needs `NotYetAdmitted`.
From `ScreeningConstants` only: any number of screenings, chats, messages, users,
workers and tokens.

## 4. Generation attempts

`GenerationAttempts` models one turn from the browser's Send to a stored answer or
an error.

| Model | Code |
|---|---|
| `status[a]`, `age[a]` | the attempt row and its `created_at`, in ticks of 5 minutes |
| `turns[a]` | message rows the attempt stored |
| `requests[a]`, `handlers[a]` | copies of the POST on the way, and handlers between the existing-attempt check and the insert |
| `worker[a]` | the detached asyncio task; `pc` is what it waits for, `late` says a tick passed during its provider call |
| `stream[a]` | what the event stream delivers last: an answer, a retryable or unknown error, or its bare end |
| `client`, `offered` | loading, reconciling and pending state of the tab, and the Retry buttons it shows |
| `retried`, `swept` | history variables of the properties; the code keeps neither |

A lost request is a send with no copies. `Finalize` has the three outcomes of
`_finalize_failed_generation_attempt`: resolved, database failed before the
update, and failed after it. The conversation exists at the start; the shell of a
new one, investigations, drafts, titles and grounding leave these steps as they are.

Properties: `TurnStoredOnce`, `ToldTruth`, `RetryStoresNoSecondTurn`,
`OutcomesFinal`; `AttemptsSettle` and `TabSettles` under fairness.
`ImplementsTurnOutcome`: the refinement of `TurnOutcome`, which has no requests,
workers or clocks. There a turn is open, then stored or failed; the sweep may leave it
in doubt, which is what a failed row means while its worker lives; what a stream told of
it is never told otherwise; and a Retry is offered only of a turn that failed, is in
doubt, or was deleted. A failed turn is never stored after all, so a doubled turn takes
a Retry of one in doubt.

Runs. `attempts_safety`: two sends (so one may be the retry of the other or
overlap it after an abort), two copies of each request, one guardrails retry and a
stale limit of two ticks, so that the four provider calls of a turn can outlast it.
`attempts_liveness`: the same with single copies and a limit of one tick.
`attempts_stale_limit` uses the code's numbers (limit 3 ticks, 2 retries) on one
send and finds the sweep failing an attempt whose worker is alive.

Fairness: handlers, worker steps, the sweep, time and the tab's own reading are
weakly fair: event loops run, provider calls time out after `LLM_REQUEST_TIMEOUT`,
the scheduler fires every five minutes, and a closed stream is noticed. The author,
the network, crashes and deletion are not. The system may stop, so deadlock is not
checked.

Finding. The comment on `STALE_GENERATION_ATTEMPT_AFTER` says that a pending
attempt older than 15 minutes "has lost its worker (restart or crash), not a slow
generation". A turn may make six provider calls of five minutes. When it does, the
sweep fails it, the author may retry, and the first worker still stores its turn
and sets the failed attempt to completed. `RetryStoresNoSecondTurn` and
`OutcomesFinal` name this as the one exception, and the theorems show it is the
only one.

Proofs (`GenerationAttempts_proofs`): `TypeOK`, then `AttemptsInv`. The safety
invariants are not inductive alone: storing a turn preserves `TurnStoredOnce` only
if the attempt was not completed before, so `WorkerTracksAttempt` says what each
step of a worker knows of its attempt (not completed until stored, completed or
deleted when emitting, failed under a live worker only by a sweep, and an outcome in
the stream only when the worker is done), and `OfferedAreOver` carries that to the
tab. `WorkRow` is the heart: what one step of a worker does to its row.
`AttemptsImplementTurnOutcome` proves the refinement. It needs `SeenInv` besides: a
stream is open as long as its worker lives, so that nothing was told before; a row is
deleted only with its conversation, so that a worker that finds the conversation finds
its attempt pending or in doubt; and what arrives was sent. `WorkIsSeen` says which of
four things a worker's step is to the author: nothing, a stored turn, a failure, or the
answer. From
`AttemptConstants`: any number of sends, copies and retries, any stale limit.

## 5. Message tree

`MessageTree` models one conversation: what is stored, what is shown, and the
handlers that change both.

| Model | Code |
|---|---|
| `stored`, `parent`, `role` | the `message` rows, `parent_id` and `role` |
| `active[m]`, `activeRoot` | `Message.active_child_id`, `Conversation.active_root_message_id` |
| `requests[r]` | what a turn, a regeneration or a switch keeps between its two transactions |
| `Lineage`, `CurrentPath`, `PathThrough` | the functions of `tree_utils.py` that walk up, down, and through a message |
| `CommitTurn`, `CommitRegeneration` | the second transaction of `handle_conversation_turn` and of `handle_investigation_turn` |
| `SwitchedActive`, `SwitchedRoot` | `update_active_branch_to_message`: SQLAlchemy writes only attributes that differ from what the request read |
| `Delete` | the deletion, which locks the conversation |

A turn reads its parent, ends that transaction, asks the model for minutes, and
writes. A switch reads all rows and updates them without a lock. It reads the
conversation and its messages in queries of one transaction a moment apart, which
the model merges into one step: parents never change, and the properties speak of
the values each pointer was seen with. Ids are numbers in the order of creation, as `_index_messages` sorts
them. An edit is a turn under the parent of the edited question.

Properties: `PointersFollowEdges`, `BranchesEndWithAnswers`; `WalkVisitsWhatIsShown`
and `PreviewIsWhatASwitchShows` compare the three path functions of the code with
each other in every reachable forest; `UndisturbedSwitchesAreShown` says when a switch
shows its target. `ImplementsShownBranch` is the refinement of `ShownBranch`, whose one
pointer is the branch that is shown: a turn or another answer replaces what is shown
below the message it follows, if that message is shown, and is not seen at all if it is
not; only a switch shows another branch as a whole. The path that
`get_current_branch_path_from_messages` computes from the pointers is the mapping, so
the property covers the walk and all writes, whatever happened since their reads.

A switch that was disturbed need not show its target: of two switches at the same
time each leaves out the pointers that were right when it read them, and the rows
may end as a mixture. The pointers still form a branch.

Run. `message_tree`: two handlers, six messages: three turns, or a turn with
alternatives at two levels, the least at which two switches can mix, a preview has
something below its message, and a background answer has a branch to stay out of.
Handlers are symmetric. 151,834 states. All handlers may be idle with all messages
used, so deadlock is not checked.

Proofs. In `MessageTree_proofs` the invariant adds to the two structural properties
that parents are older than their children, so a way up never turns back, and that
a pending switch still knows the way to its target. `WayUp` is defined as the least
set that is closed upward, without recursion, and the lemmas about it (`m` is on its
own way, a parent's way is part of its child's, rows added below change nothing) show
that an answer moves what is shown exactly when its branch is shown (`AnswersStayInBackground`,
`AnswersAreShown`, stated for the set of messages shown and not only for the path).
`WalkInv` adds that a switch under way remembers the whole lineage of its target, which
branches once at every message; hence `UndisturbedSwitchesAreAlwaysShown`.

`MessageTree_walk` is about the recursive functions. The ids of a walk down grow and
those of a walk up fall, so induction along a branch is induction on numbers up to
`MaxMessages`. The library's induction theorems cannot be instantiated here; the module
proves its own (`InductionUp`, `InductionDown`) for sets of ids, from the
well-foundedness of finite sets under inclusion, and with it that each recursive definition
has a solution (`RecursionDown`, `RecursionUp`), without which `CHOOSE` would say
nothing of `BranchFrom` and `PathThrough`. Then: the walk meets shown messages only, and
all of them (`WalkAlwaysVisitsWhatIsShown`); down the lineage of a message, the path so
far and the walk after the switch always join to the same path, which is the preview at
one end and what the switch shows at the other (`PreviewsAreWhatSwitchesShow`).

`TreeImplementsShownBranch` follows from `LeavesEndTheBranch`: if a shown message has no
children, the branch shown is the path to it. A turn below a shown message makes its
answer such a leaf, and the path to the answer is the old path to its parent, question
and answer; a turn elsewhere leaves the old leaf one. A switch, disturbed or not, leaves
pointers that follow edges, so what it shows is a branch. All for any number of messages
and handlers.

## 6. Builds of the retrieval index

`RagBuildJobs` models the build rows, the pipeline's advisory lock, the coroutine of
each build, the cancel requests and the streams that follow builds.

| Model | Code |
|---|---|
| `status[j]`, `trigger[j]` | `RagBuildJob.status`, `trigger` ("scheduled" stands for the command line too) |
| `lock` | `pg_try_advisory_lock`, held by a build or for a moment by `rag_pipeline_lock_is_held` |
| `build[j]` | `run_rag_sync_pipeline` and the task around it; `pc` is its next transaction |
| `cancel[c]` | `cancel_rag_build`: read, mark, probe the lock, finish the row |
| `stream[s]` | the build `stream_rag_build` observes and whether its own task runs it; the build its queue has heard of while its own has no name; the build whose end it was told of, or has dropped (`missed`) |
| `asked[j]` | history: a mark was stored before the build's last look |

Only `start_rag_build_job` locks its row. The finish and the mark are therefore a
read and a write; a progress update writes no status and is part of its step. Rows
are numbered in the order of `started_at`. `Raise`, `FinishFails`, `NotifyFails` and
`Crash` fail a build anywhere; `CancelDies` a cancel request. Every event a manual
build publishes goes to every stream (`Publishes`, `After`): its start, its progress,
what it logs, what a cancel request says of it, its end. What a step does to the index is
not modelled.

A stream that starts a build waits until the build has a name or is over, and listens
meanwhile. A build that never starts (another one has the lock, or the database fails)
announces its end without a name. Its stream passes that on, unless its queue holds an
event of another build before: then it takes that build for its own, drops the nameless
end and goes by the other one (`AtOwnEnd`). A stream told of an end is told of the end
of one build, `Told(j, missed)`, so a stream that took up another build does not count
as told of its own.

Properties: `BuildersOwnTheLock`, `CancellationsAreObeyed`,
`LiveBuildsAreNotCleared`, `OnlyLateCancelsReopen`; `BuildsEnd` and
`FollowersAreTold` under fairness: whoever follows a build, its own or another, is told
of that build's end. The one exception is in the formula: the dropped end of a build
that never started. Without it TLC finds two streams that start a build each, the
second of which is skipped and never hears that it was. No comment or test says how a
stream should treat it, so it is not a finding.

Run. `rag_builds`: two builds of two steps (a cancellation can arrive before, in
and between steps), one cancel request, one stream that may disconnect and come
back; 250,449 states, safety and liveness together. For any number of builds, cancel
requests and streams the safety properties are theorems. The system stops when all
builds are used, so deadlock is not checked.

Fairness: a build's and a cancel request's next step is weakly fair, for their
database calls return or raise and an event loop runs them. Requests, crashes and
disconnections are not fair. `BuildsEnd` starts at creation and not in every live
state: a late mark may reopen the row while its build releases the lock.

Findings. `rag_terminal_jobs`: a cancel request marks a row that its build has
finished since it was read, which `job_tracking.py` elsewhere guards against
("Skipping ... for terminal job"). `OnlyLateCancelsReopen` and its theorem say this
is the only way a finished row changes. `rag_skipped_builds`: a build gives up with
"RAG build is already running" because a cancel request is asking whether the lock
is held.

Proofs (`RagBuildJobs_proofs`). `BuildersOwnTheLock` is inductive with the lock of the
probing cancel request; the others need what a place in the code says of the row.
`RowsAndBuilds`: a row is active only if its build has taken the lock, and a build
has no outcome while it looks. `CancelsKnowTheirBuild`: a request that saw the lock
free knows that the build it marked is over, for builds do not start twice.
`AskedIsMarked`: a mark stays until the last look, because only the build itself and
requests that know it is over write anything else. `RowsStayOpen`: who is about to
finish a row finds it unfinished, or cancelled by another request. From
`RagConstants` only: any number of builds, steps, requests and streams.

## 7. Instructions workspace

`InstructionsStore` models the zustand stores of one browser tab, their requests,
localStorage, and the rows of `prompt_set_version` that `prompts.py` serves.

| Model | Code |
|---|---|
| `store` | `InstructionsState`: lists, deployed version, detail, the open section and template, selections, drafts, editor, dialog |
| `table` | `PromptSetVersion` rows with their templates |
| `calls` | requests in flight: sent, then served or failed, then delivered to whatever the store is by then |
| `Call(...).read` | what `deleteVersion` read of the selections before its request |
| `User` | the page's buttons and its dialogs; guards are the conditions that enable them |
| `PageEffects`, `ListEffects` | the effects of `instructions-page.tsx` that load versions after a change |
| `storage`, `writer` | what localStorage holds, as a new page reads it (`partialize`, `merge`), and which page wrote it |
| `old` | the store of the page the user has left, while it has requests in flight |
| `Reload` | the browser loads the page anew: no answer of an old page is delivered |
| `Navigate` | to another page of the app and back: `InstructionsStoreProvider` makes a new store, and the old one's answers still arrive |
| `Colleague` | another browser saves, deploys or deletes |

No answer is matched with the selection of its request, so the model lets every
answer arrive as late as it likes, fail, or be overtaken. Deployed versions, lists
and details are answered from the rows of the moment they are served.

Every mount of the page (and of the Eval Runner, which mounts the same provider and
only reads the drafts) makes a store of its own on the same localStorage key, and every
update of a store writes there. `Lands` therefore sends an answer to the store of its
own page: on the page that is shown, `Becomes` also runs the page's effects; on the page
left behind, `BecomesLeft` updates `old` and writes its drafts and selections over those
in localStorage. The page that is shown does not read them again; the next one does. A
visit elsewhere is one step. Answers that arrive during it are answers that arrive just
before, but for the loads the effects would then send, which may stay undelivered.

Properties: `EditorShowsDraft` and `SelectionAgrees` (three copies of the selection
are written by seven handlers), and `SelectedIsShown` under fairness: two details in
flight may arrive in the wrong order, and only the page's reload effect repairs it.
`DraftsAreKept` says of every step that changes a draft what it was: typing in its
template, a confirmed reset of it, a confirmed switch of its section, or a save. A
click, a cancelled dialog, a late list, a failed detail, a deployment, a deletion, a
reload are none of these, with a dialog open or not. The one exception is in the
formula: a page shown anew finds the drafts of the page before it when an answer to that
page was the last to write localStorage. Without it TLC navigates, types on the new
page, lets an answer reach the old one, reloads, and the draft is gone.

Runs. `instructions_store`: two sections of one template each, two versions, three
gestures of the user (`MaxGestures`), one step of a colleague or one visit elsewhere
(`MaxElsewhere`; visits are gestures too), one request of the page in flight when the
user acts (`MaxInFlight`), equal requests in flight counted once (`MaxCopies`), and one
text that colleagues write (`Written`; the user writes two); 741,862 states. The
gestures run out, so deadlock is not checked. Three gestures suffice for open, edit and
one of the operations that could lose the edit. The safety properties are theorems
without these bounds; one page at a time is left behind, in the theorems too.

Fairness: a request is answered or fails, and an answer is delivered. The user and
colleagues have none.

Finding. `instructions_saves`: a save writes the drafts of the open section and then
drops all drafts, those of other sections and of the seconds it took included. The
panel lists them all as modified before it, and as unmodified after. A save also
starts from the templates on disk and not from the version that is shown; no comment
or test says otherwise, so the model keeps it without a finding.

Two texts of the app say more than the code does; the model follows the code. The dialog
of a switch warns that it "will discard all your drafts" (`confirm-dialogs.tsx:23` and
`:29`), but `selectVersion` and `selectDefault` discard those of the active section only
(`store.ts:704-708`), and `DraftsAreKept` would be false if the step after the dialog
lost another section's. The guide says that evaluations of the unsaved draft "use the
latest unsaved Assistant edits in this workspace" (`help-guide.tsx:80-82`), which the
exception of `DraftsAreKept` shows to fail after a late answer to a page left behind.

Proofs (`InstructionsStore_proofs`). `IInv` says of the store that the toolbar agrees
with what the section remembers (`Remembered`, `Agrees`), that the editor shows the
draft (`Shows`), and of a deletion in flight that what it will write back still
agrees (`Restorable`): its dialog stays open until it returns and keeps clicks off
the page. It says so of both pages (`GoodStore`, `PageInv`), since each has its own
requests and its own deletion, and of localStorage (`StorageInv`): what it holds would
make a good store, and as long as the page that is shown wrote it last, its drafts are
that page's. This last fact is what `DraftsAreKept` needs of a reload. With `IInv`,
`TypeOK`, `EditorShowsDraft`, `SelectionAgrees` and `DraftsAreKept` hold for any number
of sections, files, versions and requests.

## 8. Evaluation runs

`EvalRuns` models the runs of one user: rows, events, task, cases, watcher, stop
requests, expiry and streams. Runs of different users share nothing.

| Model | Code |
|---|---|
| `status[r]`, `events[r]` | `EvalRunJob.status`; the `EvalRunEvent` rows with a status |
| `stale[r]` | `heartbeat_at` older than `_STALE_HEARTBEAT_AFTER` |
| `task[r]` | the coroutine `_run_suite`: `pc` is where it waits, `out` what `_finish` will write, `hit` a cancellation not thrown yet, `listed` its place in `EvalRunManager._runs` |
| `cases[r]` | the tasks `evaluate` creates, one per case and repeat: how many still execute, and whether one has raised |
| `watch[r]` | `_watch_persisted_status`: asleep, or between the read and the write of `heartbeat_eval_run` |
| `asked[r]` | a stop request in the process of the run, between its commit and `job.cancel()` |
| `stream[s]` | `_stream_persisted_eval_run`; `woken` is a notification not looked at |
| `Visit` | `_expire_stale_runs`, with SKIP LOCKED |

`Interrupt` throws the cancellation wherever the task waits: in the suite, in
`_finish` with its commit applied or not, in the handler of an earlier cancellation,
in the clean-up. A second cancellation can thus end a task whose row stays
"cancelling" until a visit finds it silent. It is ordinary: the watcher cancels after
a stop request has, and it cancels the clean-up of every run that takes longer than
its two seconds of sleep, so that the engine may not be disposed of.

A case publishes its progress outside the `try` of `_run_single`, so a database error
there raises out of it (`CaseRaises`), and `asyncio.gather` raises at once: the suite goes
on to its end (`CasesEnd`, then `Caught`), and the other cases are neither cancelled nor
awaited. They execute on their own, log, and keep the heartbeat of a row that is still
active fresh, also after the row says "error" and the task is done. A cancellation
that is thrown into gather before any case has raised cancels all cases (`Stopping`).

Properties: `ImplementsRunRecord`, the refinement of `RunRecord`, in which there are
only the statuses of runs, their events and who follows them: one run is active at a
time, each status comes with its event, a run ends once, and a follower is told of the
end only when it has come (the heartbeat is a read and a write without a lock; it is
safe because it writes one column), `StopsAreObeyed` (the process of a run learns
of a stop, or of having been given up on, only from the row; its task ends and its cases
end with it, except the ones left behind when another raised, which nobody can stop),
`FollowersHear` (the end of a run of which nothing executes any more, because its
process died or its last event was not stored, is announced by whoever visits next).

Run. `eval_runs`: one run of two cases, the least at which one can be left behind, and
two streams, every crash and failure; 50,386 states. A second run shares only the rule
of one active run and the expiry. With two runs TLC does not finish in five minutes, so
the configuration keeps to one: that one run is active at a time is not tested by this
run, and rests on the theorem `RunsImplementRecord`, for any number of runs, cases and
streams.

Fairness: a task that can go on does, the watcher wakes, the database takes a
heartbeat in the end (strong: it may fail any number of times in between), an
admitted request goes on, a connection reads what it is woken for, and time passes
for a row whose watcher is gone. `FollowersHear` also assumes that somebody keeps
visiting (`Visited`): without a request nobody looks for silent runs. How long a
suite and its cases run is left open.

Proofs (`EvalRuns_proofs`). All writers go through `Become`, and each of their moves
(`Moves`) starts from a row that is not over and adds the one event that its status
allows (`Matches`). `TypeOK`, with the bound on events, and `OutcomesFinal` (what is
over stays as it ended, in its row and its events) follow for any number of runs and
streams. `RunsImplementRecord` adds the guards of the moves (`Allowed`) and that no
event ends a run that is not over (`TellInv`): a connection reads the events and not
the row.

## 9. Checked only by TLC

Liveness (`ScreeningsClose`, `AttemptsSettle`, `TabSettles`, `BuildsEnd`,
`FollowersAreTold`, `SelectedIsShown`, `StopsAreObeyed`, `FollowersHear`): TLAPS cannot
prove it under fairness here. Every other property of the passing runs is a theorem.

## 10. Mutants

Each property is tried on a plausible bug in the code it is about: an operator
named `...Mutant` beside the one it replaces (a claim condition without its token,
a finalizer that does not look at the status, a retry offered while pending). None
is part of a specification.

## 11. Not modelled

Chat insights runs, refresh tokens, grounding sources and decisions of reviewers are
open in the plan; their hazards are listed without a property. Of the evaluation runs,
reports, what a case computes, events without a status and the browser's run card are left out, and of
the instructions workspace its display state.

Analytics, usage and evaluation reports are read-only. URL guardrails and text
splitting are string functions. Titles and summaries decorate a stored turn and are
best effort. The public app, widgets and rendering keep no state others depend on.
Stress tools, demo data and deployment are not part of the running system. The
provider, the browser's network and PostgreSQL's own correctness are assumed: a
transaction is atomic, locks exclude, and a commit is durable once applied.
