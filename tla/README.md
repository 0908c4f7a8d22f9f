# Verification of the MoziaReel / ArcReel server

MoziaReel turns a novel, a script or product material into storyboards, video
clips and a finished film.  The heavy work (images, videos, speech, text) is
paid for per request and runs for minutes, so it goes through a persistent
queue and a worker that lives in the server process.  This directory holds TLA+
models of that machinery, TLC configurations and TLAPS proofs.  Paths below are
relative to `src/`.

## 1. Inventory

| Part | State | Operations | Hard because |
|---|---|---|---|
| Task table and repository (`lib/db/repositories/task_repo.py`, `lib/db/models/task.py`) | one row per task: status, dependency, provider, checkpoint, job id, `cancelled_by`; a unique index over active rows | enqueue, claim, requeue, terminal writes with cascades, cancel, cancel all, checkpoint writes, lease rows | SELECT and UPDATE are separate statements; several coroutines and processes write the same row |
| Queue service (`lib/generation_queue.py`, `lib/task_terminal_events.py`) | callback into the worker, recorded terminal events | the API around the repository | `cancel_task` is read, write, signal, with awaits in between |
| Worker (`lib/generation_worker.py`) | slot table, capacity table, futures | orphan scan, drain, claim, dispatch, executors, resume, stop | asyncio cancellation, shielded writes, crash and restart, capacity shared by two kinds of executor |
| Video submission (`lib/media_generator.py`, `lib/reference_video/execution_checkpoint.py`, `server/services/resume_executor.py`, `lib/video_backends/base.py`) | checkpoint, provider job id | checkpoint, submit, save job, poll, resume | a crash between two of them; a retry after a paid request |
| Usage ledger (`lib/ledger.py`, `lib/db/repositories/usage_repo.py`) | pending and settled API calls | open, settle, settle on resume | a settlement by two executors or by none |
| Supervisor and lease (`lib/worker_supervisor.py`, the lease rows of `task_repo.py`, `_run_loop`) | lease owner and expiry, what each process believes of it | acquire, renew, release, rescan, restart the worker task | a lease that expires under a busy process; a takeover the other side does not notice |
| Agent runtime (`server/agent_runtime/session_manager.py`, `session_actor.py`, `service.py`, `entry_pipeline.py`) | registry of sessions, connect locks, one actor task and one inbox task each | send, interrupt, evict, patrol, shut down, stream | commands and messages arrive together; eviction during a connect; retries of a message |
| Agent event log (`server/agent_runtime/event_log.py`, `server/sse_channel.py`) | numbered entries, bounded subscriber queues | append, delete, list, broadcast, follow | list against live events; numbers given twice; overflow |
| Project events (`server/services/project_events.py`) | snapshot per project, subscriber queues | poll, diff, publish | overflow, late subscribers |
| Artifact lifecycle (`lib/version_manager.py`, `lib/video_artifact_commit.py`, `lib/artifact_activation.py`, `lib/artifact_manifest.py`, `server/services/*_artifact_currency.py`) | formal file, `versions.json`, manifest, script pointer | commit, restore, upload, undo | four files that must move together, under five locks, while disks fail and users cancel |
| Batch admission (`lib/batch_admission.py`, `server/services/video_batch_admission.py`) | batches and their units | admit all or none, attach, cancel | partial admission |
| Drafts and review (`server/draft_workflow.py`, `lib/script_review.py`, `lib/draft_quarantine.py`, `server/services/script_review.py`, `server/text_generation.py`, `lib/script_generator.py`) | formal step1 and script, a draft of each, the review record | save, confirm, open, patch, promote, discard, generate, undo, migrate | a model call of minutes between reading a revision and writing on it; a confirmation of content that is no longer current; a migration by any reader |
| Episodes (`lib/episode_ledger.py`, `lib/episode_planner.py`, `lib/episode_reset.py`) | ledger of episode ranges | plan, reset | a long sequence of plan and reset |
| Workflow state, project store, migrations, matrix session, configuration, backends, pricing, HTTP surface | see `PROJECT.json` | | |

The parts interact as follows.  Routers, agent tools and batch services call the
queue service; the queue service runs one repository transaction per call and,
for a cancellation, calls the worker synchronously.  The worker polls the queue,
runs an executor per claimed task, and writes the outcome back.  Executors call
the media generator, which writes the submit checkpoint and the provider job id
into the task row through the queue, books the call in the usage ledger, and
commits the result as a version of a resource; when the row turns out to be
cancelled the queue asks the result to undo its selection.  Recorded terminal
events go to project events, which feed the browser.  The agent runtime is a
second program in the same process: requests send messages to a session, its
actor drives the SDK, its inbox task writes the timeline, and clients follow it.

What makes each part correct: a resource is worked on by one task at a time; a
task runs only after its dependency; a cancellation wins over a late result and
always ends; every task handed out is looked after until it ends; the create call of
paid work is made once, whatever is requeued, resumed or restarted, and what it
charges is booked once;
a medium, its version and its claim change together and only to what is current;
limits hold; what is announced is what happened; a message to the agent is
delivered once, its answer is drained before the next, and a client that
reconnects misses nothing.  `PROJECT.json` lists under `hazards` where in the code each of
these could go wrong, and which property looks at it.

## 2. Modules

| Module | Models |
|---|---|
| `TaskRepo` | the table and its transactions, one operator each |
| `TaskQueue` | the queue as an abstract specification: any client and any worker may run any transaction the guards allow; the steps of `cancel_task` and `cancel_all_queued` interleave |
| `GenerationWorker` | the worker, its executors, cancellation, stop, crash and restart; implements `TaskQueue` |
| `FormalSelection` | abstract: what the writers of formal media promise about a resource |
| `ArtifactCommit` | those writers as threads that take locks and move four files; implements `FormalSelection` |
| `WorkerLease` | the lease row and the main loop around it, for several processes |
| `VideoLedger` | the ledger rows of video calls under generators, resumers and `WorkerLease` |
| `SessionActor` | the actor task of an agent session and its command queue |
| `AgentSession` | the session registry: requests, inbox processing, interrupt, eviction, restart |
| `EntryStream` | the timeline of a session: event log, writers, subscriber queue, client |
| `DraftReview` | the two steps of an episode with their drafts, the review gate before step2, and the generations that write them |
| `MCTaskQueue`, `MCGenerationWorker`, `MCArtifactCommit`, `MCVideoLedger`, `MCResults` (the two before it side by side), `MCAgentRuntime` (the three models of the agent runtime side by side), `MCDraftReview` | instances for TLC |
| `TaskQueueProofs`, `GenerationWorkerProofs`, `ArtifactCommitProofs`, `DraftReviewProofs`, `AgentSessionProofs`, `EntryStreamProofs` | theorems about the module of that name |
| `ResultsProofs` | theorems about `VideoLedger` with `WorkerLease`, and about `MCResults` |
| `AgentRuntimeProofs` | theorems about `SessionActor`, and about `MCAgentRuntime` |

**`TaskRepo`.**  A column is a function from tasks; `"absent"` is a row that does
not exist yet.  `queued_at` is the rank of the INSERT, which is what the
claim's ORDER BY compares.  A dedupe key stands for the tuple of columns in the
unique index.  An operator for a guarded UPDATE is enabled when the UPDATE would
touch a row; callers add the "0 rows" alternative.  The two recursive cascades
visit the rows reachable from the closed task through queued rows; the model
writes that as the least closed set (`QueuedDependents`), which needs no
recursion and can be proved about.  `events` records what
`_record_terminal_event` collects.

Why a SELECT is a step of its own: the engine (`lib/db/engine.py`) uses SQLite
in WAL mode through the driver's default transaction handling, which opens a
transaction at the first write and not at a SELECT; PostgreSQL at READ COMMITTED
takes a fresh snapshot per statement.  In both, another transaction can commit
between the SELECT and the UPDATE of `claim_next`, `cancel_task` and
`cancel_all_queued`.

**`TaskQueue`.**  `api[c]` is where cancel request `c` stands: idle, about to
dispatch on the status its SELECT saw, about to sweep with the list its SELECT
saw, or about to signal.  `EnqueueTask` lets a dependency be any earlier task of
the same project in any status, as `_enqueue_sequentially` may pass it.
`Restart` loses the requests in flight and keeps the table.

**`GenerationWorker`.**  `pc` is the main loop; `ex[t]` the executor coroutine of
a task; `sig[t]` a `Task.cancel()` that has not surfaced; `slots` the SlotTable
with the state of each future.  An action is what a coroutine does between two
awaits.  `ready`/`rready` are coroutines that have not taken their first step:
cancelled there, no handler runs.  `ok`, `bad`, `drift`, `putback`, `cancel`,
`raise` are the points before each (shielded) write of `_process_task`,
`_process_resume_task` and `_run_one`.  `submits[t].paid` counts the requests the
provider accepted, which no variable of the program holds, and `submits[t].again` how
many of them were repeats inside one create call.  A refused request is not counted:
the 413 ladder of `_run_with_reference_compression` and a repeat after a refusal stay
in the state before the submit.  What matters is a request that was accepted and whose
answer is lost (`LoseAnswer`).  Most video backends wrap the call in `submit_post`,
which turns that into `AmbiguousSubmitError`, and nothing retries it; they repeat only
what was not sent or was answered with an error status, which they take for a refusal
(`should_retry_submit`, `base.py:261`).  A backend whose create call stands under
`with_retry_async` with its default predicate (`ark.py:292`, `gemini.py:214`,
`openai.py:350`, `image_backends/openai.py:127`) submits once more while it has attempts left
(`Repeats`).  So does `_create_h3_video` (`openai.py:362`), although the comment above
it says that the server goes on and charges after a client timeout.  The constant
`Repeating` says which providers and lanes do so.  The calls of a text task are not
counted.  The provider an executor or a claim resolves is any provider: the
configuration may be edited at any time.  The capacity table is chosen anew at every
start.

`mark_task_failed` with 0 rows followed by `mark_task_cancelled` is one action
where nothing depends on the point in between (`FailOrCancel`): the first
transaction changed nothing, and the second has the same guard a moment later.

**`FormalSelection` and `ArtifactCommit`.**  For one resource, `res[r]` holds
the version history and pointer (`versions.json`), the formal file, the claim of
the manifest, the pointer in the script, and `basis`, a digest of what the
medium would be made from now.  `th[t]` is a writer: a paid video task, an image
task, a restore, an upload or an edit of the script.  `LockPlan` is the order in
which a writer takes the admission guard of the resource, the script, project
and versions locks; each lock is a step.  `"loop"` is not a lock: it is held by a
coroutine that compensates synchronously on the event loop, during which no
coroutine moves.  Inside its locks a writer replaces the file, saves the pointer
and registers the claim, one step each, and any of them may fail, which rolls
back to what was captured (`RolledBack`).  `Cancel` may arrive at every point;
the commit itself is not interruptible, and a finalizer interrupted in
`asyncio.to_thread` leaves a thread that writes later (`LateWrite`).  Behind the
finalizer of a video stands one more await, the removal of the staged inputs in the
`finally` of the executor (stage `"cleanup"`, `CleansUp`): a cancel or an error there
loses the result and the compensation it carries, and the handler of the worker only
marks the row (`Dropped`).  An image task has no such window: its result is committed
under `run_noninterruptible_async`, and its clean-up does not raise.
`SelectionIsOneTransition` maps the stored state to `FormalSelection`: while a
transaction is under way the abstract state is the one it started from
(`Visible`).  The abstract specification says that the history is only appended
to and that the selection moves in one step to recorded bytes with their own
evidence, or is dropped.

**`WorkerLease`.**  `lease` is the row, `live` whether `lease_until` is in the
future.  Time is abstract: an unexpired lease may expire at any moment, since a
scan, a claim or the wait in `stop()` may take longer than the ten seconds it
lasts; `lost` tells an absence that was noticed and is shorter than three
lifetimes from a longer one.  A worker has a fresh owner id, so the lease of one
that died belongs to nobody alive (`Ghost`).

**`VideoLedger`.**  The task table is reduced to the status column with its
guarded writes and to what of the submission was saved.  `gen[t]` is the executor
of the process that claimed the task, `resume[p][t]` a resumer started by the
orphan scan of process `p`; both may exist, because a scan leaves out only the
executors of its own process.  `row[t]` is the ledger row; `FinishCall` is
unconditional as in the code, `FinalizePending` demands a pending row.
`LedgerFault` is a ledger write that raises, at each of the four places.
`hands[t]` is a history variable: the processes whose scan took the task.

**`SessionActor`.**  The stream (`message`) and the next command (`taken`) are
awaited together, so when the actor wakes up either or both may be there.
`Fail` is the exit of `_drive_query` by an exception, `Leave` the drain in the
`finally` of `_run`.

**`AgentSession`.**  One event loop: a step is what runs between two awaits, a
database call takes effect when its caller resumes.  `inst` are the
`ManagedSession` objects, numbered as they are made, so that an eviction can meet
a later object of the same session.  `req[r]` is a `send_message` call from
`get_or_connect` (with its per-session lock, capacity check, eviction of another
session and start of the actor) to the append of the user entry, the delivery and
the compensation.  Each of its writes may fail: the append, committed or not
(`AppendRaises`); `update_status("running")`, which stands before the `try`, so that
nothing is undone (`SendRaises`); the compensating delete and the final status, whose
failures are only logged (`DeleteFails`, `MarkFails`).  A call whose entry stays behind
answers `"left"` and not `"error"`.  So may the status written by the inbox processor,
which ends it while its actor may live (`ProcWriteFails`), that of an eviction
(`Evicted` with `saved` false), and the command of an interrupt (`InterruptFails`).
`_patrol_once` walks over a copy of the registry and evicts by id: `PatrolIsLate` judges
an instance that is no longer the registered one.  The actor is reduced to its turn and its queue; `SessionActor`
has the rest.  Four history variables (`delivered`, `overlapped`, `cut` and
`resumedBusy` of an instance) let the invariants name the exceptions they allow.

**`EntryStream`.**  `rows` maps numbers to entries; an append reads the greatest
number and inserts in two steps.  The inbox task retries an append that raised,
whatever it was: a taken number or a lost connection (`Writes`), and also an insert
that was committed and yet raised, which stores the entry again under another number
or, if it was the last attempt, leaves it stored and never broadcast (`WriteFails`,
`unsure`).  The three attempts of `_append_with_retry` are not counted: giving up may
come at any of them.  The insert and the status of a user message, and the delete that
undoes it, may fail too (`UserFails`, `UndoFails`).  `writer` is
the inbox task, `chan` the bounded queue with its overflow policy, `client` the
stream: subscribe, list what is stored, look at the status, follow; it may drop
at any point and come back with its `cursor`.

**`DraftReview`.**  The reference-video route, which has drafts of both steps.
A fingerprint is the content itself, so two contents are told apart as the code
tells them apart.  `op[x]` is the operation a client is in: the point between two
awaits or lock sections, the revisions it captured on the way, and the receipt a
finished generation keeps for its undo.  The locks of the two drafts are variables,
because they are held across awaits; a section under the formal step1 lock is a
control state in `InStep1`, because a migration writes the review record and the
file in two steps inside it.  `Old` is a step1 in the former shape: whoever reads
it under the locks migrates it, to the same durations (`Tidy`) or to durations cut
to the tiers of the model (`Cut`).  `view[x]` holds the revisions the client was
last given, which it sends back with a patch, a promotion or a save.  A judge or a
merge may find violations or not; the old shape never passes the schema.
`FindStep1` is the check for a draft of step1 that `_load_reference_step1` makes before
it waits for the locks; on the way to a generation the preflight has made it already.
`Vanish` is the death of a process or a cancellation at an await: file locks are
released and files stay as they are.  A client takes any operation at any time, so
the interactions of web editor and agent tools are covered without telling them
apart.  `merged`, `late` and `approved` are history for the properties.

## 3. Runs

| Run | Instance | Shows |
|---|---|---|
| `TaskQueue` | 2 tasks of one key (one is a video task), 2 symmetric cancel requests | typing, `OneActivePerKey`, `EventsTellTheEnd`, `CancelWins`, `CancelLands` |
| `TaskQueueCascade` | 3 tasks with keys of their own, 1 request | `DependencyGate`, `StrandedOnlyLate` |
| `WorkerTight` | 2 video tasks (one reference video), 2 providers, 1 slot, one provider unsupported and non-resumable, the other one repeats its create call once, capacity exchanged by a restart, 1 request, 1 restart | `QueueSpec` (refinement), `RunningIsOwned`, `NoDoubleCharge`, `CapacityRespected` |
| `WorkerLive` | 1 task of either lane, 2 providers with room, 2 requests, fairness | `CancelConverges`, `RunEnds` |
| `Results`, media | a video and a storyboard, any three of a paid task, an image task, two restores, an upload and an edit; 1 disk failure | `SelectionIsOneTransition` (refinement), `PaidIsKept`, `CancelledNotClaimed`, `NoStaleSelection`, `PointerLeaksOnlyLate`, `OrderedOtherwise` |
| `Results`, ledger | 2 interchangeable processes, 1 video task, 1 failing ledger write, 1 crash | `SucceededIsBooked`, `PendingHasCause`, `RewrittenOnlyWhenShared`, `NoTheft` |
| `DraftReview` | 2 interchangeable clients, 2 contents beside the old one and its migrations, 4 operations, 1 death; a new, a reviewed, an old reviewed and an old unreviewed episode | `NothingOverwritten`, `PromoteIsGated`, `CutNeedsConfirm`, `Draft2FallsWithStep1` |
| `AgentRuntime` | actor: 3 queries, an interrupt, a disconnect; registry: 2 requests, 2 sessions, room for 1, 1 fault; timeline: 2 users, 1 message per turn at most, queue of 2, 2 connections, 1 loss | `DrainBeforeNext`, `ReleasedButOne`, `DeliveredOnce`, `BusyHasCause`, `RunningRowHasCause`, `LeakHasCause`, `CursorMeansSeen`, `EndIsComplete`, `GivenOnce` |
| `LostCancel`, `ZombieExecutor`, `LockCycle`, `OrphanStranded`, `GateRace` | small instances | disagreements, section 6 |

What these runs show, with the exceptions the code really has written into the
properties:

* **`TaskQueue`, `TaskQueueCascade`.**  A request to cancel a task leaves it cancelling
  or over, with the worker told, unless the row it read as running was put back in the
  queue under it.  A task waits behind one that failed only if it was enqueued after
  that, and then only its own cancellation ends it.
* **`Results`, media.**  A paid result stays in the history whatever fails.  A video is
  selected only while the script still asks for what it was made from.  A
  cancelled task does not keep its selection, unless a user restored that version,
  a task that had replaced it meanwhile was itself taken back, the undo met a
  disk failure, or the result of a video was lost in the last await of its executor.
  A script pointer without a file is left
  only by the late write of an interrupted finalizer.  Circles of waits need the
  undo of a cancelled image, or a compensation on the event loop.
* **`Results`, ledger.**  A succeeded task is booked; a row stays pending only after a
  user cancellation, a failed ledger write, or a scan that gave the job up.  A
  settled row is rewritten only by a generator whose task the scan of another
  process took over.  An unexpired lease is never taken from its holder.
* **`AgentRuntime`.**  A message is accepted by the SDK at most once over any
  retries, and an entry stands for a message that was accepted, is being sent, was
  under way when the process died, or was answered with an error by a call that could
  not undo it.  A query is submitted only when the earlier
  answers were read to their end.  When an actor is gone, at most one caller is
  left waiting.  A session that says it is busy, a row that says running and an
  actor outside the registry have one of the causes the invariants name.  A client
  that reconnects with its cursor has been given everything below it, except
  entries with a number used before and entries broadcast out of order; it is given an
  entry twice only if a write of it was committed, raised and was retried.
* **`WorkerTight`.**  Over requeues, crashes, restarts and resumes the create call of a
  task is entered at most once.  A second charge comes from a repeat inside that call,
  which only a provider in `Repeating` makes: p does in this run, q does not.

* **`DraftReview`.**  A promotion never replaces a step1 its author did not start
  from or declare merged, through conflicts, renewed reports, undone generations and
  deaths.  A step2 draft is promoted on the content its gate was asked about, since
  the writers of step1 modelled here take the lock of the step2 draft (`rename_asset`,
  section 7, locks that file too when it exists); the exception is a step1
  of the old shape whose gate closes after it was asked (another client's record of a
  review, or an undone script) and which the promotion itself then migrates: the load
  compares only with a gate that was open when it began.  Cut durations are let through only after a
  confirmation, even when the migrating process died between record and file.  A
  step2 draft falls with the step1 it expands, unless it was written when that step1
  was already another one or the formal file was deleted.

The three models of `AgentRuntime` share no variable, nor do the two of `Results`.
`part` in `MCAgentRuntime` and `MCResults` says which of them moves, so a run
explores them one after the other and not their product.

Bounds.  Two tasks of one key are enough for a conflict on it; three tasks give
every shape of dependency the cascades tell apart (chain, fork, and a late
dependent).  Two cancel requests race with each other; a third would repeat what
one of them does.  Two video tasks and one slot fill a pool; one restart is a crash
or a stop at every point, followed by a complete recovery.  Every task may be
enqueued once: a retry by the user is a new task id with the same key.  Two attempts
of a create call (`MaxAttempts`, three in `lib/retry.py`) are one repeat.
Three writers of one resource are a writer, one that overtakes it and one that
edits or restores what they leave; two processes are one that lost the lease and
one that has it.  One fault (a failure, a late patrol, an interrupt or a restart) lets every single step fail once; two requests with
one key are a retry, with two keys a conflict, and with two sessions a
competition for the only place.  Four operations of two clients are what the
longest hazards of the drafts need: open, regenerate, accept, promote; or generate
against a save, a confirmation and an undo.  Contents and clients are
interchangeable, which the run uses as symmetry.  The counters the models cap: `MaxRestarts`,
`MaxFaults`, `MaxBookFaults`, `MaxCrashes`, `MaxOps`, `MaxDeaths`, `MaxActors`, `MaxMessages`,
`MaxOpens`, `MaxLosses` (refused queries, failed writes and deletes), `MaxAttempts`;
everything else is finite by itself.  The largest runs: `AgentRuntime` 2.3 million
distinct states, `WorkerTight` 1.1 million, `DraftReview` 0.9 million, `Results` 0.6
million.  The longest takes about two and a half minutes with two workers.

`CHECK_DEADLOCK FALSE` stands in `Results`, `LockCycle`, `AgentRuntime`,
`DraftReview` and `GateRace`: there every writer, request and user acts once, or the
operations are counted, and the models come to rest; in `Results` a circle of waits
is a state the properties speak about.

Fairness (`Fairness` in `GenerationWorker`).  The asyncio event loop runs every
ready coroutine, so the main loop, each executor, the dispatcher and each cancel
request past its SELECT are weakly fair; an executor's provider call ends because
the backends poll with a timeout.  Nobody is obliged to enqueue, cancel, stop or
crash.  `WorkerLive` has room everywhere because with a full pool
`CancellingIsOwned` does not hold (section 6).  Liveness of the worker is checked without
restarts: a restart loses the coroutines and starts over from the scan, whose
safety `WorkerTight` checks.

Fairness of `FairLedgerSpec` (used by `OrphanStranded`): every event loop runs and
is not stopped at every turn (strong fairness, since an expired lease may enable
and disable a renewal), a stopped worker ends when its executors have, an ended
process is started again, providers answer or time out, and the lease of a dead
owner expires.  The counterexample does not use any of these being too weak: the
survivor renews and polls for ever.

## 4. Proofs

Every safety property of every passing run, both refinements included, is also a
theorem checked by TLAPS: for all tasks, writers, clients, sessions and processes,
and all values of the bounds.  The assumptions are the named `ASSUME`s of the
modules: types of the constants, null values outside the sets they complete, and
finite sets where something is counted.  TLC evaluates them in every run.  Each
component theorem follows one pattern: an inductive invariant holds initially, every
action keeps it, and it implies the property.

**`TaskQueueProofs`** (assumptions of `TaskRepo`).  `TypeCorrect`,
`DependencyGateHolds`, `OneActivePerKeyHolds`, `CancelAttributionHolds`,
`EventsTellTheEndHolds`, `StaleReadBoundHolds`, `NothingBehindHolds`;
`CancelWinsHolds`, `CancelLandsHolds`, `CascadeCompleteHolds`,
`StrandedOnlyLateHolds`.  `NextIsTableStep` shows that every step, whichever
coroutine takes it, is one transaction of the table (`TableStep`).  `StatusMoves`
lists the ten status moves those transactions can make and adds that a move to
running finds the dependency succeeded; it rests on `DependentsAreQueued`, that a
cascade only touches queued rows.  The inductive invariant `TableInv` is the
conjunction of the table properties with `SameProject`, that a dependency stays
within its project: `cancel_all_queued` has no cascade and leaves nothing queued
behind a row only since the whole chain is in the project it sweeps.
`DependencyGate` is inductive because a success is never undone, a fact about all
moves and not about the claim alone; with it `NothingToSignal` shows that the branch
of `_cascade_cancel_dependents` for running dependents is a safety net.
`FailsBehind` uses that the cascade is the least closed set, which is why it never
comes back to a task stranded behind a row that is over.  `StaleReadBound`,
`NothingBehind` and `CascadeComplete` are stated in `TaskQueue` and proved, and no run
lists them: `CancelLands`, `DependencyGate` and `StrandedOnlyLate` rest on them or on
the same facts and break where they do.

**`GenerationWorkerProofs`** (in addition: finitely many tasks, the types of the
capacity tables, lanes and bounds).  `WorkerTypes`, `RunningOwned`, `ChargedOnce`,
`CapacityHolds`, `ImplementsQueue` and its corollary `WorkerKeepsQueue`: the worker
implements `TaskQueue`, so all of the above holds of the server process.  `WorkerInv`
says, beside types, that slots and coroutines agree (`SlotsMatch`), what the loop
holds at each point (`LoopHolds`), that what has an executor was claimed
(`RowsBegun`), that only rows asked to stop are signalled (`Signalled`), at which points a
task has been paid for (`Paid`), and how a bucket fills (`Room`).  `ChargedOnce`
needs `Paid` because the checkpoint, and not the status, forbids a second
create call after a requeue or a restart; a charge beyond the first is a repeat inside
that call, by a provider that repeats (`RepeatedBy`).  `Room` needs both kinds of executor, since
resumed ones are limited by a semaphore and claimed ones by the table.

**`ArtifactCommitProofs`** (every thread has a target; the null values are not
threads, bytes or claims).  `TypesHold`, `PaidIsKeptHolds`, `CancelledNotClaimedHolds`,
`PointerLeaksOnlyLateHolds`, `OrderedOtherwiseHolds`, `NoStaleSelectionHolds`,
`VisibleIsProven`, and the refinement `ImplementsSelection`.  `ArtifactInv` says what
a resource at rest looks like (`RestOK`) and, for each writer, what it holds and has
captured at its stage.  Its core is that only the holder of the versions lock may
leave file, pointer and manifest apart.  What others may rely on (`Visible`) is then
always sound, so a step of the refinement only has to show that one history is
continued and one selection moves or is dropped.  `OrderedOtherwiseHolds` ranks the
locks: a writer outside the two named exceptions waits for a lock above all it has,
so a circle of any length would need a rank above itself.

**`DraftReviewProofs`** (the null text and the old and migrated shapes of step1 are
told apart; natural bounds).  `ReviewTypes`, `PromoteGated`, `CutConfirmed`, `Draft2Falls`,
`NothingLost`.  Two parts of `ReviewInv`
carry the argument: what an undo would bring back is as sound as what is there
(`FilesSound`), so receipts need not be followed through the files; and a step1 of
the old shape cannot come back once a migration has cut it (`OldOnce`).

**`ResultsProofs`** (no process is the null or the ghost owner, natural bounds).  Of
the ledger and the lease: `LedgerTypes`, `Booked`, `PendingCaused`, `RewrittenShared`,
`LeaseIsKept`.  `LedgerInv` says who may be at work on a task together: a resumer
never runs beside the generator of its own process, and exists only where a job id
was saved, after the pending row was written.  Of the composition: `ResultParts`,
`ResultTypes`, `ResultsHold`.

**`AgentSessionProofs`** (`AgentAssumption`).  `Types`, `Delivers`, `Runs`, `Marks`,
`Reaches` from `SessionInv`: what names an instance names one of the right session
(`NamesOK`), a query is in one place (`ActorQueueOK`), nothing follows the end of an
actor in its inbox (`InboxOK`), a lock has one holder (`LockOK`), each actor outside
the registry, busy status and running row has a cause (`LeakOK`, `BusyOK`, `RowOK`),
an accepted message has its entry, and an entry without one belongs to a call that is
under way, was lost, or left it behind (`KeyLogOK`).

**`EntryStreamProofs`** (`StreamAssumption`).  `StreamTypes`, `CursorHolds`, `EndHolds`
from `StreamInv`: the numbers are dense, an item comes behind what it depends on in
every queue, and a turn that is over stays over.  `GivenOnceHolds` adds `Once`: an
entry that is not in `unsure` has one number (`LogOnce`), is in the log, with the
writer or in the inbox, in one of them and once, and what the client was given lies
below its cursor or was deleted for good.  A threshold alone would not do: a number
given twice after a deletion could show an entry again, and a write retried after its
commit does.

**`AgentRuntimeProofs`** (`CommandsAssumption`).  Of the actor: `ActorTypes`, `Drains`,
`Releases`; a command that was sent is answered or in one place, except for at most
one that is dropped on the way out (`Followed`).  Of the composition: `RuntimeParts`,
`RuntimeTypes`, `RuntimeHolds`.

Only model-checked: the two liveness properties `CancelConverges` and `RunEnds`
(fairness and ENABLED are outside the reach of the prover), and the disagreements
of section 6, which are counterexamples and need no proof.

## 5. Mutants

Each checked property has a mutant in `PROJECT.json`: a definition next to the
original that changes it as a plausible slip would (a dropped guard, a cascade
that does not recurse, an ignored row count, a requeue at restart).  TLC finds
the property violated with the mutant in place.

## 6. Where the code and its documentation disagree

* **`LostCancel`**: `_claim_tasks` ignores the row count of `mark_task_failed`
  and the result of `_requeue_single_task`.  A cancel between the claim and
  these writes leaves a `cancelling` row to nobody until a restart; ADR 0006
  requires `mark_task_cancelled` after a write that had no effect.
* **`ZombieExecutor`**: `cancel_task` that read `queued` cancels a task claimed
  since, without a signal; the executor goes on while the key is free and a
  second task of the resource runs beside it.
* **`LockCycle`**: the undo of a cancelled image (and of a grid split) takes the
  versions lock and then, in `on_reject`, the script or project lock; the docstring
  of `server/routers/versions.py:168` says all paths take them in the opposite
  order and cannot form a cycle.
* **`OrphanStranded`**: a process scans for orphans once, and again only after an
  absence it noticed and that was longer than three lifetimes of the lease.  A
  takeover it did not notice, or a shorter one, followed by the death of the other
  process leaves a task running for ever; the comment at
  `lib/generation_worker.py:605` says the threshold covers takeovers.

* **`GateRace`**: the preflight of `generate_episode_script` reads the gate without a
  lock (`server/text_generation.py:603`); `_load_reference_step1` computes it again
  under the locks but uses it only for a migration with warnings.  Content saved in
  between is expanded by the paid step2 unconfirmed; ADR 0041 says step2 runs only
  after an explicit confirmation.

Met while modelling, described here and as hazards, with no run of their own:

* A resume sub-task cancelled before its first step runs neither its `except` nor
  its `finally`: its pending slot is not released (`generation_worker.py:1374`).
* A row that `cancel_task` read as running may be queued again when its UPDATE comes
  (full pool, provider drift).  The branch for it says that this does not occur in
  theory and ignores it (`task_repo.py:800`): the request answers with empty lists and
  the task runs again; hence the exception of `CancelLands`.
* `cancel_all_queued` announces the rows of its first SELECT, not those its UPDATE
  cancels (`task_repo.py:1084`).
* The compensation after a failed finalization of a video runs on the event loop
  and waits there for file locks, one of which may be held by a thread that asks
  the loop for the TTS settings (`video_artifact_currency.py:464`); this is the
  second exception of `OrderedOtherwise`.
* `finish_call` has no pending guard although `_settle` relies on one in every
  public method (`usage_repo.py:191`); hence `RewrittenOnlyWhenShared`.
* When the stream raises while a command was already taken, the drain in the
  `finally` of the actor does not see that command and its caller waits on, which
  the comment at `session_actor.py:91` means to rule out; hence `ReleasedButOne`.
* The number of a deleted entry is used again (`event_log.py:623`, `722`), and a
  user entry is broadcast after its delivery (`session_manager.py:1130`); hence
  the two exceptions of `CursorMeansSeen`.
* After a crash between append and delivery a retry is acknowledged although the
  message was not delivered; so it is after a failing `update_status("running")`,
  which stands outside the `try` (`session_manager.py:1107`), and after a failing
  `delete_entry`, which is only logged (line 1121).  The comment at line 1088 says that
  the entry of a failed delivery is deleted and does not stay.  `DeliveredOnce` allows
  the entry only with its call lost or answered with that error.
* `_append_with_retry` (`entry_pipeline.py:371`) retries any exception.  If the commit
  had succeeded the entry is stored, and shown, twice; an entry whose last attempt
  raised after its commit is stored and not broadcast.  These are the exceptions of
  `GivenOnce` and `EndIsComplete`.
* The create calls of some backends are repeated after an ambiguous answer, which
  `base.py:241` forbids for those that use `submit_post`; hence the form of
  `NoDoubleCharge`.
* A cancel during the clean-up of a video's staged inputs (`generation_tasks.py:2746`)
  leaves a cancelled task with its video selected.  The docstring of
  `finalize_selected_video_result` (`video_artifact_currency.py:448`) says that the
  compensation is carried along "so an already-cancelled row cannot leave the media
  selected"; the fourth exception of `CancelledNotClaimed`.
* When the status cannot be written, the inbox processor ends and its actor lives on
  (`session_manager.py:893`): the session refuses messages as running until it is
  evicted; one of the causes `BusyHasCause` names.
* `confirm` takes no fingerprint: it confirms the content that is formal when it gets
  the locks, which may not be the one the user was shown.  No document promises more,
  so no property states it.
* `delete_step1_file` leaves the draft of step2 behind; hence the case of a missing
  file in `Draft2FallsWithStep1`.

An exception a property names is allowed by it and not caught.  That concerns the rows
`cancel_all_queued` does not announce (`EventsTellTheEnd`), the unguarded `finish_call`
of a shared task (`RewrittenOnlyWhenShared`), the eviction that ends during a connect
(`LeakHasCause`), the row a disconnect leaves running (`RunningRowHasCause`) and the
stale status a session is resumed with (`BusyHasCause`), beside those above: such a
property says that nothing else leads to the bad state.

## 7. Not modelled, and the plan

Left out of the worker: `reload_limits` while running, the rescan of a worker that lost
its lease and got it back in one process, which dispatches its orphans under a fresh
semaphore (the rescan itself is in `VideoLedger`, which has no capacity), database
errors inside a handler, staging files.  Left out of the artifacts: the content of descriptors and
fingerprints (a digest stands for them), the planner, grids as a batch of
resources.  Left out of the ledger: costs and currencies, calls that are not
videos.  Left out of the agent runtime: the creation of a new session (whose id
the SDK gives later), pending questions, drafts and deltas, forks, the
interrupt entry that `_mark_session_terminal` writes, and the transcript mirror.
Left out of the drafts: the drama and narration routes (the same
functions without a step2 draft), drafts written before base fingerprints existed,
the normalised rewrite of `confirm` (`services/script_review.py:528`), a death inside a
formal write of several files, and `ProjectManager.rename_asset`
(`project_manager.py:2780`).  The last rewrites one name in step1, both drafts and the
scripts at once, without `write_step1_locked`, and holds the locks of those of the
files that exist when it starts.
Backends, pricing, configuration lookups and the HTTP surface are I/O or tables
with no protocol; prompts, script formats and the parsing of model answers are
most of the remaining code and have no state of their own.

Next, in this order:

1. `ProjectEvents`: snapshot, diff, and publication of the terminal events after
   the commit.
2. `BatchAdmission` and the enqueue loop of the client (`_enqueue_sequentially`), whose
   stop at the first failure is what keeps `StrandedOnlyLate` from mattering.
3. The episode ledger with its plan and reset, and the migration runner.
4. The creation of a new agent session, whose id the SDK gives after the first message.
