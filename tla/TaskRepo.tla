------------------------------ MODULE TaskRepo ------------------------------
(***************************************************************************)
(* The `tasks` table of the generation queue and the transactions that     *)
(* lib/db/repositories/task_repo.py runs on it.                            *)
(*                                                                         *)
(* Every transaction below is one atomic action on the table variables.    *)
(* That is what the default engine (SQLite in WAL mode, lib/db/engine.py)  *)
(* gives a method whose first statement is its guarded UPDATE: the write   *)
(* lock is held from there to the commit.  A SELECT takes no lock and      *)
(* opens no transaction there, so a method that first SELECTs and only     *)
(* then updates (claim_next, cancel_task, cancel_all_queued) is two        *)
(* operators, which the modules that use them may separate.                *)
(*                                                                         *)
(* An operator that stands for a guarded UPDATE is enabled exactly when    *)
(* the UPDATE would touch a row; the "0 rows" outcome is left to the       *)
(* caller, as in the code.                                                 *)
(***************************************************************************)
EXTENDS Naturals, Sequences

CONSTANTS
  Tasks,       \* the task ids that may ever be enqueued
  NoTask,      \* dependency_task_id IS NULL
  Keys,        \* dedupe keys: project, user, type, script, resource type and id
  KeyOf,       \* KeyOf[t]: the dedupe key of the request that creates t
  Projects,    \* project names
  ProjectOf,   \* ProjectOf[t]: the project of t
  Media,       \* media types, one claim lane each
  MediaOf,     \* MediaOf[t]: the lane of t
  VideoMedia,  \* the lane whose tasks cross the checkpointed submit boundary
  ReferenceVideos,  \* the tasks of type reference_video, all in the video lane
  Providers,   \* provider ids
  NoProvider,  \* provider_id IS NULL
  Derived      \* what provider_id may be at enqueue: a provider, or NULL if underivable

ASSUME NoTaskAssumption == NoTask \notin Tasks
ASSUME KeyAssumption == KeyOf \in [Tasks -> Keys]
ASSUME ProjectAssumption == ProjectOf \in [Tasks -> Projects]
ASSUME MediaAssumption == MediaOf \in [Tasks -> Media] /\ VideoMedia \in Media
ASSUME ReferenceAssumption ==
  ReferenceVideos \subseteq {t \in Tasks : MediaOf[t] = VideoMedia}
ASSUME ProviderAssumption == NoProvider \notin Providers
ASSUME DerivedAssumption == Derived \subseteq Providers \cup {NoProvider}

VARIABLES
  status,       \* status column; "absent" before the row exists
  dep,          \* dependency_task_id
  queuedAt,     \* queued_at, as the rank of the INSERT
  inserts,      \* how many rows were inserted: the clock behind queuedAt
  provider,     \* provider_id: the advisory routing column
  cancelledBy,  \* cancelled_by; "none" is NULL
  checkpoint,   \* execution_checkpoint_json IS NOT NULL
  job,          \* provider_job_id IS NOT NULL
  events        \* terminal events recorded for publication, oldest first

rowVars == <<dep, queuedAt, inserts>>
execVars == <<provider, checkpoint, job>>
outcomeVars == <<status, cancelledBy, events>>
tableVars == <<rowVars, execVars, outcomeVars>>

Active == {"queued", "running", "cancelling"}
Terminal == {"succeeded", "failed", "cancelled"}
Statuses == {"absent"} \cup Active \cup Terminal
CancelSources == {"user", "cascade"}

TableTypeOK ==
  /\ status \in [Tasks -> Statuses]
  /\ dep \in [Tasks -> Tasks \cup {NoTask}]
  /\ queuedAt \in [Tasks -> Nat]
  /\ inserts \in Nat
  /\ provider \in [Tasks -> Providers \cup {NoProvider}]
  /\ cancelledBy \in [Tasks -> CancelSources \cup {"none"}]
  /\ checkpoint \in [Tasks -> BOOLEAN]
  /\ job \in [Tasks -> BOOLEAN]
  /\ events \in [Tasks -> Seq(Terminal)]

TableInit ==
  /\ status = [t \in Tasks |-> "absent"]
  /\ dep = [t \in Tasks |-> NoTask]
  /\ queuedAt = [t \in Tasks |-> 0]
  /\ inserts = 0
  /\ provider = [t \in Tasks |-> NoProvider]
  /\ cancelledBy = [t \in Tasks |-> "none"]
  /\ checkpoint = [t \in Tasks |-> FALSE]
  /\ job = [t \in Tasks |-> FALSE]
  /\ events = [t \in Tasks |-> <<>>]

-----------------------------------------------------------------------------
(* Enqueue.                                                                *)

\* Mutant: the index predicate forgets the intermediate state of ADR 0006.
ActiveOnWithoutCancelling(k) ==
  {u \in Tasks : status[u] \in {"queued", "running"} /\ KeyOf[u] = k}

\* The rows the unique partial index over active tasks compares a new row with.
ActiveOn(k) == {u \in Tasks : status[u] \in Active /\ KeyOf[u] = k}

\* enqueue: the INSERT succeeds when no active row holds the same key; otherwise
\* the caller gets the existing row and nothing is written.  The dependency is
\* stored as given: whether it is still alive is not checked.
Enqueue(t, d, p) ==
  /\ status[t] = "absent"
  /\ ActiveOn(KeyOf[t]) = {}
  /\ inserts' = inserts + 1
  /\ status' = [status EXCEPT ![t] = "queued"]
  /\ dep' = [dep EXCEPT ![t] = d]
  /\ queuedAt' = [queuedAt EXCEPT ![t] = inserts + 1]
  /\ provider' = [provider EXCEPT ![t] = p]
  /\ UNCHANGED <<cancelledBy, checkpoint, job, events>>

-----------------------------------------------------------------------------
(* Claim.                                                                  *)

DependencyMet(t) == dep[t] = NoTask \/ status[dep[t]] = "succeeded"

\* Mutant: the claim SELECT without its join on the dependency.
ClaimableUnjoined(m, poolFull, excluded) ==
  {t \in Tasks \ excluded :
     /\ status[t] = "queued"
     /\ MediaOf[t] = m
     /\ provider[t] \in poolFull => t \in ReferenceVideos}

\* The rows the claim SELECT of lane m offers.  Both filters are blacklists; a
\* reference_video row is never filtered by its (possibly stale) provider column.
Claimable(m, poolFull, excluded) ==
  {t \in Tasks \ excluded :
     /\ status[t] = "queued"
     /\ MediaOf[t] = m
     /\ provider[t] \in poolFull => t \in ReferenceVideos
     /\ DependencyMet(t)}

\* claim_next, the SELECT: the oldest row offered.
OldestClaimable(t, m, poolFull, excluded) ==
  /\ t \in Claimable(m, poolFull, excluded)
  /\ \A u \in Claimable(m, poolFull, excluded) : queuedAt[t] <= queuedAt[u]

\* claim_next, the UPDATE: the row becomes running if it is still queued.
ClaimNext(t) ==
  /\ status[t] = "queued"
  /\ status' = [status EXCEPT ![t] = "running"]
  /\ UNCHANGED <<rowVars, execVars, cancelledBy, events>>

\* Mutant: a requeue that writes a status nobody reads.
RequeueAsPending(S) ==
  /\ S # {}
  /\ \A t \in S : status[t] = "running"
  /\ status' = [t \in Tasks |-> IF t \in S THEN "pending" ELSE status[t]]
  /\ UNCHANGED <<rowVars, execVars, cancelledBy, events>>

\* _requeue_single_task and requeue_running: running rows go back in the queue
\* and keep their queued_at, their checkpoint and their provider job.
Requeue(S) ==
  /\ S # {}
  /\ \A t \in S : status[t] = "running"
  /\ status' = [t \in Tasks |-> IF t \in S THEN "queued" ELSE status[t]]
  /\ UNCHANGED <<rowVars, execVars, cancelledBy, events>>

-----------------------------------------------------------------------------
(* Terminal writes and their cascades.                                     *)

\* S contains every queued row that depends on t or on a member of S.
CascadeClosed(t, S) ==
  \A d \in Tasks : status[d] = "queued" /\ dep[d] \in S \cup {t} => d \in S

\* Mutant: the cascade does not recurse.
DirectDependents(t) == {d \in Tasks : status[d] = "queued" /\ dep[d] = t}

\* The rows both recursive cascades walk through: the least such set, that is
\* the rows reachable from t through queued rows only.
QueuedDependents(t) ==
  {d \in Tasks : \A S \in SUBSET Tasks : CascadeClosed(t, S) => d \in S}

\* A terminal event is recorded for every row the transaction closes.
RecordTerminal(S, s) ==
  events' = [t \in Tasks |-> IF t \in S THEN Append(events[t], s) ELSE events[t]]

\* Mutant: the success write without its status guard.
MarkSucceededUnguarded(t) ==
  /\ status[t] \in Active
  /\ status' = [status EXCEPT ![t] = "succeeded"]
  /\ RecordTerminal({t}, "succeeded")
  /\ UNCHANGED <<rowVars, execVars, cancelledBy>>

\* mark_succeeded
MarkSucceeded(t) ==
  /\ status[t] = "running"
  /\ status' = [status EXCEPT ![t] = "succeeded"]
  /\ RecordTerminal({t}, "succeeded")
  /\ UNCHANGED <<rowVars, execVars, cancelledBy>>

\* mark_failed: t fails, and so does everything queued behind it.
MarkFailed(t) ==
  LET closed == {t} \cup QueuedDependents(t) IN
  /\ status[t] = "running"
  /\ status' = [u \in Tasks |-> IF u \in closed THEN "failed" ELSE status[u]]
  /\ RecordTerminal(closed, "failed")
  /\ UNCHANGED <<rowVars, execVars, cancelledBy>>

\* The rows cancelling t closes, and the running rows behind them that the
\* cascade can only ask to stop (returned to the caller as `cancelling`).
CancelClosure(t) == {t} \cup QueuedDependents(t)
CascadeSignalled(t) ==
  {d \in Tasks \ CancelClosure(t) : status[d] = "running" /\ dep[d] \in CancelClosure(t)}

\* _mark_cancelled with cascade=True, the body of finalize_cancelled: cancelled_by
\* keeps a value written earlier (COALESCE).
MarkCancelled(t, by) ==
  /\ status[t] \in Active
  /\ status' = [u \in Tasks |->
       IF u \in CancelClosure(t) THEN "cancelled"
       ELSE IF u \in CascadeSignalled(t) THEN "cancelling" ELSE status[u]]
  /\ cancelledBy' = [u \in Tasks |->
       IF u = t THEN IF cancelledBy[t] = "none" THEN by ELSE cancelledBy[t]
       ELSE IF u \in CancelClosure(t) \cup CascadeSignalled(t) THEN "cascade"
       ELSE cancelledBy[u]]
  /\ RecordTerminal(CancelClosure(t), "cancelled")
  /\ UNCHANGED <<rowVars, execVars>>

\* _mark_cancelling
MarkCancelling(t, by) ==
  /\ status[t] = "running"
  /\ status' = [status EXCEPT ![t] = "cancelling"]
  /\ cancelledBy' = [cancelledBy EXCEPT ![t] = by]
  /\ UNCHANGED <<rowVars, execVars, events>>

\* cancel_all_queued: a SELECT of the queued rows of the project, one bulk UPDATE of
\* the rows that are queued by then (no cascade), and an event for every row of the
\* first list that is now cancelled.
QueuedIn(prj) == {t \in Tasks : status[t] = "queued" /\ ProjectOf[t] = prj}
\* Mutant: every listed row is announced, cancelled or not.
CancelAllQueuedAnnouncingAll(prj, listed) ==
  /\ status' = [t \in Tasks |-> IF t \in QueuedIn(prj) THEN "cancelled" ELSE status[t]]
  /\ cancelledBy' = [t \in Tasks |-> IF t \in QueuedIn(prj) THEN "user" ELSE cancelledBy[t]]
  /\ RecordTerminal(listed, "cancelled")
  /\ UNCHANGED <<rowVars, execVars>>
CancelAllQueued(prj, listed) ==
  /\ status' = [t \in Tasks |-> IF t \in QueuedIn(prj) THEN "cancelled" ELSE status[t]]
  /\ cancelledBy' = [t \in Tasks |-> IF t \in QueuedIn(prj) THEN "user" ELSE cancelledBy[t]]
  /\ RecordTerminal({t \in listed : status'[t] = "cancelled"}, "cancelled")
  /\ UNCHANGED <<rowVars, execVars>>

-----------------------------------------------------------------------------
(* Execution columns.                                                      *)

\* persist_execution_provider_id: no status guard.
PersistProvider(t, p) ==
  /\ provider' = [provider EXCEPT ![t] = p]
  /\ UNCHANGED <<rowVars, outcomeVars, checkpoint, job>>

\* persist_execution_checkpoint: the guarded, once-only crossing of the submit
\* boundary, which also writes the provider that is really used.
CheckpointAllowed(t) ==
  MediaOf[t] = VideoMedia /\ status[t] = "running" /\ ~checkpoint[t] /\ ~job[t]
PersistCheckpoint(t, p) ==
  /\ CheckpointAllowed(t)
  /\ checkpoint' = [checkpoint EXCEPT ![t] = TRUE]
  /\ provider' = [provider EXCEPT ![t] = p]
  /\ UNCHANGED <<rowVars, outcomeVars, job>>

\* persist_provider_job_id: no status guard.
PersistJob(t) ==
  /\ job' = [job EXCEPT ![t] = TRUE]
  /\ UNCHANGED <<rowVars, outcomeVars, provider, checkpoint>>
=============================================================================
