-------------------------- MODULE GenerationWorker --------------------------
(***************************************************************************)
(* lib/generation_worker.py: the worker that runs inside the server        *)
(* process.  One coroutine, the main loop, scans orphans after a start,    *)
(* drains finished executors and claims tasks; every claimed task gets an  *)
(* executor coroutine and an entry of the SlotTable; the cancel API runs   *)
(* beside them in the same event loop.  An action is what one coroutine    *)
(* does between two awaits that other coroutines can use.                  *)
(*                                                                         *)
(* Three facts about asyncio shape the model.  A Task.cancel() is only a   *)
(* flag until the coroutine runs again (sig).  A coroutine cancelled       *)
(* before its first step never enters its try block.  A database write     *)
(* under asyncio.shield completes even though its caller was cancelled.    *)
(***************************************************************************)
EXTENDS TaskQueue, FiniteSets

CONSTANTS
  CapacityTables,  \* the configurations CapacityTable may be loaded from
  NonResumable,    \* NON_RESUMABLE_VIDEO_PROVIDERS
  Repeating,       \* backends whose create call stands under the plain with_retry_async
  MaxAttempts,     \* DEFAULT_MAX_ATTEMPTS of lib/retry.py
  Lanes,           \* the order in which the loop visits the media lanes
  MaxRestarts      \* bound: how often the process stops or dies

ASSUME TasksAssumption == IsFiniteSet(Tasks)
ASSUME CapacityAssumption == CapacityTables \subseteq [Providers \X Media -> Nat]
ASSUME LanesAssumption == Lanes \in Seq(Media) /\ Lanes # <<>>
ASSUME NonResumableAssumption == NonResumable \subseteq Providers
ASSUME RepeatingAssumption == Repeating \subseteq Providers \X Media /\ MaxAttempts \in Nat \ {0}
ASSUME RestartsAssumption == MaxRestarts \in Nat

VARIABLES
  limits,    \* CapacityTable: limits[<<p, m>>]; 0 means lane not supported
  pc,        \* the main loop
  lane,      \* index in Lanes of the lane being claimed
  tried,     \* attempted_current_state_tasks
  cur,       \* the claimed task _claim_tasks holds, and
  curProv,   \*   the provider projected for it
  todo,      \* orphans still to be looked at, as [task, seen]
  resume,    \* resumable_by_provider
  slots,     \* SlotTable: [task, prov, resume, pending, fut]
  ex,        \* ex[t]: where the executor coroutine of t is
  sig,       \* sig[t]: that coroutine has been cancelled and does not know yet
  submits,   \* submits[t]: paid, the requests the provider accepted for t, and again,
             \*   how often the retry decorator repeated a request that was accepted
  restarts

loopVars == <<pc, lane, tried, cur, curProv, todo, resume>>
execState == <<slots, ex, sig>>
workerVars == <<loopVars, execState, submits, restarts, limits>>
allVars == <<vars, workerVars>>

LoopStates == {"down", "boot", "scan", "drain", "claim", "take", "project",
               "unsupported", "refresh", "requeue", "stopping"}
\* Inside the provider-facing part of an executor.
Working == {"run", "ckpt", "accepted", "poll", "rpoll"}
\* About to write an outcome, under asyncio.shield.
Closing == {"ok", "bad", "drift", "putback", "cancel", "raise"}
ExecStates == {"none", "ready", "rready", "rwait"} \cup Working \cup Closing
Futures == {"live", "done", "cancelled"}
Slot == [task : Tasks, prov : Providers, resume : BOOLEAN, pending : BOOLEAN, fut : Futures]

LiveSlots(t) == {s \in slots : s.task = t /\ s.fut = "live"}

\* Type invariant; and the SlotTable and the coroutines agree: exactly one live entry
\* per live executor, across re-claims under another provider and across restarts.
WorkerTypeOK ==
  /\ limits \in CapacityTables
  /\ pc \in LoopStates
  /\ lane \in 1..Len(Lanes)
  /\ tried \subseteq Tasks
  /\ cur \in Tasks \cup {NoTask}
  /\ curProv \in Providers \cup {NoProvider}
  /\ todo \subseteq [task : Tasks, seen : {"running", "cancelling"}]
  /\ resume \subseteq Tasks
  /\ slots \subseteq Slot
  /\ ex \in [Tasks -> ExecStates]
  /\ sig \in [Tasks -> BOOLEAN]
  /\ submits \in [Tasks -> [paid : Nat, again : 0..(MaxAttempts - 1)]]
  /\ restarts \in 0..MaxRestarts
  /\ \A t \in Tasks : Cardinality(LiveSlots(t)) = (IF ex[t] = "none" THEN 0 ELSE 1)

WorkerInit ==
  /\ Init
  /\ limits \in CapacityTables
  /\ pc = "boot"
  /\ lane = 1 /\ tried = {} /\ cur = NoTask /\ curProv = NoProvider /\ todo = {} /\ resume = {}
  /\ slots = {}
  /\ ex = [t \in Tasks |-> "none"]
  /\ sig = [t \in Tasks |-> FALSE]
  /\ submits = [t \in Tasks |-> [paid |-> 0, again |-> 0]]
  /\ restarts = 0

-----------------------------------------------------------------------------
(* SlotTable.                                                              *)

IsVideo(t) == MediaOf[t] = VideoMedia
Bucket(p, m) == {s \in slots : s.prov = p /\ MediaOf[s.task] = m}
\* Mutant: orphans waiting for the semaphore do not count.
OccupiedByInflight(p, m) == Cardinality({s \in Bucket(p, m) : ~s.pending})
Occupied(p, m) == Cardinality(Bucket(p, m))
HasRoom(p, m) == limits[<<p, m>>] > 0 /\ Occupied(p, m) < limits[<<p, m>>]

\* _pool_full_providers
PoolFull(m) ==
  {p \in Providers : Bucket(p, m) # {} /\ limits[<<p, m>>] > 0 /\ ~HasRoom(p, m)}

\* register: an entry of the same bucket and task is overwritten.
Registered(table, s) == {r \in table : ~(r.task = s.task /\ r.prov = s.prov)} \cup {s}
NewSlot(t, p, res) ==
  [task |-> t, prov |-> p, resume |-> res, pending |-> res, fut |-> "live"]

LiveSlot(t) == CHOOSE s \in LiveSlots(t) : TRUE
Resumed(t) == LiveSlot(t).resume
Promoted(t) == (slots \ {LiveSlot(t)}) \cup {[LiveSlot(t) EXCEPT !.pending = FALSE]}

\* request_cancel for every task of S.  find_by_task returns the first entry of the
\* task; an entry of an earlier run, done and not yet drained, may hide the live one.
\* `over` are the coroutines that end in this very step.
RequestCancel(S, over) ==
  \E hit \in SUBSET {t \in S : LiveSlots(t) # {}} :
    /\ \A t \in S \ hit : LiveSlots(t) # {} => \E s \in slots : s.task = t /\ s.fut # "live"
    /\ sig' = [t \in Tasks |-> t \notin over /\ (sig[t] \/ t \in hit)]

\* Mutant: the finally clause does not touch the SlotTable.
EndExecutorKeepingSlot(t, outcome) ==
  ex' = [ex EXCEPT ![t] = "none"] /\ slots' = slots

\* The executor of t is over.  A resume executor releases its slot in its finally
\* clause; the others leave a finished future for the main loop to drain.
EndExecutor(t, outcome) ==
  /\ slots' = (slots \ {LiveSlot(t)})
                \cup (IF Resumed(t) THEN {} ELSE {[LiveSlot(t) EXCEPT !.fut = outcome]})
  /\ ex' = [ex EXCEPT ![t] = "none"]

Goto(t, s) == ex' = [ex EXCEPT ![t] = s]

-----------------------------------------------------------------------------
(* mark_task_failed and mark_task_cancelled as the worker calls them.      *)

\* mark_task_cancelled on whatever the row is now, cascade signals included.
FinalizeCancelled(t, over) ==
  \/ MarkCancelled(t, "user") /\ RequestCancel(CascadeSignalled(t), over)
  \/ status[t] \notin Active /\ RequestCancel({}, over) /\ UNCHANGED tableVars

\* mark_task_failed and, on 0 rows, mark_task_cancelled.
FailOrCancel(t) ==
  \/ MarkFailed(t) /\ UNCHANGED sig
  \/ status[t] # "running" /\ FinalizeCancelled(t, {})

-----------------------------------------------------------------------------
(* Orphans of the previous process.                                        *)

\* _handle_orphan_tasks_on_start: list running and cancelling rows.
ScanList ==
  /\ pc = "boot"
  /\ pc' = "scan"
  /\ todo' = {[task |-> t, seen |-> status[t]] : t \in {u \in Tasks : status[u] \in {"running", "cancelling"}}}
  /\ UNCHANGED <<vars, lane, tried, cur, curProv, resume, execState, submits, restarts, limits>>

\* classify_video_resume_state is READY and the provider can resume: the only orphan
\* that is not closed on the spot.
Resumable(t) == IsVideo(t) /\ checkpoint[t] /\ job[t] /\ provider[t] \notin NonResumable

\* One orphan, on the status the list showed.
ScanOrphan(o) ==
  /\ pc = "scan" /\ o \in todo
  /\ todo' = todo \ {o}
  /\ \/ /\ o.seen = "cancelling"
        /\ FinalizeCancelled(o.task, {})
        /\ UNCHANGED resume
     \/ /\ o.seen = "running" /\ ~Resumable(o.task)
        /\ FailOrCancel(o.task)
        /\ UNCHANGED resume
     \/ /\ o.seen = "running" /\ Resumable(o.task)
        /\ resume' = resume \cup {o.task}
        /\ UNCHANGED <<tableVars, sig>>
  /\ UNCHANGED <<api, pc, lane, tried, cur, curProv, slots, ex, submits, restarts, limits>>

\* The scan is over.  _dispatch_provider_bucket creates one sub-task per orphan and
\* registers it PENDING; it needs two turns of the event loop, the next claim needs
\* several database round trips, so it is ahead of the claim.
ScanDone ==
  LET able == {t \in resume : limits[<<provider[t], VideoMedia>>] > 0} IN
  /\ pc = "scan" /\ todo = {}
  /\ pc' = "drain"
  /\ slots' = slots \cup {NewSlot(t, provider[t], TRUE) : t \in able}
  /\ ex' = [t \in Tasks |-> IF t \in able THEN "rready" ELSE ex[t]]
  /\ resume' = resume \ able
  /\ UNCHANGED <<vars, lane, tried, cur, curProv, todo, sig, submits, restarts, limits>>

\* _dispatch_provider_bucket for a provider whose video capacity is 0.
DispatchUnsupported(t) ==
  /\ pc \notin {"boot", "scan", "down"} /\ t \in resume
  /\ resume' = resume \ {t}
  /\ FailOrCancel(t)
  /\ UNCHANGED <<api, pc, lane, tried, cur, curProv, todo, slots, ex, submits, restarts, limits>>

-----------------------------------------------------------------------------
(* The main loop.                                                          *)

Finished == {s \in slots : ~s.pending /\ s.fut # "live"}

\* _drain_finished_tasks: a cancelled future may not have written its outcome.
DrainOne(s) ==
  /\ pc = "drain" /\ s \in Finished
  /\ slots' = slots \ {s}
  /\ \/ s.fut = "cancelled" /\ FinalizeCancelled(s.task, {})
     \/ s.fut = "done" /\ UNCHANGED <<tableVars, sig>>
  /\ UNCHANGED <<api, loopVars, ex, submits, restarts, limits>>

DrainDone ==
  /\ pc = "drain" /\ Finished = {}
  /\ pc' = "claim" /\ lane' = 1 /\ tried' = {}
  /\ UNCHANGED <<vars, cur, curProv, todo, resume, execState, submits, restarts, limits>>

\* The end of one lane; after the last one the loop starts over.
NextLane ==
  /\ tried' = {}
  /\ IF lane < Len(Lanes) THEN lane' = lane + 1 /\ pc' = "claim" ELSE lane' = 1 /\ pc' = "drain"

\* claim_next: the SELECT finds nothing, or a row ...
ClaimNone ==
  /\ pc = "claim"
  /\ Claimable(Lanes[lane], PoolFull(Lanes[lane]), tried) = {}
  /\ NextLane
  /\ UNCHANGED <<vars, cur, curProv, todo, resume, execState, submits, restarts, limits>>
ClaimSelect ==
  /\ pc = "claim"
  /\ \E t \in Tasks : OldestClaimable(t, Lanes[lane], PoolFull(Lanes[lane]), tried) /\ cur' = t
  /\ pc' = "take"
  /\ UNCHANGED <<vars, lane, tried, curProv, todo, resume, execState, submits, restarts, limits>>

\* ... which the UPDATE takes, unless it has left the queue meanwhile.
ClaimTake ==
  /\ pc = "take"
  /\ \/ ClaimNext(cur) /\ pc' = "project" /\ UNCHANGED <<lane, tried, cur>>
     \/ status[cur] # "queued" /\ NextLane /\ cur' = NoTask /\ UNCHANGED tableVars
  /\ UNCHANGED <<api, curProv, todo, resume, execState, submits, restarts, limits>>

\* _provider_projection reads the current configuration, which may name any provider;
\* no other coroutine runs between its answer and the decision.
Dispatch(p) ==
  /\ HasRoom(p, Lanes[lane])
  /\ slots' = Registered(slots, NewSlot(cur, p, FALSE))
  /\ Goto(cur, "ready")
  /\ cur' = NoTask
  /\ IF Lanes[lane] = "text" THEN NextLane ELSE pc' = "claim" /\ UNCHANGED <<lane, tried>>
  /\ UNCHANGED curProv
Project ==
  /\ pc = "project"
  /\ \E p \in Providers :
       \/ Dispatch(p)
       \/ /\ ~HasRoom(p, Lanes[lane])
          /\ pc' = IF limits[<<p, Lanes[lane]>>] = 0 THEN "unsupported" ELSE "refresh"
          /\ curProv' = p
          /\ UNCHANGED <<cur, lane, tried, slots, ex>>
  /\ UNCHANGED <<vars, todo, resume, sig, submits, restarts, limits>>

\* Mutant: the rejection is written whatever the row has become.
RejectUnsupportedBlindly ==
  /\ pc = "unsupported"
  /\ status' = [status EXCEPT ![cur] = "failed"]
  /\ RecordTerminal({cur}, "failed")
  /\ pc' = "claim" /\ cur' = NoTask /\ curProv' = NoProvider
  /\ UNCHANGED <<rowVars, execVars, cancelledBy, api, lane, tried, todo, resume, execState, submits, restarts, limits>>

\* The lane is not supported: mark_task_failed, and its row count is not looked at.
RejectUnsupported ==
  /\ pc = "unsupported"
  /\ \/ MarkFailed(cur)
     \/ status[cur] # "running" /\ UNCHANGED tableVars
  /\ pc' = "claim" /\ cur' = NoTask /\ curProv' = NoProvider
  /\ UNCHANGED <<api, lane, tried, todo, resume, execState, submits, restarts, limits>>

\* The pool is full: refresh the advisory column (best effort) ...
RefreshProvider ==
  /\ pc = "refresh"
  /\ pc' = "requeue" /\ curProv' = NoProvider
  /\ PersistProvider(cur, curProv)
  /\ UNCHANGED <<api, lane, tried, cur, todo, resume, execState, submits, restarts, limits>>

\* ... and put the task back; whether the UPDATE hit is not looked at either.
RequeueFull ==
  /\ pc = "requeue"
  /\ \/ Requeue({cur})
     \/ status[cur] # "running" /\ UNCHANGED tableVars
  /\ IF IsVideo(cur) THEN tried' = tried \cup {cur} /\ pc' = "claim" /\ UNCHANGED lane ELSE NextLane
  /\ cur' = NoTask
  /\ UNCHANGED <<api, curProv, todo, resume, execState, submits, restarts, limits>>

LoopStep ==
  \/ ScanList
  \/ \E o \in todo : ScanOrphan(o)
  \/ ScanDone
  \/ \E s \in slots : DrainOne(s)
  \/ DrainDone \/ ClaimNone \/ ClaimSelect \/ ClaimTake \/ Project
  \/ RejectUnsupported \/ RefreshProvider \/ RequeueFull

-----------------------------------------------------------------------------
(* _process_task and the executor it awaits.                               *)

ExecFrame == UNCHANGED <<api, loopVars, restarts, limits>>

StartExecutor(t) ==
  /\ ex[t] = "ready" /\ ~sig[t]
  /\ Goto(t, "run")
  /\ UNCHANGED <<tableVars, slots, sig, submits>> /\ ExecFrame

\* The executor resolves the provider again: a video task whose provider is no longer
\* the claimed one raises DispatchProviderChanged before any provider call.
DetectDrift(t) ==
  /\ ex[t] = "run" /\ ~sig[t] /\ IsVideo(t)
  /\ Providers # {LiveSlot(t).prov}
  /\ Goto(t, "drift")
  /\ UNCHANGED <<tableVars, slots, sig, submits>> /\ ExecFrame

\* _before_first_submit: a rejected checkpoint aborts before the provider call.
CrossSubmitBoundary(t) ==
  /\ ex[t] = "run" /\ ~sig[t] /\ IsVideo(t)
  /\ \/ PersistCheckpoint(t, LiveSlot(t).prov) /\ Goto(t, "ckpt")
     \/ ~CheckpointAllowed(t) /\ Goto(t, "bad") /\ UNCHANGED tableVars
  /\ UNCHANGED <<slots, sig, submits>> /\ ExecFrame

\* The create call of the backend.  A text task writes its script by many calls, which
\* are not counted.
Submitting(t) ==
  /\ ex[t] = (IF IsVideo(t) THEN "ckpt" ELSE "run") /\ ~sig[t]
  /\ MediaOf[t] # "text"

\* The provider accepts the (paid) request and its answer arrives.
Submit(t) ==
  /\ Submitting(t)
  /\ submits' = [submits EXCEPT ![t].paid = @ + 1]
  /\ Goto(t, IF IsVideo(t) THEN "accepted" ELSE "poll")
  /\ UNCHANGED <<tableVars, slots, sig>> /\ ExecFrame

\* The create call is repeated whatever became of the request: with_retry_async with its
\* default predicate (timeouts, broken connections, texts that look like a 5xx).  The
\* executor of an image has resolved its provider anew, which may not be the slot's.
Repeats(t) ==
  \E p \in Providers :
    <<p, MediaOf[t]>> \in Repeating /\ (IsVideo(t) => p = LiveSlot(t).prov)

\* The provider accepts the request and the answer is lost.  A repeating backend submits
\* once more while it has attempts left; the others turn it into AmbiguousSubmitError,
\* which nothing retries.  (A refused request costs nothing: a repeat of it is a stutter,
\* its last failure is Raise.)
LoseAnswer(t) ==
  /\ Submitting(t)
  /\ \/ /\ Repeats(t) /\ submits[t].again < MaxAttempts - 1
        /\ submits' = [submits EXCEPT ![t] = [paid |-> @.paid + 1, again |-> @.again + 1]]
        /\ UNCHANGED ex
     \/ /\ ~Repeats(t) \/ submits[t].again = MaxAttempts - 1
        /\ submits' = [submits EXCEPT ![t].paid = @ + 1]
        /\ Goto(t, "bad")
  /\ UNCHANGED <<tableVars, slots, sig>> /\ ExecFrame

\* persist_provider_job_id, before the first poll.
SaveJob(t) ==
  /\ ex[t] = "accepted" /\ ~sig[t]
  /\ PersistJob(t)
  /\ Goto(t, "poll")
  /\ UNCHANGED <<slots, sig, submits>> /\ ExecFrame

\* The executor returns: a result, or a stored one that is reused without a submit.
Return(t) ==
  /\ ex[t] \in {"run", "poll", "rpoll"} /\ ~sig[t]
  /\ Goto(t, "ok")
  /\ UNCHANGED <<tableVars, slots, sig, submits>> /\ ExecFrame

\* Mutant: an error after the provider answered is retried from the submit.
RaiseRetrying(t) ==
  /\ ex[t] \in Working /\ ~sig[t]
  /\ Goto(t, IF ex[t] = "accepted" THEN "ckpt" ELSE "bad")
  /\ UNCHANGED <<tableVars, slots, sig, submits>> /\ ExecFrame

\* The executor raises: provider error, timeout, a write that failed, resume expired.
Raise(t) ==
  /\ ex[t] \in Working /\ ~sig[t]
  /\ Goto(t, "bad")
  /\ UNCHANGED <<tableVars, slots, sig, submits>> /\ ExecFrame

\* Mutant: the row count of the last write is not looked at.
CloseOkBlind(t) ==
  /\ ex[t] = "ok" /\ ~sig[t]
  /\ \/ MarkSucceeded(t)
     \/ status[t] # "running" /\ UNCHANGED tableVars
  /\ EndExecutor(t, "done")
  /\ UNCHANGED <<sig, submits>> /\ ExecFrame

\* mark_task_succeeded; 0 rows means cancelling got there first.
CloseOk(t) ==
  /\ ex[t] = "ok" /\ ~sig[t]
  /\ \/ MarkSucceeded(t) /\ EndExecutor(t, "done")
     \/ status[t] # "running" /\ Goto(t, "cancel") /\ UNCHANGED <<tableVars, slots>>
  /\ UNCHANGED <<sig, submits>> /\ ExecFrame

CloseBad(t) ==
  /\ ex[t] = "bad" /\ ~sig[t]
  /\ \/ MarkFailed(t) /\ EndExecutor(t, "done")
     \/ status[t] # "running" /\ Goto(t, "cancel") /\ UNCHANGED <<tableVars, slots>>
  /\ UNCHANGED <<sig, submits>> /\ ExecFrame

\* Mutant: the handler refreshes the column and forgets to requeue.
CloseDriftOnly(t) ==
  /\ ex[t] = "drift" /\ ~sig[t]
  /\ \E p \in Providers \ {LiveSlot(t).prov} : PersistProvider(t, p)
  /\ EndExecutor(t, "done")
  /\ UNCHANGED <<sig, submits>> /\ ExecFrame

\* The DispatchProviderChanged handler: refresh the column, then requeue; a requeue
\* that missed is closed like a failure.
CloseDrift(t) ==
  /\ ex[t] = "drift" /\ ~sig[t]
  /\ \E p \in Providers \ {LiveSlot(t).prov} : PersistProvider(t, p)
  /\ Goto(t, "putback")
  /\ UNCHANGED <<slots, sig, submits>> /\ ExecFrame
ClosePutback(t) ==
  /\ ex[t] = "putback" /\ ~sig[t]
  /\ \/ Requeue({t}) /\ EndExecutor(t, "done")
     \/ status[t] # "running" /\ Goto(t, "bad") /\ UNCHANGED <<tableVars, slots>>
  /\ UNCHANGED <<sig, submits>> /\ ExecFrame

\* mark_task_cancelled, after 0 rows or in the CancelledError handler.  A cancellation
\* that arrives meanwhile does not stop the shielded write.
CloseCancel(t) ==
  /\ ex[t] \in {"cancel", "raise"}
  /\ EndExecutor(t, IF ex[t] = "raise" \/ sig[t] THEN "cancelled" ELSE "done")
  /\ FinalizeCancelled(t, {t})
  /\ UNCHANGED submits /\ ExecFrame

-----------------------------------------------------------------------------
(* _run_one, the resume sub-task, up to _process_resume_task.              *)

SemaphoreFree(p) ==
  Cardinality({s \in slots : s.resume /\ ~s.pending /\ s.fut = "live" /\ s.prov = p})
    < limits[<<p, VideoMedia>>]

\* sem.acquire() returns at once or waits; on a stop the task is left for the next start.
ResumeStart(t) ==
  /\ ex[t] \in {"rready", "rwait"} /\ ~sig[t]
  /\ \/ /\ SemaphoreFree(LiveSlot(t).prov) /\ pc # "stopping"
        /\ slots' = Promoted(t)
        /\ Goto(t, "rpoll")
     \/ /\ SemaphoreFree(LiveSlot(t).prov) /\ pc = "stopping"
        /\ EndExecutor(t, "done")
     \/ /\ ~SemaphoreFree(LiveSlot(t).prov) /\ ex[t] = "rready"
        /\ Goto(t, "rwait")
        /\ UNCHANGED slots
  /\ UNCHANGED <<tableVars, sig, submits>> /\ ExecFrame

-----------------------------------------------------------------------------
(* Where the CancelledError surfaces.                                      *)

\* Before the first step: no handler runs.  A drained slot is finalized by the main
\* loop; the finally clause that would release a pending one never runs.
CancelBeforeStart(t) ==
  /\ sig[t] /\ ex[t] \in {"ready", "rready"}
  /\ slots' = (slots \ {LiveSlot(t)}) \cup {[LiveSlot(t) EXCEPT !.fut = "cancelled"]}
  /\ Goto(t, "none")
  /\ sig' = [sig EXCEPT ![t] = FALSE]
  /\ UNCHANGED <<tableVars, submits>> /\ ExecFrame

\* Inside the try block, or around the success write: the handler finalizes.
CancelWhileWorking(t) ==
  /\ sig[t] /\ ex[t] \in Working \cup {"rwait", "ok"}
  /\ Goto(t, "raise")
  /\ sig' = [sig EXCEPT ![t] = FALSE]
  /\ UNCHANGED <<tableVars, slots, submits>> /\ ExecFrame

\* Inside another handler: the shielded write is over (a refresh lands, a guarded write
\* finds no running row) and the error leaves _process_task; _run_one still catches it.
CancelWhileClosing(t) ==
  /\ sig[t] /\ ex[t] \in {"bad", "drift", "putback"}
  /\ \/ ex[t] = "drift" /\ \E p \in Providers \ {LiveSlot(t).prov} : PersistProvider(t, p)
     \/ ex[t] # "drift" /\ UNCHANGED tableVars
  /\ IF Resumed(t) THEN Goto(t, "raise") /\ UNCHANGED slots ELSE EndExecutor(t, "cancelled")
  /\ sig' = [sig EXCEPT ![t] = FALSE]
  /\ UNCHANGED submits /\ ExecFrame

ExecStep(t) ==
  \/ StartExecutor(t) \/ DetectDrift(t) \/ CrossSubmitBoundary(t) \/ Submit(t) \/ LoseAnswer(t)
  \/ SaveJob(t) \/ Return(t) \/ Raise(t)
  \/ CloseOk(t) \/ CloseBad(t) \/ CloseDrift(t) \/ ClosePutback(t) \/ CloseCancel(t)
  \/ ResumeStart(t)
  \/ CancelBeforeStart(t) \/ CancelWhileWorking(t) \/ CancelWhileClosing(t)

-----------------------------------------------------------------------------
(* The server around the worker.                                           *)

Serving == pc \notin {"down", "stopping"}

ClientEnqueue == Serving /\ EnqueueTask /\ UNCHANGED workerVars
ClientCancel(c) == Serving /\ (CancelRead(c) \/ SweepRead(c)) /\ UNCHANGED workerVars
CancelRequest(c) == Serving /\ CancelWrite(c) /\ UNCHANGED workerVars

\* The synchronous worker callback for every task the transaction asked to stop.
CancelCallback(c) ==
  /\ Serving
  /\ api[c].pc = "signal" /\ RequestCancel(api[c].tasks, {})
  /\ CancelSignal(c)
  /\ UNCHANGED <<loopVars, slots, ex, submits, restarts, limits>>

\* stop(): seen at the top of the loop, once the server has answered its requests.
Stop ==
  /\ pc = "drain" /\ restarts < MaxRestarts
  /\ \A c \in Cancellers : api[c].pc = "idle"
  /\ pc' = "stopping" /\ restarts' = restarts + 1
  /\ UNCHANGED <<vars, lane, tried, cur, curProv, todo, resume, execState, submits, limits>>

\* _wait_inflight_completion: futures are awaited and forgotten, not drained.
Stopped ==
  /\ pc = "stopping" /\ resume = {}
  /\ \A s \in slots : s.fut # "live"
  /\ pc' = "down" /\ slots' = {}
  /\ UNCHANGED <<vars, lane, tried, cur, curProv, todo, resume, ex, sig, submits, restarts, limits>>

\* The process dies: everything that is not in the database or at the provider is gone.
Crash ==
  /\ pc # "down" /\ restarts < MaxRestarts
  /\ restarts' = restarts + 1
  /\ pc' = "down"
  /\ lane' = 1 /\ tried' = {} /\ cur' = NoTask /\ curProv' = NoProvider /\ todo' = {} /\ resume' = {}
  /\ slots' = {} /\ ex' = [t \in Tasks |-> "none"] /\ sig' = [t \in Tasks |-> FALSE]
  /\ Restart
  /\ UNCHANGED <<submits, limits>>

\* A new process loads its limits from a configuration that may have been edited since.
Boot ==
  /\ pc = "down"
  /\ pc' = "boot" /\ limits' \in CapacityTables
  /\ UNCHANGED <<vars, lane, tried, cur, curProv, todo, resume, execState, submits, restarts>>

WorkerNext ==
  \/ ClientEnqueue
  \/ \E c \in Cancellers : ClientCancel(c) \/ CancelRequest(c) \/ CancelCallback(c)
  \/ LoopStep
  \/ \E t \in resume : DispatchUnsupported(t)
  \/ \E t \in Tasks : ExecStep(t)
  \/ Stop \/ Stopped \/ Crash \/ Boot

WorkerSpec == WorkerInit /\ [][WorkerNext]_allVars

\* The event loop runs every coroutine that is ready, and a provider call ends: the
\* backends poll with a timeout.  Nobody has to enqueue, cancel, stop or crash.
Fairness ==
  /\ WF_allVars(LoopStep)
  /\ \A t \in Tasks : WF_allVars(ExecStep(t)) /\ WF_allVars(DispatchUnsupported(t))
  /\ \A c \in Cancellers : WF_allVars(CancelRequest(c)) /\ WF_allVars(CancelCallback(c))
  /\ WF_allVars(Stopped) /\ WF_allVars(Boot)
FairWorkerSpec == WorkerSpec /\ Fairness

-----------------------------------------------------------------------------
(* What the worker promises.                                               *)

\* The worker uses the table only in ways the queue allows.
QueueSpec == Spec

\* Some coroutine, or the next orphan scan, still has t on its list.
Owned(t) ==
  \/ ex[t] # "none" \/ cur = t \/ t \in resume
  \/ \E o \in todo : o.task = t
  \/ \E s \in Finished : s.task = t /\ s.fut = "cancelled"
  \/ pc \in {"down", "boot", "stopping"}

\* A task shown as running is really being looked after: no interleaving of claims,
\* drifts, drains, stops and crashes leaves a running row to nobody.
RunningIsOwned == \A t \in Tasks : status[t] = "running" => Owned(t)

\* The same for cancelling, which nothing but the worker ever ends (ADR 0006).
CancellingIsOwned == \A t \in Tasks : status[t] = "cancelling" => Owned(t)

\* ADR 0007: the create call of a task is entered at most once, whatever restarts,
\* requeues after a provider drift, and resumes the task goes through: a provider that
\* charged a second time did so for a repeat inside that one call, which only the plain
\* retry decorator makes (ark.py:292, gemini.py:214, openai.py:350; the other video
\* backends hand the ambiguous answer to the user, base.py:241-258); and what a restarted
\* server picks up again was paid for, wherever the crash fell between the checkpoint,
\* the submit and the saved job.
NoDoubleCharge ==
  \A t \in Tasks :
    /\ submits[t].paid <= 1 + submits[t].again
    /\ submits[t].again > 0 =>
         \E p \in Providers : <<p, MediaOf[t]>> \in Repeating /\ (IsVideo(t) => p = provider[t])
    /\ t \in resume \/ ex[t] \in {"rready", "rwait", "rpoll"} => submits[t].paid > 0

\* A provider never runs more executors of a lane at once than the table allows, new
\* claims and resumed orphans taken together.
Inflight(p, m) == {s \in Bucket(p, m) : ~s.pending /\ s.fut = "live"}
CapacityRespected ==
  \A p \in Providers, m \in Media : Cardinality(Inflight(p, m)) <= limits[<<p, m>>]

\* Two executors never work on the same resource at the same time.
OneExecutorPerResource ==
  \A t, u \in Tasks :
    ex[t] \in Working /\ ex[u] \in Working /\ KeyOf[t] = KeyOf[u] => t = u

\* A cancelled task stops: every cancelling row ends up cancelled.
CancelConverges ==
  \A t \in Tasks : status[t] = "cancelling" ~> status[t] = "cancelled"

\* A claimed task leaves the running state.
RunEnds == \A t \in Tasks : status[t] = "running" ~> status[t] # "running"
=============================================================================
