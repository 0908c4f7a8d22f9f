----------------------- MODULE GenerationWorkerProofs -----------------------
(***************************************************************************)
(* Proofs about the worker, for any number of tasks, providers, lanes and  *)
(* concurrent cancel requests, any capacity tables and any number of       *)
(* stops and crashes.  Every step of the server process is a step the      *)
(* queue allows, so all that TaskQueueProofs proves of the table holds     *)
(* with the worker around it; and the worker keeps its own promises about  *)
(* the rows it runs, the requests it pays for and the slots it fills.      *)
(***************************************************************************)
EXTENDS GenerationWorker, TaskQueueProofs, FiniteSetTheorems

-----------------------------------------------------------------------------
(* The inductive invariant.                                                *)

\* The main loop holds a task in `cur`, and has claimed it.
Holding == {"take", "project", "unsupported", "refresh", "requeue"}
Claimed == Holding \ {"take"}
\* A row that was claimed at some time and has not been put back since.
Begun == Statuses \ {"absent", "queued"}
Resuming == {"rready", "rwait", "rpoll"}
Stopping == {"cancelling", "cancelled"}

\* WorkerTypeOK, its last conjunct apart.
WorkerTyped ==
  /\ limits \in CapacityTables
  /\ pc \in LoopStates
  /\ lane \in 1..Len(Lanes)
  /\ tried \subseteq Tasks
  /\ cur \in Tasks \cup {NoTask}
  /\ curProv \in Providers \cup {NoProvider}
  /\ todo \subseteq [task : Tasks, seen : {"running", "cancelling"}]
  /\ resume \subseteq Tasks
  /\ slots \subseteq Slot
  /\ ex \in [Tasks -> ExecStates]
  /\ sig \in [Tasks -> BOOLEAN]
  /\ submits \in [Tasks -> [paid : Nat, again : 0..(MaxAttempts - 1)]]
  /\ restarts \in 0..MaxRestarts

\* The live entries of the SlotTable are the live coroutines.
SlotsMatch ==
  /\ \A r, s \in slots : r.task = s.task /\ r.fut = "live" /\ s.fut = "live" => r = s
  /\ \A t \in Tasks : ex[t] # "none" <=> \E s \in slots : s.task = t /\ s.fut = "live"

\* What the local variables of the main loop say about the table: the task it holds has
\* no executor, the row the claim SELECT showed has not been claimed by anybody else and
\* its dependency has not become unfinished, a fresh process has no slot yet.
LoopHolds ==
  /\ pc \in Holding <=> cur # NoTask
  /\ pc \in Holding => ex[cur] = "none" /\ cur \notin resume /\ MediaOf[cur] = Lanes[lane]
  /\ pc = "take" => status[cur] \in {"queued"} \cup Terminal /\ DependencyMet(cur)
  /\ pc \in Claimed => status[cur] \in Begun
  /\ pc \in {"unsupported", "refresh"} => curProv \in Providers
  /\ todo # {} => pc = "scan"
  /\ pc \in {"down", "boot", "scan"} => slots = {}
  /\ pc \in {"down", "boot"} => resume = {}

\* A row somebody works on, or an orphan, is not in the queue; nobody works on an orphan
\* that waits for its bucket to be dispatched.
RowsBegun ==
  \A t \in Tasks :
    /\ ex[t] # "none" \/ t \in resume \/ (\E o \in todo : o.task = t) => status[t] \in Begun
    /\ t \in resume => ex[t] = "none"

\* Only rows that were asked to stop are ever signalled.
Signalled ==
  /\ \A t \in Tasks : sig[t] => status[t] \in Stopping
  /\ \A c \in Cancellers : api[c].pc = "signal" =>
       \A t \in api[c].tasks : status[t] \in Stopping

\* The create call of the provider t went to, the one its row names if t is a video, is
\* repeated.
RepeatedBy(t) ==
  \E p \in Providers : <<p, MediaOf[t]>> \in Repeating /\ (IsVideo(t) => p = provider[t])

\* What the checkpoint, the job id and the place of the executor say about the requests
\* the provider accepted.
PaidFor(t) ==
  /\ submits[t].paid \in {submits[t].again, submits[t].again + 1}
  /\ submits[t].again > 0 => RepeatedBy(t)
  /\ checkpoint[t] => IsVideo(t) /\ status[t] # "absent" /\ provider[t] \in Providers
  /\ job[t] => submits[t].paid > 0
  /\ IsVideo(t) /\ submits[t].paid > 0 => checkpoint[t]
  /\ ex[t] = "ckpt" => IsVideo(t) /\ checkpoint[t] /\ submits[t].paid = submits[t].again
  /\ ex[t] = "ckpt" => \A s \in slots : s.task = t /\ s.fut = "live" => s.prov = provider[t]
  /\ ex[t] = "run" => ~checkpoint[t] /\ submits[t].paid = submits[t].again
  /\ ex[t] = "accepted" => checkpoint[t] /\ submits[t].paid > 0
  /\ ex[t] \in {"drift", "putback"} => IsVideo(t) /\ ~checkpoint[t]
  /\ t \in resume => checkpoint[t]
  /\ t \in resume \/ ex[t] \in Resuming => submits[t].paid > 0
  /\ ex[t] = "ready" \/ cur = t \/ status[t] \in {"absent", "queued"}
       => ~checkpoint[t] /\ submits[t].paid = 0
Paid == \A t \in Tasks : PaidFor(t)

\* A bucket that took a new claim holds no more than its limit, orphans included; one
\* that did not is bounded by the semaphore of its orphans.
Semaphore(p) == {s \in slots : s.resume /\ ~s.pending /\ s.fut = "live" /\ s.prov = p}
Room ==
  /\ IsFiniteSet(slots)
  /\ \A s \in slots : s.resume => IsVideo(s.task)
  /\ \A s \in slots : s.fut = "live" /\ ex[s.task] \in {"rready", "rwait"} => s.resume
  /\ \A p \in Providers, m \in Media :
       (\E s \in Bucket(p, m) : ~s.resume) => Occupied(p, m) <= limits[<<p, m>>]
  /\ \A p \in Providers : Cardinality(Semaphore(p)) <= limits[<<p, VideoMedia>>]

WorkerInv ==
  /\ TypeOK /\ WorkerTyped
  /\ SlotsMatch /\ LoopHolds /\ RowsBegun /\ Signalled /\ Paid /\ Room /\ RunningIsOwned

-----------------------------------------------------------------------------
(* Every step of the worker is a step of the queue.                        *)

LEMMA AttemptsAreNat ==
  ASSUME NEW n \in 0..(MaxAttempts - 1)
  PROVE  n \in Nat
  BY RepeatingAssumption

\* The entry an executor finds is the one live entry of its task.
LEMMA LiveSlotIs ==
  ASSUME SlotsMatch, NEW t \in Tasks, ex[t] # "none"
  PROVE  /\ LiveSlot(t) \in slots /\ LiveSlot(t).task = t /\ LiveSlot(t).fut = "live"
         /\ LiveSlots(t) = {LiveSlot(t)}
<1>1. \E s \in LiveSlots(t) : TRUE
  BY DEF SlotsMatch, LiveSlots
<1>2. LiveSlot(t) \in LiveSlots(t)
  BY <1>1 DEF LiveSlot
<1>3. ASSUME NEW s \in LiveSlots(t) PROVE s = LiveSlot(t)
  BY <1>2, <1>3 DEF LiveSlots, SlotsMatch
<1> QED BY <1>2, <1>3 DEF LiveSlots

\* mark_task_cancelled and mark_task_failed as the worker calls them.
LEMMA FinalizeIsQueueStep ==
  ASSUME NEW t \in Tasks, NEW over, FinalizeCancelled(t, over), UNCHANGED api
  PROVE  [Next]_vars
  BY DEF FinalizeCancelled, Next, FinishTask, vars
LEMMA FailIsQueueStep ==
  ASSUME NEW t \in Tasks, FailOrCancel(t), UNCHANGED api
  PROVE  [Next]_vars
  BY FinalizeIsQueueStep DEF FailOrCancel, Next, FinishTask

\* The UPDATE of the claim takes a row that a claim SELECT of the same moment could
\* have returned: it is still queued, and a dependency that was met stays met.
LEMMA TakeIsQueueStep ==
  ASSUME WorkerInv, ClaimTake
  PROVE  [Next]_vars
<1>1. cur \in Tasks /\ DependencyMet(cur)
  BY NoTaskAssumption DEF WorkerInv, WorkerTyped, LoopHolds, ClaimTake, Holding
<1>2. CASE ClaimNext(cur)
  <2> DEFINE others == Tasks \ {cur}
  <2>1. status[cur] = "queued"
    BY <1>2 DEF ClaimNext
  <2>2. Claimable(MediaOf[cur], {}, others) = {cur}
    BY <1>1, <2>1 DEF Claimable
  <2>3. OldestClaimable(cur, MediaOf[cur], {}, others)
    <3>1. queuedAt[cur] \in Nat
      BY <1>1 DEF WorkerInv, TypeOK, TableTypeOK
    <3> QED BY <2>2, <3>1 DEF OldestClaimable
  <2>4. MediaOf[cur] \in Media /\ {} \in SUBSET Providers /\ others \in SUBSET Tasks
    BY <1>1, MediaAssumption
  <2>5. UNCHANGED api
    BY DEF ClaimTake
  <2> HIDE DEF others
  <2>6. ClaimTask
    BY <1>1, <1>2, <2>3, <2>4, <2>5 DEF ClaimTask
  <2> QED BY <2>6 DEF Next
<1>3. CASE UNCHANGED tableVars
  BY <1>3 DEF ClaimTake, vars
<1> QED BY <1>2, <1>3 DEF ClaimTake

LEMMA ExecIsQueueStep ==
  ASSUME WorkerInv, NEW t \in Tasks, ExecStep(t)
  PROVE  [Next]_vars
<1>0. ex[t] # "none" => status[t] # "absent"
  BY DEF WorkerInv, RowsBegun, Begun
<1>1. ex[t] # "none" => LiveSlot(t).prov \in Providers
  BY LiveSlotIs DEF WorkerInv, WorkerTyped, Slot
<1>2. CASE StartExecutor(t) \/ DetectDrift(t) \/ Submit(t) \/ LoseAnswer(t) \/ Return(t) \/ Raise(t)
           \/ ResumeStart(t) \/ CancelBeforeStart(t) \/ CancelWhileWorking(t)
  BY <1>2 DEF StartExecutor, DetectDrift, Submit, LoseAnswer, Submitting, Return, Raise,
              ResumeStart, CancelBeforeStart, CancelWhileWorking, ExecFrame, vars
<1>3. CASE CrossSubmitBoundary(t)
  <2>1. UNCHANGED api /\ ex[t] # "none"
    BY <1>3 DEF CrossSubmitBoundary, ExecFrame
  <2>2. CASE PersistCheckpoint(t, LiveSlot(t).prov)
    BY <1>0, <1>1, <2>1, <2>2 DEF PersistExecution, Next
  <2>3. CASE UNCHANGED tableVars
    BY <2>1, <2>3 DEF vars
  <2> QED BY <1>3, <2>2, <2>3 DEF CrossSubmitBoundary
<1>4. CASE SaveJob(t)
  <2>1. UNCHANGED api /\ ex[t] # "none" /\ PersistJob(t) /\ checkpoint[t]
    BY <1>4 DEF SaveJob, ExecFrame, WorkerInv, Paid, PaidFor
  <2> QED BY <1>0, <2>1 DEF PersistExecution, Next
<1>5. CASE CloseOk(t) \/ CloseBad(t)
  BY <1>5 DEF CloseOk, CloseBad, ExecFrame, FinishTask, Next, vars
<1>6. CASE CloseDrift(t)
  <2>1. UNCHANGED api /\ ex[t] # "none" /\ \E p \in Providers : PersistProvider(t, p)
    BY <1>6 DEF CloseDrift, ExecFrame
  <2> QED BY <1>0, <2>1 DEF PersistExecution, Next
<1>7. CASE ClosePutback(t)
  <2>1. UNCHANGED api /\ {t} \in SUBSET Tasks
    BY <1>7 DEF ClosePutback, ExecFrame
  <2>2. Requeue({t}) \/ UNCHANGED tableVars
    BY <1>7 DEF ClosePutback
  <2> QED BY <2>1, <2>2 DEF RequeueTasks, Next, vars
<1>8. CASE CloseCancel(t)
  BY <1>8, FinalizeIsQueueStep DEF CloseCancel, ExecFrame
<1>9. CASE CancelWhileClosing(t)
  <2>1. UNCHANGED api /\ ex[t] # "none"
    BY <1>9 DEF CancelWhileClosing, ExecFrame
  <2>2. UNCHANGED tableVars \/ \E p \in Providers : PersistProvider(t, p)
    BY <1>9 DEF CancelWhileClosing
  <2> QED BY <1>0, <2>1, <2>2 DEF PersistExecution, Next, vars
<1> QED BY <1>2, <1>3, <1>4, <1>5, <1>6, <1>7, <1>8, <1>9 DEF ExecStep

LEMMA LoopIsQueueStep ==
  ASSUME WorkerInv, LoopStep
  PROVE  [Next]_vars
<1>1. CASE ScanList \/ ScanDone \/ DrainDone \/ ClaimNone \/ ClaimSelect \/ Project
  BY <1>1 DEF ScanList, ScanDone, DrainDone, ClaimNone, ClaimSelect, Project
<1>2. ASSUME NEW o \in todo, ScanOrphan(o) PROVE [Next]_vars
  <2>1. o.task \in Tasks
    BY DEF WorkerInv, WorkerTyped
  <2>2. UNCHANGED api
    BY <1>2 DEF ScanOrphan
  <2>3. FinalizeCancelled(o.task, {}) \/ FailOrCancel(o.task) \/ UNCHANGED tableVars
    BY <1>2 DEF ScanOrphan
  <2> QED BY <2>1, <2>2, <2>3, FinalizeIsQueueStep, FailIsQueueStep DEF vars
<1>3. ASSUME NEW s \in slots, DrainOne(s) PROVE [Next]_vars
  <2>1. s.task \in Tasks
    BY DEF WorkerInv, WorkerTyped, Slot
  <2>2. UNCHANGED api
    BY <1>3 DEF DrainOne
  <2>3. FinalizeCancelled(s.task, {}) \/ UNCHANGED tableVars
    BY <1>3 DEF DrainOne
  <2> QED BY <2>1, <2>2, <2>3, FinalizeIsQueueStep DEF vars
<1>4. CASE ClaimTake
  BY <1>4, TakeIsQueueStep
<1>5. CASE RejectUnsupported \/ RefreshProvider \/ RequeueFull
  <2>1. UNCHANGED api
    BY <1>5 DEF RejectUnsupported, RefreshProvider, RequeueFull
  <2>2. cur \in Tasks /\ status[cur] # "absent"
    BY <1>5 DEF WorkerInv, WorkerTyped, LoopHolds, Holding, Claimed, Begun, RejectUnsupported,
                RefreshProvider, RequeueFull
  <2>3. CASE RejectUnsupported
    BY <2>1, <2>2, <2>3 DEF RejectUnsupported, FinishTask, Next, vars
  <2>4. CASE RefreshProvider
    <3>1. curProv \in Providers /\ PersistProvider(cur, curProv)
      BY <2>4 DEF RefreshProvider, WorkerInv, LoopHolds
    <3> QED BY <2>1, <2>2, <3>1 DEF PersistExecution, Next
  <2>5. CASE RequeueFull
    <3>1. {cur} \in SUBSET Tasks /\ (Requeue({cur}) \/ UNCHANGED tableVars)
      BY <2>2, <2>5 DEF RequeueFull
    <3> QED BY <2>1, <3>1 DEF RequeueTasks, Next, vars
  <2> QED BY <1>5, <2>3, <2>4, <2>5
<1> QED BY <1>1, <1>2, <1>3, <1>4, <1>5 DEF LoopStep

\* Whatever the server process does, the table sees a step the queue allows.
LEMMA WorkerIsQueueStep ==
  ASSUME WorkerInv, [WorkerNext]_allVars
  PROVE  [Next]_vars
<1>1. CASE ClientEnqueue
  BY <1>1 DEF ClientEnqueue, Next
<1>2. ASSUME NEW c \in Cancellers, ClientCancel(c) \/ CancelRequest(c) \/ CancelCallback(c)
      PROVE  [Next]_vars
  BY <1>2 DEF ClientCancel, CancelRequest, CancelCallback, CancelStep, Next
<1>3. ASSUME NEW t \in resume, DispatchUnsupported(t) PROVE [Next]_vars
  BY <1>3, FailIsQueueStep DEF DispatchUnsupported, WorkerInv, WorkerTyped
<1>4. CASE Stop \/ Stopped \/ Boot
  BY <1>4 DEF Stop, Stopped, Boot
<1>5. CASE Crash
  BY <1>5 DEF Crash, Next
<1>6. CASE UNCHANGED allVars
  BY <1>6 DEF allVars
<1> QED
  BY <1>1, <1>2, <1>3, <1>4, <1>5, <1>6, LoopIsQueueStep, ExecIsQueueStep DEF WorkerNext

-----------------------------------------------------------------------------
(* What a step does to the rows.                                           *)

\* The row of u is left alone, inserted, closed or asked to stop; it is neither claimed
\* nor put back.
Calm(u) ==
  \/ status'[u] = status[u]
  \/ <<status[u], status'[u]>> \in Moves \ {<<"queued", "running">>, <<"running", "queued">>}

LEMMA CalmWrites ==
  ASSUME TableTypeOK, NEW u \in Tasks,
         \/ \E t \in Tasks : \/ MarkSucceeded(t) \/ MarkFailed(t) \/ MarkCancelled(t, "user")
                             \/ MarkCancelling(t, "user") \/ ExecutionWrite(t)
         \/ \E t \in Tasks : \E d, p : Enqueue(t, d, p)
         \/ \E prj, listed : CancelAllQueued(prj, listed)
         \/ UNCHANGED tableVars
  PROVE  Calm(u)
<1> USE DEF TableTypeOK, Moves, Calm
<1>1. ASSUME NEW t \in Tasks, NEW d, NEW p, Enqueue(t, d, p) PROVE Calm(u)
  BY <1>1 DEF Enqueue
<1>2. ASSUME NEW t \in Tasks, MarkSucceeded(t) \/ MarkCancelling(t, "user") PROVE Calm(u)
  BY <1>2 DEF MarkSucceeded, MarkCancelling
<1>3. ASSUME NEW t \in Tasks, MarkFailed(t) PROVE Calm(u)
  BY <1>3, DependentsAreQueued DEF MarkFailed
<1>4. ASSUME NEW t \in Tasks, MarkCancelled(t, "user") PROVE Calm(u)
  <2>1. u \in CancelClosure(t) => status[u] \in Active
    BY <1>4, DependentsAreQueued DEF CancelClosure, MarkCancelled, Active
  <2>2. u \in CascadeSignalled(t) => status[u] = "running"
    BY DEF CascadeSignalled
  <2> QED BY <1>4, <2>1, <2>2 DEF MarkCancelled, Active
<1>5. ASSUME NEW t \in Tasks, ExecutionWrite(t) PROVE Calm(u)
  BY <1>5 DEF ExecutionWrite, PersistJob, PersistProvider, PersistCheckpoint, outcomeVars
<1>6. ASSUME NEW prj, NEW listed, CancelAllQueued(prj, listed) PROVE Calm(u)
  BY <1>6 DEF CancelAllQueued, QueuedIn
<1>7. CASE UNCHANGED tableVars
  BY <1>7 DEF tableVars, outcomeVars
<1> QED BY <1>1, <1>2, <1>3, <1>4, <1>5, <1>6, <1>7

\* Clients never claim and never put back.
LEMMA ClientsAreCalm ==
  ASSUME TypeOK, NEW u \in Tasks, EnqueueTask \/ \E c \in Cancellers : CancelStep(c)
  PROVE  Calm(u)
<1> USE DEF TypeOK
<1>1. CASE EnqueueTask
  BY <1>1, CalmWrites DEF EnqueueTask
<1>2. ASSUME NEW c \in Cancellers, CancelStep(c) PROVE Calm(u)
  <2>1. CASE CancelRead(c) \/ SweepRead(c) \/ DispatchSettled(c) \/ CancelSignal(c)
    BY <2>1, CalmWrites DEF CancelRead, SweepRead, DispatchSettled, CancelSignal
  <2>2. CASE DispatchQueued(c)
    <3>1. api[c].task \in Tasks
      BY <2>2, RequestFields DEF DispatchQueued
    <3> QED BY <2>2, <3>1, CalmWrites DEF DispatchQueued
  <2>3. CASE DispatchRunning(c)
    <3>1. api[c].task \in Tasks
      BY <2>3, RequestFields DEF DispatchRunning
    <3> QED BY <2>3, <3>1, CalmWrites DEF DispatchRunning
  <2>4. CASE SweepWrite(c)
    BY <2>4, CalmWrites DEF SweepWrite
  <2> QED BY <1>2, <2>1, <2>2, <2>3, <2>4 DEF CancelStep, CancelWrite
<1> QED BY <1>1, <1>2

\* The outcome the worker writes for t leaves t neither running nor cancelling, whichever
\* of its branches it takes, and touches no other row but to close or stop it.
LEMMA FinalizeCloses ==
  ASSUME TypeOK, NEW t \in Tasks, NEW over, FinalizeCancelled(t, over)
  PROVE  /\ status'[t] \notin {"running", "cancelling"}
         /\ \A u \in Tasks : Calm(u)
         /\ UNCHANGED <<rowVars, execVars>>
<1> USE DEF TypeOK
<1>1. CASE MarkCancelled(t, "user")
  BY <1>1, CalmWrites DEF MarkCancelled, CancelClosure
<1>2. CASE status[t] \notin Active /\ UNCHANGED tableVars
  BY <1>2, CalmWrites DEF tableVars, outcomeVars, Active
<1> QED BY <1>1, <1>2 DEF FinalizeCancelled
LEMMA FailCloses ==
  ASSUME TypeOK, NEW t \in Tasks, FailOrCancel(t)
  PROVE  /\ status'[t] \notin {"running", "cancelling"}
         /\ \A u \in Tasks : Calm(u)
         /\ UNCHANGED <<rowVars, execVars>>
<1>1. CASE MarkFailed(t)
  BY <1>1, CalmWrites DEF MarkFailed, TypeOK
<1>2. CASE FinalizeCancelled(t, {})
  BY <1>2, FinalizeCloses
<1> QED BY <1>1, <1>2 DEF FailOrCancel

\* Signals go to rows that are asked to stop in the same step.
LEMMA FinalizeSignals ==
  ASSUME WorkerTyped, NEW t \in Tasks, NEW over, FinalizeCancelled(t, over)
  PROVE  /\ sig' \in [Tasks -> BOOLEAN]
         /\ \A u \in Tasks : sig'[u] => (sig[u] /\ u \notin over) \/ status'[u] \in Stopping
<1>1. PICK S : RequestCancel(S, over) /\ S \in {{}, CascadeSignalled(t)}
               /\ (S = {} \/ MarkCancelled(t, "user"))
  BY DEF FinalizeCancelled
<1>2. PICK hit \in SUBSET S : sig' = [u \in Tasks |-> u \notin over /\ (sig[u] \/ u \in hit)]
  BY <1>1 DEF RequestCancel
<1>3. sig' \in [Tasks -> BOOLEAN]
  BY <1>2, Zenon
<1>4. \A u \in Tasks : sig'[u] => (sig[u] /\ u \notin over) \/ u \in S
  BY <1>2
<1>5. \A u \in S : u \in Tasks /\ status'[u] = "cancelling"
  <2>1. CASE S = {}
    BY <2>1
  <2>2. CASE S = CascadeSignalled(t) /\ MarkCancelled(t, "user")
    BY <2>2 DEF MarkCancelled, CascadeSignalled
  <2> QED BY <1>1, <2>1, <2>2
<1> QED BY <1>3, <1>4, <1>5 DEF Stopping

\* A row is only claimed by the main loop, which then holds it, and only put back by the
\* main loop, which then lets it go, or by its own executor, which then is over.
Claims(u) ==
  /\ status[u] = "queued" /\ status'[u] = "running"
  /\ pc = "take" /\ u = cur /\ pc' = "project" /\ cur' = cur
PutsBack(u) ==
  /\ status[u] = "running" /\ status'[u] = "queued"
  /\ \/ pc = "requeue" /\ u = cur /\ pc' \in {"claim", "drain"} /\ cur' = NoTask
     \/ ex[u] = "putback" /\ ex'[u] = "none"

LEMMA ExecRows ==
  ASSUME WorkerInv, NEW t \in Tasks, ExecStep(t), NEW u \in Tasks
  PROVE  Calm(u) \/ (u = t /\ PutsBack(u))
<1> USE DEF WorkerInv, TypeOK
<1>1. CASE StartExecutor(t) \/ DetectDrift(t) \/ Submit(t) \/ LoseAnswer(t) \/ Return(t) \/ Raise(t)
           \/ ResumeStart(t) \/ CancelBeforeStart(t) \/ CancelWhileWorking(t)
  <2>1. UNCHANGED tableVars
    BY <1>1 DEF StartExecutor, DetectDrift, Submit, LoseAnswer, Submitting, Return, Raise,
                ResumeStart, CancelBeforeStart, CancelWhileWorking
  <2> QED BY <2>1, CalmWrites
<1>2. CASE CrossSubmitBoundary(t) \/ SaveJob(t) \/ CloseDrift(t) \/ CancelWhileClosing(t)
  <2>1. status' = status
    BY <1>2 DEF CrossSubmitBoundary, SaveJob, CloseDrift, CancelWhileClosing, PersistCheckpoint,
                PersistJob, PersistProvider, outcomeVars, tableVars
  <2> QED BY <2>1 DEF Calm
<1>3. CASE CloseOk(t) \/ CloseBad(t)
  <2>1. MarkSucceeded(t) \/ MarkFailed(t) \/ UNCHANGED tableVars
    BY <1>3 DEF CloseOk, CloseBad
  <2> QED BY <2>1, CalmWrites
<1>4. CASE ClosePutback(t)
  <2>1. CASE Requeue({t}) /\ EndExecutor(t, "done")
    <3>1. status' = [v \in Tasks |-> IF v \in {t} THEN "queued" ELSE status[v]] /\ status[t] = "running"
      BY <2>1 DEF Requeue
    <3>2. ex' = [ex EXCEPT ![t] = "none"] /\ ex[t] = "putback"
      BY <1>4, <2>1 DEF ClosePutback, EndExecutor
    <3>3. ex'[t] = "none"
      BY <3>2 DEF WorkerTyped
    <3> QED BY <3>1, <3>2, <3>3 DEF Calm, PutsBack
  <2>2. CASE UNCHANGED tableVars
    BY <2>2, CalmWrites
  <2> QED BY <1>4, <2>1, <2>2 DEF ClosePutback
<1>5. CASE CloseCancel(t)
  BY <1>5, FinalizeCloses DEF CloseCancel
<1> QED BY <1>1, <1>2, <1>3, <1>4, <1>5 DEF ExecStep

LEMMA LoopRows ==
  ASSUME WorkerInv, LoopStep, NEW u \in Tasks
  PROVE  Calm(u) \/ Claims(u) \/ PutsBack(u)
<1> USE DEF WorkerInv, TypeOK
<1>1. CASE ScanList \/ ScanDone \/ DrainDone \/ ClaimNone \/ ClaimSelect \/ Project
  <2>1. UNCHANGED vars
    BY <1>1 DEF ScanList, ScanDone, DrainDone, ClaimNone, ClaimSelect, Project
  <2> QED BY <2>1, CalmWrites DEF vars
<1>2. ASSUME NEW o \in todo, ScanOrphan(o) PROVE Calm(u)
  <2>1. o.task \in Tasks
    BY DEF WorkerTyped
  <2>2. FinalizeCancelled(o.task, {}) \/ FailOrCancel(o.task) \/ UNCHANGED tableVars
    BY <1>2 DEF ScanOrphan
  <2> QED BY <2>1, <2>2, FinalizeCloses, FailCloses, CalmWrites
<1>3. ASSUME NEW s \in slots, DrainOne(s) PROVE Calm(u)
  <2>1. s.task \in Tasks
    BY DEF WorkerTyped, Slot
  <2>2. FinalizeCancelled(s.task, {}) \/ UNCHANGED tableVars
    BY <1>3 DEF DrainOne
  <2> QED BY <2>1, <2>2, FinalizeCloses, CalmWrites
<1>4. CASE ClaimTake \/ RejectUnsupported \/ RefreshProvider \/ RequeueFull
  <2>1. cur \in Tasks
    BY <1>4 DEF WorkerTyped, LoopHolds, Holding, ClaimTake, RejectUnsupported, RefreshProvider, RequeueFull
  <2>2. CASE ClaimTake
    <3>1. CASE ClaimNext(cur) /\ pc' = "project" /\ UNCHANGED <<lane, tried, cur>>
      BY <2>1, <2>2, <3>1 DEF ClaimTake, ClaimNext, Calm, Claims, TableTypeOK
    <3>2. CASE UNCHANGED tableVars
      BY <3>2, CalmWrites
    <3> QED BY <2>2, <3>1, <3>2 DEF ClaimTake
  <2>3. CASE RejectUnsupported
    BY <2>1, <2>3, CalmWrites DEF RejectUnsupported
  <2>4. CASE RefreshProvider
    BY <2>4 DEF RefreshProvider, PersistProvider, outcomeVars, Calm
  <2>5. CASE RequeueFull
    <3>1. CASE Requeue({cur})
      <4>1. pc = "requeue" /\ pc' \in {"claim", "drain"} /\ cur' = NoTask
        BY <2>5 DEF RequeueFull, NextLane
      <4> QED BY <3>1, <4>1 DEF Requeue, Calm, PutsBack
    <3>2. CASE UNCHANGED tableVars
      BY <3>2, CalmWrites
    <3> QED BY <2>5, <3>1, <3>2 DEF RequeueFull
  <2> QED BY <1>4, <2>2, <2>3, <2>4, <2>5
<1> QED BY <1>1, <1>2, <1>3, <1>4 DEF LoopStep

\* What any step of the server does to any row.
LEMMA StatusStep ==
  ASSUME WorkerInv, [WorkerNext]_allVars, NEW u \in Tasks
  PROVE  Calm(u) \/ Claims(u) \/ PutsBack(u)
<1> USE DEF WorkerInv, TypeOK
<1>1. CASE ClientEnqueue
  BY <1>1, ClientsAreCalm DEF ClientEnqueue
<1>2. ASSUME NEW c \in Cancellers, ClientCancel(c) \/ CancelRequest(c) \/ CancelCallback(c)
      PROVE  Calm(u)
  BY <1>2, ClientsAreCalm DEF ClientCancel, CancelRequest, CancelCallback, CancelStep
<1>3. ASSUME NEW t \in resume, DispatchUnsupported(t) PROVE Calm(u)
  BY <1>3, FailCloses DEF DispatchUnsupported, WorkerTyped
<1>4. CASE Stop \/ Stopped \/ Boot \/ Crash \/ UNCHANGED allVars
  <2>1. UNCHANGED tableVars
    BY <1>4 DEF Stop, Stopped, Boot, Crash, Restart, allVars, vars
  <2> QED BY <2>1, CalmWrites
<1> QED BY <1>1, <1>2, <1>3, <1>4, LoopRows, ExecRows DEF WorkerNext

-----------------------------------------------------------------------------
(* What a step does to the SlotTable and the coroutines.                   *)

\* The executor of t goes on, gets its semaphore, or is over.
GoesOn(t) ==
  /\ slots' = slots
  /\ ex'[t] # "none"
  /\ ex'[t] \in {"rready", "rwait"} => ex[t] \in {"rready", "rwait"}
Promotes(t) ==
  /\ SemaphoreFree(LiveSlot(t).prov)
  /\ ex[t] \in {"rready", "rwait"} /\ ex'[t] = "rpoll"
  /\ slots' = Promoted(t)
Ends(t) ==
  /\ ex'[t] = "none"
  /\ \/ slots' = slots \ {LiveSlot(t)}
     \/ \E o \in {"done", "cancelled"} :
          slots' = (slots \ {LiveSlot(t)}) \cup {[LiveSlot(t) EXCEPT !.fut = o]}
ExecChange(t) ==
  /\ ex[t] # "none"
  /\ ex' \in [Tasks -> ExecStates]
  /\ \A u \in Tasks : u # t => ex'[u] = ex[u]
  /\ GoesOn(t) \/ Promotes(t) \/ Ends(t)
\* A claimed task gets an executor and an entry; so do the orphans a scan found.
Starts(p) ==
  /\ pc = "project" /\ HasRoom(p, Lanes[lane])
  /\ slots' = Registered(slots, NewSlot(cur, p, FALSE))
  /\ ex' = [ex EXCEPT ![cur] = "ready"]
Revives ==
  LET able == {t \in resume : limits[<<provider[t], VideoMedia>>] > 0} IN
  /\ pc = "scan"
  /\ slots' = slots \cup {NewSlot(t, provider[t], TRUE) : t \in able}
  /\ ex' = [t \in Tasks |-> IF t \in able THEN "rready" ELSE ex[t]]
SlotChange ==
  \/ UNCHANGED <<slots, ex, limits>>
  \/ limits' = limits /\ \E t \in Tasks : ExecChange(t)
  \/ limits' = limits /\ ex' = ex /\ \E s \in slots : s.fut # "live" /\ slots' = slots \ {s}
  \/ limits' = limits /\ \E p \in Providers : Starts(p)
  \/ limits' = limits /\ Revives
  \/ /\ slots' = {} /\ limits' \in CapacityTables
     /\ ex' \in [Tasks -> ExecStates] /\ \A t \in Tasks : ex'[t] = "none"

LEMMA ExecShape ==
  ASSUME WorkerTyped, NEW t \in Tasks, ExecStep(t)
  PROVE  /\ ExecChange(t)
         /\ UNCHANGED <<api, loopVars, restarts, limits>>
<1> USE DEF ExecFrame, ExecChange, WorkerTyped, ExecStates, Working, Closing, Goto
<1>e. ASSUME NEW o \in {"done", "cancelled"}, EndExecutor(t, o)
      PROVE  Ends(t) /\ ex' = [ex EXCEPT ![t] = "none"]
  BY <1>e DEF EndExecutor, Ends
<1>1. CASE StartExecutor(t) \/ DetectDrift(t) \/ Submit(t) \/ LoseAnswer(t) \/ Return(t) \/ Raise(t)
  BY <1>1 DEF StartExecutor, DetectDrift, Submit, LoseAnswer, Submitting, Return, Raise, GoesOn
<1>2. CASE CrossSubmitBoundary(t) \/ SaveJob(t) \/ CloseDrift(t) \/ CancelWhileWorking(t)
  BY <1>2 DEF CrossSubmitBoundary, SaveJob, CloseDrift, CancelWhileWorking, GoesOn
<1>3. CASE CloseOk(t)
  <2>1. CASE EndExecutor(t, "done")
    BY <1>3, <1>e, <2>1 DEF CloseOk
  <2>2. CASE Goto(t, "cancel") /\ slots' = slots
    BY <1>3, <2>2 DEF CloseOk, GoesOn
  <2> QED BY <1>3, <2>1, <2>2 DEF CloseOk
<1>4. CASE CloseBad(t)
  <2>1. CASE EndExecutor(t, "done")
    BY <1>4, <1>e, <2>1 DEF CloseBad
  <2>2. CASE Goto(t, "cancel") /\ slots' = slots
    BY <1>4, <2>2 DEF CloseBad, GoesOn
  <2> QED BY <1>4, <2>1, <2>2 DEF CloseBad
<1>5. CASE ClosePutback(t)
  <2>1. CASE EndExecutor(t, "done")
    BY <1>5, <1>e, <2>1 DEF ClosePutback
  <2>2. CASE Goto(t, "bad") /\ slots' = slots
    BY <1>5, <2>2 DEF ClosePutback, GoesOn
  <2> QED BY <1>5, <2>1, <2>2 DEF ClosePutback
<1>6. CASE CloseCancel(t)
  BY <1>6, <1>e DEF CloseCancel
<1>7. CASE ResumeStart(t)
  <2>1. CASE SemaphoreFree(LiveSlot(t).prov) /\ slots' = Promoted(t) /\ Goto(t, "rpoll")
    BY <1>7, <2>1 DEF ResumeStart, Promotes
  <2>2. CASE EndExecutor(t, "done")
    BY <1>7, <1>e, <2>2 DEF ResumeStart
  <2>3. CASE Goto(t, "rwait") /\ UNCHANGED slots
    BY <1>7, <2>3 DEF ResumeStart, GoesOn
  <2> QED BY <1>7, <2>1, <2>2, <2>3 DEF ResumeStart
<1>8. CASE CancelBeforeStart(t)
  BY <1>8 DEF CancelBeforeStart, Ends
<1>9. CASE CancelWhileClosing(t)
  <2>1. CASE Goto(t, "raise") /\ UNCHANGED slots
    BY <1>9, <2>1 DEF CancelWhileClosing, GoesOn
  <2>2. CASE EndExecutor(t, "cancelled")
    BY <1>9, <1>e, <2>2 DEF CancelWhileClosing
  <2> QED BY <1>9, <2>1, <2>2 DEF CancelWhileClosing
<1> HIDE DEF ExecChange
<1> QED BY <1>1, <1>2, <1>3, <1>4, <1>5, <1>6, <1>7, <1>8, <1>9 DEF ExecStep

LEMMA SlotStep ==
  ASSUME WorkerInv, [WorkerNext]_allVars
  PROVE  SlotChange
<1> USE DEF WorkerInv, execState
<1>1. CASE ClientEnqueue \/ UNCHANGED allVars
  BY <1>1 DEF ClientEnqueue, workerVars, allVars, SlotChange
<1>2. ASSUME NEW c \in Cancellers, ClientCancel(c) \/ CancelRequest(c) \/ CancelCallback(c)
      PROVE  SlotChange
  BY <1>2 DEF ClientCancel, CancelRequest, CancelCallback, workerVars, SlotChange
<1>3. ASSUME NEW t \in resume, DispatchUnsupported(t) PROVE SlotChange
  BY <1>3 DEF DispatchUnsupported, SlotChange
<1>4. ASSUME NEW t \in Tasks, ExecStep(t) PROVE SlotChange
  BY <1>4, ExecShape DEF SlotChange
<1>5. CASE ScanList \/ DrainDone \/ ClaimNone \/ ClaimSelect \/ ClaimTake
           \/ RejectUnsupported \/ RefreshProvider \/ RequeueFull \/ Stop
  BY <1>5 DEF ScanList, DrainDone, ClaimNone, ClaimSelect, ClaimTake, RejectUnsupported,
              RefreshProvider, RequeueFull, Stop, SlotChange
<1>6. ASSUME NEW o \in todo, ScanOrphan(o) PROVE SlotChange
  BY <1>6 DEF ScanOrphan, SlotChange
<1>7. CASE ScanDone
  BY <1>7 DEF ScanDone, Revives, SlotChange
<1>8. ASSUME NEW s \in slots, DrainOne(s) PROVE SlotChange
  BY <1>8 DEF DrainOne, Finished, SlotChange
<1>9. CASE Project
  <2>1. limits' = limits
    BY <1>9 DEF Project
  <2>2. CASE \E p \in Providers : Dispatch(p)
    BY <1>9, <2>1, <2>2 DEF Project, Dispatch, Goto, Starts, SlotChange
  <2>3. CASE UNCHANGED <<slots, ex>>
    BY <2>1, <2>3 DEF SlotChange
  <2> QED BY <1>9, <2>2, <2>3 DEF Project
<1>10. CASE Stopped
  <2>1. slots' = {} /\ ex' = ex /\ limits' = limits /\ \A s \in slots : s.fut # "live"
    BY <1>10 DEF Stopped
  <2>2. \A t \in Tasks : ex[t] = "none"
    BY <2>1 DEF SlotsMatch
  <2> QED BY <2>1, <2>2 DEF WorkerTyped, SlotChange
<1>11. CASE Crash
  BY <1>11 DEF Crash, SlotChange, WorkerTyped, ExecStates
<1>12. CASE Boot
  <2>1. slots' = slots /\ ex' = ex /\ limits' \in CapacityTables /\ slots = {}
    BY <1>12 DEF Boot, LoopHolds
  <2>2. \A t \in Tasks : ex[t] = "none"
    BY <2>1 DEF SlotsMatch
  <2> QED BY <2>1, <2>2 DEF WorkerTyped, SlotChange
<1> QED
  BY <1>1, <1>2, <1>3, <1>4, <1>5, <1>6, <1>7, <1>8, <1>9, <1>10, <1>11, <1>12
     DEF WorkerNext, LoopStep

\* The domains of the SlotTable and of the coroutines are kept: a resumed orphan crossed
\* the submit boundary, so its row names the provider its bucket is dispatched under.
LEMMA SlotsTyped ==
  ASSUME WorkerInv, SlotChange
  PROVE  slots' \subseteq Slot /\ ex' \in [Tasks -> ExecStates] /\ limits' \in CapacityTables
<1> USE DEF WorkerInv, WorkerTyped
<1>1. CASE UNCHANGED <<slots, ex, limits>>
  BY <1>1
<1>2. ASSUME limits' = limits, NEW t \in Tasks, ExecChange(t)
      PROVE  slots' \subseteq Slot /\ ex' \in [Tasks -> ExecStates] /\ limits' \in CapacityTables
  <2>1. LiveSlot(t) \in Slot
    BY <1>2, LiveSlotIs DEF ExecChange
  <2>2. [LiveSlot(t) EXCEPT !.pending = FALSE] \in Slot
    BY <2>1 DEF Slot
  <2>3. \A o \in {"done", "cancelled"} : [LiveSlot(t) EXCEPT !.fut = o] \in Slot
    BY <2>1 DEF Slot, Futures
  <2> QED BY <1>2, <2>2, <2>3 DEF ExecChange, GoesOn, Promotes, Ends, Promoted
<1>3. CASE limits' = limits /\ ex' = ex /\ \E s \in slots : s.fut # "live" /\ slots' = slots \ {s}
  BY <1>3
<1>4. ASSUME limits' = limits, NEW p \in Providers, Starts(p)
      PROVE  slots' \subseteq Slot /\ ex' \in [Tasks -> ExecStates] /\ limits' \in CapacityTables
  <2>1. cur \in Tasks
    BY <1>4 DEF Starts, LoopHolds, Holding
  <2>2. NewSlot(cur, p, FALSE) \in Slot
    BY <2>1 DEF NewSlot, Slot, Futures
  <2> QED BY <1>4, <2>2 DEF Starts, Registered, ExecStates
<1>5. ASSUME limits' = limits, Revives
      PROVE  slots' \subseteq Slot /\ ex' \in [Tasks -> ExecStates] /\ limits' \in CapacityTables
  <2>1. \A t \in resume : t \in Tasks /\ provider[t] \in Providers
    BY DEF Paid, PaidFor
  <2>2. \A t \in resume : NewSlot(t, provider[t], TRUE) \in Slot
    BY <2>1 DEF NewSlot, Slot, Futures
  <2>3. slots' \subseteq Slot
    BY <1>5, <2>2 DEF Revives
  <2>4. ex' \in [Tasks -> ExecStates]
    BY <1>5 DEF Revives, ExecStates
  <2> QED BY <1>5, <2>3, <2>4
<1>6. CASE /\ slots' = {} /\ limits' \in CapacityTables
           /\ ex' \in [Tasks -> ExecStates] /\ \A t \in Tasks : ex'[t] = "none"
  BY <1>6
<1> QED BY <1>1, <1>2, <1>3, <1>4, <1>5, <1>6 DEF SlotChange

\* The SlotTable and the coroutines stay in step: a claim cannot give a task a second
\* executor, because a task that has one is not queued.
LEMMA SlotsMatchStep ==
  ASSUME WorkerInv, SlotChange
  PROVE  SlotsMatch'
<1> USE DEF WorkerInv
<1>1. CASE UNCHANGED <<slots, ex, limits>>
  BY <1>1 DEF SlotsMatch
<1>2. ASSUME NEW t \in Tasks, ExecChange(t) PROVE SlotsMatch'
  <2> DEFINE L == LiveSlot(t)
  <2>1. L \in slots /\ L.task = t /\ L.fut = "live" /\ L \in Slot
    BY <1>2, LiveSlotIs DEF ExecChange, WorkerTyped
  <2>2. \A s \in slots : s.task = t /\ s.fut = "live" => s = L
    BY <1>2, <2>1 DEF SlotsMatch
  <2>3. \A u \in Tasks : u # t => ex'[u] = ex[u]
    BY <1>2 DEF ExecChange
  <2>4. CASE GoesOn(t)
    BY <1>2, <2>3, <2>4 DEF ExecChange, GoesOn, SlotsMatch
  <2>5. CASE Promotes(t)
    <3> DEFINE N == [L EXCEPT !.pending = FALSE]
    <3>1. slots' = (slots \ {L}) \cup {N} /\ ex'[t] # "none" /\ ex[t] # "none"
      BY <2>5 DEF Promotes, Promoted
    <3>2. N.task = t /\ N.fut = "live"
      BY <2>1 DEF Slot
    <3> HIDE DEF L, N
    <3> QED BY <2>1, <2>2, <2>3, <3>1, <3>2 DEF SlotsMatch
  <2>6. CASE Ends(t)
    <3>1. /\ slots \ {L} \subseteq slots'
          /\ \A s \in slots' : s \in slots \ {L} \/ (s.task = t /\ s.fut # "live")
      <4>1. \A o \in {"done", "cancelled"} :
              [L EXCEPT !.fut = o].task = t /\ [L EXCEPT !.fut = o].fut # "live"
        BY <2>1 DEF Slot
      <4> QED BY <2>6, <4>1 DEF Ends
    <3>2. ex'[t] = "none"
      BY <2>6 DEF Ends
    <3> HIDE DEF L
    <3> QED BY <2>1, <2>2, <2>3, <3>1, <3>2 DEF SlotsMatch
  <2> QED BY <1>2, <2>4, <2>5, <2>6 DEF ExecChange
<1>3. CASE ex' = ex /\ \E s \in slots : s.fut # "live" /\ slots' = slots \ {s}
  BY <1>3 DEF SlotsMatch
<1>4. ASSUME NEW p \in Providers, Starts(p) PROVE SlotsMatch'
  <2> DEFINE N == NewSlot(cur, p, FALSE)
  <2>1. cur \in Tasks /\ ex[cur] = "none"
    BY <1>4 DEF Starts, LoopHolds, Holding, WorkerTyped
  <2>2. N.task = cur /\ N.fut = "live" /\ N.prov = p
    BY DEF NewSlot
  <2>3. slots' = {r \in slots : ~(r.task = cur /\ r.prov = p)} \cup {N}
    BY <1>4, <2>2 DEF Starts, Registered
  <2>4. ex'[cur] = "ready" /\ \A u \in Tasks : u # cur => ex'[u] = ex[u]
    BY <1>4, <2>1 DEF Starts, WorkerTyped
  <2>5. \A s \in slots : s.task = cur => s.fut # "live"
    BY <2>1 DEF SlotsMatch
  <2> HIDE DEF N
  <2>6. \A r, s \in slots' : r.task = s.task /\ r.fut = "live" /\ s.fut = "live" => r = s
    BY <2>2, <2>3, <2>5 DEF SlotsMatch
  <2>7. ASSUME NEW t \in Tasks
        PROVE  ex'[t] # "none" <=> \E s \in slots' : s.task = t /\ s.fut = "live"
    <3>1. CASE t = cur
      BY <2>2, <2>3, <2>4, <3>1
    <3>2. CASE t # cur
      BY <2>2, <2>3, <2>4, <3>2 DEF SlotsMatch
    <3> QED BY <3>1, <3>2
  <2> QED BY <2>6, <2>7 DEF SlotsMatch
<1>5. CASE Revives
  <2> DEFINE able == {t \in resume : limits[<<provider[t], VideoMedia>>] > 0}
             N(t) == NewSlot(t, provider[t], TRUE)
  <2>1. slots' = {N(t) : t \in able} /\ slots = {}
    BY <1>5 DEF Revives, LoopHolds
  <2>2. ex' = [t \in Tasks |-> IF t \in able THEN "rready" ELSE ex[t]]
    BY <1>5 DEF Revives
  <2>3. \A t \in Tasks : ex[t] = "none"
    BY <2>1 DEF SlotsMatch
  <2>4. \A t : N(t).task = t /\ N(t).fut = "live"
    BY DEF NewSlot
  <2>5. able \subseteq Tasks
    BY DEF WorkerTyped
  <2> HIDE DEF able, N
  <2>6. \A s \in slots' : s = N(s.task) /\ s.task \in able
    BY <2>1, <2>4
  <2> QED BY <2>1, <2>2, <2>3, <2>4, <2>5, <2>6 DEF SlotsMatch
<1>6. CASE slots' = {} /\ \A t \in Tasks : ex'[t] = "none"
  BY <1>6 DEF SlotsMatch
<1> QED BY <1>1, <1>2, <1>3, <1>4, <1>5, <1>6 DEF SlotChange

-----------------------------------------------------------------------------
(* Capacity.                                                               *)

\* Replacing one entry does not lengthen the table.
LEMMA ReplaceCounts ==
  ASSUME NEW S, IsFiniteSet(S), NEW x \in S, NEW y
  PROVE  /\ IsFiniteSet((S \ {x}) \cup {y})
         /\ Cardinality((S \ {x}) \cup {y}) <= Cardinality(S)
<1>1. IsFiniteSet(S \ {x}) /\ Cardinality(S \ {x}) = Cardinality(S) - 1
  BY FS_RemoveElement
<1>2. /\ IsFiniteSet((S \ {x}) \cup {y})
      /\ \/ Cardinality((S \ {x}) \cup {y}) = Cardinality(S \ {x})
         \/ Cardinality((S \ {x}) \cup {y}) = Cardinality(S \ {x}) + 1
  BY <1>1, FS_AddElement
<1>3. Cardinality(S) \in Nat
  BY FS_CardinalityType
<1> QED BY <1>1, <1>2, <1>3

\* The entries of a bucket, of whatever table.
BucketOf(T, p, m) == {s \in T : s.prov = p /\ MediaOf[s.task] = m}
SemaphoreOf(T, p) == {s \in T : s.resume /\ ~s.pending /\ s.fut = "live" /\ s.prov = p}
Bounded(T, lim) ==
  \A p \in Providers, m \in Media :
    (\E s \in BucketOf(T, p, m) : ~s.resume) => Cardinality(BucketOf(T, p, m)) <= lim[<<p, m>>]
Served(T, lim) ==
  \A p \in Providers : Cardinality(SemaphoreOf(T, p)) <= lim[<<p, VideoMedia>>]

LEMMA RoomIs ==
  Room <=> /\ IsFiniteSet(slots)
           /\ \A s \in slots : s.resume => IsVideo(s.task)
           /\ \A s \in slots : s.fut = "live" /\ ex[s.task] \in {"rready", "rwait"} => s.resume
           /\ Bounded(slots, limits) /\ Served(slots, limits)
  BY DEF Room, Bounded, Served, BucketOf, SemaphoreOf, Bucket, Semaphore, Occupied

\* Limits are numbers.
LEMMA LimitIsNat ==
  ASSUME NEW lim \in CapacityTables, NEW p \in Providers, NEW m \in Media
  PROVE  lim[<<p, m>>] \in Nat
  BY CapacityAssumption

\* Taking entries away never breaks a bound.
LEMMA FewerFit ==
  ASSUME NEW lim \in CapacityTables, NEW S, IsFiniteSet(S), NEW T \in SUBSET S
  PROVE  /\ IsFiniteSet(T)
         /\ Bounded(S, lim) => Bounded(T, lim)
         /\ Served(S, lim) => Served(T, lim)
<1>1. IsFiniteSet(T)
  BY FS_Subset
<1>2. ASSUME NEW U, NEW W \in SUBSET U, U \subseteq S
      PROVE  Cardinality(W) <= Cardinality(U) /\ Cardinality(W) \in Nat /\ Cardinality(U) \in Nat
  BY <1>2, FS_Subset, FS_CardinalityType
<1>3. ASSUME Bounded(S, lim), NEW p \in Providers, NEW m \in Media,
             \E s \in BucketOf(T, p, m) : ~s.resume
      PROVE  Cardinality(BucketOf(T, p, m)) <= lim[<<p, m>>]
  <2>1. BucketOf(T, p, m) \in SUBSET BucketOf(S, p, m) /\ BucketOf(S, p, m) \subseteq S
    BY DEF BucketOf
  <2>2. Cardinality(BucketOf(S, p, m)) <= lim[<<p, m>>]
    BY <1>3, <2>1 DEF Bounded
  <2> QED BY <1>2, <2>1, <2>2, LimitIsNat
<1>4. ASSUME Served(S, lim), NEW p \in Providers
      PROVE  Cardinality(SemaphoreOf(T, p)) <= lim[<<p, VideoMedia>>]
  <2>1. SemaphoreOf(T, p) \in SUBSET SemaphoreOf(S, p) /\ SemaphoreOf(S, p) \subseteq S
    BY DEF SemaphoreOf
  <2>2. Cardinality(SemaphoreOf(S, p)) <= lim[<<p, VideoMedia>>]
    BY <1>4 DEF Served
  <2> QED BY <1>2, <2>1, <2>2, LimitIsNat, MediaAssumption
<1> QED BY <1>1, <1>3, <1>4 DEF Bounded, Served

\* Nor does changing an entry in place.
LEMMA ReplacedFits ==
  ASSUME NEW lim \in CapacityTables, NEW S, IsFiniteSet(S), Bounded(S, lim),
         NEW x \in S, NEW y, y.task = x.task, y.prov = x.prov, y.resume = x.resume
  PROVE  /\ IsFiniteSet((S \ {x}) \cup {y})
         /\ Bounded((S \ {x}) \cup {y}, lim)
<1> DEFINE T == (S \ {x}) \cup {y}
<1>1. IsFiniteSet(T)
  BY ReplaceCounts
<1>2. ASSUME NEW p \in Providers, NEW m \in Media, \E s \in BucketOf(T, p, m) : ~s.resume
      PROVE  Cardinality(BucketOf(T, p, m)) <= lim[<<p, m>>]
  <2> DEFINE B == BucketOf(S, p, m)
  <2>1. \E s \in B : ~s.resume
    BY <1>2 DEF BucketOf
  <2>2. Cardinality(B) <= lim[<<p, m>>]
    BY <2>1 DEF Bounded
  <2>3. IsFiniteSet(B) /\ Cardinality(B) \in Nat
    BY FS_Subset, FS_CardinalityType DEF BucketOf
  <2>4. CASE x \in B
    <3>1. BucketOf(T, p, m) = (B \ {x}) \cup {y}
      BY <2>4 DEF BucketOf
    <3>2. Cardinality((B \ {x}) \cup {y}) <= Cardinality(B) /\ IsFiniteSet((B \ {x}) \cup {y})
      BY <2>3, <2>4, ReplaceCounts
    <3>3. Cardinality((B \ {x}) \cup {y}) \in Nat
      BY <3>2, FS_CardinalityType
    <3> HIDE DEF B, T
    <3> QED BY <2>2, <2>3, <3>1, <3>2, <3>3, LimitIsNat
  <2>5. CASE x \notin B
    <3>1. BucketOf(T, p, m) = B
      BY <2>5 DEF BucketOf
    <3> QED BY <2>2, <3>1
  <2> QED BY <2>4, <2>5
<1> QED BY <1>1, <1>2 DEF Bounded

\* A new entry fits where HasRoom says so.
LEMMA NewFits ==
  ASSUME NEW lim \in CapacityTables, NEW S, IsFiniteSet(S), Bounded(S, lim), Served(S, lim),
         NEW n, ~n.resume, n.prov \in Providers, MediaOf[n.task] \in Media,
         Cardinality(BucketOf(S, n.prov, MediaOf[n.task])) < lim[<<n.prov, MediaOf[n.task]>>]
  PROVE  IsFiniteSet(S \cup {n}) /\ Bounded(S \cup {n}, lim) /\ Served(S \cup {n}, lim)
<1> DEFINE T == S \cup {n}
<1>1. IsFiniteSet(T)
  BY FS_AddElement
<1>2. ASSUME NEW p \in Providers, NEW m \in Media, \E s \in BucketOf(T, p, m) : ~s.resume
      PROVE  Cardinality(BucketOf(T, p, m)) <= lim[<<p, m>>]
  <2> DEFINE B == BucketOf(S, p, m)
  <2>1. IsFiniteSet(B) /\ Cardinality(B) \in Nat /\ lim[<<p, m>>] \in Nat
    BY FS_Subset, FS_CardinalityType, LimitIsNat DEF BucketOf
  <2>2. CASE p = n.prov /\ m = MediaOf[n.task]
    <3>1. BucketOf(T, p, m) = B \cup {n}
      BY <2>2 DEF BucketOf
    <3>2. Cardinality(B \cup {n}) = Cardinality(B) \/ Cardinality(B \cup {n}) = Cardinality(B) + 1
      BY <2>1, FS_AddElement
    <3>3. Cardinality(B) < lim[<<p, m>>]
      BY <2>2
    <3> HIDE DEF B, T
    <3> QED BY <2>1, <3>1, <3>2, <3>3
  <2>3. CASE ~(p = n.prov /\ m = MediaOf[n.task])
    <3>1. BucketOf(T, p, m) = B
      BY <2>3 DEF BucketOf
    <3> QED BY <1>2, <3>1 DEF Bounded
  <2> QED BY <2>2, <2>3
<1>3. ASSUME NEW p \in Providers PROVE Cardinality(SemaphoreOf(T, p)) <= lim[<<p, VideoMedia>>]
  <2>1. SemaphoreOf(T, p) = SemaphoreOf(S, p)
    BY DEF SemaphoreOf
  <2> QED BY <2>1 DEF Served
<1> QED BY <1>1, <1>2, <1>3 DEF Bounded, Served

\* A waiting orphan fits where its semaphore says so.
LEMMA PromotedFits ==
  ASSUME NEW lim \in CapacityTables, NEW S, IsFiniteSet(S), Served(S, lim),
         NEW x \in S, NEW y, y.prov = x.prov,
         Cardinality(SemaphoreOf(S, x.prov)) < lim[<<x.prov, VideoMedia>>]
  PROVE  Served((S \ {x}) \cup {y}, lim)
<1> DEFINE T == (S \ {x}) \cup {y}
<1> SUFFICES ASSUME NEW p \in Providers
             PROVE  Cardinality(SemaphoreOf(T, p)) <= lim[<<p, VideoMedia>>]
  BY DEF Served
<1> DEFINE B == SemaphoreOf(S, p)
<1>1. IsFiniteSet(B) /\ Cardinality(B) \in Nat /\ lim[<<p, VideoMedia>>] \in Nat
  BY FS_Subset, FS_CardinalityType, LimitIsNat, MediaAssumption DEF SemaphoreOf
<1>2. CASE p = x.prov
  <2>1. SemaphoreOf(T, p) \in SUBSET (B \cup {y})
    BY DEF SemaphoreOf
  <2>2. /\ IsFiniteSet(B \cup {y})
        /\ Cardinality(B \cup {y}) = Cardinality(B) \/ Cardinality(B \cup {y}) = Cardinality(B) + 1
    BY <1>1, FS_AddElement
  <2>3. Cardinality(SemaphoreOf(T, p)) <= Cardinality(B \cup {y}) /\ Cardinality(SemaphoreOf(T, p)) \in Nat
    BY <2>1, <2>2, FS_Subset, FS_CardinalityType
  <2>4. Cardinality(B) < lim[<<p, VideoMedia>>]
    BY <1>2
  <2> HIDE DEF B, T
  <2> QED BY <1>1, <2>2, <2>3, <2>4
<1>3. CASE p # x.prov
  <2>1. SemaphoreOf(T, p) = B
    BY <1>3 DEF SemaphoreOf
  <2> QED BY <2>1 DEF Served
<1> QED BY <1>2, <1>3

\* No step overfills a bucket.
LEMMA RoomStep ==
  ASSUME WorkerInv, SlotChange
  PROVE  Room'
<1> DEFINE Resumes == /\ \A s \in slots' : s.resume => IsVideo(s.task)
                      /\ \A s \in slots' : s.fut = "live" /\ ex'[s.task] \in {"rready", "rwait"} => s.resume
           Fits == IsFiniteSet(slots') /\ Bounded(slots', limits') /\ Served(slots', limits')
<1> SUFFICES Resumes /\ Fits
  BY RoomIs DEF Room, Bounded, Served, BucketOf, SemaphoreOf, Bucket, Semaphore, Occupied, IsVideo
<1> USE DEF WorkerInv
<1>a. /\ IsFiniteSet(slots) /\ Bounded(slots, limits) /\ Served(slots, limits)
      /\ \A s \in slots : s.resume => IsVideo(s.task)
      /\ \A s \in slots : s.fut = "live" /\ ex[s.task] \in {"rready", "rwait"} => s.resume
  BY RoomIs
<1>b. limits \in CapacityTables /\ slots \subseteq Slot
  BY DEF WorkerTyped
<1>1. CASE UNCHANGED <<slots, ex, limits>>
  BY <1>1, <1>a DEF IsVideo
<1>2. ASSUME limits' = limits, NEW t \in Tasks, ExecChange(t) PROVE Resumes /\ Fits
  <2> DEFINE L == LiveSlot(t)
  <2>1. L \in slots /\ L.task = t /\ L.fut = "live" /\ L \in Slot
    BY <1>2, LiveSlotIs DEF ExecChange, WorkerTyped
  <2>2. \A s \in slots : s.task = t /\ s.fut = "live" => s = L
    BY <1>2, <2>1 DEF SlotsMatch
  <2>3. \A u \in Tasks : u # t => ex'[u] = ex[u]
    BY <1>2 DEF ExecChange
  <2>4. \A s \in slots : s.task \in Tasks
    BY <1>b DEF Slot
  <2>5. CASE GoesOn(t)
    <3>1. slots' = slots /\ (ex'[t] \in {"rready", "rwait"} => ex[t] \in {"rready", "rwait"})
      BY <2>5 DEF GoesOn
    <3>2. Resumes
      BY <1>a, <2>3, <2>4, <3>1 DEF IsVideo
    <3> QED BY <1>a, <1>2, <3>1, <3>2
  <2>6. CASE Promotes(t)
    <3> DEFINE N == [L EXCEPT !.pending = FALSE]
    <3>1. slots' = (slots \ {L}) \cup {N} /\ ex'[t] = "rpoll" /\ ex[t] \in {"rready", "rwait"}
      BY <2>6 DEF Promotes, Promoted
    <3>2. N.task = t /\ N.prov = L.prov /\ N.resume = L.resume
      BY <2>1 DEF Slot
    <3>3. L.resume
      BY <1>a, <2>1, <3>1
    <3>4. Cardinality(SemaphoreOf(slots, L.prov)) < limits[<<L.prov, VideoMedia>>]
      BY <2>6 DEF Promotes, SemaphoreFree, SemaphoreOf
    <3> HIDE DEF L, N
    <3>5. Fits
      BY <1>a, <1>b, <1>2, <2>1, <3>1, <3>2, <3>4, ReplacedFits, PromotedFits
    <3>6. Resumes
      BY <1>a, <2>1, <2>3, <2>4, <3>1, <3>2, <3>3 DEF IsVideo
    <3> QED BY <3>5, <3>6
  <2>7. CASE Ends(t)
    <3>1. ex'[t] = "none"
      BY <2>7 DEF Ends
    <3>2. CASE slots' = slots \ {L}
      <4>1. slots' \in SUBSET slots
        BY <3>2
      <4>2. Resumes
        BY <1>a, <2>3, <2>4, <3>1, <4>1 DEF IsVideo
      <4> QED BY <1>a, <1>b, <1>2, <4>1, <4>2, FewerFit
    <3>3. ASSUME NEW o \in {"done", "cancelled"}, slots' = (slots \ {L}) \cup {[L EXCEPT !.fut = o]}
          PROVE  Resumes /\ Fits
      <4> DEFINE N == [L EXCEPT !.fut = o]
      <4>1. N.task = t /\ N.prov = L.prov /\ N.resume = L.resume /\ N.fut # "live"
        BY <2>1 DEF Slot
      <4>2. slots' = (slots \ {L}) \cup {N}
        BY <3>3
      <4> HIDE DEF L, N
      <4>3. Bounded(slots', limits') /\ IsFiniteSet(slots')
        BY <1>a, <1>b, <1>2, <2>1, <4>1, <4>2, ReplacedFits
      <4>4. \A p \in Providers : SemaphoreOf(slots', p) = SemaphoreOf(slots \ {L}, p)
        BY <4>1, <4>2 DEF SemaphoreOf
      <4>5. Served(slots \ {L}, limits)
        BY <1>a, <1>b, FewerFit
      <4>6. Served(slots', limits')
        BY <1>2, <4>4, <4>5 DEF Served
      <4>7. Resumes
        BY <1>a, <2>1, <2>3, <2>4, <3>1, <4>1, <4>2 DEF IsVideo
      <4> QED BY <4>3, <4>6, <4>7
    <3> QED BY <2>7, <3>2, <3>3 DEF Ends
  <2> QED BY <1>2, <2>5, <2>6, <2>7 DEF ExecChange
<1>3. CASE limits' = limits /\ ex' = ex /\ \E s \in slots : s.fut # "live" /\ slots' = slots \ {s}
  <2>1. slots' \in SUBSET slots
    BY <1>3
  <2> QED BY <1>a, <1>b, <1>3, <2>1, FewerFit DEF IsVideo
<1>4. ASSUME limits' = limits, NEW p \in Providers, Starts(p) PROVE Resumes /\ Fits
  <2> DEFINE N == NewSlot(cur, p, FALSE)
             T == {r \in slots : ~(r.task = cur /\ r.prov = p)}
  <2>1. cur \in Tasks /\ ex[cur] = "none" /\ MediaOf[cur] = Lanes[lane]
    BY <1>4 DEF Starts, LoopHolds, Holding, WorkerTyped
  <2>2. N.task = cur /\ N.prov = p /\ N.resume = FALSE
    BY DEF NewSlot
  <2>3. slots' = T \cup {N}
    BY <1>4, <2>2 DEF Starts, Registered
  <2>4. ex'[cur] = "ready" /\ \A u \in Tasks : u # cur => ex'[u] = ex[u]
    BY <1>4, <2>1 DEF Starts, WorkerTyped
  <2>5. MediaOf[cur] \in Media
    BY <2>1, MediaAssumption
  <2>6. Cardinality(BucketOf(slots, p, MediaOf[cur])) < limits[<<p, MediaOf[cur]>>]
    BY <1>4, <2>1 DEF Starts, HasRoom, Occupied, Bucket, BucketOf
  <2>7. T \in SUBSET slots /\ IsFiniteSet(T) /\ Bounded(T, limits) /\ Served(T, limits)
    BY <1>a, <1>b, FewerFit
  <2>8. Cardinality(BucketOf(T, p, MediaOf[cur])) < limits[<<p, MediaOf[cur]>>]
    <3>1. IsFiniteSet(BucketOf(slots, p, MediaOf[cur]))
      BY <1>a, FS_Subset DEF BucketOf
    <3>2. BucketOf(T, p, MediaOf[cur]) \in SUBSET BucketOf(slots, p, MediaOf[cur])
      BY DEF BucketOf
    <3> HIDE DEF T
    <3> QED BY <1>b, <2>5, <2>6, <3>1, <3>2, FS_Subset, FS_CardinalityType, LimitIsNat
  <2>9. \A s \in slots : s.task \in Tasks
    BY <1>b DEF Slot
  <2>10. Resumes
    BY <1>a, <2>1, <2>2, <2>3, <2>4, <2>9 DEF IsVideo
  <2> HIDE DEF N, T
  <2>11. Fits
    BY <1>b, <1>4, <2>2, <2>3, <2>5, <2>7, <2>8, NewFits
  <2> QED BY <2>10, <2>11
<1>5. ASSUME limits' = limits, Revives PROVE Resumes /\ Fits
  <2> DEFINE able == {t \in resume : limits[<<provider[t], VideoMedia>>] > 0}
             N(t) == NewSlot(t, provider[t], TRUE)
             f == [t \in able |-> N(t)]
  <2>1. slots' = {N(t) : t \in able} /\ slots = {}
    BY <1>5 DEF Revives, LoopHolds
  <2>2. \A t : N(t).resume = TRUE /\ N(t).pending = TRUE /\ N(t).task = t
    BY DEF NewSlot
  <2>3. IsFiniteSet(able)
    BY TasksAssumption, FS_Subset DEF WorkerTyped
  <2>4. \A t \in able : IsVideo(t)
    BY DEF WorkerTyped, Paid, PaidFor
  <2> HIDE DEF able, N
  <2>5. f \in Surjection(able, slots')
    BY <2>1 DEF Surjection
  <2>6. IsFiniteSet(slots')
    BY <2>3, <2>5, FS_Surjection
  <2>7. \A s \in slots' : s.resume /\ s.pending /\ IsVideo(s.task)
    BY <2>1, <2>2, <2>4
  <2>8. Bounded(slots', limits')
    BY <2>7 DEF Bounded, BucketOf
  <2>9. \A p \in Providers : SemaphoreOf(slots', p) = {}
    BY <2>7 DEF SemaphoreOf
  <2>10. Served(slots', limits')
    <3>1. \A p \in Providers : limits'[<<p, VideoMedia>>] \in Nat
      BY <1>5, <1>b, LimitIsNat, MediaAssumption
    <3>2. \A p \in Providers : Cardinality(SemaphoreOf(slots', p)) = 0
      BY <2>9, FS_EmptySet
    <3> QED BY <3>1, <3>2 DEF Served
  <2> QED BY <2>6, <2>7, <2>8, <2>10 DEF IsVideo
<1>6. CASE slots' = {} /\ limits' \in CapacityTables
  <2>1. \A p, m : BucketOf(slots', p, m) = {} /\ SemaphoreOf(slots', p) = {}
    BY <1>6 DEF BucketOf, SemaphoreOf
  <2>2. Bounded(slots', limits') /\ Served(slots', limits')
    BY <1>6, <2>1, FS_EmptySet, LimitIsNat, MediaAssumption DEF Bounded, Served
  <2> QED BY <1>6, <2>2, FS_EmptySet
<1> QED BY <1>1, <1>2, <1>3, <1>4, <1>5, <1>6 DEF SlotChange

-----------------------------------------------------------------------------
(* The main loop.                                                          *)

\* How a row gets into `resume` and into `todo`, and out of `resume`.
Entry ==
  /\ resume' \subseteq resume \cup {t \in Tasks : Resumable(t) /\ \E o \in todo : o.task = t}
  /\ resume' \subseteq resume \/ (pc' = "scan" /\ pc = "scan" /\ ex' = ex)
  /\ \A t \in resume : ex'[t] # "none" => t \notin resume'
  /\ \A o \in todo' : o \in todo \/ (o.task \in Tasks /\ status[o.task] = o.seen
                                       /\ o.seen \in {"running", "cancelling"})
  /\ todo' # {} => pc' = "scan"
  /\ UNCHANGED tableVars \/ todo' \subseteq todo

LEMMA Entering ==
  ASSUME WorkerInv, [WorkerNext]_allVars
  PROVE  Entry
<1> USE DEF Entry
<1>0. /\ todo # {} => pc = "scan"
      /\ \A t \in resume : t \in Tasks /\ ex[t] = "none"
      /\ \A o \in todo : o.task \in Tasks
  BY DEF WorkerInv, LoopHolds, RowsBegun, WorkerTyped
<1>1. CASE UNCHANGED <<pc, resume, todo, ex>>
  BY <1>0, <1>1
<1>2. CASE ClientEnqueue \/ UNCHANGED allVars
  BY <1>1, <1>2 DEF ClientEnqueue, workerVars, loopVars, execState, allVars
<1>3. ASSUME NEW c \in Cancellers, ClientCancel(c) \/ CancelRequest(c) \/ CancelCallback(c)
      PROVE  Entry
  BY <1>1, <1>3 DEF ClientCancel, CancelRequest, CancelCallback, workerVars, loopVars, execState
<1>4. ASSUME NEW t \in resume, DispatchUnsupported(t) PROVE Entry
  BY <1>0, <1>4 DEF DispatchUnsupported
<1>5. ASSUME NEW t \in Tasks, ExecStep(t) PROVE Entry
  <2>1. ExecChange(t) /\ UNCHANGED <<pc, resume, todo>>
    BY <1>5, ExecShape DEF loopVars, WorkerInv
  <2>2. \A u \in resume : ex'[u] = "none"
    BY <1>0, <2>1 DEF ExecChange
  <2> QED BY <1>0, <2>1, <2>2
<1>6. CASE ScanList
  BY <1>0, <1>6 DEF ScanList, execState, vars
<1>7. ASSUME NEW o \in todo, ScanOrphan(o) PROVE Entry
  <2>1. UNCHANGED <<pc, ex>> /\ pc = "scan" /\ todo' \subseteq todo
    BY <1>7 DEF ScanOrphan
  <2>2. resume' = resume \/ (Resumable(o.task) /\ resume' = resume \cup {o.task})
    BY <1>7 DEF ScanOrphan
  <2> QED BY <1>0, <2>1, <2>2
<1>8. CASE ScanDone
  BY <1>0, <1>8 DEF ScanDone
<1>9. ASSUME NEW s \in slots, DrainOne(s) PROVE Entry
  BY <1>1, <1>9 DEF DrainOne, loopVars
<1>10. CASE DrainDone \/ ClaimNone \/ ClaimSelect \/ ClaimTake \/ RejectUnsupported \/ RefreshProvider
            \/ RequeueFull \/ Stop \/ Boot \/ Stopped
  <2>1. UNCHANGED <<resume, todo, ex>> /\ pc # "scan"
    BY <1>10 DEF DrainDone, ClaimNone, ClaimSelect, ClaimTake, RejectUnsupported, RefreshProvider,
                 RequeueFull, Stop, Boot, Stopped, execState
  <2> QED BY <1>0, <2>1
<1>11. CASE Project
  <2>1. UNCHANGED <<resume, todo>> /\ pc = "project" /\ cur \notin resume
    BY <1>11 DEF Project, WorkerInv, LoopHolds, Holding
  <2>2. \A u \in resume : ex'[u] = ex[u]
    BY <1>0, <1>11, <2>1 DEF Project, Dispatch, Goto, WorkerInv, WorkerTyped
  <2> QED BY <1>0, <2>1, <2>2
<1>12. CASE Crash
  BY <1>12 DEF Crash
<1> HIDE DEF Entry
<1> QED
  BY <1>2, <1>3, <1>4, <1>5, <1>6, <1>7, <1>8, <1>9, <1>10, <1>11, <1>12 DEF WorkerNext, LoopStep

\* A row that is worked on stays out of the queue until the one that holds it puts it
\* back, and that is the end of the holding.
LEMMA RowsBegunStep ==
  ASSUME WorkerInv, [WorkerNext]_allVars
  PROVE  RowsBegun'
<1> USE DEF WorkerInv
<1>1. SlotChange /\ Entry
  BY SlotStep, Entering
<1>2. ASSUME NEW t \in Tasks, ex'[t] # "none"
      PROVE  ex[t] # "none" \/ (pc = "project" /\ t = cur) \/ t \in resume
  <2>1. ASSUME NEW u \in Tasks, ExecChange(u) PROVE ex[t] # "none"
    BY <1>2, <2>1 DEF ExecChange
  <2>2. ASSUME NEW p \in Providers, Starts(p) PROVE ex[t] # "none" \/ (pc = "project" /\ t = cur)
    BY <1>2, <2>2 DEF Starts, WorkerTyped
  <2>3. ASSUME Revives PROVE ex[t] # "none" \/ t \in resume
    BY <1>2, <2>3 DEF Revives
  <2> QED BY <1>1, <1>2, <2>1, <2>2, <2>3 DEF SlotChange
<1>3. pc = "scan" \/ todo = {}
  BY DEF LoopHolds
<1>4. pc = "scan" => \A t \in Tasks : ex[t] = "none"
  BY DEF LoopHolds, SlotsMatch
<1>5. ASSUME NEW t \in Tasks, ex'[t] # "none" \/ t \in resume' \/ (\E o \in todo' : o.task = t)
      PROVE  status'[t] \in Begun
  <2>1. status[t] \in Begun
    <3>1. CASE ex'[t] # "none"
      BY <1>2, <3>1 DEF RowsBegun, LoopHolds, Claimed, Holding
    <3>2. CASE t \in resume'
      BY <1>1, <3>2 DEF RowsBegun, Entry
    <3>3. ASSUME NEW o \in todo', o.task = t PROVE status[t] \in Begun
      BY <1>1, <3>3 DEF RowsBegun, Entry, Begun, Statuses, Active
    <3> QED BY <1>5, <3>1, <3>2, <3>3
  <2>2. CASE Calm(t)
    BY <2>1, <2>2 DEF Calm, Moves, Begun, Statuses, Active, Terminal
  <2>3. ~Claims(t)
    BY <2>1 DEF Claims, Begun
  <2>4. ~PutsBack(t)
    <3>1. ASSUME PutsBack(t), pc = "requeue", t = cur PROVE FALSE
      <4>1. ex[t] = "none" /\ t \notin resume /\ todo = {}
        BY <1>3, <3>1 DEF LoopHolds, Holding
      <4>2. ex'[t] = "none" /\ t \notin resume'
        BY <1>1, <1>2, <3>1, <4>1 DEF Entry
      <4>3. PICK o \in todo' : o.task = t
        BY <1>5, <4>2
      <4>4. status' = status
        BY <1>1, <4>1, <4>3 DEF Entry, tableVars, outcomeVars
      <4> QED BY <3>1, <4>4 DEF PutsBack
    <3>2. ASSUME PutsBack(t), ex[t] = "putback", ex'[t] = "none" PROVE FALSE
      <4>1. t \notin resume /\ pc # "scan" /\ todo = {}
        BY <1>3, <1>4, <3>2 DEF RowsBegun
      <4>2. t \notin resume'
        BY <1>1, <4>1 DEF Entry
      <4>3. PICK o \in todo' : o.task = t
        BY <1>5, <3>2, <4>2
      <4>4. status' = status
        BY <1>1, <4>1, <4>3 DEF Entry, tableVars, outcomeVars
      <4> QED BY <3>2, <4>4 DEF PutsBack
    <3> QED BY <3>1, <3>2 DEF PutsBack
  <2> QED BY <2>2, <2>3, <2>4, StatusStep
<1>6. ASSUME NEW t \in Tasks, t \in resume' PROVE ex'[t] = "none"
  <2>1. CASE t \in resume
    BY <1>1, <1>6, <2>1 DEF Entry
  <2>2. CASE t \notin resume
    BY <1>1, <1>4, <1>6, <2>2 DEF Entry
  <2> QED BY <2>1, <2>2
<1> QED BY <1>5, <1>6 DEF RowsBegun

\* A dependency that was met stays met.
LEMMA DependencyStays ==
  ASSUME WorkerInv, [WorkerNext]_allVars, NEW t \in Tasks, status[t] # "absent", DependencyMet(t)
  PROVE  DependencyMet(t)'
<1>1. TableTypeOK /\ TableStep
  BY WorkerIsQueueStep, NextIsTableStep DEF WorkerInv, TypeOK
<1>2. dep'[t] = dep[t]
  BY <1>1, DependencyIsFixed
<1>3. dep[t] \in Tasks \cup {NoTask}
  BY <1>1 DEF TableTypeOK
<1>4. ASSUME dep[t] \in Tasks, status[dep[t]] = "succeeded" PROVE status'[dep[t]] = "succeeded"
  BY <1>1, <1>4, StatusMoves DEF Moves
<1> QED BY <1>2, <1>3, <1>4 DEF DependencyMet

\* While another coroutine runs, what the main loop knows about its task stays true.
LEMMA LoopWaits ==
  ASSUME WorkerInv, [WorkerNext]_allVars, UNCHANGED <<pc, lane, cur, curProv>>,
         cur \in Tasks => (ex[cur] = "none" => ex'[cur] = "none"),
         cur \notin resume => cur \notin resume',
         slots = {} => slots' = {},
         resume' \subseteq resume \/ pc = "scan"
  PROVE  LoopHolds'
<1> USE DEF WorkerInv
<1>1. Entry /\ NoTask \notin Tasks
  BY Entering, NoTaskAssumption
<1>2. pc \in Holding => cur \in Tasks
  BY DEF LoopHolds, WorkerTyped
<1>3. ASSUME pc = "take" PROVE status'[cur] \in {"queued"} \cup Terminal /\ DependencyMet(cur)'
  <2>1. cur \in Tasks /\ status[cur] \in {"queued"} \cup Terminal /\ DependencyMet(cur)
    BY <1>2, <1>3 DEF LoopHolds, Holding
  <2>2. status[cur] # "absent"
    BY <2>1 DEF Terminal
  <2>3. DependencyMet(cur)'
    BY <2>1, <2>2, DependencyStays DEF DependencyMet
  <2>4. Calm(cur)
    BY <1>3, <2>1, StatusStep DEF Claims, PutsBack, Terminal
  <2> QED BY <2>1, <2>3, <2>4 DEF Calm, Moves, Terminal
<1>4. ASSUME pc \in Claimed PROVE status'[cur] \in Begun
  <2>1. cur \in Tasks /\ status[cur] \in Begun /\ ex[cur] = "none"
    BY <1>2, <1>4 DEF LoopHolds, Holding, Claimed
  <2>2. Calm(cur)
    BY <1>4, <2>1, StatusStep DEF Claims, PutsBack, Claimed
  <2> QED BY <2>1, <2>2 DEF Calm, Moves, Begun, Statuses, Active, Terminal
<1>5. LoopHolds' <=>
        /\ pc \in Holding <=> cur # NoTask
        /\ pc \in Holding => ex'[cur] = "none" /\ cur \notin resume' /\ MediaOf[cur] = Lanes[lane]
        /\ pc = "take" => status'[cur] \in {"queued"} \cup Terminal /\ DependencyMet(cur)'
        /\ pc \in Claimed => status'[cur] \in Begun
        /\ pc \in {"unsupported", "refresh"} => curProv \in Providers
        /\ todo' # {} => pc = "scan"
        /\ pc \in {"down", "boot", "scan"} => slots' = {}
        /\ pc \in {"down", "boot"} => resume' = {}
  BY DEF LoopHolds, DependencyMet
<1>6. todo' # {} => pc = "scan"
  BY <1>1 DEF Entry
<1> QED BY <1>2, <1>3, <1>4, <1>5, <1>6 DEF LoopHolds

\* The loop holds no task where it claims none.
LEMMA LoopIdles ==
  ASSUME pc' \in LoopStates \ Holding, cur' = NoTask, todo' # {} => pc' = "scan",
         pc' \in {"down", "boot", "scan"} => slots' = {},
         pc' \in {"down", "boot"} => resume' = {}
  PROVE  LoopHolds'
  BY DEF LoopHolds, Holding, Claimed

LEMMA LoopHoldsStep ==
  ASSUME WorkerInv, [WorkerNext]_allVars
  PROVE  LoopHolds'
<1> USE DEF WorkerInv
<1>0. /\ pc \notin Holding => cur = NoTask
      /\ todo' # {} => pc' = "scan"
      /\ pc \in Holding => cur \in Tasks
      /\ todo # {} => pc = "scan"
  BY Entering DEF Entry, LoopHolds, WorkerTyped
<1>1. CASE ClientEnqueue \/ UNCHANGED allVars
  BY <1>1, LoopWaits DEF ClientEnqueue, workerVars, loopVars, execState, allVars
<1>2. ASSUME NEW c \in Cancellers, ClientCancel(c) \/ CancelRequest(c) \/ CancelCallback(c)
      PROVE  LoopHolds'
  BY <1>2, LoopWaits DEF ClientCancel, CancelRequest, CancelCallback, workerVars, loopVars, execState
<1>3. ASSUME NEW t \in resume, DispatchUnsupported(t) PROVE LoopHolds'
  BY <1>3, LoopWaits DEF DispatchUnsupported
<1>4. ASSUME NEW t \in Tasks, ExecStep(t) PROVE LoopHolds'
  <2>1. ExecChange(t) /\ UNCHANGED <<pc, lane, cur, curProv, resume>>
    BY <1>4, ExecShape DEF loopVars
  <2>2. cur \in Tasks => (ex[cur] = "none" => ex'[cur] = "none")
    BY <2>1 DEF ExecChange
  <2>3. slots # {}
    BY <2>1, LiveSlotIs DEF ExecChange
  <2> QED BY <2>1, <2>2, <2>3, LoopWaits
<1>5. ASSUME NEW o \in todo, ScanOrphan(o) PROVE LoopHolds'
  <2>1. UNCHANGED <<pc, lane, cur, curProv, slots, ex>> /\ pc = "scan"
    BY <1>5 DEF ScanOrphan
  <2>2. cur \notin Tasks /\ resume' \subseteq Tasks
    BY <1>0, <2>1, NoTaskAssumption, Entering DEF Entry, Holding, WorkerTyped
  <2> QED BY <2>1, <2>2, LoopWaits
<1>6. ASSUME NEW s \in slots, DrainOne(s) PROVE LoopHolds'
  BY <1>6, LoopWaits DEF DrainOne, loopVars
<1>7. CASE ScanList
  <2>1. pc' = "scan" /\ pc = "boot" /\ cur' = cur /\ slots' = slots
    BY <1>7 DEF ScanList, execState
  <2> QED BY <1>0, <2>1, LoopIdles DEF LoopHolds, Holding, LoopStates
<1>8. CASE ScanDone
  <2>1. pc' = "drain" /\ pc = "scan" /\ cur' = cur
    BY <1>8 DEF ScanDone
  <2> QED BY <1>0, <2>1, LoopIdles DEF Holding, LoopStates
<1>9. CASE DrainDone \/ ClaimNone \/ Stop
  <2>1. pc' \in {"drain", "claim", "stopping"} /\ pc \in {"drain", "claim"} /\ cur' = cur
    BY <1>9 DEF DrainDone, ClaimNone, Stop, NextLane
  <2> QED BY <1>0, <2>1, LoopIdles DEF Holding, LoopStates
<1>10. CASE ClaimSelect
  <2>1. PICK t \in Tasks : OldestClaimable(t, Lanes[lane], PoolFull(Lanes[lane]), tried) /\ cur' = t
    BY <1>10 DEF ClaimSelect
  <2>2. status[t] = "queued" /\ MediaOf[t] = Lanes[lane] /\ DependencyMet(t)
    BY <2>1 DEF OldestClaimable, Claimable
  <2>3. ex[t] = "none" /\ t \notin resume
    BY <2>2 DEF RowsBegun, Begun
  <2>4. pc' = "take" /\ UNCHANGED <<tableVars, lane, resume, slots, ex>>
    BY <1>10 DEF ClaimSelect, vars, execState
  <2>5. DependencyMet(t)' /\ status'[t] = "queued"
    BY <2>2, <2>4 DEF DependencyMet, tableVars, rowVars, outcomeVars
  <2>6. cur' # NoTask /\ todo' = {}
    BY <1>0, <2>1, <2>4, NoTaskAssumption
  <2> QED BY <2>1, <2>2, <2>3, <2>4, <2>5, <2>6 DEF LoopHolds, Holding, Claimed, DependencyMet
<1>11. CASE ClaimTake
  <2>1. CASE ClaimNext(cur) /\ pc' = "project" /\ UNCHANGED <<lane, tried, cur>>
    <3>1. UNCHANGED <<resume, slots, ex>> /\ pc = "take" /\ cur \in Tasks
      BY <1>0, <1>11 DEF ClaimTake, execState, Holding
    <3>2. status'[cur] = "running"
      BY <2>1, <3>1 DEF ClaimNext, TypeOK, TableTypeOK
    <3>3. todo' = {}
      BY <1>0, <2>1
    <3> QED BY <2>1, <3>1, <3>2, <3>3 DEF LoopHolds, Holding, Claimed, Begun, Statuses, Active
  <2>2. CASE NextLane /\ cur' = NoTask
    BY <1>0, <2>2, LoopIdles DEF NextLane, Holding, LoopStates
  <2> QED BY <1>11, <2>1, <2>2 DEF ClaimTake
<1>12. CASE Project
  <2>1. UNCHANGED <<vars, todo, resume>> /\ pc = "project"
    BY <1>12 DEF Project
  <2>2. ASSUME NEW p \in Providers, Dispatch(p) PROVE LoopHolds'
    <3>1. cur' = NoTask /\ pc' \in {"claim", "drain"}
      BY <2>2 DEF Dispatch, NextLane
    <3> QED BY <1>0, <3>1, LoopIdles DEF Holding, LoopStates
  <2>3. ASSUME NEW p \in Providers, pc' \in {"unsupported", "refresh"}, curProv' = p,
               UNCHANGED <<cur, lane, tried, slots, ex>>
        PROVE  LoopHolds'
    <3>1. status' = status /\ todo' = {}
      BY <1>0, <2>1, <2>3 DEF vars, tableVars, outcomeVars
    <3> QED BY <2>1, <2>3, <3>1 DEF LoopHolds, Holding, Claimed
  <2> QED BY <1>12, <2>2, <2>3 DEF Project
<1>13. CASE RejectUnsupported \/ RequeueFull
  <2>1. pc' \in {"claim", "drain"} /\ cur' = NoTask
    BY <1>13 DEF RejectUnsupported, RequeueFull, NextLane
  <2> QED BY <1>0, <2>1, LoopIdles DEF Holding, LoopStates
<1>14. CASE RefreshProvider
  <2>1. /\ pc' = "requeue" /\ pc = "refresh" /\ UNCHANGED <<lane, cur, resume, slots, ex>>
        /\ status' = status
    BY <1>14 DEF RefreshProvider, PersistProvider, execState, outcomeVars
  <2>2. todo' = {}
    BY <1>0, <2>1
  <2> QED BY <2>1, <2>2 DEF LoopHolds, Holding, Claimed
<1>15. CASE Stopped
  <2>1. pc' = "down" /\ pc = "stopping" /\ cur' = cur /\ slots' = {} /\ resume' = {}
    BY <1>15 DEF Stopped
  <2> QED BY <1>0, <2>1, LoopIdles DEF Holding, LoopStates
<1>16. CASE Crash
  <2>1. pc' = "down" /\ cur' = NoTask /\ slots' = {} /\ resume' = {}
    BY <1>16 DEF Crash
  <2> QED BY <1>0, <2>1, LoopIdles DEF Holding, LoopStates
<1>17. CASE Boot
  <2>1. pc' = "boot" /\ pc = "down" /\ UNCHANGED <<cur, slots, resume>>
    BY <1>17 DEF Boot, execState
  <2> QED BY <1>0, <2>1, LoopIdles DEF LoopHolds, Holding, LoopStates
<1> QED
  BY <1>1, <1>2, <1>3, <1>4, <1>5, <1>6, <1>7, <1>8, <1>9, <1>10, <1>11, <1>12, <1>13, <1>14,
     <1>15, <1>16, <1>17 DEF WorkerNext, LoopStep

-----------------------------------------------------------------------------
(* Cancellation.                                                           *)

\* A coroutine is only cancelled when its row is asked to stop, in this step or before.
SigChange ==
  /\ sig' \in [Tasks -> BOOLEAN]
  /\ \A u \in Tasks : sig'[u] => sig[u] \/ status'[u] \in Stopping

LEMMA FailSignals ==
  ASSUME WorkerTyped, NEW t \in Tasks, FailOrCancel(t)
  PROVE  SigChange
<1>1. CASE UNCHANGED sig
  BY <1>1 DEF WorkerTyped, SigChange
<1>2. CASE FinalizeCancelled(t, {})
  BY <1>2, FinalizeSignals DEF SigChange
<1> QED BY <1>1, <1>2 DEF FailOrCancel

LEMMA SigStep ==
  ASSUME WorkerInv, [WorkerNext]_allVars
  PROVE  SigChange
<1> USE DEF WorkerInv
<1>1. CASE UNCHANGED sig
  BY <1>1 DEF WorkerTyped, SigChange
<1>2. ASSUME NEW t \in Tasks, sig' = [sig EXCEPT ![t] = FALSE] PROVE SigChange
  <2>1. sig' \in [Tasks -> BOOLEAN]
    BY <1>2, Zenon DEF WorkerTyped
  <2> QED BY <1>2, <2>1 DEF WorkerTyped, SigChange
<1>3. CASE ClientEnqueue \/ UNCHANGED allVars \/ Stop \/ Stopped \/ Boot
  BY <1>1, <1>3 DEF ClientEnqueue, workerVars, execState, allVars, Stop, Stopped, Boot
<1>4. ASSUME NEW c \in Cancellers, ClientCancel(c) \/ CancelRequest(c) PROVE SigChange
  BY <1>1, <1>4 DEF ClientCancel, CancelRequest, workerVars, execState
<1>5. ASSUME NEW c \in Cancellers, CancelCallback(c) PROVE SigChange
  <2>1. api[c].pc = "signal" /\ RequestCancel(api[c].tasks, {}) /\ UNCHANGED tableVars
    BY <1>5 DEF CancelCallback, CancelSignal
  <2>2. PICK hit \in SUBSET api[c].tasks : sig' = [t \in Tasks |-> t \notin {} /\ (sig[t] \/ t \in hit)]
    BY <2>1 DEF RequestCancel
  <2>3. sig' \in [Tasks -> BOOLEAN]
    BY <2>2, Zenon
  <2>4. \A t \in hit : status'[t] \in Stopping
    BY <2>1 DEF Signalled, tableVars, outcomeVars
  <2> QED BY <2>2, <2>3, <2>4 DEF SigChange
<1>6. ASSUME NEW t \in resume, DispatchUnsupported(t) PROVE SigChange
  BY <1>6, FailSignals DEF DispatchUnsupported, WorkerTyped
<1>7. ASSUME NEW t \in Tasks, ExecStep(t) PROVE SigChange
  <2>1. CASE CloseCancel(t)
    BY <2>1, FinalizeSignals DEF CloseCancel, SigChange
  <2>2. CASE CancelBeforeStart(t) \/ CancelWhileWorking(t) \/ CancelWhileClosing(t)
    BY <1>2, <2>2 DEF CancelBeforeStart, CancelWhileWorking, CancelWhileClosing
  <2>3. CASE UNCHANGED sig
    BY <1>1, <2>3
  <2> QED
    BY <1>7, <2>1, <2>2, <2>3
       DEF ExecStep, StartExecutor, DetectDrift, CrossSubmitBoundary, Submit, LoseAnswer,
                SaveJob, Return, Raise,
           CloseOk, CloseBad, CloseDrift, ClosePutback, ResumeStart
<1>8. ASSUME NEW o \in todo, ScanOrphan(o) PROVE SigChange
  <2>1. o.task \in Tasks
    BY DEF WorkerTyped
  <2>2. FinalizeCancelled(o.task, {}) \/ FailOrCancel(o.task) \/ UNCHANGED sig
    BY <1>8 DEF ScanOrphan
  <2> QED BY <1>1, <2>1, <2>2, FinalizeSignals, FailSignals DEF SigChange
<1>9. ASSUME NEW s \in slots, DrainOne(s) PROVE SigChange
  <2>1. s.task \in Tasks
    BY DEF WorkerTyped, Slot
  <2>2. FinalizeCancelled(s.task, {}) \/ UNCHANGED sig
    BY <1>9 DEF DrainOne
  <2> QED BY <1>1, <2>1, <2>2, FinalizeSignals DEF SigChange
<1>10. CASE ScanList \/ ScanDone \/ DrainDone \/ ClaimNone \/ ClaimSelect \/ ClaimTake \/ Project
            \/ RejectUnsupported \/ RefreshProvider \/ RequeueFull
  BY <1>1, <1>10 DEF ScanList, ScanDone, DrainDone, ClaimNone, ClaimSelect, ClaimTake, Project,
                     RejectUnsupported, RefreshProvider, RequeueFull, execState
<1>11. CASE Crash
  <2>1. sig' = [t \in Tasks |-> FALSE]
    BY <1>11 DEF Crash
  <2> QED BY <2>1 DEF SigChange
<1> QED
  BY <1>3, <1>4, <1>5, <1>6, <1>7, <1>8, <1>9, <1>10, <1>11 DEF WorkerNext, LoopStep

\* A request only remembers tasks it has just asked to stop.
LEMMA ApiSignals ==
  ASSUME TypeOK, [Next]_vars, NEW c \in Cancellers, api'[c].pc = "signal"
  PROVE  api'[c] = api[c] \/ \A t \in api'[c].tasks : t \in Tasks /\ status'[t] \in Stopping
<1> DEFINE Goal == api'[c] = api[c] \/ \A t \in api'[c].tasks : t \in Tasks /\ status'[t] \in Stopping
<1> USE DEF TypeOK
<1>0. ASSUME NEW e \in Cancellers, NEW S, SignalLater(e, S),
             \A t \in S : t \in Tasks /\ status'[t] \in Stopping
      PROVE  Goal
  BY <1>0 DEF SignalLater
<1>1. ASSUME NEW e \in Cancellers, CancelStep(e) PROVE Goal
  <2>1. CASE CancelRead(e)
    BY <2>1 DEF CancelRead
  <2>2. CASE SweepRead(e) \/ SweepWrite(e) \/ CancelSignal(e)
    BY <2>2 DEF SweepRead, SweepWrite, CancelSignal
  <2>3. CASE DispatchQueued(e)
    <3>1. api[e].task \in Tasks
      BY <2>3, RequestFields DEF DispatchQueued
    <3>2. CASE MarkCancelled(api[e].task, "user") /\ SignalLater(e, CascadeSignalled(api[e].task))
      <4>1. \A t \in CascadeSignalled(api[e].task) : t \in Tasks /\ status'[t] = "cancelling"
        BY <3>2 DEF MarkCancelled, CascadeSignalled
      <4> QED BY <1>0, <3>2, <4>1 DEF Stopping
    <3>3. CASE SignalLater(e, {})
      BY <1>0, <3>3
    <3> QED BY <2>3, <3>2, <3>3 DEF DispatchQueued
  <2>4. CASE DispatchRunning(e)
    <3>1. api[e].task \in Tasks
      BY <2>4, RequestFields DEF DispatchRunning
    <3>2. CASE MarkCancelling(api[e].task, "user") /\ SignalLater(e, {api[e].task})
      <4>1. status'[api[e].task] = "cancelling"
        BY <3>1, <3>2 DEF MarkCancelling, TableTypeOK
      <4> QED BY <1>0, <3>1, <3>2, <4>1 DEF Stopping
    <3>3. CASE /\ SignalLater(e, {u \in {api[e].task} : status[u] = "cancelling"})
               /\ UNCHANGED tableVars
      <4>1. status' = status
        BY <3>3 DEF tableVars, outcomeVars
      <4> QED BY <1>0, <3>1, <3>3, <4>1 DEF Stopping
    <3> QED BY <2>4, <3>2, <3>3 DEF DispatchRunning
  <2>5. CASE DispatchSettled(e)
    BY <1>0, <2>5 DEF DispatchSettled
  <2> QED BY <1>1, <2>1, <2>2, <2>3, <2>4, <2>5 DEF CancelStep, CancelWrite
<1>2. CASE EnqueueTask \/ ClaimTask \/ RequeueTasks \/ FinishTask \/ PersistExecution
  BY <1>2 DEF EnqueueTask, ClaimTask, RequeueTasks, FinishTask, PersistExecution
<1>3. CASE Restart
  BY <1>3 DEF Restart
<1>4. CASE UNCHANGED vars
  BY <1>4 DEF vars
<1> QED BY <1>1, <1>2, <1>3, <1>4 DEF Next

\* A row that was asked to stop never runs again, so a signal is never stale.
LEMMA SignalledStep ==
  ASSUME WorkerInv, [WorkerNext]_allVars
  PROVE  Signalled'
<1> USE DEF WorkerInv
<1>1. ASSUME NEW t \in Tasks, status[t] \in Stopping PROVE status'[t] \in Stopping
  BY <1>1, StatusStep DEF Calm, Claims, PutsBack, Moves, Stopping
<1>2. ASSUME NEW t \in Tasks, sig'[t] PROVE status'[t] \in Stopping
  BY <1>1, <1>2, SigStep DEF SigChange, Signalled
<1>3. ASSUME NEW c \in Cancellers, api'[c].pc = "signal", NEW t \in api'[c].tasks
      PROVE  status'[t] \in Stopping
  <2>1. CASE api'[c] = api[c]
    <3>1. api[c].pc = "signal" /\ t \in api[c].tasks
      BY <1>3, <2>1
    <3>2. t \in Tasks
      <4>1. api[c] \in ApiStates
        BY DEF TypeOK
      <4> QED BY <3>1, <4>1 DEF ApiStates
    <3> QED BY <1>1, <3>1, <3>2 DEF Signalled
  <2>2. CASE api'[c] # api[c]
    BY <1>3, <2>2, WorkerIsQueueStep, ApiSignals
  <2> QED BY <2>1, <2>2
<1> QED BY <1>2, <1>3 DEF Signalled

-----------------------------------------------------------------------------
(* Ownership.                                                              *)

\* An executor that is over leaves no running row behind, or the process is stopping.
LEMMA ExecLetsGo ==
  ASSUME WorkerInv, NEW t \in Tasks, ExecStep(t), ex'[t] = "none"
  PROVE  status'[t] # "running" \/ pc = "stopping"
<1> USE DEF WorkerInv
<1>0. ASSUME NEW s, Goto(t, s), s # "none" PROVE FALSE
  BY <1>0 DEF Goto, WorkerTyped
<1>1. CASE StartExecutor(t) \/ DetectDrift(t) \/ Submit(t) \/ LoseAnswer(t) \/ Return(t) \/ Raise(t)
           \/ CrossSubmitBoundary(t) \/ SaveJob(t) \/ CloseDrift(t) \/ CancelWhileWorking(t)
  BY <1>0, <1>1 DEF StartExecutor, DetectDrift, Submit, LoseAnswer, Submitting, Return, Raise,
                    CrossSubmitBoundary, SaveJob, CloseDrift, CancelWhileWorking
<1>2. CASE CloseOk(t)
  <2>1. MarkSucceeded(t)
    BY <1>0, <1>2 DEF CloseOk
  <2> QED BY <2>1 DEF MarkSucceeded, TypeOK, TableTypeOK
<1>3. CASE CloseBad(t)
  <2>1. MarkFailed(t)
    BY <1>0, <1>3 DEF CloseBad
  <2> QED BY <2>1 DEF MarkFailed
<1>4. CASE ClosePutback(t)
  <2>1. Requeue({t})
    BY <1>0, <1>4 DEF ClosePutback
  <2> QED BY <2>1 DEF Requeue
<1>5. CASE CloseCancel(t)
  BY <1>5, FinalizeCloses DEF CloseCancel
<1>6. CASE ResumeStart(t)
  BY <1>0, <1>6 DEF ResumeStart
<1>7. CASE CancelBeforeStart(t) \/ CancelWhileClosing(t)
  <2>1. sig[t] /\ status' = status
    BY <1>7 DEF CancelBeforeStart, CancelWhileClosing, PersistProvider, tableVars, outcomeVars
  <2> QED BY <2>1 DEF Signalled, Stopping
<1> QED BY <1>1, <1>2, <1>3, <1>4, <1>5, <1>6, <1>7 DEF ExecStep

\* Ownership of t survives a step that takes none of its grounds away.
LEMMA OwnedStays ==
  ASSUME NEW t \in Tasks, Owned(t),
         ex[t] # "none" => ex'[t] # "none",
         cur = t => cur' = t \/ ex'[t] # "none",
         t \in resume => t \in resume' \/ ex'[t] # "none",
         \A o \in todo : o.task = t => o \in todo',
         \/ ex'[t] # "none"
         \/ \A s \in slots : s.task = t /\ ~s.pending /\ s.fut = "cancelled" => s \in slots',
         pc \in {"down", "boot", "stopping"} => pc' \in {"down", "boot", "stopping"}
  PROVE  Owned(t)'
  BY DEF Owned, Finished

\* No step leaves a running row to nobody.
LEMMA RunningIsOwnedStep ==
  ASSUME WorkerInv, [WorkerNext]_allVars
  PROVE  RunningIsOwned'
<1> SUFFICES ASSUME NEW t \in Tasks, status'[t] = "running" PROVE Owned(t)'
  BY DEF RunningIsOwned
<1> USE DEF WorkerInv
<1>a. CASE Claims(t)
  BY <1>a DEF Claims, Owned
<1>b. ASSUME ~Claims(t) PROVE status[t] = "running" /\ Owned(t)
  <2>1. status[t] = "running"
    BY <1>b, StatusStep DEF Calm, PutsBack, Moves
  <2> QED BY <2>1 DEF RunningIsOwned
<1> SUFFICES ASSUME status[t] = "running", Owned(t) PROVE Owned(t)'
  BY <1>a, <1>b
<1>1. CASE ClientEnqueue \/ UNCHANGED allVars
  BY <1>1, OwnedStays DEF ClientEnqueue, workerVars, loopVars, execState, allVars
<1>2. ASSUME NEW c \in Cancellers, ClientCancel(c) \/ CancelRequest(c) \/ CancelCallback(c)
      PROVE  Owned(t)'
  BY <1>2, OwnedStays DEF ClientCancel, CancelRequest, CancelCallback, workerVars, loopVars, execState
<1>3. ASSUME NEW u \in resume, DispatchUnsupported(u) PROVE Owned(t)'
  <2>1. u # t
    BY <1>3, FailCloses DEF DispatchUnsupported, WorkerTyped
  <2> QED BY <1>3, <2>1, OwnedStays DEF DispatchUnsupported
<1>4. ASSUME NEW u \in Tasks, ExecStep(u) PROVE Owned(t)'
  <2>1. ExecChange(u) /\ UNCHANGED <<pc, cur, resume, todo>>
    BY <1>4, ExecShape DEF loopVars
  <2>2. CASE ex'[t] # "none"
    BY <2>2 DEF Owned
  <2>3. CASE u = t /\ ex'[t] = "none"
    BY <1>4, <2>1, <2>3, ExecLetsGo DEF Owned
  <2>4. CASE u # t
    <3>1. ex'[t] = ex[t]
      BY <2>1, <2>4 DEF ExecChange
    <3>2. LiveSlot(u).task = u
      BY <2>1, LiveSlotIs DEF ExecChange
    <3>3. \A s \in slots : s.task = t => s \in slots'
      BY <2>1, <2>4, <3>2 DEF ExecChange, GoesOn, Promotes, Promoted, Ends
    <3> QED BY <2>1, <3>1, <3>3, OwnedStays
  <2> QED BY <2>2, <2>3, <2>4
<1>5. ASSUME NEW o \in todo, ScanOrphan(o) PROVE Owned(t)'
  <2>1. UNCHANGED <<pc, cur, slots, ex>> /\ todo' = todo \ {o} /\ resume \subseteq resume'
    BY <1>5 DEF ScanOrphan
  <2>2. CASE t = o.task
    <3>1. FinalizeCancelled(t, {}) \/ FailOrCancel(t) \/ t \in resume'
      BY <1>5, <2>2 DEF ScanOrphan
    <3>2. t \in resume'
      BY <3>1, FinalizeCloses, FailCloses
    <3> QED BY <3>2 DEF Owned
  <2>3. CASE t # o.task
    BY <2>1, <2>3, OwnedStays
  <2> QED BY <2>2, <2>3
<1>6. ASSUME NEW s \in slots, DrainOne(s) PROVE Owned(t)'
  <2>1. UNCHANGED <<pc, cur, resume, todo, ex>> /\ slots' = slots \ {s}
    BY <1>6 DEF DrainOne, loopVars
  <2>2. ~(s.task = t /\ s.fut = "cancelled")
    BY <1>6, FinalizeCloses DEF DrainOne
  <2> QED BY <2>1, <2>2, OwnedStays
<1>7. CASE ScanList
  <2>1. [task |-> t, seen |-> status[t]] \in todo'
    BY <1>7 DEF ScanList
  <2> QED BY <2>1 DEF Owned
<1>8. CASE ScanDone
  <2> DEFINE able == {u \in resume : limits[<<provider[u], VideoMedia>>] > 0}
  <2>1. /\ pc = "scan" /\ UNCHANGED <<cur, todo>> /\ slots \subseteq slots' /\ resume' = resume \ able
        /\ ex' = [u \in Tasks |-> IF u \in able THEN "rready" ELSE ex[u]]
    BY <1>8 DEF ScanDone
  <2>2. t \in able => ex'[t] # "none"
    BY <2>1
  <2>3. ex[t] # "none" => ex'[t] # "none"
    BY <2>1
  <2> HIDE DEF able
  <2> QED BY <2>1, <2>2, <2>3, OwnedStays
<1>9. CASE DrainDone \/ ClaimNone \/ ClaimSelect \/ RefreshProvider
  <2>1. UNCHANGED <<resume, todo, slots, ex>> /\ pc \notin {"down", "boot", "stopping"}
    BY <1>9 DEF DrainDone, ClaimNone, ClaimSelect, RefreshProvider, execState
  <2>2. cur = t => cur' = t
    BY <1>9, NoTaskAssumption
       DEF DrainDone, ClaimNone, ClaimSelect, RefreshProvider, LoopHolds, Holding
  <2> QED BY <2>1, <2>2, OwnedStays
<1>10. CASE ClaimTake
  <2>1. UNCHANGED <<resume, todo, slots, ex>> /\ pc = "take"
    BY <1>10 DEF ClaimTake, execState
  <2>2. cur # t
    BY <2>1 DEF LoopHolds, Terminal
  <2> QED BY <2>1, <2>2, OwnedStays
<1>11. CASE Project
  <2>1. UNCHANGED <<resume, todo>> /\ pc = "project"
    BY <1>11 DEF Project
  <2>2. ASSUME NEW p \in Providers, Dispatch(p) PROVE Owned(t)'
    <3>1. slots' = Registered(slots, NewSlot(cur, p, FALSE)) /\ ex' = [ex EXCEPT ![cur] = "ready"]
      BY <2>2 DEF Dispatch, Goto
    <3>2. CASE t = cur
      <4>1. ex'[t] # "none"
        BY <3>1, <3>2 DEF WorkerTyped
      <4> QED BY <4>1 DEF Owned
    <3>3. CASE t # cur
      <4>1. ex'[t] = ex[t]
        BY <3>1, <3>3 DEF WorkerTyped
      <4>2. \A s \in slots : s.task = t => s \in slots'
        BY <3>1, <3>3 DEF Registered, NewSlot
      <4> QED BY <2>1, <3>3, <4>1, <4>2, OwnedStays
    <3> QED BY <3>2, <3>3
  <2>3. CASE UNCHANGED <<cur, slots, ex>>
    BY <2>1, <2>3, OwnedStays
  <2> QED BY <1>11, <2>2, <2>3 DEF Project
<1>12. CASE RejectUnsupported \/ RequeueFull
  <2>1. UNCHANGED <<resume, todo, slots, ex>> /\ pc \in {"unsupported", "requeue"}
    BY <1>12 DEF RejectUnsupported, RequeueFull, execState
  <2>2. cur # t
    BY <1>12 DEF RejectUnsupported, RequeueFull, MarkFailed, Requeue, tableVars, outcomeVars
  <2> QED BY <2>1, <2>2, OwnedStays
<1>13. CASE Stop \/ Stopped \/ Crash \/ Boot
  BY <1>13 DEF Stop, Stopped, Crash, Boot, Owned
<1> QED
  BY <1>1, <1>2, <1>3, <1>4, <1>5, <1>6, <1>7, <1>8, <1>9, <1>10, <1>11, <1>12, <1>13
     DEF WorkerNext, LoopStep

-----------------------------------------------------------------------------
(* Paid requests.                                                          *)

\* What a step of anybody but u's own executor does to what u's payment depends on.
Untouched(u) ==
  /\ checkpoint'[u] = checkpoint[u] /\ job'[u] = job[u] /\ submits'[u] = submits[u]
  /\ provider'[u] = provider[u] \/ (u = cur /\ provider'[u] \in Providers) \/ status[u] = "absent"
  /\ \/ ex'[u] = ex[u] \/ ex'[u] = "none"
     \/ u = cur /\ ex'[u] = "ready"
     \/ u \in resume /\ ex'[u] = "rready"
  /\ cur' = u => cur = u \/ status[u] = "queued"

\* The cancel requests do not write the execution columns, an INSERT only those of a new row.
LEMMA ClientColumns ==
  ASSUME TypeOK, NEW u \in Tasks, EnqueueTask \/ \E c \in Cancellers : CancelStep(c)
  PROVE  /\ checkpoint' = checkpoint /\ job' = job
         /\ provider'[u] = provider[u] \/ status[u] = "absent"
<1>1. CASE EnqueueTask
  <2>1. PICK t \in Tasks, p \in Derived, d \in {NoTask} \cup Tasks : Enqueue(t, d, p)
    BY <1>1 DEF EnqueueTask
  <2> QED BY <2>1 DEF Enqueue, TypeOK, TableTypeOK
<1>2. ASSUME NEW c \in Cancellers, CancelStep(c) PROVE UNCHANGED execVars
  <2>1. CASE CancelRead(c) \/ SweepRead(c) \/ DispatchSettled(c) \/ CancelSignal(c)
    BY <2>1 DEF CancelRead, SweepRead, DispatchSettled, CancelSignal, tableVars
  <2>2. CASE DispatchQueued(c) \/ DispatchRunning(c) \/ SweepWrite(c)
    BY <2>2 DEF DispatchQueued, DispatchRunning, SweepWrite, MarkCancelled, MarkCancelling,
                CancelAllQueued, tableVars
  <2> QED BY <1>2, <2>1, <2>2 DEF CancelStep, CancelWrite
<1> QED BY <1>1, <1>2 DEF execVars

LEMMA OthersPay ==
  ASSUME WorkerInv, [WorkerNext]_allVars, NEW u \in Tasks
  PROVE  Untouched(u) \/ ExecStep(u)
<1> USE DEF WorkerInv
<1>0. ASSUME UNCHANGED <<execVars, submits, ex, cur>> PROVE Untouched(u)
  BY <1>0 DEF Untouched, execVars
<1>1. CASE ClientEnqueue
  <2>1. EnqueueTask /\ UNCHANGED <<submits, ex, cur>>
    BY <1>1 DEF ClientEnqueue, workerVars, loopVars, execState
  <2> QED BY <2>1, ClientColumns DEF Untouched
<1>2. ASSUME NEW c \in Cancellers, ClientCancel(c) \/ CancelRequest(c) \/ CancelCallback(c)
      PROVE  Untouched(u)
  <2>1. CancelStep(c) /\ UNCHANGED <<submits, ex, cur>>
    BY <1>2 DEF ClientCancel, CancelRequest, CancelCallback, CancelStep, workerVars, loopVars, execState
  <2> QED BY <2>1, ClientColumns DEF Untouched
<1>3. ASSUME NEW t \in resume, DispatchUnsupported(t) PROVE Untouched(u)
  BY <1>0, <1>3, FailCloses DEF DispatchUnsupported, WorkerTyped
<1>4. ASSUME NEW t \in Tasks, ExecStep(t), t # u PROVE Untouched(u)
  <2>1. ex'[u] = ex[u] /\ cur' = cur
    BY <1>4, ExecShape DEF ExecChange, loopVars
  <2>2. submits'[u] = submits[u]
    BY <1>4 DEF ExecStep, StartExecutor, DetectDrift, CrossSubmitBoundary, Submit, LoseAnswer,
                SaveJob, Return,
                Raise, CloseOk, CloseBad, CloseDrift, ClosePutback, CloseCancel, ResumeStart,
                CancelBeforeStart, CancelWhileWorking, CancelWhileClosing, WorkerTyped
  <2>3. /\ checkpoint'[u] = checkpoint[u] /\ job'[u] = job[u] /\ provider'[u] = provider[u]
    <3>1. CASE UNCHANGED execVars
      BY <3>1 DEF execVars
    <3>2. CASE StartExecutor(t) \/ DetectDrift(t) \/ Submit(t) \/ LoseAnswer(t) \/ Return(t) \/ Raise(t)
               \/ ResumeStart(t) \/ CancelBeforeStart(t) \/ CancelWhileWorking(t)
      BY <3>1, <3>2 DEF StartExecutor, DetectDrift, Submit, LoseAnswer, Submitting, Return, Raise,
                        ResumeStart, CancelBeforeStart, CancelWhileWorking, tableVars
    <3>3. CASE CloseOk(t) \/ CloseBad(t) \/ ClosePutback(t)
      BY <3>1, <3>3 DEF CloseOk, CloseBad, ClosePutback, MarkSucceeded, MarkFailed, Requeue, tableVars
    <3>4. CASE CloseCancel(t)
      BY <3>1, <3>4, FinalizeCloses DEF CloseCancel
    <3>5. ASSUME NEW p, PersistProvider(t, p) \/ PersistCheckpoint(t, p) \/ PersistJob(t)
          PROVE  checkpoint'[u] = checkpoint[u] /\ job'[u] = job[u] /\ provider'[u] = provider[u]
      BY <1>4, <3>5 DEF PersistProvider, PersistCheckpoint, PersistJob, TypeOK, TableTypeOK
    <3>6. CASE CrossSubmitBoundary(t) \/ SaveJob(t) \/ CloseDrift(t) \/ CancelWhileClosing(t)
      BY <3>1, <3>5, <3>6 DEF CrossSubmitBoundary, SaveJob, CloseDrift, CancelWhileClosing, tableVars
    <3> QED BY <1>4, <3>2, <3>3, <3>4, <3>6 DEF ExecStep
  <2> QED BY <2>1, <2>2, <2>3 DEF Untouched
<1>5. ASSUME NEW o \in todo, ScanOrphan(o) PROVE Untouched(u)
  <2>1. o.task \in Tasks
    BY DEF WorkerTyped
  <2>2. FinalizeCancelled(o.task, {}) \/ FailOrCancel(o.task) \/ UNCHANGED tableVars
    BY <1>5 DEF ScanOrphan
  <2>3. UNCHANGED execVars
    BY <2>1, <2>2, FinalizeCloses, FailCloses DEF tableVars
  <2> QED BY <1>0, <1>5, <2>3 DEF ScanOrphan
<1>6. ASSUME NEW s \in slots, DrainOne(s) PROVE Untouched(u)
  <2>1. s.task \in Tasks
    BY DEF WorkerTyped, Slot
  <2>2. FinalizeCancelled(s.task, {}) \/ UNCHANGED tableVars
    BY <1>6 DEF DrainOne
  <2>3. UNCHANGED execVars
    BY <2>1, <2>2, FinalizeCloses DEF tableVars
  <2> QED BY <1>0, <1>6, <2>3 DEF DrainOne, loopVars
<1>7. CASE ScanList \/ DrainDone \/ ClaimNone \/ Stop \/ Stopped \/ Boot \/ UNCHANGED allVars
  BY <1>0, <1>7 DEF ScanList, DrainDone, ClaimNone, Stop, Stopped, Boot, allVars, workerVars, loopVars,
                    execState, vars, tableVars
<1>8. CASE ScanDone
  <2>1. UNCHANGED <<execVars, submits, cur>>
    BY <1>8 DEF ScanDone, vars, tableVars
  <2>2. ex'[u] = ex[u] \/ (u \in resume /\ ex'[u] = "rready")
    BY <1>8 DEF ScanDone
  <2> QED BY <2>1, <2>2 DEF Untouched, execVars
<1>9. CASE ClaimSelect
  <2>1. UNCHANGED <<execVars, submits, ex>>
    BY <1>9 DEF ClaimSelect, vars, tableVars, execState
  <2>2. status[cur'] = "queued"
    BY <1>9 DEF ClaimSelect, OldestClaimable, Claimable
  <2> QED BY <2>1, <2>2 DEF Untouched, execVars
<1>10. CASE ClaimTake \/ RejectUnsupported \/ RequeueFull
  <2>1. UNCHANGED <<execVars, submits, ex>>
    BY <1>10 DEF ClaimTake, RejectUnsupported, RequeueFull, ClaimNext, MarkFailed, Requeue, tableVars,
                 execState
  <2>2. cur' = cur \/ cur' = NoTask
    BY <1>10 DEF ClaimTake, RejectUnsupported, RequeueFull
  <2> QED BY <2>1, <2>2, NoTaskAssumption DEF Untouched, execVars
<1>11. CASE Project
  <2>1. UNCHANGED <<execVars, submits>> /\ (cur' = cur \/ cur' = NoTask)
    BY <1>11 DEF Project, Dispatch, vars, tableVars
  <2>2. ex'[u] = ex[u] \/ (u = cur /\ ex'[u] = "ready")
    BY <1>11 DEF Project, Dispatch, Goto, WorkerTyped
  <2> QED BY <2>1, <2>2, NoTaskAssumption DEF Untouched, execVars
<1>12. CASE RefreshProvider
  <2>1. UNCHANGED <<submits, ex, cur>> /\ curProv \in Providers /\ PersistProvider(cur, curProv)
    BY <1>12 DEF RefreshProvider, execState, LoopHolds
  <2> QED BY <2>1 DEF Untouched, PersistProvider, TypeOK, TableTypeOK
<1>13. CASE Crash
  <2>1. UNCHANGED <<execVars, submits>> /\ cur' = NoTask /\ ex'[u] = "none"
    BY <1>13 DEF Crash, Restart, tableVars
  <2> QED BY <2>1, NoTaskAssumption DEF Untouched, execVars
<1> QED
  BY <1>1, <1>2, <1>3, <1>4, <1>5, <1>6, <1>7, <1>8, <1>9, <1>10, <1>11, <1>12, <1>13
     DEF WorkerNext, LoopStep

\* The live entry of a task that has an executor keeps its provider.
LEMMA LiveProviderKept ==
  ASSUME WorkerInv, [WorkerNext]_allVars, NEW u \in Tasks, ex[u] # "none",
         NEW s \in slots', s.task = u, s.fut = "live"
  PROVE  \E r \in slots : r.task = u /\ r.fut = "live" /\ r.prov = s.prov
<1> USE DEF WorkerInv
<1>1. CASE UNCHANGED <<slots, ex, limits>> \/ slots' = {}
  BY <1>1
<1>2. ASSUME NEW t \in Tasks, ExecChange(t)
      PROVE  \E r \in slots : r.task = u /\ r.fut = "live" /\ r.prov = s.prov
  <2>1. LiveSlot(t) \in slots /\ LiveSlot(t).task = t /\ LiveSlot(t).fut = "live" /\ LiveSlot(t) \in Slot
    BY <1>2, LiveSlotIs DEF ExecChange, WorkerTyped
  <2>2. /\ [LiveSlot(t) EXCEPT !.pending = FALSE].task = t
        /\ [LiveSlot(t) EXCEPT !.pending = FALSE].prov = LiveSlot(t).prov
    BY <2>1 DEF Slot
  <2>3. \A o \in {"done", "cancelled"} : [LiveSlot(t) EXCEPT !.fut = o].fut # "live"
    BY <2>1 DEF Slot
  <2>4. CASE GoesOn(t) \/ Ends(t)
    BY <2>3, <2>4 DEF GoesOn, Ends
  <2>5. CASE Promotes(t)
    BY <2>1, <2>2, <2>5 DEF Promotes, Promoted
  <2> QED BY <1>2, <2>4, <2>5 DEF ExecChange
<1>3. CASE \E r \in slots : slots' = slots \ {r}
  BY <1>3
<1>4. ASSUME NEW p \in Providers, Starts(p)
      PROVE  \E r \in slots : r.task = u /\ r.fut = "live" /\ r.prov = s.prov
  <2>1. cur # u /\ NewSlot(cur, p, FALSE).task = cur
    BY <1>4 DEF Starts, LoopHolds, Holding, NewSlot
  <2> QED BY <1>4, <2>1 DEF Starts, Registered
<1>5. CASE Revives
  BY <1>5 DEF Revives, LoopHolds, SlotsMatch
<1> QED BY <1>1, <1>2, <1>3, <1>4, <1>5, SlotStep DEF SlotChange

\* What somebody else does never makes a second payment possible.
LEMMA UntouchedStaysPaid ==
  ASSUME WorkerInv, [WorkerNext]_allVars, NEW u \in Tasks, Untouched(u)
  PROVE  PaidFor(u)'
<1> USE DEF WorkerInv
<1>0. submits[u].paid \in Nat /\ submits[u].again \in Nat
  BY AttemptsAreNat DEF WorkerTyped
<1>1. PaidFor(u) /\ Entry
  BY Entering DEF Paid
<1>2. ASSUME u \in resume' PROVE checkpoint[u] /\ submits[u].paid > 0
  BY <1>1, <1>2 DEF Entry, Resumable, PaidFor
<1>3. status[u] # "absent" => status'[u] # "absent"
  BY StatusStep DEF Calm, Claims, PutsBack, Moves
<1>4. ASSUME ex'[u] = "ready" \/ cur' = u \/ status'[u] \in {"absent", "queued"}
      PROVE  ~checkpoint[u] /\ submits[u].paid = 0
  <2>1. CASE ex'[u] = "ready"
    BY <1>1, <2>1 DEF Untouched, PaidFor
  <2>2. CASE cur' = u
    BY <1>1, <2>2 DEF Untouched, PaidFor
  <2>3. CASE status'[u] \in {"absent", "queued"}
    <3>1. CASE Calm(u)
      BY <1>1, <2>3, <3>1 DEF Calm, Moves, PaidFor
    <3>2. CASE PutsBack(u)
      BY <1>0, <1>1, <3>2 DEF PutsBack, PaidFor
    <3> QED BY <2>3, <3>1, <3>2, StatusStep DEF Claims
  <2> QED BY <1>4, <2>1, <2>2, <2>3
<1>5. ASSUME checkpoint[u]
      PROVE  /\ IsVideo(u) /\ status'[u] # "absent"
             /\ provider'[u] \in Providers /\ provider'[u] = provider[u]
  BY <1>1, <1>3, <1>5 DEF PaidFor, Untouched
<1>6. IsVideo(u)' <=> IsVideo(u)
  BY DEF IsVideo
<1>7. ASSUME submits[u].again > 0 PROVE RepeatedBy(u)'
  <2>1. RepeatedBy(u) /\ submits[u].paid > 0
    BY <1>0, <1>1, <1>7 DEF PaidFor
  <2>2. IsVideo(u) => provider'[u] = provider[u]
    BY <1>1, <1>5, <2>1 DEF PaidFor
  <2> QED BY <1>6, <2>1, <2>2 DEF RepeatedBy
<1>8. ASSUME ex'[u] = "ckpt", NEW s \in slots', s.task = u, s.fut = "live"
      PROVE  s.prov = provider'[u]
  <2>1. ex[u] = "ckpt"
    BY <1>8 DEF Untouched
  <2>2. PICK r \in slots : r.task = u /\ r.fut = "live" /\ r.prov = s.prov
    BY <1>8, <2>1, LiveProviderKept
  <2> QED BY <1>1, <1>5, <2>1, <2>2 DEF PaidFor
<1>9. ex'[u] \in {"ckpt", "run", "accepted", "drift", "putback"} => ex'[u] = ex[u]
  BY DEF Untouched
<1>10. ex'[u] \in Resuming => ex'[u] = ex[u] \/ u \in resume
  BY DEF Untouched, Resuming
<1> QED
  BY <1>1, <1>2, <1>4, <1>5, <1>6, <1>7, <1>8, <1>9, <1>10 DEF PaidFor, Untouched, IsVideo

\* Nor does the executor of u: it pays from one place only, which it reaches once.
LEMMA ExecutorStaysPaid ==
  ASSUME WorkerInv, NEW u \in Tasks, ExecStep(u)
  PROVE  PaidFor(u)'
<1> USE DEF WorkerInv
<1>0. PaidFor(u) /\ ex[u] # "none" /\ UNCHANGED <<cur, resume>>
  BY ExecShape DEF Paid, ExecChange, loopVars
<1>n. submits[u].paid \in Nat /\ submits[u].again \in Nat
  BY AttemptsAreNat DEF WorkerTyped
<1>1. u \notin resume /\ cur # u /\ status[u] \in Begun
  BY <1>0, NoTaskAssumption DEF RowsBegun, LoopHolds
<1>2. /\ status'[u] # "absent"
      /\ status'[u] = "queued" => ~checkpoint[u] /\ submits[u].paid = 0 /\ ex'[u] = "none"
  BY <1>0, <1>n, <1>1, ExecRows DEF Calm, PutsBack, Moves, Begun, PaidFor, LoopHolds
<1>3. ASSUME NEW s, Goto(u, s) PROVE ex'[u] = s
  BY <1>3 DEF Goto, WorkerTyped
<1>4. ASSUME NEW s, EndExecutor(u, s) PROVE ex'[u] = "none"
  BY <1>4 DEF EndExecutor, WorkerTyped
<1> DEFINE Same == checkpoint'[u] = checkpoint[u] /\ job'[u] = job[u] /\ submits'[u] = submits[u]
           Kept == \/ provider'[u] = provider[u]
                   \/ provider'[u] \in Providers /\ ex[u] = "drift"
<1>5. ASSUME UNCHANGED <<execVars, submits>> PROVE Same /\ Kept
  BY <1>5 DEF execVars
<1>6. ASSUME NEW p \in Providers, PersistProvider(u, p), UNCHANGED submits, ex[u] = "drift"
      PROVE  Same /\ Kept
  BY <1>6 DEF PersistProvider, TypeOK, TableTypeOK
\* A step that leaves the columns alone and goes to a place that promises no more.
<1>7. ASSUME Same, Kept,
             ex'[u] \in {"none", "run", "drift", "putback", "ok", "bad", "cancel", "raise", "poll",
                         "rwait", "rpoll"},
             ex'[u] = "run" => ex[u] = "ready",
             ex'[u] \in {"drift", "putback"} => IsVideo(u) /\ ~checkpoint[u],
             ex'[u] \in {"rwait", "rpoll"} => ex[u] \in Resuming
      PROVE  PaidFor(u)'
  <2>1. IsVideo(u)' <=> IsVideo(u)
    BY DEF IsVideo
  <2>2. ASSUME submits[u].again > 0 PROVE RepeatedBy(u)'
    <3>1. RepeatedBy(u) /\ submits[u].paid > 0
      BY <1>0, <1>n, <2>2 DEF PaidFor
    <3>2. IsVideo(u) => provider'[u] = provider[u]
      BY <1>0, <1>7, <3>1 DEF PaidFor
    <3> QED BY <2>1, <3>1, <3>2 DEF RepeatedBy
  <2>3. ex[u] = "ready" => ~checkpoint[u] /\ submits[u].paid = 0 /\ submits[u].again = 0
    BY <1>0, <1>n DEF PaidFor
  <2> QED BY <1>0, <1>1, <1>2, <1>7, <2>1, <2>2, <2>3 DEF PaidFor, Resuming, IsVideo
<1> HIDE DEF Same, Kept
<1>8. CASE StartExecutor(u) \/ DetectDrift(u) \/ Return(u) \/ Raise(u) \/ CancelWhileWorking(u)
           \/ CancelBeforeStart(u) \/ ResumeStart(u)
  <2>1. UNCHANGED <<execVars, submits>>
    BY <1>8 DEF StartExecutor, DetectDrift, Return, Raise, CancelWhileWorking, CancelBeforeStart,
                ResumeStart, tableVars
  <2>2. /\ ex'[u] \in {"none", "run", "drift", "ok", "bad", "raise", "rwait", "rpoll"}
        /\ ex'[u] = "run" => ex[u] = "ready"
        /\ ex'[u] = "drift" => IsVideo(u) /\ ~checkpoint[u]
        /\ ex'[u] \in {"rwait", "rpoll"} => ex[u] \in Resuming
    BY <1>0, <1>3, <1>4, <1>8 DEF StartExecutor, DetectDrift, Return, Raise, CancelWhileWorking,
                            CancelBeforeStart, ResumeStart, Resuming, PaidFor
  <2> QED BY <1>5, <1>7, <2>1, <2>2
<1>9. CASE CloseOk(u) \/ CloseBad(u) \/ ClosePutback(u)
  <2>1. UNCHANGED <<execVars, submits>>
    BY <1>9 DEF CloseOk, CloseBad, ClosePutback, MarkSucceeded, MarkFailed, Requeue, tableVars
  <2>2. ex'[u] \in {"none", "cancel", "bad"}
    BY <1>3, <1>4, <1>9 DEF CloseOk, CloseBad, ClosePutback
  <2> QED BY <1>5, <1>7, <2>1, <2>2
<1>10. CASE CloseCancel(u)
  <2>1. UNCHANGED <<execVars, submits>>
    BY <1>10, FinalizeCloses DEF CloseCancel
  <2>2. ex'[u] = "none"
    BY <1>4, <1>10 DEF CloseCancel
  <2> QED BY <1>5, <1>7, <2>1, <2>2
<1>11. CASE CloseDrift(u) \/ CancelWhileClosing(u)
  <2>1. /\ UNCHANGED submits
        /\ (ex[u] = "drift" /\ \E p \in Providers : PersistProvider(u, p)) \/ UNCHANGED tableVars
    BY <1>11 DEF CloseDrift, CancelWhileClosing
  <2>2. Same /\ Kept
    BY <1>5, <1>6, <2>1 DEF tableVars
  <2>3. ex'[u] \in {"none", "putback", "raise"} /\ (ex'[u] = "putback" => ex[u] = "drift")
    BY <1>3, <1>4, <1>11 DEF CloseDrift, CancelWhileClosing
  <2> QED BY <1>0, <1>7, <2>2, <2>3 DEF PaidFor
<1>12. CASE CrossSubmitBoundary(u)
  <2>1. CASE PersistCheckpoint(u, LiveSlot(u).prov) /\ Goto(u, "ckpt")
    <3>1. LiveSlot(u).prov \in Providers
      BY <1>0, LiveSlotIs DEF WorkerTyped, Slot
    <3>2. /\ checkpoint'[u] = TRUE /\ provider'[u] \in Providers /\ job'[u] = job[u]
          /\ ~checkpoint[u] /\ IsVideo(u)
      BY <2>1, <3>1 DEF PersistCheckpoint, CheckpointAllowed, IsVideo, TypeOK, TableTypeOK
    <3>3. ex'[u] = "ckpt" /\ submits' = submits
      BY <1>3, <1>12, <2>1 DEF CrossSubmitBoundary
    <3>4. submits[u].paid = 0 /\ submits[u].again = 0
      BY <1>0, <1>n, <3>2 DEF PaidFor
    <3>5. ASSUME NEW s \in slots', s.task = u, s.fut = "live" PROVE s.prov = provider'[u]
      <4>1. slots' = slots /\ provider'[u] = LiveSlot(u).prov
        BY <1>12, <2>1 DEF CrossSubmitBoundary, PersistCheckpoint, TypeOK, TableTypeOK
      <4>2. s = LiveSlot(u)
        BY <1>0, <3>5, <4>1, LiveSlotIs DEF LiveSlots
      <4> QED BY <4>1, <4>2
    <3>6. status'[u] # "queued"
      BY <1>2, <3>3
    <3> QED BY <1>0, <1>1, <1>2, <3>2, <3>3, <3>4, <3>5, <3>6 DEF PaidFor, Resuming, IsVideo
  <2>2. CASE Goto(u, "bad") /\ UNCHANGED tableVars
    <3>1. UNCHANGED <<execVars, submits>> /\ ex'[u] = "bad"
      BY <1>3, <1>12, <2>2 DEF CrossSubmitBoundary, tableVars
    <3> QED BY <1>5, <1>7, <3>1
  <2> QED BY <1>12, <2>1, <2>2 DEF CrossSubmitBoundary
\* The two steps that pay.
<1>s. ASSUME Submitting(u), UNCHANGED tableVars, submits'[u].paid = submits[u].paid + 1,
             submits'[u].again \in {submits[u].again, submits[u].again + 1},
             submits'[u].again = submits[u].again
               => ex'[u] \in {"bad"} \cup (IF IsVideo(u) THEN {"accepted"} ELSE {"poll"}),
             submits'[u].again # submits[u].again => slots' = slots /\ ex'[u] = ex[u] /\ Repeats(u)
      PROVE  PaidFor(u)'
  <2>1. UNCHANGED <<checkpoint, job, provider, status>> /\ (IsVideo(u)' <=> IsVideo(u))
    BY <1>s DEF tableVars, execVars, outcomeVars, IsVideo
  <2>2. /\ submits[u].paid = submits[u].again
        /\ ex[u] = (IF IsVideo(u) THEN "ckpt" ELSE "run") /\ (IsVideo(u) <=> checkpoint[u])
    BY <1>0, <1>s DEF Submitting, PaidFor
  <2>3. status[u] \notin {"absent", "queued"}
    BY <1>1 DEF Begun
  <2>4. ASSUME submits'[u].again > 0 PROVE RepeatedBy(u)'
    <3>1. CASE submits'[u].again = submits[u].again
      <4>1. RepeatedBy(u)
        BY <1>0, <2>4, <3>1 DEF PaidFor
      <4> QED BY <2>1, <4>1 DEF RepeatedBy
    <3>2. CASE Repeats(u)
      <4>1. IsVideo(u) => LiveSlot(u).prov = provider[u]
        BY <1>0, <2>2, LiveSlotIs DEF PaidFor
      <4> QED BY <2>1, <3>2, <4>1 DEF Repeats, RepeatedBy
    <3> QED BY <1>s, <3>1, <3>2
  <2>5. submits'[u].paid > 0 /\ submits'[u].paid \in {submits'[u].again, submits'[u].again + 1}
    BY <1>n, <1>s, <2>2
  <2>6. CASE submits'[u].again = submits[u].again
    BY <1>0, <1>1, <1>n, <1>s, <2>1, <2>2, <2>3, <2>4, <2>5, <2>6 DEF PaidFor, Resuming
  <2>7. CASE submits'[u].again # submits[u].again
    <3>1. submits'[u].paid = submits'[u].again
      BY <1>n, <1>s, <2>2, <2>7
    <3> QED BY <1>0, <1>1, <1>s, <2>1, <2>2, <2>3, <2>4, <2>5, <2>7, <3>1 DEF PaidFor, Resuming
  <2> QED BY <2>6, <2>7
<1>r. submits \in [Tasks -> [paid : Nat, again : 0..(MaxAttempts - 1)]]
  BY DEF WorkerTyped
<1>13. CASE Submit(u)
  <2>1. submits'[u].paid = submits[u].paid + 1 /\ submits'[u].again = submits[u].again
    BY <1>r, <1>13 DEF Submit
  <2>2. ex'[u] = (IF IsVideo(u) THEN "accepted" ELSE "poll")
    BY <1>3, <1>13 DEF Submit
  <2> QED BY <1>s, <1>13, <2>1, <2>2 DEF Submit
<1>15. CASE LoseAnswer(u)
  <2>1. CASE /\ Repeats(u) /\ UNCHANGED ex
             /\ submits' = [submits EXCEPT ![u] = [paid |-> @.paid + 1, again |-> @.again + 1]]
    <3>1. submits'[u].paid = submits[u].paid + 1 /\ submits'[u].again = submits[u].again + 1
      BY <1>r, <2>1
    <3> QED BY <1>n, <1>s, <1>15, <2>1, <3>1 DEF LoseAnswer
  <2>2. CASE submits' = [submits EXCEPT ![u].paid = @ + 1] /\ Goto(u, "bad")
    <3>1. /\ submits'[u].paid = submits[u].paid + 1 /\ submits'[u].again = submits[u].again
          /\ ex'[u] = "bad"
      BY <1>3, <1>r, <2>2
    <3> QED BY <1>s, <1>15, <3>1 DEF LoseAnswer
  <2> QED BY <1>15, <2>1, <2>2 DEF LoseAnswer
<1>14. CASE SaveJob(u)
  <2>1. UNCHANGED <<checkpoint, provider, submits>> /\ ex'[u] = "poll" /\ ex[u] = "accepted"
    BY <1>3, <1>14 DEF SaveJob, PersistJob
  <2>2. (IsVideo(u)' <=> IsVideo(u)) /\ (RepeatedBy(u)' <=> RepeatedBy(u))
    BY <2>1 DEF RepeatedBy, IsVideo
  <2>3. status'[u] = status[u]
    BY <1>14 DEF SaveJob, PersistJob, outcomeVars
  <2> QED BY <1>0, <1>1, <1>n, <2>1, <2>2, <2>3 DEF PaidFor, Resuming, Begun
<1> QED BY <1>8, <1>9, <1>10, <1>11, <1>12, <1>13, <1>14, <1>15 DEF ExecStep

LEMMA PaidStep ==
  ASSUME WorkerInv, [WorkerNext]_allVars
  PROVE  Paid'
  BY OthersPay, UntouchedStaysPaid, ExecutorStaysPaid DEF Paid

-----------------------------------------------------------------------------
(* The invariant is inductive.                                             *)

LEMMA LoopTypedStep ==
  ASSUME WorkerInv, [WorkerNext]_allVars
  PROVE  /\ pc' \in LoopStates /\ lane' \in 1..Len(Lanes) /\ tried' \subseteq Tasks
         /\ cur' \in Tasks \cup {NoTask} /\ curProv' \in Providers \cup {NoProvider}
         /\ submits' \in [Tasks -> [paid : Nat, again : 0..(MaxAttempts - 1)]]
         /\ restarts' \in 0..MaxRestarts
<1> DEFINE Goal ==
         /\ pc' \in LoopStates /\ lane' \in 1..Len(Lanes) /\ tried' \subseteq Tasks
         /\ cur' \in Tasks \cup {NoTask} /\ curProv' \in Providers \cup {NoProvider}
         /\ submits' \in [Tasks -> [paid : Nat, again : 0..(MaxAttempts - 1)]]
         /\ restarts' \in 0..MaxRestarts
<1> USE DEF WorkerInv, WorkerTyped
<1>0. Len(Lanes) \in Nat /\ Len(Lanes) >= 1 /\ MaxRestarts \in Nat
  BY LanesAssumption, RestartsAssumption
<1>1. CASE UNCHANGED <<loopVars, submits, restarts>>
  BY <1>1 DEF loopVars
<1>2. ASSUME NextLane PROVE lane' \in 1..Len(Lanes) /\ tried' \subseteq Tasks /\ pc' \in {"claim", "drain"}
  BY <1>0, <1>2 DEF NextLane
<1>3. CASE ClientEnqueue \/ UNCHANGED allVars
  BY <1>1, <1>3 DEF ClientEnqueue, workerVars, allVars
<1>4. ASSUME NEW c \in Cancellers, ClientCancel(c) \/ CancelRequest(c) \/ CancelCallback(c) PROVE Goal
  BY <1>1, <1>4 DEF ClientCancel, CancelRequest, CancelCallback, workerVars
<1>5. ASSUME NEW t \in resume, DispatchUnsupported(t) PROVE Goal
  BY <1>5 DEF DispatchUnsupported
<1>6. ASSUME NEW t \in Tasks, ExecStep(t) PROVE Goal
  <2>1. UNCHANGED <<loopVars, restarts>>
    BY <1>6, ExecShape
  <2>2. \/ submits' = submits \/ submits' = [submits EXCEPT ![t].paid = @ + 1]
        \/ /\ submits[t].again < MaxAttempts - 1
           /\ submits' = [submits EXCEPT ![t] = [paid |-> @.paid + 1, again |-> @.again + 1]]
    BY <1>6 DEF ExecStep, StartExecutor, DetectDrift, CrossSubmitBoundary, Submit, LoseAnswer,
                SaveJob, Return,
                Raise, CloseOk, CloseBad, CloseDrift, ClosePutback, CloseCancel, ResumeStart,
                CancelBeforeStart, CancelWhileWorking, CancelWhileClosing
  <2>3. submits' \in [Tasks -> [paid : Nat, again : 0..(MaxAttempts - 1)]]
    <3> DEFINE Paying == [paid : Nat, again : 0..(MaxAttempts - 1)]
    <3>1. submits[t] \in Paying /\ submits[t].paid \in Nat /\ submits[t].again \in 0..(MaxAttempts - 1)
      OBVIOUS
    <3>2. [submits[t] EXCEPT !.paid = @ + 1] \in Paying
      BY <3>1
    <3>3. submits[t].again < MaxAttempts - 1
            => [paid |-> submits[t].paid + 1, again |-> submits[t].again + 1] \in Paying
      BY <3>1, RepeatingAssumption
    <3>4. CASE submits' = [submits EXCEPT ![t].paid = @ + 1]
      BY <3>2, <3>4
    <3>5. CASE /\ submits[t].again < MaxAttempts - 1
               /\ submits' = [submits EXCEPT ![t] = [paid |-> @.paid + 1, again |-> @.again + 1]]
      BY <3>3, <3>5
    <3> QED BY <2>2, <3>4, <3>5
  <2> QED BY <2>1, <2>3 DEF loopVars
<1>7. ASSUME NEW o \in todo, ScanOrphan(o) PROVE Goal
  BY <1>7 DEF ScanOrphan
<1>8. ASSUME NEW s \in slots, DrainOne(s) PROVE Goal
  BY <1>1, <1>8 DEF DrainOne
<1>9. CASE ScanList \/ ScanDone \/ Stop \/ Stopped \/ Boot
  <2>1. UNCHANGED <<lane, tried, cur, curProv, submits>> /\ pc' \in {"scan", "drain", "stopping", "down", "boot"}
    BY <1>9 DEF ScanList, ScanDone, Stop, Stopped, Boot
  <2>2. restarts' = restarts \/ (restarts < MaxRestarts /\ restarts' = restarts + 1)
    BY <1>9 DEF ScanList, ScanDone, Stop, Stopped, Boot
  <2> QED BY <1>0, <2>1, <2>2 DEF LoopStates
<1>10. CASE DrainDone \/ ClaimSelect \/ RefreshProvider \/ RejectUnsupported
  BY <1>0, <1>10 DEF DrainDone, ClaimSelect, RefreshProvider, RejectUnsupported, LoopStates
<1>11. CASE ClaimNone \/ ClaimTake
  BY <1>2, <1>11 DEF ClaimNone, ClaimTake, LoopStates
<1>12. CASE RequeueFull
  <2>1. cur \in Tasks
    BY <1>12 DEF RequeueFull, LoopHolds, Holding
  <2> QED BY <1>2, <1>12, <2>1 DEF RequeueFull, LoopStates
<1>13. CASE Project
  BY <1>2, <1>13 DEF Project, Dispatch, LoopStates
<1>14. CASE Crash
  BY <1>0, <1>14 DEF Crash, LoopStates
<1> QED
  BY <1>3, <1>4, <1>5, <1>6, <1>7, <1>8, <1>9, <1>10, <1>11, <1>12, <1>13, <1>14
     DEF WorkerNext, LoopStep

LEMMA WorkerTypedStep ==
  ASSUME WorkerInv, [WorkerNext]_allVars
  PROVE  WorkerTyped'
<1> USE DEF WorkerInv
<1>1. slots' \subseteq Slot /\ ex' \in [Tasks -> ExecStates] /\ limits' \in CapacityTables
  BY SlotStep, SlotsTyped
<1>2. sig' \in [Tasks -> BOOLEAN]
  BY SigStep DEF SigChange
<1>3. resume' \subseteq Tasks
  BY Entering DEF Entry, WorkerTyped
<1>4. todo' \subseteq [task : Tasks, seen : {"running", "cancelling"}]
  <2>1. CASE todo' \subseteq todo
    BY <2>1 DEF WorkerTyped
  <2>2. CASE ScanList
    BY <2>2 DEF ScanList
  <2>3. CASE UNCHANGED todo
    BY <2>1, <2>3
  <2>4. ASSUME NEW t \in Tasks, ExecStep(t) PROVE UNCHANGED todo
    BY <2>4, ExecShape DEF loopVars
  <2> QED
    BY <2>1, <2>2, <2>3, <2>4
       DEF WorkerNext, LoopStep, ClientEnqueue, ClientCancel, CancelRequest, CancelCallback, workerVars,
           loopVars, allVars, DispatchUnsupported, ScanOrphan, ScanDone, DrainOne, DrainDone, ClaimNone,
           ClaimSelect, ClaimTake, Project, RejectUnsupported, RefreshProvider, RequeueFull, Stop,
           Stopped, Crash, Boot
<1> QED BY <1>1, <1>2, <1>3, <1>4, LoopTypedStep DEF WorkerTyped

LEMMA WorkerInvInit == WorkerInit => WorkerInv
<1> SUFFICES ASSUME WorkerInit PROVE WorkerInv
  OBVIOUS
<1> USE DEF WorkerInit
<1>1. TypeOK
  BY DEF Init, TableInit, TypeOK, TableTypeOK, ApiStates, Statuses, Active, Terminal, CancelSources
<1>2. WorkerTyped
  <2>1. Len(Lanes) \in Nat /\ Len(Lanes) >= 1 /\ MaxRestarts \in Nat
    BY LanesAssumption, RestartsAssumption
  <2>3. submits \in [Tasks -> [paid : Nat, again : 0..(MaxAttempts - 1)]]
    BY RepeatingAssumption
  <2>2. sig \in [Tasks -> BOOLEAN]
    OBVIOUS
  <2> QED BY <2>1, <2>2, <2>3 DEF WorkerTyped, LoopStates, ExecStates
<1>3. SlotsMatch /\ LoopHolds /\ RowsBegun
  BY DEF SlotsMatch, LoopHolds, RowsBegun, Holding, Claimed
<1>4. Signalled
  BY DEF Signalled, Init
<1>5. ASSUME NEW t \in Tasks PROVE PaidFor(t)
  <2>1. ~checkpoint[t] /\ ~job[t] /\ submits[t] = [paid |-> 0, again |-> 0] /\ ex[t] = "none" /\ resume = {}
    BY DEF Init, TableInit
  <2> QED BY <2>1 DEF PaidFor, Resuming
<1>6. Room
  <2>1. \A p, m : Bucket(p, m) = {} /\ Semaphore(p) = {}
    BY DEF Bucket, Semaphore
  <2>2. \A p \in Providers : limits[<<p, VideoMedia>>] \in Nat
    BY LimitIsNat, MediaAssumption
  <2> QED BY <2>1, <2>2, FS_EmptySet DEF Room
<1>7. RunningIsOwned
  BY DEF RunningIsOwned, Init, TableInit
<1> QED BY <1>1, <1>2, <1>3, <1>4, <1>5, <1>6, <1>7 DEF WorkerInv, Paid

LEMMA WorkerInvInductive == WorkerInv /\ [WorkerNext]_allVars => WorkerInv'
<1> SUFFICES ASSUME WorkerInv, [WorkerNext]_allVars PROVE WorkerInv'
  OBVIOUS
<1>1. TypeOK'
  BY WorkerIsQueueStep, NextIsTableStep, TableTypeStep, ApiTypeStep DEF WorkerInv, TypeOK
<1>2. SlotChange
  BY SlotStep
<1> QED
  BY <1>1, <1>2, WorkerTypedStep, SlotsMatchStep, LoopHoldsStep, RowsBegunStep, SignalledStep, PaidStep,
     RoomStep, RunningIsOwnedStep DEF WorkerInv

LEMMA WorkerInvHolds == WorkerSpec => []WorkerInv
  BY WorkerInvInit, WorkerInvInductive, PTL DEF WorkerSpec

-----------------------------------------------------------------------------
(* What the worker promises.                                               *)

\* Type correctness; and at every moment, across re-claims under another provider, drifts,
\* cancellations and restarts, a task has exactly one live SlotTable entry if it has an
\* executor coroutine, and none if it has not.
THEOREM WorkerTypes == WorkerSpec => []WorkerTypeOK
<1>1. WorkerInv => WorkerTypeOK
  <2> SUFFICES ASSUME WorkerInv, NEW t \in Tasks
               PROVE  Cardinality(LiveSlots(t)) = (IF ex[t] = "none" THEN 0 ELSE 1)
    BY DEF WorkerInv, WorkerTyped, WorkerTypeOK
  <2>1. CASE ex[t] = "none"
    <3>1. LiveSlots(t) = {}
      BY <2>1 DEF WorkerInv, SlotsMatch, LiveSlots
    <3> QED BY <2>1, <3>1, FS_EmptySet
  <2>2. CASE ex[t] # "none"
    <3>1. LiveSlots(t) = {LiveSlot(t)}
      BY <2>2, LiveSlotIs DEF WorkerInv
    <3> QED BY <2>2, <3>1, FS_Singleton
  <2> QED BY <2>1, <2>2
<1> QED BY <1>1, WorkerInvHolds, PTL

\* No interleaving of claims, drifts, drains, stops and crashes leaves a running row to
\* nobody: a coroutine, the main loop or the next orphan scan has it on its list.
THEOREM RunningOwned == WorkerSpec => []RunningIsOwned
<1>1. WorkerInv => RunningIsOwned
  BY DEF WorkerInv
<1> QED BY <1>1, WorkerInvHolds, PTL

\* ADR 0007: whatever restarts, requeues and resumes a task goes through, its create call is
\* entered once; what its provider charged beyond the first time was a repeat inside that
\* call by a backend that repeats, and only what was paid for is resumed.
THEOREM ChargedOnce == WorkerSpec => []NoDoubleCharge
<1>1. WorkerInv => NoDoubleCharge
  <2> SUFFICES ASSUME WorkerInv, NEW t \in Tasks
               PROVE  /\ submits[t].paid <= 1 + submits[t].again
                      /\ submits[t].again > 0 => RepeatedBy(t)
                      /\ t \in resume \/ ex[t] \in {"rready", "rwait", "rpoll"} => submits[t].paid > 0
    BY DEF NoDoubleCharge, RepeatedBy
  <2>1. PaidFor(t)
    BY DEF WorkerInv, Paid
  <2>2. submits[t].paid \in Nat /\ submits[t].again \in Nat
    BY AttemptsAreNat DEF WorkerInv, WorkerTyped
  <2>3. t \in resume \/ ex[t] \in Resuming => submits[t].paid > 0
    BY <2>1 DEF PaidFor
  <2> QED BY <2>1, <2>2, <2>3 DEF PaidFor, Resuming
<1> QED BY <1>1, WorkerInvHolds, PTL

\* New claims and resumed orphans together never exceed the capacity of a provider's lane.
THEOREM CapacityHolds == WorkerSpec => []CapacityRespected
<1>1. WorkerInv => CapacityRespected
  <2> SUFFICES ASSUME WorkerInv, NEW p \in Providers, NEW m \in Media
               PROVE  Cardinality(Inflight(p, m)) <= limits[<<p, m>>]
    BY DEF CapacityRespected
  <2> USE DEF WorkerInv
  <2>1. IsFiniteSet(slots) /\ limits[<<p, m>>] \in Nat
    BY LimitIsNat DEF Room, WorkerTyped
  <2>2. IsFiniteSet(Bucket(p, m)) /\ IsFiniteSet(Semaphore(p)) /\ IsFiniteSet(Inflight(p, m))
    BY <2>1, FS_Subset DEF Bucket, Semaphore, Inflight
  <2>3. CASE \E s \in Bucket(p, m) : ~s.resume
    <3>1. Cardinality(Bucket(p, m)) <= limits[<<p, m>>]
      BY <2>3 DEF Room, Occupied
    <3>2. Inflight(p, m) \in SUBSET Bucket(p, m)
      BY DEF Inflight
    <3> QED BY <2>1, <2>2, <3>1, <3>2, FS_Subset, FS_CardinalityType
  <2>4. CASE ~\E s \in Bucket(p, m) : ~s.resume
    <3>1. Inflight(p, m) \in SUBSET Semaphore(p)
      BY <2>4 DEF Inflight, Bucket, Semaphore
    <3>2. CASE m = VideoMedia
      <4>1. Cardinality(Semaphore(p)) <= limits[<<p, m>>]
        BY <3>2 DEF Room
      <4> QED BY <2>1, <2>2, <3>1, <4>1, FS_Subset, FS_CardinalityType
    <3>3. CASE m # VideoMedia
      <4>1. Inflight(p, m) = {}
        BY <2>4, <3>3 DEF Inflight, Bucket, Room, IsVideo
      <4> QED BY <2>1, <4>1, FS_EmptySet
    <3> QED BY <3>2, <3>3
  <2> QED BY <2>3, <2>4
<1> QED BY <1>1, WorkerInvHolds, PTL

\* The worker, with its loop, its executors, its cancel callbacks, its stops and its
\* crashes, uses the table only in ways the queue allows.
THEOREM ImplementsQueue == WorkerSpec => QueueSpec
<1>1. WorkerInit => Init
  BY DEF WorkerInit
<1>2. WorkerInv /\ [WorkerNext]_allVars => [Next]_vars
  BY WorkerIsQueueStep
<1> QED BY <1>1, <1>2, WorkerInvHolds, PTL DEF WorkerSpec, QueueSpec, Spec

\* So what the queue promises holds of the server process as well: a task runs after its
\* dependency, one resource has one active task, a cancellation lands and wins, and a cascade
\* leaves nothing behind.
THEOREM WorkerKeepsQueue ==
  WorkerSpec =>
    /\ [](DependencyGate /\ OneActivePerKey /\ NothingBehind)
    /\ [](CancelAttribution /\ EventsTellTheEnd /\ StaleReadBound)
    /\ CancelWins /\ CancelLands /\ CascadeComplete /\ StrandedOnlyLate
BY ImplementsQueue, DependencyGateHolds, OneActivePerKeyHolds, NothingBehindHolds, CancelAttributionHolds,
   EventsTellTheEndHolds, StaleReadBoundHolds, CancelWinsHolds, CancelLandsHolds, CascadeCompleteHolds,
   StrandedOnlyLateHolds, PTL DEF QueueSpec
=============================================================================
