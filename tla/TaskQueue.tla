----------------------------- MODULE TaskQueue -----------------------------
(***************************************************************************)
(* The generation queue as its database sees it: any client may enqueue    *)
(* and cancel, any worker may claim a task and write its outcome, in any   *)
(* order the guards of TaskRepo allow.  This is the specification          *)
(* lib/generation_queue.py offers; GenerationWorker implements it.         *)
(*                                                                         *)
(* GenerationQueue.cancel_task is three steps of one coroutine, with other *)
(* coroutines running between them: SELECT the row, dispatch on the status *)
(* that SELECT returned, then call the worker's in-process callback for    *)
(* every task that was asked to stop.  cancel_all_queued is two: SELECT    *)
(* the queued rows, then cancel the rows that are queued by then.          *)
(***************************************************************************)
EXTENDS TaskRepo

CONSTANT Cancellers   \* requests to cancel that can be in flight together

VARIABLE api          \* api[c]: where the cancel request c is

vars == <<tableVars, api>>

ApiStates ==
  [pc : {"idle"}]
    \cup [pc : {"dispatch"}, task : Tasks, seen : Active \cup Terminal]
    \cup [pc : {"signal"}, tasks : SUBSET Tasks]
    \cup [pc : {"sweep"}, project : Projects, listed : SUBSET Tasks]

TypeOK == TableTypeOK /\ api \in [Cancellers -> ApiStates]

Init == TableInit /\ api = [c \in Cancellers |-> [pc |-> "idle"]]

-----------------------------------------------------------------------------
(* Clients.                                                                *)

\* enqueue_task, as _enqueue_sequentially calls it: the dependency is a task an
\* earlier enqueue of the same project returned, whatever became of it since.
EnqueueTask ==
  /\ \E t \in Tasks, p \in Derived :
       \E d \in {NoTask} \cup {u \in Tasks : status[u] # "absent" /\ ProjectOf[u] = ProjectOf[t]} :
         Enqueue(t, d, p)
  /\ UNCHANGED api

\* cancel_task, first half: SELECT the row.
CancelRead(c) ==
  /\ api[c].pc = "idle"
  /\ \E t \in Tasks :
       /\ status[t] # "absent"
       /\ api' = [api EXCEPT ![c] = [pc |-> "dispatch", task |-> t, seen |-> status[t]]]
  /\ UNCHANGED tableVars

SignalLater(c, S) == api' = [api EXCEPT ![c] = [pc |-> "signal", tasks |-> S]]

\* Mutant: the row is cancelled only as what it was read, not as what it is.
DispatchQueuedStrictly(c) ==
  /\ api[c].pc = "dispatch" /\ api[c].seen = "queued"
  /\ \/ /\ status[api[c].task] = "queued"
        /\ MarkCancelled(api[c].task, "user")
        /\ SignalLater(c, CascadeSignalled(api[c].task))
     \/ /\ status[api[c].task] # "queued"
        /\ SignalLater(c, {})
        /\ UNCHANGED tableVars

\* _dispatch_cancel on a row read as queued: _mark_cancelled, whose WHERE also
\* accepts a row that has been claimed since.
DispatchQueued(c) ==
  /\ api[c].pc = "dispatch" /\ api[c].seen = "queued"
  /\ \/ /\ MarkCancelled(api[c].task, "user")
        /\ SignalLater(c, CascadeSignalled(api[c].task))
     \/ /\ status[api[c].task] \notin Active
        /\ SignalLater(c, {})
        /\ UNCHANGED tableVars

\* _dispatch_cancel on a row read as running: _mark_cancelling; on 0 rows the row is
\* refreshed, a cancelling row is signalled again and any other row is left alone.
DispatchRunning(c) ==
  /\ api[c].pc = "dispatch" /\ api[c].seen = "running"
  /\ \/ /\ MarkCancelling(api[c].task, "user")
        /\ SignalLater(c, {api[c].task})
     \/ /\ status[api[c].task] # "running"
        /\ SignalLater(c, {u \in {api[c].task} : status[u] = "cancelling"})
        /\ UNCHANGED tableVars

\* _dispatch_cancel on a row read as cancelling or terminal: nothing to do.
DispatchSettled(c) ==
  /\ api[c].pc = "dispatch" /\ api[c].seen \in {"cancelling"} \cup Terminal
  /\ SignalLater(c, {})
  /\ UNCHANGED tableVars

\* The callback loop.  What it does to the worker is not the queue's business.
CancelSignal(c) ==
  /\ api[c].pc = "signal"
  /\ api' = [api EXCEPT ![c] = [pc |-> "idle"]]
  /\ UNCHANGED tableVars

\* cancel_all_queued.
SweepRead(c) ==
  /\ api[c].pc = "idle"
  /\ \E prj \in Projects :
       api' = [api EXCEPT ![c] = [pc |-> "sweep", project |-> prj, listed |-> QueuedIn(prj)]]
  /\ UNCHANGED tableVars
SweepWrite(c) ==
  /\ api[c].pc = "sweep"
  /\ CancelAllQueued(api[c].project, api[c].listed)
  /\ api' = [api EXCEPT ![c] = [pc |-> "idle"]]

CancelWrite(c) ==
  DispatchQueued(c) \/ DispatchRunning(c) \/ DispatchSettled(c) \/ SweepWrite(c)
CancelStep(c) == CancelRead(c) \/ SweepRead(c) \/ CancelWrite(c) \/ CancelSignal(c)

-----------------------------------------------------------------------------
(* Workers.                                                                *)

ClaimTask ==
  /\ \E t \in Tasks, m \in Media, full \in SUBSET Providers, tried \in SUBSET Tasks :
       OldestClaimable(t, m, full, tried) /\ ClaimNext(t)
  /\ UNCHANGED api

\* _requeue_single_task, and the requeue_running rescue an operator may run.
RequeueTasks == (\E S \in SUBSET Tasks : Requeue(S)) /\ UNCHANGED api

FinishTask ==
  /\ \E t \in Tasks : MarkSucceeded(t) \/ MarkFailed(t) \/ MarkCancelled(t, "user")
  /\ UNCHANGED api

\* What an executor writes about its provider call.  The job id is only known to an
\* executor that crossed the submit boundary.
PersistExecution ==
  /\ \E t \in Tasks :
       /\ status[t] # "absent"
       /\ \/ checkpoint[t] /\ PersistJob(t)
          \/ \E p \in Providers : PersistProvider(t, p) \/ PersistCheckpoint(t, p)
  /\ UNCHANGED api

\* A restart of the server process: the requests in flight are lost, the table is not.
Restart ==
  /\ api' = [c \in Cancellers |-> [pc |-> "idle"]]
  /\ UNCHANGED tableVars

Next ==
  \/ EnqueueTask
  \/ \E c \in Cancellers : CancelStep(c)
  \/ ClaimTask
  \/ RequeueTasks
  \/ FinishTask
  \/ PersistExecution
  \/ Restart

Spec == Init /\ [][Next]_vars

-----------------------------------------------------------------------------
(* What the queue promises.                                                *)

\* A task that was ever handed to a worker had its dependency finished first, and
\* no later failure, cancellation or requeue takes that back: the reason why a
\* cancel cascade never meets a running task.
DependencyGate ==
  \A t \in Tasks :
    status[t] \in {"running", "cancelling", "succeeded"} => DependencyMet(t)

\* The active statuses, cancelling included, hold the dedupe key exclusively: two
\* tasks that write the same resource are never active together, whatever mix of
\* requeues and cancellations they went through.
OneActivePerKey ==
  \A t, u \in Tasks :
    status[t] \in Active /\ status[u] \in Active /\ KeyOf[t] = KeyOf[u] => t = u

\* Cancelling a task never has to stop a running one behind it: the branch of
\* _cascade_cancel_dependents that signals running dependents stays a safety net, so
\* finalizing one cancelled task never starts a second round of signals.
NothingBehind == \A t \in Tasks : status[t] \in Active => CascadeSignalled(t) = {}

\* cancelled_by is set exactly on the rows that were asked to stop: a requeued,
\* failed or succeeded row never carries a stale attribution.
CancelAttribution ==
  \A t \in Tasks : cancelledBy[t] # "none" <=> status[t] \in {"cancelling", "cancelled"}

\* What was announced is what happened: an event always names the status its row has
\* for good, a row that succeeded or failed was announced exactly once however it got
\* there (cascades included), and a live row was not announced.
EventsTellTheEnd ==
  \A t \in Tasks :
    /\ status[t] \in {"succeeded", "failed"} => events[t] = <<status[t]>>
    /\ status[t] = "cancelled" => events[t] \in Seq({"cancelled"})
    /\ status[t] \notin Terminal => events[t] = <<>>

\* The SELECT and the UPDATE of cancel_task straddle other transactions, but what
\* the SELECT saw still bounds what the row can be now: a row seen terminal has not
\* changed, a row seen cancelling is cancelling or cancelled.
StaleReadBound ==
  \A c \in Cancellers :
    api[c].pc = "dispatch" =>
      LET now == status[api[c].task] IN
      /\ now # "absent"
      /\ api[c].seen \in Terminal => now = api[c].seen
      /\ api[c].seen = "cancelling" => now \in {"cancelling", "cancelled"}

\* ADR 0006: from cancelling a row can only become cancelled, and a terminal row
\* never changes again, whoever writes late.
CancelWins ==
  [][\A t \in Tasks :
       /\ status[t] = "cancelling" => status'[t] \in {"cancelling", "cancelled"}
       /\ status[t] \in Terminal => status'[t] = status[t]]_vars

\* When a task fails or is cancelled, no task is left queued behind it: both
\* recursive cascades and the bulk cancellation reach all that were there.
CascadeComplete ==
  [][\A t, d \in Tasks :
       /\ status[t] \in Active
       /\ status'[t] \in {"failed", "cancelled"}
       /\ dep[d] = t
       => status'[d] # "queued"]_vars

\* A request to cancel one task never leaves it to run on: when its write is over the
\* task is cancelling or has ended, and the worker is told of a cancelling task unless
\* an earlier request has done that, however the row moved since it was read.  The one
\* exception the code has: a row read as running that was put back in the queue.
CancelLands ==
  [][\A c \in Cancellers :
       api[c].pc = "dispatch" /\ api'[c].pc = "signal" =>
         LET t == api[c].task IN
         \/ /\ status'[t] \in {"cancelling"} \cup Terminal
            /\ status'[t] = "cancelling" /\ api[c].seen # "cancelling" => t \in api'[c].tasks
         \/ api[c].seen = "running" /\ status[t] = "queued"]_vars

\* A queued task whose dependency ended without success: no claim will ever offer it.
Stranded(t) ==
  /\ status[t] = "queued"
  /\ dep[t] # NoTask
  /\ status[dep[t]] \in {"failed", "cancelled"}

\* Only an enqueue behind a task that is over already strands a task: cascades, sweeps and
\* requeues never do.  And nothing but a cancellation of its own ends such a task, since
\* no cascade comes by again.
StrandedOnlyLate ==
  [][\A t \in Tasks :
       /\ ~Stranded(t) /\ Stranded(t)' => status[t] = "absent"
       /\ Stranded(t) => Stranded(t)' \/ status'[t] = "cancelled"]_vars
=============================================================================
