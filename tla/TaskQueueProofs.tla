-------------------------- MODULE TaskQueueProofs --------------------------
(***************************************************************************)
(* Proofs of what TaskQueue promises, for any number of tasks, keys,       *)
(* projects, lanes, providers and concurrent cancel requests.              *)
(*                                                                         *)
(* The table invariants do not depend on which coroutine runs a            *)
(* transaction, so they are proved of TableStep, the transactions alone;   *)
(* every step of TaskQueue is a TableStep (NextIsTableStep).  Only         *)
(* StaleReadBound and CancelLands look at the requests in flight.          *)
(***************************************************************************)
EXTENDS TaskQueue, TLAPS

\* A task and its dependency belong to one project: what makes the bulk
\* cancellation of a project reach whole chains.
SameProject ==
  \A t \in Tasks : dep[t] \in Tasks => ProjectOf[dep[t]] = ProjectOf[t]

\* The inductive invariant of the table.  CancelAttribution, OneActivePerKey and
\* EventsTellTheEnd are inductive beside TypeOK; DependencyGate needs that a success
\* is for good, which the guards of the writes give.
TableInv ==
  /\ TableTypeOK
  /\ SameProject
  /\ DependencyGate
  /\ OneActivePerKey
  /\ CancelAttribution
  /\ EventsTellTheEnd

\* What one step may do to the table, whoever takes it.
ExecutionWrite(t) ==
  PersistJob(t) \/ \E p \in Providers : PersistProvider(t, p) \/ PersistCheckpoint(t, p)
TableStep ==
  \/ \E t \in Tasks, d \in Tasks \cup {NoTask}, p \in Providers \cup {NoProvider} :
       (d \in Tasks => ProjectOf[d] = ProjectOf[t]) /\ Enqueue(t, d, p)
  \/ \E t \in Tasks : DependencyMet(t) /\ ClaimNext(t)
  \/ \E S \in SUBSET Tasks : Requeue(S)
  \/ \E t \in Tasks : MarkSucceeded(t)
  \/ \E t \in Tasks : MarkFailed(t)
  \/ \E t \in Tasks : MarkCancelled(t, "user")
  \/ \E t \in Tasks : MarkCancelling(t, "user")
  \/ \E prj \in Projects, listed \in SUBSET Tasks : CancelAllQueued(prj, listed)
  \/ \E t \in Tasks : ExecutionWrite(t)
  \/ UNCHANGED tableVars

-----------------------------------------------------------------------------
(* The cascades.                                                           *)

\* The cascade of mark_failed and of a cancellation only touches queued rows.
LEMMA DependentsAreQueued ==
  ASSUME NEW t \in Tasks, NEW d \in QueuedDependents(t)
  PROVE  d \in Tasks /\ status[d] = "queued"
<1> DEFINE Q == {u \in Tasks : status[u] = "queued"}
<1>1. Q \in SUBSET Tasks /\ CascadeClosed(t, Q)
  BY DEF CascadeClosed
<1>2. d \in Tasks /\ d \in Q
  BY <1>1 DEF QueuedDependents
<1> QED BY <1>2

\* The cascade leaves no queued row behind t or behind a row it closes.
LEMMA DependentsAreClosed ==
  ASSUME NEW t \in Tasks, NEW d \in Tasks, status[d] = "queued",
         dep[d] \in {t} \cup QueuedDependents(t)
  PROVE  d \in QueuedDependents(t)
<1> SUFFICES ASSUME NEW S \in SUBSET Tasks, CascadeClosed(t, S)
             PROVE  d \in S
  BY DEF QueuedDependents
<1>1. dep[d] \in S \cup {t}
  BY DEF QueuedDependents
<1> QED BY <1>1 DEF CascadeClosed

\* A cancellation never meets a running task behind the one it closes: the branch of
\* _cascade_cancel_dependents that asks a running dependent to stop has nothing to do.
LEMMA NothingToSignal ==
  ASSUME TableTypeOK, DependencyGate, NEW t \in Tasks, status[t] \in Active
  PROVE  CascadeSignalled(t) = {}
<1> SUFFICES ASSUME NEW d \in CascadeSignalled(t) PROVE FALSE
  OBVIOUS
<1>1. d \in Tasks /\ status[d] = "running" /\ dep[d] \in CancelClosure(t)
  BY DEF CascadeSignalled
<1>2. dep[d] \in Tasks /\ status[dep[d]] \in Active
  BY <1>1, DependentsAreQueued DEF CancelClosure, Active
<1>3. DependencyMet(d)
  BY <1>1 DEF DependencyGate
<1> QED BY <1>2, <1>3, NoTaskAssumption DEF DependencyMet, Active

-----------------------------------------------------------------------------
(* From coroutines to transactions.                                        *)

\* A request that is about to write knows a task, or a project and a list of tasks.
LEMMA RequestFields ==
  ASSUME TypeOK, NEW c \in Cancellers
  PROVE  /\ api[c].pc = "dispatch" => api[c].task \in Tasks /\ api[c].seen \in Active \cup Terminal
         /\ api[c].pc = "sweep" => api[c].project \in Projects /\ api[c].listed \in SUBSET Tasks
<1>1. api[c] \in ApiStates
  BY DEF TypeOK
<1> QED BY <1>1 DEF ApiStates

\* Whatever a client, a worker or a restart does, it is one transaction of the table.
LEMMA NextIsTableStep ==
  ASSUME TypeOK, [Next]_vars
  PROVE  TableStep
<1>1. CASE EnqueueTask
  <2>1. PICK t \in Tasks, p \in Derived :
          \E d \in {NoTask} \cup {u \in Tasks : status[u] # "absent" /\ ProjectOf[u] = ProjectOf[t]} :
            Enqueue(t, d, p)
    BY <1>1 DEF EnqueueTask
  <2>2. PICK d \in {NoTask} \cup {u \in Tasks : status[u] # "absent" /\ ProjectOf[u] = ProjectOf[t]} :
          Enqueue(t, d, p)
    BY <2>1
  <2>3. p \in Providers \cup {NoProvider} /\ d \in Tasks \cup {NoTask}
    BY DerivedAssumption
  <2>4. d \in Tasks => ProjectOf[d] = ProjectOf[t]
    BY NoTaskAssumption
  <2> QED BY <2>2, <2>3, <2>4 DEF TableStep
<1>2. ASSUME NEW c \in Cancellers, CancelStep(c) PROVE TableStep
  <2>1. CASE CancelRead(c) \/ SweepRead(c) \/ DispatchSettled(c) \/ CancelSignal(c)
    BY <2>1 DEF CancelRead, SweepRead, DispatchSettled, CancelSignal, TableStep
  <2>2. CASE DispatchQueued(c)
    BY <2>2, RequestFields DEF DispatchQueued, TableStep
  <2>3. CASE DispatchRunning(c)
    BY <2>3, RequestFields DEF DispatchRunning, TableStep
  <2>4. CASE SweepWrite(c)
    BY <2>4, RequestFields DEF SweepWrite, TableStep
  <2> QED BY <1>2, <2>1, <2>2, <2>3, <2>4 DEF CancelStep, CancelWrite
<1>3. CASE ClaimTask
  <2>1. PICK t \in Tasks, m \in Media, full \in SUBSET Providers, tried \in SUBSET Tasks :
          OldestClaimable(t, m, full, tried) /\ ClaimNext(t)
    BY <1>3 DEF ClaimTask
  <2>2. DependencyMet(t)
    BY <2>1 DEF OldestClaimable, Claimable
  <2> QED BY <2>1, <2>2 DEF TableStep
<1>4. CASE RequeueTasks
  BY <1>4 DEF RequeueTasks, TableStep
<1>5. CASE FinishTask
  BY <1>5 DEF FinishTask, TableStep
<1>6. CASE PersistExecution
  BY <1>6 DEF PersistExecution, ExecutionWrite, TableStep
<1>7. CASE Restart
  BY <1>7 DEF Restart, TableStep
<1>8. CASE UNCHANGED vars
  BY <1>8 DEF vars, TableStep
<1> QED BY <1>1, <1>2, <1>3, <1>4, <1>5, <1>6, <1>7, <1>8 DEF Next

-----------------------------------------------------------------------------
(* Type correctness.                                                       *)

\* Every transaction keeps the domains of the columns.
LEMMA TableTypeStep ==
  ASSUME TableTypeOK, TableStep
  PROVE  TableTypeOK'
<1> USE DEF TableTypeOK, Statuses, Active, Terminal, CancelSources, rowVars, execVars, outcomeVars
<1>1. ASSUME NEW t \in Tasks, NEW d \in Tasks \cup {NoTask}, NEW p \in Providers \cup {NoProvider},
             Enqueue(t, d, p)
      PROVE  TableTypeOK'
  BY <1>1 DEF Enqueue
<1>2. ASSUME NEW t \in Tasks, ClaimNext(t) PROVE TableTypeOK'
  BY <1>2 DEF ClaimNext
<1>3. ASSUME NEW S \in SUBSET Tasks, Requeue(S) PROVE TableTypeOK'
  BY <1>3 DEF Requeue
<1>4. ASSUME NEW t \in Tasks, MarkSucceeded(t) PROVE TableTypeOK'
  BY <1>4 DEF MarkSucceeded, RecordTerminal
<1>5. ASSUME NEW t \in Tasks, MarkFailed(t) PROVE TableTypeOK'
  BY <1>5 DEF MarkFailed, RecordTerminal
<1>6. ASSUME NEW t \in Tasks, MarkCancelled(t, "user") PROVE TableTypeOK'
  BY <1>6 DEF MarkCancelled, RecordTerminal
<1>7. ASSUME NEW t \in Tasks, MarkCancelling(t, "user") PROVE TableTypeOK'
  BY <1>7 DEF MarkCancelling
<1>8. ASSUME NEW prj \in Projects, NEW listed \in SUBSET Tasks, CancelAllQueued(prj, listed)
      PROVE  TableTypeOK'
  BY <1>8 DEF CancelAllQueued, RecordTerminal
<1>9. ASSUME NEW t \in Tasks, ExecutionWrite(t) PROVE TableTypeOK'
  <2>1. CASE PersistJob(t)
    <3>1. job' \in [Tasks -> BOOLEAN]
      BY <2>1, Zenon DEF PersistJob
    <3> QED BY <2>1, <3>1 DEF PersistJob
  <2>2. ASSUME NEW p \in Providers, PersistProvider(t, p) PROVE TableTypeOK'
    BY <2>2 DEF PersistProvider
  <2>3. ASSUME NEW p \in Providers, PersistCheckpoint(t, p) PROVE TableTypeOK'
    <3>1. checkpoint' \in [Tasks -> BOOLEAN]
      BY <2>3, Zenon DEF PersistCheckpoint
    <3> QED BY <2>3, <3>1 DEF PersistCheckpoint
  <2> QED BY <1>9, <2>1, <2>2, <2>3 DEF ExecutionWrite
<1>10. CASE UNCHANGED tableVars
  BY <1>10 DEF tableVars
<1> QED BY <1>1, <1>2, <1>3, <1>4, <1>5, <1>6, <1>7, <1>8, <1>9, <1>10 DEF TableStep

\* Every step of cancel_task and cancel_all_queued leaves a well-formed request.
LEMMA ApiTypeStep ==
  ASSUME TypeOK, [Next]_vars
  PROVE  api' \in [Cancellers -> ApiStates]
<1> USE DEF TypeOK, ApiStates
<1>1. ASSUME NEW c \in Cancellers, CancelStep(c) PROVE api' \in [Cancellers -> ApiStates]
  <2>1. CASE CancelRead(c)
    <3>1. PICK t \in Tasks :
            /\ status[t] # "absent"
            /\ api' = [api EXCEPT ![c] = [pc |-> "dispatch", task |-> t, seen |-> status[t]]]
      BY <2>1 DEF CancelRead
    <3>2. status[t] \in Active \cup Terminal
      BY <3>1 DEF TableTypeOK, Statuses
    <3> QED BY <3>1, <3>2
  <2>2. CASE SweepRead(c)
    BY <2>2 DEF SweepRead, QueuedIn
  <2>3. CASE DispatchQueued(c)
    <3>1. PICK S \in SUBSET Tasks : SignalLater(c, S)
      BY <2>3 DEF DispatchQueued, CascadeSignalled
    <3> QED BY <3>1 DEF SignalLater
  <2>4. CASE DispatchRunning(c)
    <3>1. PICK S \in SUBSET Tasks : SignalLater(c, S)
      BY <2>4, RequestFields DEF DispatchRunning
    <3> QED BY <3>1 DEF SignalLater
  <2>5. CASE DispatchSettled(c)
    BY <2>5 DEF DispatchSettled, SignalLater
  <2>6. CASE SweepWrite(c) \/ CancelSignal(c)
    BY <2>6 DEF SweepWrite, CancelSignal
  <2> QED BY <1>1, <2>1, <2>2, <2>3, <2>4, <2>5, <2>6 DEF CancelStep, CancelWrite
<1>2. CASE EnqueueTask \/ ClaimTask \/ RequeueTasks \/ FinishTask \/ PersistExecution
  BY <1>2 DEF EnqueueTask, ClaimTask, RequeueTasks, FinishTask, PersistExecution
<1>3. CASE Restart
  BY <1>3 DEF Restart
<1>4. CASE UNCHANGED vars
  BY <1>4 DEF vars
<1> QED BY <1>1, <1>2, <1>3, <1>4 DEF Next

\* Every reachable state is well typed: the columns keep their domains and a request in
\* flight only ever names tasks and statuses it could have read.
THEOREM TypeCorrect == Spec => []TypeOK
<1>1. Init => TypeOK
  BY DEF Init, TableInit, TypeOK, TableTypeOK, ApiStates, Statuses, Active, Terminal, CancelSources
<1>2. TypeOK /\ [Next]_vars => TypeOK'
  BY NextIsTableStep, TableTypeStep, ApiTypeStep DEF TypeOK
<1> QED BY <1>1, <1>2, PTL DEF Spec

-----------------------------------------------------------------------------
(* What a step may do to the status of a task.                             *)

\* The moves the guarded writes allow.
Moves ==
  {<<"absent", "queued">>, <<"queued", "running">>, <<"running", "queued">>,
   <<"running", "succeeded">>, <<"running", "failed">>, <<"queued", "failed">>,
   <<"running", "cancelling">>, <<"queued", "cancelled">>, <<"running", "cancelled">>,
   <<"cancelling", "cancelled">>}

\* Whatever interleaving of requests, workers and cascades led here, a task only makes
\* one of these moves, and it starts running only when its dependency has succeeded.
LEMMA StatusMoves ==
  ASSUME TableTypeOK, TableStep, NEW u \in Tasks
  PROVE  /\ status'[u] = status[u] \/ <<status[u], status'[u]>> \in Moves
         /\ status'[u] = "running" /\ status[u] # "running" => DependencyMet(u)
<1> USE DEF TableTypeOK, Moves
<1>1. ASSUME NEW t \in Tasks, NEW d, NEW p, Enqueue(t, d, p)
      PROVE  status'[u] = status[u] \/ <<status[u], status'[u]>> = <<"absent", "queued">>
  BY <1>1 DEF Enqueue
<1>2. ASSUME NEW t \in Tasks, ClaimNext(t)
      PROVE  status'[u] = status[u] \/ (u = t /\ <<status[u], status'[u]>> = <<"queued", "running">>)
  BY <1>2 DEF ClaimNext
<1>3. ASSUME NEW S \in SUBSET Tasks, Requeue(S)
      PROVE  status'[u] = status[u] \/ <<status[u], status'[u]>> = <<"running", "queued">>
  BY <1>3 DEF Requeue
<1>4. ASSUME NEW t \in Tasks, MarkSucceeded(t)
      PROVE  status'[u] = status[u] \/ <<status[u], status'[u]>> = <<"running", "succeeded">>
  BY <1>4 DEF MarkSucceeded
<1>5. ASSUME NEW t \in Tasks, MarkFailed(t)
      PROVE  \/ status'[u] = status[u]
             \/ status[u] \in {"queued", "running"} /\ status'[u] = "failed"
  BY <1>5, DependentsAreQueued DEF MarkFailed
<1>6. ASSUME NEW t \in Tasks, MarkCancelled(t, "user")
      PROVE  \/ status'[u] = status[u]
             \/ status[u] \in Active /\ status'[u] = "cancelled"
             \/ status[u] = "running" /\ status'[u] = "cancelling"
  <2>1. u \in CancelClosure(t) => status[u] \in Active
    BY <1>6, DependentsAreQueued DEF CancelClosure, MarkCancelled, Active
  <2>2. u \in CascadeSignalled(t) => status[u] = "running"
    BY DEF CascadeSignalled
  <2> QED BY <1>6, <2>1, <2>2 DEF MarkCancelled
<1>7. ASSUME NEW t \in Tasks, MarkCancelling(t, "user")
      PROVE  status'[u] = status[u] \/ <<status[u], status'[u]>> = <<"running", "cancelling">>
  BY <1>7 DEF MarkCancelling
<1>8. ASSUME NEW prj, NEW listed, CancelAllQueued(prj, listed)
      PROVE  status'[u] = status[u] \/ <<status[u], status'[u]>> = <<"queued", "cancelled">>
  BY <1>8 DEF CancelAllQueued, QueuedIn
<1>9. ASSUME NEW t \in Tasks, ExecutionWrite(t)
      PROVE  status'[u] = status[u]
  BY <1>9 DEF ExecutionWrite, PersistJob, PersistProvider, PersistCheckpoint, outcomeVars
<1>10. CASE UNCHANGED tableVars
  BY <1>10 DEF tableVars, outcomeVars
<1> QED
  BY <1>1, <1>2, <1>3, <1>4, <1>5, <1>6, <1>7, <1>8, <1>9, <1>10 DEF TableStep, Active

\* A task keeps its dependency once it exists, and gets one of its own project.
LEMMA DependencyIsFixed ==
  ASSUME TableTypeOK, TableStep, NEW u \in Tasks
  PROVE  \/ dep'[u] = dep[u]
         \/ /\ status[u] = "absent" /\ status'[u] = "queued"
            /\ dep'[u] \in Tasks => ProjectOf[dep'[u]] = ProjectOf[u]
<1> USE DEF TableTypeOK, rowVars
<1>1. ASSUME NEW t \in Tasks, NEW d \in Tasks \cup {NoTask}, NEW p,
             d \in Tasks => ProjectOf[d] = ProjectOf[t], Enqueue(t, d, p)
      PROVE  \/ dep'[u] = dep[u]
             \/ /\ status[u] = "absent" /\ status'[u] = "queued"
                /\ dep'[u] \in Tasks => ProjectOf[dep'[u]] = ProjectOf[u]
  BY <1>1 DEF Enqueue
<1>2. ASSUME NEW t \in Tasks,
             ClaimNext(t) \/ MarkSucceeded(t) \/ MarkFailed(t) \/ MarkCancelled(t, "user")
               \/ MarkCancelling(t, "user") \/ ExecutionWrite(t)
      PROVE  dep' = dep
  BY <1>2 DEF ClaimNext, MarkSucceeded, MarkFailed, MarkCancelled, MarkCancelling,
              ExecutionWrite, PersistJob, PersistProvider, PersistCheckpoint
<1>3. ASSUME NEW S, Requeue(S) PROVE dep' = dep
  BY <1>3 DEF Requeue
<1>4. ASSUME NEW prj, NEW listed, CancelAllQueued(prj, listed) PROVE dep' = dep
  BY <1>4 DEF CancelAllQueued
<1>5. CASE UNCHANGED tableVars
  BY <1>5 DEF tableVars
<1> QED BY <1>1, <1>2, <1>3, <1>4, <1>5 DEF TableStep

-----------------------------------------------------------------------------
(* The invariants of the table.                                            *)

\* No transaction links a task to another project: only the INSERT writes the column.
LEMMA SameProjectStep ==
  ASSUME TableInv, TableStep
  PROVE  SameProject'
  BY DependencyIsFixed DEF TableInv, SameProject

\* A claim finds the dependency succeeded, and no later write undoes a success.
LEMMA DependencyGateStep ==
  ASSUME TableInv, TableStep
  PROVE  DependencyGate'
<1> SUFFICES ASSUME NEW u \in Tasks, status'[u] \in {"running", "cancelling", "succeeded"}
             PROVE  dep'[u] = NoTask \/ status'[dep'[u]] = "succeeded"
  BY DEF DependencyGate, DependencyMet
<1>1. dep'[u] = dep[u]
  BY DependencyIsFixed DEF TableInv
<1>2. DependencyMet(u)
  <2>1. CASE status[u] \in {"running", "cancelling", "succeeded"}
    BY <2>1 DEF TableInv, DependencyGate
  <2>2. CASE status[u] \notin {"running", "cancelling", "succeeded"}
    BY <2>2, StatusMoves DEF TableInv, Moves
  <2> QED BY <2>1, <2>2
<1>3. dep[u] \in Tasks \cup {NoTask}
  BY DEF TableInv, TableTypeOK
<1>4. ASSUME dep[u] \in Tasks, status[dep[u]] = "succeeded"
      PROVE  status'[dep[u]] = "succeeded"
  BY <1>4, StatusMoves DEF TableInv, Moves
<1> QED BY <1>1, <1>2, <1>3, <1>4 DEF DependencyMet

\* Only the INSERT makes a row active, and the unique index guards it.
LEMMA OneActivePerKeyStep ==
  ASSUME TableInv, TableStep
  PROVE  OneActivePerKey'
<1>1. ASSUME NEW t \in Tasks, NEW d, NEW p, Enqueue(t, d, p) PROVE OneActivePerKey'
  BY <1>1 DEF Enqueue, ActiveOn, OneActivePerKey, Active, TableInv, TableTypeOK
<1>2. ASSUME \A u \in Tasks : status'[u] \in Active => status[u] \in Active
      PROVE  OneActivePerKey'
  BY <1>2 DEF TableInv, OneActivePerKey
<1>3. ASSUME \A t \in Tasks : ~(status[t] = "absent" /\ status'[t] = "queued")
      PROVE  OneActivePerKey'
  <2>1. \A u \in Tasks : status'[u] \in Active => status[u] \in Active
    BY <1>3, StatusMoves DEF TableInv, Moves, Active
  <2> QED BY <2>1, <1>2
<1>4. ASSUME ~\E t \in Tasks, d \in Tasks \cup {NoTask}, p \in Providers \cup {NoProvider} : Enqueue(t, d, p)
      PROVE  \A t \in Tasks : ~(status[t] = "absent" /\ status'[t] = "queued")
  <2> SUFFICES ASSUME NEW t \in Tasks, status[t] = "absent" PROVE status'[t] = "absent"
    OBVIOUS
  <2> USE DEF TableInv, TableTypeOK
  <2>1. ASSUME NEW u \in Tasks, ClaimNext(u) \/ MarkSucceeded(u) \/ MarkCancelling(u, "user")
        PROVE  status'[t] = "absent"
    BY <2>1 DEF ClaimNext, MarkSucceeded, MarkCancelling
  <2>2. ASSUME NEW S \in SUBSET Tasks, Requeue(S) PROVE status'[t] = "absent"
    BY <2>2 DEF Requeue
  <2>3. ASSUME NEW u \in Tasks, MarkFailed(u) PROVE status'[t] = "absent"
    BY <2>3, DependentsAreQueued DEF MarkFailed
  <2>4. ASSUME NEW u \in Tasks, MarkCancelled(u, "user") PROVE status'[t] = "absent"
    BY <2>4, DependentsAreQueued DEF MarkCancelled, CancelClosure, CascadeSignalled, Active
  <2>5. ASSUME NEW prj, NEW listed, CancelAllQueued(prj, listed) PROVE status'[t] = "absent"
    BY <2>5 DEF CancelAllQueued, QueuedIn
  <2>6. ASSUME NEW u \in Tasks, ExecutionWrite(u) PROVE status'[t] = "absent"
    BY <2>6 DEF ExecutionWrite, PersistJob, PersistProvider, PersistCheckpoint, outcomeVars
  <2>7. CASE UNCHANGED tableVars
    BY <2>7 DEF tableVars, outcomeVars
  <2> QED BY <1>4, <2>1, <2>2, <2>3, <2>4, <2>5, <2>6, <2>7 DEF TableStep
<1> QED BY <1>1, <1>3, <1>4

\* Every write that asks a row to stop names who asked, and no other write does.
LEMMA CancelAttributionStep ==
  ASSUME TableInv, TableStep
  PROVE  CancelAttribution'
<1> SUFFICES ASSUME NEW u \in Tasks
             PROVE  cancelledBy'[u] # "none" <=> status'[u] \in {"cancelling", "cancelled"}
  BY DEF CancelAttribution
<1> DEFINE Goal == cancelledBy'[u] # "none" <=> status'[u] \in {"cancelling", "cancelled"}
<1>0. cancelledBy[u] # "none" <=> status[u] \in {"cancelling", "cancelled"}
  BY DEF TableInv, CancelAttribution
<1> USE DEF TableInv, TableTypeOK
<1>1. ASSUME NEW t \in Tasks, NEW d, NEW p, Enqueue(t, d, p) PROVE Goal
  BY <1>0, <1>1 DEF Enqueue
<1>2. ASSUME NEW t \in Tasks, ClaimNext(t) \/ MarkSucceeded(t) \/ MarkCancelling(t, "user") PROVE Goal
  BY <1>0, <1>2 DEF ClaimNext, MarkSucceeded, MarkCancelling
<1>3. ASSUME NEW S \in SUBSET Tasks, Requeue(S) PROVE Goal
  BY <1>0, <1>3 DEF Requeue
<1>4. ASSUME NEW t \in Tasks, MarkFailed(t) PROVE Goal
  BY <1>0, <1>4, DependentsAreQueued DEF MarkFailed
<1>5. ASSUME NEW t \in Tasks, MarkCancelled(t, "user") PROVE Goal
  <2>1. CASE u = t
    BY <1>0, <1>5, <2>1 DEF MarkCancelled, CancelClosure
  <2>2. CASE u # t
    BY <1>0, <1>5, <2>2 DEF MarkCancelled
  <2> QED BY <2>1, <2>2
<1>6. ASSUME NEW prj, NEW listed, CancelAllQueued(prj, listed) PROVE Goal
  BY <1>0, <1>6 DEF CancelAllQueued
<1>7. ASSUME NEW t \in Tasks, ExecutionWrite(t) PROVE Goal
  BY <1>0, <1>7 DEF ExecutionWrite, PersistJob, PersistProvider, PersistCheckpoint, outcomeVars
<1>8. CASE UNCHANGED tableVars
  BY <1>0, <1>8 DEF tableVars, outcomeVars
<1> QED BY <1>1, <1>2, <1>3, <1>4, <1>5, <1>6, <1>7, <1>8 DEF TableStep

\* Appending to what a row has announced.
LEMMA Announce ==
  /\ \A s : Append(<<>>, s) = <<s>>
  /\ <<>> \in Seq({"cancelled"})
  /\ \A q \in Seq({"cancelled"}) : Append(q, "cancelled") \in Seq({"cancelled"})
  OBVIOUS

\* Every write that closes a row records the status it wrote, cascades included.
LEMMA EventsTellTheEndStep ==
  ASSUME TableInv, TableStep
  PROVE  EventsTellTheEnd'
<1> DEFINE Told(s, e) ==
      /\ s \in {"succeeded", "failed"} => e = <<s>>
      /\ s = "cancelled" => e \in Seq({"cancelled"})
      /\ s \notin Terminal => e = <<>>
<1> SUFFICES ASSUME NEW u \in Tasks PROVE Told(status'[u], events'[u])
  BY DEF EventsTellTheEnd
<1> DEFINE Goal == Told(status'[u], events'[u])
<1>0. Told(status[u], events[u])
  BY DEF TableInv, EventsTellTheEnd
<1>a. Told("cancelled", <<"cancelled">>) /\ Told("failed", <<"failed">>) /\ Told("succeeded", <<"succeeded">>)
  BY DEF Terminal
<1> USE DEF TableInv, TableTypeOK
<1>1. ASSUME NEW t \in Tasks, NEW d, NEW p, Enqueue(t, d, p) PROVE Goal
  BY <1>0, <1>1 DEF Enqueue, Terminal
<1>2. ASSUME NEW t \in Tasks, ClaimNext(t) \/ MarkCancelling(t, "user") PROVE Goal
  BY <1>0, <1>2 DEF ClaimNext, MarkCancelling, Terminal
<1>3. ASSUME NEW S \in SUBSET Tasks, Requeue(S) PROVE Goal
  BY <1>0, <1>3 DEF Requeue, Terminal
<1>4. ASSUME NEW t \in Tasks, MarkSucceeded(t) PROVE Goal
  BY <1>0, <1>4, <1>a, Announce DEF MarkSucceeded, RecordTerminal, Terminal
<1>5. ASSUME NEW t \in Tasks, MarkFailed(t) PROVE Goal
  BY <1>0, <1>5, <1>a, DependentsAreQueued, Announce DEF MarkFailed, RecordTerminal, Terminal
<1>6. ASSUME NEW t \in Tasks, MarkCancelled(t, "user") PROVE Goal
  <2>1. CASE u \in CancelClosure(t)
    <3>1. status[u] \in Active
      BY <1>6, <2>1, DependentsAreQueued DEF CancelClosure, MarkCancelled, Active
    <3> QED BY <1>0, <1>6, <1>a, <2>1, <3>1, Announce DEF MarkCancelled, RecordTerminal, Terminal, Active
  <2>2. CASE u \in CascadeSignalled(t) /\ u \notin CancelClosure(t)
    BY <1>0, <1>6, <2>2 DEF MarkCancelled, RecordTerminal, CascadeSignalled, Terminal
  <2>3. CASE u \notin CascadeSignalled(t) /\ u \notin CancelClosure(t)
    BY <1>0, <1>6, <2>3 DEF MarkCancelled, RecordTerminal
  <2> QED BY <2>1, <2>2, <2>3
<1>7. ASSUME NEW prj, NEW listed, CancelAllQueued(prj, listed) PROVE Goal
  <2>1. CASE u \in QueuedIn(prj)
    BY <1>0, <1>7, <1>a, <2>1, Announce DEF CancelAllQueued, RecordTerminal, QueuedIn, Terminal
  <2>2. CASE u \notin QueuedIn(prj)
    BY <1>0, <1>7, <2>2, Announce DEF CancelAllQueued, RecordTerminal, Terminal
  <2> QED BY <2>1, <2>2
<1>8. ASSUME NEW t \in Tasks, ExecutionWrite(t) PROVE Goal
  BY <1>0, <1>8 DEF ExecutionWrite, PersistJob, PersistProvider, PersistCheckpoint, outcomeVars
<1>9. CASE UNCHANGED tableVars
  BY <1>0, <1>9 DEF tableVars, outcomeVars
<1> QED BY <1>1, <1>2, <1>3, <1>4, <1>5, <1>6, <1>7, <1>8, <1>9 DEF TableStep

\* The table invariant is preserved by every step of clients, workers and restarts.
LEMMA TableInvInductive ==
  ASSUME TypeOK, TableInv, [Next]_vars
  PROVE  TableInv'
<1>1. TableStep
  BY NextIsTableStep
<1> QED
  BY <1>1, TableTypeStep, SameProjectStep, DependencyGateStep, OneActivePerKeyStep,
     CancelAttributionStep, EventsTellTheEndStep DEF TableInv

\* The table invariant holds in every reachable state of the queue.
LEMMA TableInvHolds == Spec => []TableInv
<1>1. Init => TableInv
  BY NoTaskAssumption
     DEF Init, TableInit, TableInv, TableTypeOK, SameProject, DependencyGate, OneActivePerKey,
         CancelAttribution, EventsTellTheEnd, Statuses, Active, Terminal, CancelSources
<1>2. TypeOK /\ TableInv /\ [Next]_vars => TableInv'
  BY TableInvInductive
<1> QED BY <1>1, <1>2, TypeCorrect, PTL DEF Spec

\* No task is handed to a worker before its dependency succeeded, and no failure,
\* cancellation or requeue ever makes that untrue again.
THEOREM DependencyGateHolds == Spec => []DependencyGate
<1>1. TableInv => DependencyGate
  BY DEF TableInv
<1> QED BY <1>1, TableInvHolds, PTL

\* Two tasks of one resource are never active together.
THEOREM OneActivePerKeyHolds == Spec => []OneActivePerKey
<1>1. TableInv => OneActivePerKey
  BY DEF TableInv
<1> QED BY <1>1, TableInvHolds, PTL

\* cancelled_by marks exactly the tasks that were asked to stop.
THEOREM CancelAttributionHolds == Spec => []CancelAttribution
<1>1. TableInv => CancelAttribution
  BY DEF TableInv
<1> QED BY <1>1, TableInvHolds, PTL

\* What was announced is what happened, cascades and bulk cancellation included.
THEOREM EventsTellTheEndHolds == Spec => []EventsTellTheEnd
<1>1. TableInv => EventsTellTheEnd
  BY DEF TableInv
<1> QED BY <1>1, TableInvHolds, PTL

-----------------------------------------------------------------------------
(* Steps and requests.                                                     *)

\* ADR 0006: cancelling ends in cancelled only, and a terminal status is for good.
THEOREM CancelWinsHolds == Spec => CancelWins
<1>1. TypeOK /\ [Next]_vars
        => [\A t \in Tasks :
              /\ status[t] = "cancelling" => status'[t] \in {"cancelling", "cancelled"}
              /\ status[t] \in Terminal => status'[t] = status[t]]_vars
  <2> SUFFICES ASSUME TypeOK, [Next]_vars, NEW t \in Tasks
               PROVE  /\ status[t] = "cancelling" => status'[t] \in {"cancelling", "cancelled"}
                      /\ status[t] \in Terminal => status'[t] = status[t]
    OBVIOUS
  <2>1. status'[t] = status[t] \/ <<status[t], status'[t]>> \in Moves
    BY NextIsTableStep, StatusMoves DEF TypeOK
  <2> QED BY <2>1 DEF Moves, Terminal
<1> QED BY <1>1, TypeCorrect, PTL DEF Spec, CancelWins

\* However long cancel_task waits between its SELECT and its UPDATE, what it read still
\* bounds what the row can be.
THEOREM StaleReadBoundHolds == Spec => []StaleReadBound
<1>1. Init => StaleReadBound
  BY DEF Init, StaleReadBound
<1>2. TypeOK /\ TypeOK' /\ StaleReadBound /\ [Next]_vars => StaleReadBound'
  <2> SUFFICES ASSUME TypeOK, TypeOK', StaleReadBound, [Next]_vars,
                      NEW c \in Cancellers, api'[c].pc = "dispatch"
               PROVE  LET now == status'[api'[c].task] IN
                      /\ now # "absent"
                      /\ api'[c].seen \in Terminal => now = api'[c].seen
                      /\ api'[c].seen = "cancelling" => now \in {"cancelling", "cancelled"}
    BY DEF StaleReadBound
  <2>1. \A u \in Tasks : status'[u] = status[u] \/ <<status[u], status'[u]>> \in Moves
    BY NextIsTableStep, StatusMoves DEF TypeOK
  <2>2. CASE api'[c] = api[c]
    <3>1. api[c].task \in Tasks
      BY <2>2, RequestFields
    <3>2. LET now == status[api[c].task] IN
          /\ now # "absent"
          /\ api[c].seen \in Terminal => now = api[c].seen
          /\ api[c].seen = "cancelling" => now \in {"cancelling", "cancelled"}
      BY <2>2 DEF StaleReadBound
    <3> QED BY <2>1, <2>2, <3>1, <3>2 DEF Moves, Terminal
  <2>3. CASE api'[c] # api[c]
    <3>1. PICK t \in Tasks : /\ status[t] # "absent"
                             /\ api'[c] = [pc |-> "dispatch", task |-> t, seen |-> status[t]]
                             /\ UNCHANGED tableVars
      <4>1. ASSUME NEW e \in Cancellers, CancelStep(e)
            PROVE  e = c /\ CancelRead(c)
        <5>1. CASE CancelRead(e)
          BY <2>3, <5>1 DEF CancelRead, TypeOK
        <5>2. CASE SweepRead(e) \/ SweepWrite(e) \/ CancelSignal(e)
          BY <2>3, <5>2 DEF SweepRead, SweepWrite, CancelSignal, TypeOK
        <5>3. CASE DispatchQueued(e) \/ DispatchRunning(e) \/ DispatchSettled(e)
          <6>1. PICK S : SignalLater(e, S)
            BY <5>3 DEF DispatchQueued, DispatchRunning, DispatchSettled
          <6> QED BY <2>3, <6>1 DEF SignalLater, TypeOK
        <5> QED BY <4>1, <5>1, <5>2, <5>3 DEF CancelStep, CancelWrite
      <4>2. ~(EnqueueTask \/ ClaimTask \/ RequeueTasks \/ FinishTask \/ PersistExecution)
        BY <2>3 DEF EnqueueTask, ClaimTask, RequeueTasks, FinishTask, PersistExecution
      <4>3. ~Restart
        BY DEF Restart
      <4>4. ~UNCHANGED vars
        BY <2>3 DEF vars
      <4>5. CancelRead(c)
        BY <4>1, <4>2, <4>3, <4>4 DEF Next
      <4> QED BY <4>5 DEF CancelRead, TypeOK
    <3>2. status' = status
      BY <3>1 DEF tableVars, outcomeVars
    <3> QED BY <3>1, <3>2 DEF Terminal
  <2> QED BY <2>2, <2>3
<1> QED BY <1>1, <1>2, TypeCorrect, PTL DEF Spec

\* When a task fails or is cancelled, nothing stays queued behind it.
LEMMA CascadeStep ==
  ASSUME TypeOK, TableInv, [Next]_vars, NEW t \in Tasks, NEW d \in Tasks,
         status[t] \in Active, status'[t] \in {"failed", "cancelled"}, dep[d] = t
  PROVE  status'[d] # "queued"
<1> USE DEF Active
<1>1. TableStep
  BY NextIsTableStep
<1>2. ASSUME NEW u \in Tasks, MarkFailed(u) PROVE status'[d] # "queued"
  <2>1. t \in {u} \cup QueuedDependents(u)
    BY <1>2 DEF MarkFailed
  <2>2. status[d] = "queued" => d \in QueuedDependents(u)
    BY <2>1, DependentsAreClosed
  <2> QED BY <1>2, <2>2 DEF MarkFailed
<1>3. ASSUME NEW u \in Tasks, MarkCancelled(u, "user") PROVE status'[d] # "queued"
  <2>1. t \in {u} \cup QueuedDependents(u)
    BY <1>3 DEF MarkCancelled, CancelClosure
  <2>2. status[d] = "queued" => d \in CancelClosure(u)
    BY <2>1, DependentsAreClosed DEF CancelClosure
  <2> QED BY <1>3, <2>2 DEF MarkCancelled
<1>4. ASSUME NEW prj \in Projects, NEW listed \in SUBSET Tasks, CancelAllQueued(prj, listed)
      PROVE  status'[d] # "queued"
  <2>1. ProjectOf[t] = prj
    BY <1>4 DEF CancelAllQueued, QueuedIn
  <2>2. ProjectOf[d] = prj
    BY <2>1 DEF TableInv, SameProject
  <2> QED BY <1>4, <2>2 DEF CancelAllQueued, QueuedIn
<1>5. ASSUME NEW u \in Tasks, NEW e, NEW p, Enqueue(u, e, p) PROVE FALSE
  BY <1>5 DEF Enqueue, TableInv, TableTypeOK
<1>6. ASSUME NEW u \in Tasks, ClaimNext(u) \/ MarkSucceeded(u) \/ MarkCancelling(u, "user") PROVE FALSE
  BY <1>6 DEF ClaimNext, MarkSucceeded, MarkCancelling, TableInv, TableTypeOK
<1>7. ASSUME NEW S \in SUBSET Tasks, Requeue(S) PROVE FALSE
  BY <1>7 DEF Requeue
<1>8. ASSUME NEW u \in Tasks, ExecutionWrite(u) PROVE FALSE
  BY <1>8 DEF ExecutionWrite, PersistJob, PersistProvider, PersistCheckpoint, outcomeVars
<1>9. CASE UNCHANGED tableVars
  BY <1>9 DEF tableVars, outcomeVars
<1> QED BY <1>1, <1>2, <1>3, <1>4, <1>5, <1>6, <1>7, <1>8, <1>9 DEF TableStep

\* When a task fails or is cancelled, nothing stays queued behind it.
THEOREM CascadeCompleteHolds == Spec => CascadeComplete
<1>1. TypeOK /\ TableInv /\ [Next]_vars
        => [\A t, d \in Tasks :
              /\ status[t] \in Active
              /\ status'[t] \in {"failed", "cancelled"}
              /\ dep[d] = t
              => status'[d] # "queued"]_vars
  BY CascadeStep
<1> QED BY <1>1, TypeCorrect, TableInvHolds, PTL DEF Spec, CascadeComplete

\* A queued row that fails does so in the cascade of an active task right before it.
LEMMA FailsBehind ==
  ASSUME TypeOK, TableStep, NEW t \in Tasks, status[t] = "queued", status'[t] = "failed"
  PROVE  dep[t] \in Tasks /\ status[dep[t]] \in {"queued", "running"}
<1> USE DEF TypeOK, TableTypeOK
<1>1. ASSUME NEW u \in Tasks, MarkFailed(u)
      PROVE  dep[t] \in Tasks /\ status[dep[t]] \in {"queued", "running"}
  <2>1. t \in QueuedDependents(u)
    BY <1>1 DEF MarkFailed
  <2>2. dep[t] \in QueuedDependents(u) \cup {u}
    <3> SUFFICES ASSUME dep[t] \notin QueuedDependents(u) \cup {u} PROVE FALSE
      OBVIOUS
    <3> DEFINE S == QueuedDependents(u) \ {t}
    <3>1. S \in SUBSET Tasks
      BY DEF QueuedDependents
    <3>2. ASSUME NEW d \in Tasks, status[d] = "queued", dep[d] \in S \cup {u} PROVE d \in S
      BY <3>2, DependentsAreClosed
    <3>3. CascadeClosed(u, S)
      BY <3>2 DEF CascadeClosed
    <3> HIDE DEF S
    <3>4. t \in S
      BY <2>1, <3>1, <3>3 DEF QueuedDependents
    <3> QED BY <3>4 DEF S
  <2> QED BY <1>1, <2>2, DependentsAreQueued DEF MarkFailed
<1>2. ASSUME NEW u \in Tasks, NEW e, NEW p, Enqueue(u, e, p) PROVE FALSE
  BY <1>2 DEF Enqueue
<1>3. ASSUME NEW u \in Tasks, ClaimNext(u) \/ MarkSucceeded(u) \/ MarkCancelling(u, "user") PROVE FALSE
  BY <1>3 DEF ClaimNext, MarkSucceeded, MarkCancelling
<1>4. ASSUME NEW S \in SUBSET Tasks, Requeue(S) PROVE FALSE
  BY <1>4 DEF Requeue
<1>5. ASSUME NEW u \in Tasks, MarkCancelled(u, "user") PROVE FALSE
  BY <1>5 DEF MarkCancelled
<1>6. ASSUME NEW prj \in Projects, NEW listed \in SUBSET Tasks, CancelAllQueued(prj, listed) PROVE FALSE
  BY <1>6 DEF CancelAllQueued
<1>7. ASSUME NEW u \in Tasks, ExecutionWrite(u) PROVE FALSE
  BY <1>7 DEF ExecutionWrite, PersistJob, PersistProvider, PersistCheckpoint, outcomeVars
<1>8. ~UNCHANGED tableVars
  BY DEF tableVars, outcomeVars
<1> QED BY <1>1, <1>2, <1>3, <1>4, <1>5, <1>6, <1>7, <1>8 DEF TableStep

\* A task is stranded only by being enqueued behind one that is over, and then for good: no
\* claim takes it and no cascade reaches it.
THEOREM StrandedOnlyLateHolds == Spec => StrandedOnlyLate
<1>1. ASSUME TypeOK, TableInv, [Next]_vars, NEW t \in Tasks, ~Stranded(t), Stranded(t)'
      PROVE  status[t] = "absent"
  <2> SUFFICES ASSUME status[t] # "absent" PROVE FALSE
    OBVIOUS
  <2>1. TableTypeOK /\ TableStep
    BY <1>1, NextIsTableStep DEF TypeOK
  <2>2. status'[t] = "queued" /\ dep'[t] # NoTask /\ status'[dep'[t]] \in {"failed", "cancelled"}
    BY <1>1 DEF Stranded
  <2>3. dep'[t] = dep[t]
    BY <2>1, DependencyIsFixed
  <2>4. PICK d \in Tasks : d = dep[t]
    BY <2>1, <2>2, <2>3 DEF TableTypeOK
  <2>5. status[t] \in {"queued", "running"}
    BY <2>1, <2>2, StatusMoves DEF Moves
  <2>6. status'[d] = status[d] \/ <<status[d], status'[d]>> \in Moves
    BY <2>1, StatusMoves
  <2>7. status'[d] \in {"failed", "cancelled"}
    BY <2>2, <2>3, <2>4
  <2>8. CASE status[t] = "running"
    BY <1>1, <2>2, <2>3, <2>4, <2>6, <2>7, <2>8 DEF TableInv, DependencyGate, DependencyMet, Moves
  <2>9. CASE status[t] = "queued"
    <3>1. status[d] \notin {"failed", "cancelled"}
      BY <1>1, <2>2, <2>3, <2>4, <2>9 DEF Stranded
    <3>2. status[d] \in Active
      BY <2>6, <2>7, <3>1 DEF Moves, Active
    <3> QED BY <1>1, <2>2, <2>4, <2>7, <3>2, CascadeStep
  <2> QED BY <2>5, <2>8, <2>9
<1>2. ASSUME TypeOK, TableInv, [Next]_vars, NEW t \in Tasks, Stranded(t)
      PROVE  Stranded(t)' \/ status'[t] = "cancelled"
  <2>1. TableTypeOK /\ TableStep
    BY <1>2, NextIsTableStep DEF TypeOK
  <2>2. PICK d \in Tasks : d = dep[t]
    BY <1>2, <2>1 DEF Stranded, TableTypeOK
  <2>3. status[t] = "queued" /\ dep[t] # NoTask /\ status[d] \in {"failed", "cancelled"}
    BY <1>2, <2>2 DEF Stranded
  <2>4. status'[t] # "running"
    BY <2>1, <2>2, <2>3, StatusMoves DEF DependencyMet
  <2>5. status'[t] # "failed"
    BY <1>2, <2>1, <2>2, <2>3, FailsBehind
  <2>6. status'[t] \in {"queued", "cancelled"}
    BY <2>1, <2>3, <2>4, <2>5, StatusMoves DEF Moves
  <2>7. status'[d] = status[d]
    BY <2>1, <2>3, StatusMoves DEF Moves
  <2>8. dep'[t] = dep[t]
    BY <2>1, <2>3, DependencyIsFixed
  <2> QED BY <2>2, <2>3, <2>6, <2>7, <2>8 DEF Stranded
<1>3. TypeOK /\ TableInv /\ [Next]_vars
        => [\A t \in Tasks :
              /\ ~Stranded(t) /\ Stranded(t)' => status[t] = "absent"
              /\ Stranded(t) => Stranded(t)' \/ status'[t] = "cancelled"]_vars
  BY <1>1, <1>2
<1> QED BY <1>3, TypeCorrect, TableInvHolds, PTL DEF Spec, StrandedOnlyLate

\* A request to cancel a task leaves it cancelling or over, and the worker told, unless the
\* row was put back in the queue under it.
THEOREM CancelLandsHolds == Spec => CancelLands
<1> DEFINE Landed(c) ==
      LET t == api[c].task IN
      \/ /\ status'[t] \in {"cancelling"} \cup Terminal
         /\ status'[t] = "cancelling" /\ api[c].seen # "cancelling" => t \in api'[c].tasks
      \/ api[c].seen = "running" /\ status[t] = "queued"
<1>1. ASSUME TypeOK, StaleReadBound, NEW c \in Cancellers, CancelWrite(c), api[c].pc = "dispatch"
      PROVE  Landed(c)
  <2> DEFINE t == api[c].task
  <2>1. t \in Tasks /\ status[t] \in Statuses /\ status[t] # "absent"
    BY <1>1, RequestFields DEF TypeOK, TableTypeOK, StaleReadBound
  <2>2. CASE DispatchQueued(c)
    <3>1. CASE MarkCancelled(t, "user")
      <4>1. status'[t] = "cancelled"
        BY <2>1, <3>1 DEF MarkCancelled, CancelClosure
      <4> QED BY <4>1 DEF Terminal
    <3>2. CASE status[t] \notin Active /\ UNCHANGED tableVars
      <4>1. status'[t] = status[t] /\ status[t] \in Terminal
        BY <2>1, <3>2 DEF tableVars, outcomeVars, Statuses
      <4> QED BY <4>1 DEF Terminal
    <3> QED BY <2>2, <3>1, <3>2 DEF DispatchQueued
  <2>3. CASE DispatchRunning(c)
    <3>1. CASE MarkCancelling(t, "user") /\ SignalLater(c, {t})
      <4>1. status'[t] = "cancelling"
        BY <1>1, <2>1, <3>1 DEF MarkCancelling, TypeOK, TableTypeOK
      <4>2. api'[c].tasks = {t}
        BY <1>1, <3>1 DEF SignalLater, TypeOK
      <4> QED BY <4>1, <4>2
    <3>2. CASE /\ status[t] # "running" /\ SignalLater(c, {u \in {t} : status[u] = "cancelling"})
               /\ UNCHANGED tableVars
      <4>1. status' = status
        BY <3>2 DEF tableVars, outcomeVars
      <4>2. api'[c].tasks = {u \in {t} : status[u] = "cancelling"}
        BY <1>1, <3>2 DEF SignalLater, TypeOK
      <4>3. api[c].seen = "running"
        BY <2>3 DEF DispatchRunning
      <4> QED BY <2>1, <3>2, <4>1, <4>2, <4>3 DEF Statuses, Active, Terminal
    <3> QED BY <2>3, <3>1, <3>2 DEF DispatchRunning
  <2>4. CASE DispatchSettled(c)
    <3>1. api[c].seen \in {"cancelling"} \cup Terminal /\ status' = status
      BY <2>4 DEF DispatchSettled, tableVars, outcomeVars
    <3>2. /\ api[c].seen \in Terminal => status[t] \in Terminal
          /\ api[c].seen = "cancelling" => status[t] \in {"cancelling"} \cup Terminal
      BY <1>1 DEF StaleReadBound, Terminal
    <3> QED BY <3>1, <3>2 DEF Terminal
  <2> QED BY <1>1, <2>2, <2>3, <2>4 DEF CancelWrite, SweepWrite
<1>2. ASSUME TypeOK, StaleReadBound, [Next]_vars, NEW c \in Cancellers,
             api[c].pc = "dispatch", api'[c].pc = "signal"
      PROVE  Landed(c)
  <2>1. ASSUME NEW e \in Cancellers, CancelStep(e) PROVE CancelWrite(c)
    <3>1. CASE CancelRead(e) \/ SweepRead(e) \/ CancelSignal(e)
      BY <1>2, <3>1 DEF CancelRead, SweepRead, CancelSignal, TypeOK
    <3>2. CASE CancelWrite(e)
      <4>1. e # c => api'[c] = api[c]
        BY <1>2, <3>2 DEF CancelWrite, DispatchQueued, DispatchRunning, DispatchSettled, SweepWrite,
                          SignalLater, TypeOK
      <4> QED BY <1>2, <3>2, <4>1
    <3> QED BY <2>1, <3>1, <3>2 DEF CancelStep
  <2>2. ~(EnqueueTask \/ ClaimTask \/ RequeueTasks \/ FinishTask \/ PersistExecution)
    BY <1>2 DEF EnqueueTask, ClaimTask, RequeueTasks, FinishTask, PersistExecution
  <2>3. ~Restart
    BY <1>2 DEF Restart
  <2>4. ~UNCHANGED vars
    BY <1>2 DEF vars
  <2>5. CancelWrite(c)
    BY <1>2, <2>1, <2>2, <2>3, <2>4 DEF Next
  <2> QED BY <1>1, <1>2, <2>5
<1>3. TypeOK /\ StaleReadBound /\ [Next]_vars
        => [\A c \in Cancellers : api[c].pc = "dispatch" /\ api'[c].pc = "signal" => Landed(c)]_vars
  BY <1>2
<1> QED BY <1>3, TypeCorrect, StaleReadBoundHolds, PTL DEF Spec, CancelLands

\* Cancelling a task never has to stop a running one behind it: at every reachable
\* state the branch of _cascade_cancel_dependents for running rows has nothing to do.
THEOREM NothingBehindHolds == Spec => []NothingBehind
<1>1. TableInv => NothingBehind
  BY NothingToSignal DEF TableInv, NothingBehind
<1> QED BY <1>1, TableInvHolds, PTL
=============================================================================
