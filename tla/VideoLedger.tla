---------------------------- MODULE VideoLedger ----------------------------
(***************************************************************************)
(* The bookkeeping of video calls when more than one server process works  *)
(* on the task table: lib/ledger.py and lib/db/repositories/usage_repo.py  *)
(* under the generation path (MediaGenerator.generate_video_async) and the *)
(* resume path (resume_video_async), composed with the worker lease.       *)
(*                                                                         *)
(* A task has at most one provider job and one row of api_calls.  The      *)
(* generator of a task is the executor that claimed it; the orphan scan of *)
(* any process that holds the lease may start a resumer beside it, since   *)
(* the scan excludes only the executors of its own process.  The queue is  *)
(* reduced to the guarded status writes; TaskQueue has it in full.         *)
(***************************************************************************)
EXTENDS WorkerLease, FiniteSets, Integers

CONSTANTS VideoTasks,      \* the video tasks
          MaxBookFaults,   \* bound: failing writes of the ledger
          MaxCrashes   \* bound: processes that die

ASSUME LedgerBounds == MaxBookFaults \in Nat /\ MaxCrashes \in Nat

VARIABLES status,    \* the status column of the task
          saved,     \* what the task row keeps: "nothing", "checkpoint", "job"
          row,       \* the api_calls row of the task: "none", then its status
          job,       \* the provider accepted (and charges) a job
          gen,       \* the generator: its process and its point of execution
          resume,    \* the resumer of each process
          todo,      \* the orphans a scan still has to handle, as its SELECT read them
          hands,     \* history: the processes that scanned the task
          bookFaults, crashes

callVars == <<status, saved, row, job, gen, resume, hands>>
ledgerVars == <<leaseVars, callVars, todo, bookFaults, crashes>>

Statuses == {"queued", "running", "cancelling", "succeeded", "failed", "cancelled"}
Ended == {"succeeded", "failed", "cancelled"}
GenStates == {"none", "open", "recorded", "ready", "sent", "polling",
              "got", "broken", "closing", "failing", "cancelled"}
ResumeStates == {"none", "polling", "got", "expired", "closing", "failing", "cancelled"}
Listed == [task : VideoTasks, status : {"running", "cancelling"}, saved : {"nothing", "checkpoint", "job"}]

\* Type invariant; a generator that has a process is at some point of its code.
LedgerTypeOK ==
  /\ LeaseTypeOK
  /\ status \in [VideoTasks -> Statuses]
  /\ saved \in [VideoTasks -> {"nothing", "checkpoint", "job"}]
  /\ row \in [VideoTasks -> {"none", "pending", "success", "failed"}]
  /\ job \in [VideoTasks -> BOOLEAN]
  /\ gen \in [VideoTasks -> [proc : Procs \cup {NoProc}, at : GenStates]]
  /\ \A t \in VideoTasks : gen[t].at = "none" <=> gen[t].proc = NoProc
  /\ resume \in [Procs -> [VideoTasks -> ResumeStates]]
  /\ todo \in [Procs -> SUBSET Listed]
  /\ hands \in [VideoTasks -> SUBSET Procs]
  /\ bookFaults \in 0..MaxBookFaults
  /\ crashes \in 0..MaxCrashes

LedgerInit ==
  /\ LeaseInit
  /\ status = [t \in VideoTasks |-> "queued"]
  /\ saved = [t \in VideoTasks |-> "nothing"]
  /\ row = [t \in VideoTasks |-> "none"]
  /\ job = [t \in VideoTasks |-> FALSE]
  /\ gen = [t \in VideoTasks |-> [proc |-> NoProc, at |-> "none"]]
  /\ resume = [p \in Procs |-> [t \in VideoTasks |-> "none"]]
  /\ todo = [p \in Procs |-> {}]
  /\ hands = [t \in VideoTasks |-> {}]
  /\ bookFaults = 0
  /\ crashes = 0

\* Mutant: the scan does not leave out what its own process is working on.
NothingIsActive(p, t) == FALSE

\* SlotTable.active_task_ids
SelfActive(p, t) == gen[t].proc = p \/ resume[p][t] # "none"

Idle(p) == \A t \in VideoTasks : ~SelfActive(p, t)
Worked(t) == gen[t].at # "none" \/ \E p \in Procs : resume[p][t] # "none"

\* The guarded writes that end a task: mark_task_failed, mark_task_succeeded
\* and the mark_task_cancelled that follows when they touch no row.
EndedAs(t, s) ==
  status' = [status EXCEPT ![t] = CASE @ = "running" -> s
                                    [] @ = "cancelling" -> "cancelled"
                                    [] OTHER -> @]
MarkCancelled(t) == status' = [status EXCEPT ![t] = IF @ \in Ended THEN @ ELSE "cancelled"]

-----------------------------------------------------------------------------
(* The main loop of a process *)

\* list_orphan_tasks_on_start, less the tasks this process is working on.
ScanList(p) ==
  /\ LoopTo(p, "scan", "sweep")
  /\ todo' = [todo EXCEPT ![p] =
       {[task |-> t, status |-> status[t], saved |-> saved[t]] :
          t \in {u \in VideoTasks : status[u] \in {"running", "cancelling"} /\ ~SelfActive(p, u)}}]
  /\ UNCHANGED <<callVars, handled, bookFaults, crashes>>

\* One orphan, by the row as it was listed: a cancelling one is cancelled, one
\* without a job id has failed, one with a job is handed to a resumer.
ScanOne(p, o) ==
  /\ loop[p] = "sweep"
  /\ o \in todo[p]
  /\ todo' = [todo EXCEPT ![p] = @ \ {o}]
  /\ hands' = [hands EXCEPT ![o.task] = @ \cup {p}]
  /\ \/ o.status = "cancelling" /\ MarkCancelled(o.task) /\ UNCHANGED resume
     \/ o.status = "running" /\ o.saved # "job" /\ EndedAs(o.task, "failed") /\ UNCHANGED resume
     \/ /\ o.status = "running" /\ o.saved = "job"
        /\ resume' = [resume EXCEPT ![p][o.task] = "polling"]
        /\ UNCHANGED status
  /\ UNCHANGED <<leaseVars, saved, row, job, gen, bookFaults, crashes>>

ScanDone(p) ==
  /\ todo[p] = {}
  /\ LoopTo(p, "sweep", "claim")
  /\ handled' = [handled EXCEPT ![p] = TRUE]
  /\ UNCHANGED <<callVars, todo, bookFaults, crashes>>

\* claim_next: the UPDATE demands that the row is still queued.
Claim(p, t) ==
  /\ LoopTo(p, "claim", "renew")
  /\ status[t] = "queued"
  /\ status' = [status EXCEPT ![t] = "running"]
  /\ gen' = [gen EXCEPT ![t] = [proc |-> p, at |-> "open"]]
  /\ UNCHANGED <<saved, row, job, resume, hands, handled, todo, bookFaults, crashes>>

ClaimNothing(p) ==
  /\ LoopTo(p, "claim", "renew")
  /\ \A t \in VideoTasks : status[t] # "queued"
  /\ UNCHANGED <<callVars, handled, todo, bookFaults, crashes>>

LeaseStep(p) ==
  /\ \/ StartLoop(p)
     \/ Renew(p)
     \/ LostForLong(p)
     \/ StopLoop(p)
     \/ Idle(p) /\ LeaveLoop(p)
  /\ UNCHANGED <<callVars, todo, bookFaults, crashes>>

LeaseExpires == Expire /\ UNCHANGED <<callVars, todo, bookFaults, crashes>>

-----------------------------------------------------------------------------
(* The ledger *)

\* start_call
StartCall(t) == row' = [row EXCEPT ![t] = "pending"]

\* Mutant: a failed call is left for somebody else to settle.
FinishNothing(t, s) == row' = IF s = "failed" THEN row ELSE [row EXCEPT ![t] = s]

\* finish_call: the UPDATE names the row only by its id.
FinishCall(t, s) == row' = [row EXCEPT ![t] = s]

\* Mutant: the resume path books nothing, as without an api_call_id.
FinalizeNothing(t, s) == UNCHANGED row

\* finalize_pending_by_call_id: the UPDATE also demands a pending row.
FinalizePending(t, s) == row' = [row EXCEPT ![t] = IF @ = "pending" THEN s ELSE @]

\* A write of the ledger raises and changes nothing.
LedgerFault ==
  /\ bookFaults < MaxBookFaults
  /\ bookFaults' = bookFaults + 1
  /\ UNCHANGED row

-----------------------------------------------------------------------------
(* The generator: generate_video_async inside ledger.record *)

GenAt(t, from, to) == gen[t].at = from /\ gen' = [gen EXCEPT ![t].at = to]

\* The executor ends and its slot is drained.
GenEnds(t) == gen' = [gen EXCEPT ![t] = [proc |-> NoProc, at |-> "none"]]

\* Entering the bracket writes the pending row; where that write fails the task fails.
OpenRecord(t) ==
  /\ \/ GenAt(t, "open", "recorded") /\ StartCall(t) /\ UNCHANGED bookFaults
     \/ GenAt(t, "open", "failing") /\ LedgerFault
  /\ UNCHANGED <<status, saved, job, resume, hands>>

\* _checkpoint_before_submit saves the submission with the id of the call.
SaveCheckpoint(t) ==
  /\ GenAt(t, "recorded", "ready")
  /\ saved' = [saved EXCEPT ![t] = "checkpoint"]
  /\ UNCHANGED <<status, row, job, resume, hands, bookFaults>>

SubmitJob(t) ==
  /\ GenAt(t, "ready", "sent")
  /\ job' = [job EXCEPT ![t] = TRUE]
  /\ UNCHANGED <<status, saved, row, resume, hands, bookFaults>>

SaveJobId(t) ==
  /\ GenAt(t, "sent", "polling")
  /\ saved' = [saved EXCEPT ![t] = "job"]
  /\ UNCHANGED <<status, row, job, resume, hands, bookFaults>>

\* The block ends: with the result handed to call.success, or by an exception
\* (refused input, failed persistence, failed or timed out polling).
EndBlock(t) ==
  /\ \/ GenAt(t, "polling", "got")
     \/ \E at \in {"recorded", "ready", "sent", "polling"} : GenAt(t, at, "broken")
  /\ UNCHANGED <<status, saved, row, job, resume, hands, bookFaults>>

\* The exit of the bracket.  A success whose write fails is tried as a failure;
\* where the failure cannot be written either it is logged and forgotten.
CloseRecord(t) ==
  /\ \/ GenAt(t, "got", "closing") /\ FinishCall(t, "success") /\ UNCHANGED bookFaults
     \/ GenAt(t, "got", "broken") /\ LedgerFault
     \/ GenAt(t, "broken", "failing") /\ FinishCall(t, "failed") /\ UNCHANGED bookFaults
     \/ GenAt(t, "broken", "failing") /\ LedgerFault
  /\ UNCHANGED <<status, saved, job, resume, hands>>

\* _process_task writes the end of the task; after the bracket the artifact
\* commit may still fail.
CloseTask(t) ==
  /\ \/ gen[t].at = "closing" /\ (EndedAs(t, "succeeded") \/ EndedAs(t, "failed"))
     \/ gen[t].at = "failing" /\ EndedAs(t, "failed")
     \/ gen[t].at = "cancelled" /\ MarkCancelled(t)
  /\ GenEnds(t)
  /\ UNCHANGED <<saved, row, job, resume, hands, bookFaults>>

-----------------------------------------------------------------------------
(* The resumer: execute_resume_video_task *)

ResumeAt(p, t, from, to) == resume[p][t] = from /\ resume' = [resume EXCEPT ![p][t] = to]

\* resume_video answers: the result, expiry, or any other error, among them a
\* changed identity or endpoint found before it is asked.
ResumeAnswer(p, t) ==
  /\ \E to \in {"got", "expired", "failing"} : ResumeAt(p, t, "polling", to)
  /\ UNCHANGED <<status, saved, row, job, gen, hands, bookFaults>>

\* resume_success and resume_failed; an error of theirs is not swallowed.
ResumeSettle(p, t) ==
  /\ \/ ResumeAt(p, t, "got", "closing") /\ FinalizePending(t, "success") /\ UNCHANGED bookFaults
     \/ ResumeAt(p, t, "expired", "failing") /\ FinalizePending(t, "failed") /\ UNCHANGED bookFaults
     \/ \E at \in {"got", "expired"} : ResumeAt(p, t, at, "failing") /\ LedgerFault
  /\ UNCHANGED <<status, saved, job, gen, hands>>

ResumeClose(p, t) ==
  /\ \/ resume[p][t] = "closing" /\ (EndedAs(t, "succeeded") \/ EndedAs(t, "failed"))
     \/ resume[p][t] = "failing" /\ EndedAs(t, "failed")
     \/ resume[p][t] = "cancelled" /\ MarkCancelled(t)
  /\ resume' = [resume EXCEPT ![p][t] = "none"]
  /\ UNCHANGED <<saved, row, job, gen, hands, bookFaults>>

-----------------------------------------------------------------------------
(* Cancellation and death *)

\* The handlers an executor may be in when the signal reaches it no longer see it.
Deaf == {"none", "failing", "cancelled"}

\* cancel_task in process p: a queued task is cancelled at once, a running one
\* becomes cancelling and the executors of this process are signalled.
CancelTask(p, t) ==
  /\ loop[p] # "off"
  /\ \/ status[t] = "queued" /\ MarkCancelled(t) /\ UNCHANGED <<gen, resume>>
     \/ /\ status[t] = "running"
        /\ status' = [status EXCEPT ![t] = "cancelling"]
        /\ gen' = IF gen[t].proc = p /\ gen[t].at \notin Deaf
                    THEN [gen EXCEPT ![t].at = "cancelled"] ELSE gen
        /\ resume' = IF resume[p][t] \notin Deaf
                       THEN [resume EXCEPT ![p][t] = "cancelled"] ELSE resume
  /\ UNCHANGED <<saved, row, job, hands, bookFaults>>

Die(p) ==
  /\ crashes < MaxCrashes
  /\ crashes' = crashes + 1
  /\ DieLoop(p)
  /\ gen' = [t \in VideoTasks |-> IF gen[t].proc = p THEN [proc |-> NoProc, at |-> "none"] ELSE gen[t]]
  /\ resume' = [resume EXCEPT ![p] = [t \in VideoTasks |-> "none"]]
  /\ todo' = [todo EXCEPT ![p] = {}]
  /\ UNCHANGED <<status, saved, row, job, hands, bookFaults>>

GenStep(t) == OpenRecord(t) \/ SaveCheckpoint(t) \/ SubmitJob(t) \/ SaveJobId(t)
                \/ EndBlock(t) \/ CloseRecord(t) \/ CloseTask(t)
ResumeStep(p, t) == ResumeAnswer(p, t) \/ ResumeSettle(p, t) \/ ResumeClose(p, t)

ScanStep(p) == ScanList(p) \/ (\E o \in todo[p] : ScanOne(p, o)) \/ ScanDone(p)

LoopStep(p) == LeaseStep(p) \/ ScanStep(p) \/ ClaimNothing(p) \/ \E t \in VideoTasks : Claim(p, t)

LedgerNext ==
  \/ LeaseExpires
  \/ \E p \in Procs : LoopStep(p) \/ Die(p)
  \/ \E t \in VideoTasks : GenStep(t) /\ UNCHANGED <<leaseVars, todo, crashes>>
  \/ \E p \in Procs, t \in VideoTasks : ResumeStep(p, t) /\ UNCHANGED <<leaseVars, todo, crashes>>
  \/ \E p \in Procs, t \in VideoTasks : CancelTask(p, t) /\ UNCHANGED <<leaseVars, todo, crashes>>

LedgerSpec == LedgerInit /\ [][LedgerNext]_ledgerVars
-----------------------------------------------------------------------------
(* What must hold *)

Settled(t) == row[t] \in {"success", "failed"}

\* A task reported as succeeded is in the books: its call is not pending, and
\* it is recorded as failed only where a second process scanned the task while
\* the first was still working on it (record, resume_success).
SucceededIsBooked ==
  \A t \in VideoTasks : status[t] = "succeeded" =>
    row[t] = "success" \/ (row[t] = "failed" /\ hands[t] # {})

\* A call stays pending after its task has ended and nobody works on it only
\* because the user cancelled it, a write of the ledger failed, or a scan gave
\* the job up: an ordinary failure always settles the row (record, line 141).
PendingHasCause ==
  \A t \in VideoTasks : row[t] = "pending" /\ status[t] \in Ended /\ ~Worked(t) =>
    status[t] = "cancelled" \/ bookFaults > 0 \/ hands[t] # {}

\* What a call was settled as is rewritten only by a generator whose task the
\* scan of another process took over, which finish_call does not notice.
RewrittenOnlyWhenShared ==
  [][\A t \in VideoTasks : Settled(t) /\ row'[t] # row[t] =>
        \E p \in Procs : gen[t].proc = p /\ hands[t] \ {p} # {}]_ledgerVars

\* The scheduling the code relies on: event loops run and are not stopped at
\* every turn, a stopped one ends once its executors have, a process that ended
\* is started again, providers answer or time out, and the lease of a process
\* that died expires.
FairLedgerSpec ==
  /\ LedgerSpec
  /\ \A p \in Procs : SF_ledgerVars(LoopStep(p) /\ {loop[p], loop'[p]} \cap {"stopping", "off"} = {})
  /\ \A p \in Procs : WF_ledgerVars(LoopStep(p) /\ loop[p] \in {"stopping", "off"})
  /\ \A t \in VideoTasks : WF_ledgerVars(GenStep(t) /\ UNCHANGED <<leaseVars, todo, crashes>>)
  /\ \A p \in Procs, t \in VideoTasks : WF_ledgerVars(ResumeStep(p, t) /\ UNCHANGED <<leaseVars, todo, crashes>>)
  /\ WF_ledgerVars(LeaseExpires /\ lease.owner = Ghost)

\* A task that runs ends, whichever process claimed it.
RunningEnds == \A t \in VideoTasks : status[t] = "running" ~> status[t] # "running"
=============================================================================
