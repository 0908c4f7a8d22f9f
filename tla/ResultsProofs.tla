-------------------------- MODULE ResultsProofs ----------------------------
(***************************************************************************)
(* Proofs about the ledger of video calls, for any number of server        *)
(* processes, tasks, failing writes and deaths, and about the two models   *)
(* of what a generated result leaves behind together.                      *)
(*                                                                         *)
(* What the bookkeeping rests on is who may be at work on a task together: *)
(* a resumer of a process never runs beside the generator of the same      *)
(* process, and it exists only where a job id was saved, which is after    *)
(* the pending row was written.  So a settled row under a generator is the *)
(* work of another process (Generates), and no row starts anew.            *)
(***************************************************************************)
EXTENDS MCResults, ArtifactCommitProofs, TLAPS

\* A generator inside the bracket of its call.
InBlock == {"recorded", "ready", "sent", "polling", "got", "broken"}

Generates(t) ==
  /\ gen[t].at = "open" => row[t] = "none"
  /\ gen[t].at \in {"open", "recorded", "ready", "sent"} => saved[t] # "job"
  /\ gen[t].at \in InBlock => row[t] # "none" /\ (Settled(t) => hands[t] \ {gen[t].proc} # {})
  /\ gen[t].at = "closing" => row[t] = "success"
  /\ gen[t].at = "failing" /\ row[t] = "pending" => bookFaults > 0
  /\ gen[t].at # "none" => status[t] \in {"running", "cancelling"} \/ hands[t] # {}

Resumes(p, t) ==
  resume[p][t] # "none" =>
    /\ saved[t] = "job" /\ p \in hands[t] /\ gen[t].proc # p
    /\ resume[p][t] = "closing" => Settled(t)

\* What a scan listed is still not queued, and not in the hands of its own process.
Lists(p) ==
  \A o \in todo[p] : /\ status[o.task] # "queued" /\ gen[o.task].proc # p
                     /\ o.saved = "job" => saved[o.task] = "job"

Books(t) ==
  /\ status[t] = "queued" => gen[t].at = "none" /\ saved[t] = "nothing" /\ row[t] = "none"
  /\ saved[t] = "job" => row[t] # "none"
  /\ status[t] = "succeeded" => row[t] = "success" \/ (row[t] = "failed" /\ hands[t] # {})
  /\ row[t] = "pending" =>
       status[t] \in {"running", "cancelling", "cancelled"} \/ bookFaults > 0 \/ hands[t] # {}

Apart ==
  /\ \A t \in VideoTasks : Generates(t) /\ Books(t)
  /\ \A p \in Procs, t \in VideoTasks : Resumes(p, t)
  /\ \A p \in Procs : Lists(p)
LedgerInv == LedgerTypeOK /\ Apart
-----------------------------------------------------------------------------
(* What the writes do                                                      *)

RowTyped == row \in [VideoTasks -> {"none", "pending", "success", "failed"}] /\ bookFaults \in 0..MaxBookFaults

LEMMA BookingDoes ==
  ASSUME LedgerTypeOK, NEW t \in VideoTasks, NEW s \in {"success", "failed"}
  PROVE  /\ StartCall(t) /\ UNCHANGED bookFaults => RowTyped'
         /\ FinishCall(t, s) /\ UNCHANGED bookFaults => RowTyped'
         /\ FinalizePending(t, s) /\ UNCHANGED bookFaults => RowTyped'
<1> USE LedgerBounds DEF LedgerTypeOK, RowTyped
<1>1. StartCall(t) /\ UNCHANGED bookFaults => RowTyped'
  BY DEF StartCall
<1>2. FinishCall(t, s) /\ UNCHANGED bookFaults => RowTyped'
  BY DEF FinishCall
<1>3. FinalizePending(t, s) /\ UNCHANGED bookFaults => RowTyped'
  BY DEF FinalizePending
<1> QED BY <1>1, <1>2, <1>3

LEMMA FaultDoes ==
  ASSUME LedgerTypeOK, LedgerFault
  PROVE  RowTyped' /\ row' = row /\ bookFaults' > 0
BY LedgerBounds DEF LedgerTypeOK, LedgerFault, RowTyped

LEMMA GenAtDoes ==
  ASSUME LedgerTypeOK, NEW t \in VideoTasks, NEW from, NEW to \in GenStates, GenAt(t, from, to)
  PROVE  /\ gen' \in [VideoTasks -> [proc : Procs \cup {NoProc}, at : GenStates]]
         /\ gen[t].at = from /\ gen'[t].at = to /\ gen'[t].proc = gen[t].proc
         /\ \A u \in VideoTasks : u # t => gen'[u] = gen[u]
BY DEF GenAt, LedgerTypeOK

LEMMA EndedAsDoes ==
  ASSUME LedgerTypeOK, NEW t \in VideoTasks, NEW s \in Ended, EndedAs(t, s)
  PROVE  /\ status' \in [VideoTasks -> Statuses]
         /\ status'[t] = IF status[t] = "running" THEN s ELSE IF status[t] = "cancelling" THEN "cancelled" ELSE status[t]
         /\ \A u \in VideoTasks : u # t => status'[u] = status[u]
<1> DEFINE v == IF status[t] = "running" THEN s ELSE IF status[t] = "cancelling" THEN "cancelled" ELSE status[t]
<1>1. status' = [status EXCEPT ![t] = v] /\ v \in Statuses
  BY DEF EndedAs, LedgerTypeOK, Ended, Statuses
<1> QED BY <1>1 DEF LedgerTypeOK

LEMMA MarkCancelledDoes ==
  ASSUME LedgerTypeOK, NEW t \in VideoTasks, MarkCancelled(t)
  PROVE  /\ status' \in [VideoTasks -> Statuses]
         /\ status'[t] = IF status[t] \in Ended THEN status[t] ELSE "cancelled"
         /\ \A u \in VideoTasks : u # t => status'[u] = status[u]
BY DEF MarkCancelled, LedgerTypeOK, Ended, Statuses

LEMMA ResumeDoes ==
  ASSUME LedgerTypeOK, NEW p \in Procs, NEW t \in VideoTasks, NEW to \in ResumeStates,
         resume' = [resume EXCEPT ![p][t] = to]
  PROVE  /\ resume' \in [Procs -> [VideoTasks -> ResumeStates]]
         /\ resume'[p][t] = to
         /\ \A q \in Procs, u \in VideoTasks : q # p \/ u # t => resume'[q][u] = resume[q][u]
BY DEF LedgerTypeOK

-----------------------------------------------------------------------------
(* Type correctness                                                        *)

\* A step of the lease keeps its types and moves at most one loop.
LEMMA LeaseTypeStep ==
  ASSUME LeaseTypeOK, NEW p \in Procs
  PROVE  /\ StartLoop(p) \/ Renew(p) \/ LostForLong(p) \/ StopLoop(p) \/ LeaveLoop(p) \/ DieLoop(p) => LeaseTypeOK'
         /\ \A from, to \in LoopStates : LoopTo(p, from, to) /\ UNCHANGED handled => LeaseTypeOK'
         /\ \A from, to \in LoopStates :
              LoopTo(p, from, to) /\ handled' = [handled EXCEPT ![p] = TRUE] => LeaseTypeOK'
         /\ Expire => LeaseTypeOK'
<1> USE DEF LeaseTypeOK, LoopStates
<1>1. ASSUME Renew(p) PROVE LeaseTypeOK'
  <2>1. PICK got \in BOOLEAN : got = Obtains(p)
    BY DEF Obtains
  <2>2. /\ lease' \in {lease, [owner |-> p, live |-> TRUE]}
        /\ owns' = [owns EXCEPT ![p] = got]
        /\ \E l \in {"no", "short", "long"} : lost' = [lost EXCEPT ![p] = l]
        /\ \E h \in BOOLEAN : handled' = [handled EXCEPT ![p] = h]
        /\ \E k \in {"renew", "claim", "scan"} : loop' = [loop EXCEPT ![p] = k]
    BY <1>1, <2>1 DEF Renew
  <2>3. lease' \in [owner : Procs \cup {NoProc, Ghost}, live : BOOLEAN]
    <3>1. [owner |-> p, live |-> TRUE] \in [owner : Procs \cup {NoProc, Ghost}, live : BOOLEAN]
      OBVIOUS
    <3> QED BY <2>2, <3>1
  <2>4. owns' \in [Procs -> BOOLEAN] /\ handled' \in [Procs -> BOOLEAN]
    BY <2>2
  <2>5. lost' \in [Procs -> {"no", "short", "long"}] /\ loop' \in [Procs -> LoopStates]
    BY <2>2
  <2> QED BY <2>3, <2>4, <2>5
<1>2. ASSUME StartLoop(p) \/ LostForLong(p) PROVE LeaseTypeOK'
  BY <1>2 DEF StartLoop, LostForLong
<1>3. ASSUME StopLoop(p) PROVE LeaseTypeOK'
  BY <1>3 DEF StopLoop, LoopTo
<1>4. ASSUME LeaveLoop(p) PROVE LeaseTypeOK'
  BY <1>4 DEF LeaveLoop
<1>5. ASSUME DieLoop(p) PROVE LeaseTypeOK'
  BY <1>5 DEF DieLoop
<1>6. ASSUME NEW from \in LoopStates, NEW to \in LoopStates, LoopTo(p, from, to),
             handled' = handled \/ handled' = [handled EXCEPT ![p] = TRUE]
      PROVE  LeaseTypeOK'
  BY <1>6 DEF LoopTo
<1>7. ASSUME Expire PROVE LeaseTypeOK'
  BY <1>7 DEF Expire
<1> HIDE DEF LeaseTypeOK, LoopStates
<1> QED BY <1>1, <1>2, <1>3, <1>4, <1>5, <1>6, <1>7

LEMMA LedgerTypeStep ==
  ASSUME LedgerTypeOK, [LedgerNext]_ledgerVars
  PROVE  LedgerTypeOK'
<1>0. CASE UNCHANGED ledgerVars
  BY <1>0 DEF ledgerVars, leaseVars, callVars, LedgerTypeOK, LeaseTypeOK
<1> USE LedgerBounds, OwnersDiffer, LeaseTypeStep DEF LedgerTypeOK
<1>1. ASSUME NEW p \in Procs, LeaseStep(p) PROVE LedgerTypeOK'
  BY <1>1 DEF LeaseStep, callVars
<1>2. CASE LeaseExpires
  BY <1>2 DEF LeaseExpires, callVars, Expire, LeaseTypeOK
<1>3. ASSUME NEW p \in Procs, ScanList(p) PROVE LedgerTypeOK'
  <2>1. LeaseTypeOK'
    BY <1>3 DEF ScanList, LoopStates
  <2>2. \A u \in VideoTasks : status[u] \in {"running", "cancelling"} =>
          [task |-> u, status |-> status[u], saved |-> saved[u]] \in Listed
    BY DEF Listed
  <2>3. todo' \in [Procs -> SUBSET Listed]
    BY <1>3, <2>2 DEF ScanList
  <2> QED BY <1>3, <2>1, <2>3 DEF ScanList, callVars
<1>4. ASSUME NEW p \in Procs, NEW o \in todo[p], ScanOne(p, o) PROVE LedgerTypeOK'
  <2>1. o.task \in VideoTasks
    BY DEF Listed
  <2>2. /\ UNCHANGED <<leaseVars, saved, row, job, gen, bookFaults, crashes>>
        /\ todo' \in [Procs -> SUBSET Listed] /\ hands' \in [VideoTasks -> SUBSET Procs]
    BY <1>4, <2>1 DEF ScanOne
  <2>3. status' \in [VideoTasks -> Statuses]
    BY <1>4, <2>1, EndedAsDoes, MarkCancelledDoes DEF ScanOne, Ended
  <2>4. resume' \in [Procs -> [VideoTasks -> ResumeStates]]
    BY <1>4, <2>1, ResumeDoes DEF ScanOne, ResumeStates
  <2> QED BY <2>2, <2>3, <2>4 DEF leaseVars, LeaseTypeOK
<1>5. ASSUME NEW p \in Procs, ScanDone(p) \/ ClaimNothing(p) PROVE LedgerTypeOK'
  BY <1>5 DEF ScanDone, ClaimNothing, callVars, LoopStates
<1>6. ASSUME NEW p \in Procs, NEW t \in VideoTasks, Claim(p, t) PROVE LedgerTypeOK'
  <2>1. LeaseTypeOK'
    BY <1>6 DEF Claim, LoopStates
  <2> QED BY <1>6, <2>1 DEF Claim, Statuses, GenStates
<1>7. ASSUME NEW p \in Procs, Die(p) PROVE LedgerTypeOK'
  <2>1. LeaseTypeOK'
    BY <1>7 DEF Die
  <2> QED BY <1>7, <2>1 DEF Die, GenStates, ResumeStates
<1> USE DEF LeaseTypeOK, leaseVars
<1>8. ASSUME NEW t \in VideoTasks, GenStep(t), UNCHANGED <<leaseVars, todo, crashes>> PROVE LedgerTypeOK'
  <2>0. ASSUME NEW from \in GenStates \ {"none"}, NEW to \in GenStates \ {"none"}, GenAt(t, from, to)
        PROVE  /\ gen' \in [VideoTasks -> [proc : Procs \cup {NoProc}, at : GenStates]]
               /\ \A u \in VideoTasks : gen'[u].at = "none" <=> gen'[u].proc = NoProc
    <3>1. /\ gen' \in [VideoTasks -> [proc : Procs \cup {NoProc}, at : GenStates]]
          /\ gen[t].at = from /\ gen'[t].at = to /\ gen'[t].proc = gen[t].proc
          /\ \A u \in VideoTasks : u # t => gen'[u] = gen[u]
      BY <2>0, GenAtDoes
    <3> QED BY <3>1
  <2>1. CASE OpenRecord(t)
    <3>1. /\ gen' \in [VideoTasks -> [proc : Procs \cup {NoProc}, at : GenStates]]
          /\ \A u \in VideoTasks : gen'[u].at = "none" <=> gen'[u].proc = NoProc
      BY <2>0, <2>1 DEF OpenRecord, GenStates
    <3>2. RowTyped'
      BY <2>1, BookingDoes, FaultDoes DEF OpenRecord
    <3> QED BY <1>8, <2>1, <3>1, <3>2 DEF OpenRecord, RowTyped
  <2>2. CASE CloseRecord(t)
    <3>1. /\ gen' \in [VideoTasks -> [proc : Procs \cup {NoProc}, at : GenStates]]
          /\ \A u \in VideoTasks : gen'[u].at = "none" <=> gen'[u].proc = NoProc
      BY <2>0, <2>2 DEF CloseRecord, GenStates
    <3>2. RowTyped'
      BY <2>2, BookingDoes, FaultDoes DEF CloseRecord
    <3> QED BY <1>8, <2>2, <3>1, <3>2 DEF CloseRecord, RowTyped
  <2>3. CASE SaveCheckpoint(t) \/ SubmitJob(t) \/ SaveJobId(t)
    <3>1. /\ gen' \in [VideoTasks -> [proc : Procs \cup {NoProc}, at : GenStates]]
          /\ \A u \in VideoTasks : gen'[u].at = "none" <=> gen'[u].proc = NoProc
      BY <2>0, <2>3 DEF SaveCheckpoint, SubmitJob, SaveJobId, GenStates
    <3> QED BY <1>8, <2>3, <3>1 DEF SaveCheckpoint, SubmitJob, SaveJobId
  <2>4. CASE EndBlock(t)
    <3>1. /\ gen' \in [VideoTasks -> [proc : Procs \cup {NoProc}, at : GenStates]]
          /\ \A u \in VideoTasks : gen'[u].at = "none" <=> gen'[u].proc = NoProc
      BY <2>0, <2>4 DEF EndBlock, GenStates
    <3> QED BY <1>8, <2>4, <3>1 DEF EndBlock
  <2>5. CASE CloseTask(t)
    <3>1. status' \in [VideoTasks -> Statuses]
      BY <2>5, EndedAsDoes, MarkCancelledDoes DEF CloseTask, Ended
    <3> QED BY <1>8, <2>5, <3>1 DEF CloseTask, GenEnds, GenStates
  <2> QED BY <1>8, <2>1, <2>2, <2>3, <2>4, <2>5 DEF GenStep
<1>9. ASSUME NEW p \in Procs, NEW t \in VideoTasks, ResumeStep(p, t), UNCHANGED <<leaseVars, todo, crashes>>
      PROVE LedgerTypeOK'
  <2>1. CASE ResumeAnswer(p, t)
    BY <1>9, <2>1 DEF ResumeAnswer, ResumeAt, ResumeStates
  <2>2. CASE ResumeSettle(p, t)
    <3>1. \E to \in ResumeStates : resume' = [resume EXCEPT ![p][t] = to]
      BY <2>2 DEF ResumeSettle, ResumeAt, ResumeStates
    <3>2. RowTyped'
      BY <2>2, BookingDoes, FaultDoes DEF ResumeSettle
    <3> QED BY <1>9, <2>2, <3>1, <3>2, ResumeDoes DEF ResumeSettle, RowTyped
  <2>3. CASE ResumeClose(p, t)
    BY <1>9, <2>3 DEF ResumeClose, ResumeStates, EndedAs, MarkCancelled, Ended, Statuses
  <2> QED BY <1>9, <2>1, <2>2, <2>3 DEF ResumeStep
<1>10. ASSUME NEW p \in Procs, NEW t \in VideoTasks, CancelTask(p, t), UNCHANGED <<leaseVars, todo, crashes>>
       PROVE LedgerTypeOK'
  <2>1. status' \in [VideoTasks -> Statuses]
    <3>1. MarkCancelled(t) \/ status' = [status EXCEPT ![t] = "cancelling"]
      BY <1>10 DEF CancelTask
    <3> QED BY <3>1, MarkCancelledDoes DEF Statuses
  <2>2. resume' \in [Procs -> [VideoTasks -> ResumeStates]]
    BY <1>10, ResumeDoes DEF CancelTask, ResumeStates
  <2>3. /\ gen' \in [VideoTasks -> [proc : Procs \cup {NoProc}, at : GenStates]]
        /\ \A u \in VideoTasks : gen'[u].at = "none" <=> gen'[u].proc = NoProc
    <3>1. gen' = gen \/ (gen[t].at # "none" /\ gen' = [gen EXCEPT ![t].at = "cancelled"])
      BY <1>10 DEF CancelTask, Deaf
    <3>2. CASE gen' = gen
      BY <3>2
    <3>3. CASE gen[t].at # "none" /\ gen' = [gen EXCEPT ![t].at = "cancelled"]
      <4>1. GenAt(t, gen[t].at, "cancelled") /\ "cancelled" \in GenStates
        BY <3>3 DEF GenAt, GenStates
      <4>2. /\ gen' \in [VideoTasks -> [proc : Procs \cup {NoProc}, at : GenStates]]
            /\ gen'[t].at = "cancelled" /\ gen'[t].proc = gen[t].proc
            /\ \A u \in VideoTasks : u # t => gen'[u] = gen[u]
        BY <4>1, GenAtDoes
      <4> QED BY <3>3, <4>2
    <3> QED BY <3>1, <3>2, <3>3
  <2> QED BY <1>10, <2>1, <2>2, <2>3 DEF CancelTask
<1> HIDE DEF LedgerTypeOK, LeaseTypeOK, leaseVars
<1> QED BY <1>0, <1>1, <1>2, <1>3, <1>4, <1>5, <1>6, <1>7, <1>8, <1>9, <1>10 DEF LedgerNext, LoopStep, ScanStep
-----------------------------------------------------------------------------
(* Every step keeps the processes apart                                    *)

LEMMA RowDoes ==
  ASSUME LedgerTypeOK, NEW t \in VideoTasks, NEW s
  PROVE  /\ FinishCall(t, s) => row'[t] = s
         /\ FinalizePending(t, s) => row'[t] = IF row[t] = "pending" THEN s ELSE row[t]
         /\ FinishCall(t, s) \/ FinalizePending(t, s) => \A u \in VideoTasks : u # t => row'[u] = row[u]
BY DEF LedgerTypeOK, FinishCall, FinalizePending

LEMMA GenKeeps ==
  ASSUME LedgerInv, NEW t \in VideoTasks, GenStep(t), UNCHANGED <<leaseVars, todo, crashes>>
  PROVE  Apart'
<1> USE LedgerBounds DEF LedgerInv
<1>1. CASE OpenRecord(t)
  <2>2. /\ gen[t].at = "open" /\ gen'[t].proc = gen[t].proc
        /\ \A u \in VideoTasks : u # t => gen'[u] = gen[u] /\ row'[u] = row[u]
        /\ \/ gen'[t].at = "recorded" /\ row'[t] = "pending" /\ bookFaults' = bookFaults
           \/ gen'[t].at = "failing" /\ row' = row /\ bookFaults' > 0
    <3>1. CASE GenAt(t, "open", "recorded") /\ StartCall(t) /\ UNCHANGED bookFaults
      BY <3>1, GenAtDoes DEF GenStates, StartCall, LedgerTypeOK
    <3>2. CASE GenAt(t, "open", "failing") /\ LedgerFault
      BY <3>2, GenAtDoes, FaultDoes DEF GenStates
    <3> QED BY <1>1, <3>1, <3>2 DEF OpenRecord
  <2>3. UNCHANGED <<status, saved, resume, hands, todo>>
    BY <1>1 DEF OpenRecord
  <2> USE <2>2, <2>3 DEF Apart, LedgerTypeOK
  <2>a. \A u \in VideoTasks : Generates(u)'
    BY SMTT(40) DEF Generates, Books, Settled, InBlock
  <2>b. \A u \in VideoTasks : Books(u)'
    BY DEF Generates, Books, Settled, InBlock
  <2>c. \A q \in Procs, u \in VideoTasks : Resumes(q, u)'
    BY DEF Generates, Resumes, Settled, InBlock
  <2>d. \A q \in Procs : Lists(q)'
    BY DEF Generates, Lists, Listed
  <2> QED BY <2>a, <2>b, <2>c, <2>d
<1>2. CASE SaveCheckpoint(t) \/ SubmitJob(t) \/ SaveJobId(t)
  <2>1. \E from \in {"recorded", "ready", "sent"}, to \in {"ready", "sent", "polling"} :
          /\ GenAt(t, from, to)
          /\ from = "recorded" => to = "ready" /\ saved' = [saved EXCEPT ![t] = "checkpoint"]
          /\ from = "ready" => to = "sent" /\ saved' = saved
          /\ from = "sent" => to = "polling" /\ saved' = [saved EXCEPT ![t] = "job"]
    BY <1>2 DEF SaveCheckpoint, SubmitJob, SaveJobId
  <2>2. /\ gen'[t].proc = gen[t].proc
        /\ \A u \in VideoTasks : u # t => gen'[u] = gen[u] /\ saved'[u] = saved[u]
        /\ \/ gen[t].at = "recorded" /\ gen'[t].at = "ready" /\ saved'[t] = "checkpoint"
           \/ gen[t].at = "ready" /\ gen'[t].at = "sent" /\ saved' = saved
           \/ gen[t].at = "sent" /\ gen'[t].at = "polling" /\ saved'[t] = "job"
    BY <2>1, GenAtDoes DEF GenStates, LedgerTypeOK
  <2>3. UNCHANGED <<status, row, resume, hands, bookFaults, todo>>
    BY <1>2 DEF SaveCheckpoint, SubmitJob, SaveJobId
  <2> USE <2>2, <2>3 DEF Apart, LedgerTypeOK
  <2>a. \A u \in VideoTasks : Generates(u)'
    BY DEF Generates, Books, Settled, InBlock
  <2>b. \A u \in VideoTasks : Books(u)'
    BY SMTT(40) DEF Generates, Books, Settled, InBlock
  <2>c. \A q \in Procs, u \in VideoTasks : Resumes(q, u)'
    BY DEF Generates, Resumes, Settled, InBlock
  <2>d. \A q \in Procs : Lists(q)'
    BY DEF Generates, Lists, Listed
  <2> QED BY <2>a, <2>b, <2>c, <2>d
<1>3. CASE EndBlock(t)
  <2>1. \E from \in {"recorded", "ready", "sent", "polling"}, to \in {"got", "broken"} : GenAt(t, from, to)
    BY <1>3 DEF EndBlock
  <2>2. /\ gen'[t].proc = gen[t].proc
        /\ \A u \in VideoTasks : u # t => gen'[u] = gen[u]
        /\ gen[t].at \in {"recorded", "ready", "sent", "polling"} /\ gen'[t].at \in {"got", "broken"}
    BY <2>1, GenAtDoes DEF GenStates
  <2>3. UNCHANGED <<status, saved, row, resume, hands, bookFaults, todo>>
    BY <1>3 DEF EndBlock
  <2> USE <2>2, <2>3 DEF Apart, LedgerTypeOK
  <2>a. \A u \in VideoTasks : Generates(u)'
    BY DEF Generates, Books, Settled, InBlock
  <2>b. \A u \in VideoTasks : Books(u)'
    BY DEF Generates, Books, Settled, InBlock
  <2>c. \A q \in Procs, u \in VideoTasks : Resumes(q, u)'
    BY SMTT(40) DEF Generates, Resumes, Settled, InBlock
  <2>d. \A q \in Procs : Lists(q)'
    BY DEF Generates, Lists, Listed
  <2> QED BY <2>a, <2>b, <2>c, <2>d
<1>4. CASE CloseRecord(t)
  <2>1. \E from \in {"got", "broken"}, to \in {"closing", "broken", "failing"} :
          /\ GenAt(t, from, to)
          /\ \/ to = "closing" /\ FinishCall(t, "success") /\ UNCHANGED bookFaults
             \/ to \in {"broken", "failing"} /\ LedgerFault
             \/ to = "failing" /\ FinishCall(t, "failed") /\ UNCHANGED bookFaults
    BY <1>4 DEF CloseRecord
  <2>2. /\ gen[t].at \in {"got", "broken"} /\ gen'[t].proc = gen[t].proc
        /\ \A u \in VideoTasks : u # t => gen'[u] = gen[u] /\ row'[u] = row[u]
        /\ \/ gen'[t].at = "closing" /\ row'[t] = "success" /\ bookFaults' = bookFaults
           \/ gen'[t].at \in {"broken", "failing"} /\ row' = row /\ bookFaults' > 0
           \/ gen'[t].at = "failing" /\ row'[t] = "failed" /\ bookFaults' = bookFaults
    BY <2>1, GenAtDoes, RowDoes, FaultDoes DEF GenStates
  <2>3. UNCHANGED <<status, saved, resume, hands, todo>>
    BY <1>4 DEF CloseRecord
  <2> USE <2>2, <2>3 DEF Apart, LedgerTypeOK
  <2>a. \A u \in VideoTasks : Generates(u)'
    BY DEF Generates, Books, Settled, InBlock
  <2>b. \A u \in VideoTasks : Books(u)'
    BY DEF Generates, Books, Settled, InBlock
  <2>c. \A q \in Procs, u \in VideoTasks : Resumes(q, u)'
    BY DEF Generates, Resumes, Settled, InBlock
  <2>d. \A q \in Procs : Lists(q)'
    BY DEF Generates, Lists, Listed
  <2> QED BY <2>a, <2>b, <2>c, <2>d
<1>5. CASE CloseTask(t)
  <2>1. /\ gen'[t].proc = NoProc /\ gen'[t].at = "none"
        /\ \A u \in VideoTasks : u # t => gen'[u] = gen[u]
    BY <1>5 DEF CloseTask, GenEnds, LedgerTypeOK
  <2>2. /\ \A u \in VideoTasks : u # t => status'[u] = status[u]
        /\ status'[t] = status[t] \/ status'[t] \in {"failed", "cancelled"}
             \/ (status'[t] = "succeeded" /\ gen[t].at = "closing")
        /\ status'[t] = "queued" => status[t] = "queued"
        /\ status'[t] = "failed" => status[t] = "failed" \/ gen[t].at \in {"closing", "failing"}
    <3>1. CASE gen[t].at \in {"closing", "failing"} /\ EndedAs(t, "failed")
      BY <3>1, EndedAsDoes DEF Ended
    <3>2. CASE gen[t].at = "closing" /\ EndedAs(t, "succeeded")
      BY <3>2, EndedAsDoes DEF Ended
    <3>3. CASE gen[t].at = "cancelled" /\ MarkCancelled(t)
      BY <3>3, MarkCancelledDoes DEF Ended
    <3> QED BY <1>5, <3>1, <3>2, <3>3 DEF CloseTask
  <2>3. UNCHANGED <<saved, row, resume, hands, bookFaults, todo>>
    BY <1>5 DEF CloseTask
  <2> USE <2>1, <2>2, <2>3, OwnersDiffer DEF Apart, LedgerTypeOK
  <2>a. \A u \in VideoTasks : Generates(u)'
    BY DEF Generates, Books, Settled, InBlock
  <2>b. \A u \in VideoTasks : Books(u)'
    BY DEF Generates, Books, Settled, InBlock
  <2>c. \A q \in Procs, u \in VideoTasks : Resumes(q, u)'
    <3> SUFFICES ASSUME NEW q \in Procs, NEW u \in VideoTasks PROVE Resumes(q, u)'
      OBVIOUS
    <3>1. gen[u].proc # q => gen'[u].proc # q
      OBVIOUS
    <3>2. Resumes(q, u)
      OBVIOUS
    <3> QED BY <3>1, <3>2 DEF Resumes, Settled
  <2>d. \A q \in Procs : Lists(q)'
    BY DEF Generates, Lists, Listed
  <2> QED BY <2>a, <2>b, <2>c, <2>d
<1> QED BY <1>1, <1>2, <1>3, <1>4, <1>5 DEF GenStep

LEMMA ResumeKeeps ==
  ASSUME LedgerInv, NEW p \in Procs, NEW t \in VideoTasks, ResumeStep(p, t), UNCHANGED <<leaseVars, todo, crashes>>
  PROVE  Apart'
<1> USE LedgerBounds DEF LedgerInv
<1>1. CASE ResumeAnswer(p, t)
  <2>1. /\ resume[p][t] # "none" /\ resume'[p][t] \in {"got", "expired", "failing"}
        /\ \A q \in Procs, u \in VideoTasks : q # p \/ u # t => resume'[q][u] = resume[q][u]
    <3>1. PICK to \in {"got", "expired", "failing"} : ResumeAt(p, t, "polling", to)
      BY <1>1 DEF ResumeAnswer
    <3> QED BY <3>1, ResumeDoes DEF ResumeAt, ResumeStates
  <2>2. UNCHANGED <<status, saved, row, gen, hands, bookFaults, todo>>
    BY <1>1 DEF ResumeAnswer
  <2> USE <2>1, <2>2 DEF Apart, LedgerTypeOK
  <2>a. \A u \in VideoTasks : Generates(u)'
    BY DEF Generates, Books, Resumes, Settled, InBlock
  <2>b. \A u \in VideoTasks : Books(u)'
    BY DEF Generates, Books, Resumes, Settled, InBlock
  <2>c. \A q \in Procs, u \in VideoTasks : Resumes(q, u)'
    BY SMTT(40) DEF Generates, Books, Resumes, Settled, InBlock
  <2>d. \A q \in Procs : Lists(q)'
    BY DEF Generates, Books, Lists, Listed
  <2> QED BY <2>a, <2>b, <2>c, <2>d
<1>2. CASE ResumeSettle(p, t)
  <2>1. /\ resume[p][t] # "none" /\ resume'[p][t] \in {"closing", "failing"}
        /\ \A q \in Procs, u \in VideoTasks : q # p \/ u # t => resume'[q][u] = resume[q][u]
    BY <1>2, ResumeDoes DEF ResumeSettle, ResumeAt, ResumeStates
  <2>2. /\ \A u \in VideoTasks : u # t => row'[u] = row[u]
        /\ row'[t] = row[t] \/ (row[t] = "pending" /\ row'[t] \in {"success", "failed"})
        /\ bookFaults' = bookFaults \/ bookFaults' > 0
        /\ resume'[p][t] = "closing" => row'[t] # "pending"
    <3>1. CASE ResumeAt(p, t, "got", "closing") /\ FinalizePending(t, "success") /\ UNCHANGED bookFaults
      BY <3>1, RowDoes
    <3>2. CASE ResumeAt(p, t, "expired", "failing") /\ FinalizePending(t, "failed") /\ UNCHANGED bookFaults
      BY <3>2, RowDoes
    <3>3. CASE \E at \in {"got", "expired"} : ResumeAt(p, t, at, "failing") /\ LedgerFault
      <4>1. resume'[p][t] = "failing"
        BY <3>3, ResumeDoes DEF ResumeAt, ResumeStates
      <4> QED BY <3>3, <4>1, FaultDoes
    <3> QED BY <1>2, <3>1, <3>2, <3>3 DEF ResumeSettle
  <2>3. UNCHANGED <<status, saved, gen, hands, todo>>
    BY <1>2 DEF ResumeSettle
  <2> USE <2>1, <2>2, <2>3 DEF Apart, LedgerTypeOK
  <2>a. \A u \in VideoTasks : Generates(u)'
    BY DEF Generates, Books, Resumes, Settled, InBlock
  <2>b. \A u \in VideoTasks : Books(u)'
    BY DEF Generates, Books, Resumes, Settled, InBlock
  <2>c. \A q \in Procs, u \in VideoTasks : Resumes(q, u)'
    BY SMTT(40) DEF Generates, Books, Resumes, Settled, InBlock
  <2>d. \A q \in Procs : Lists(q)'
    BY DEF Generates, Books, Lists, Listed
  <2> QED BY <2>a, <2>b, <2>c, <2>d
<1>3. CASE ResumeClose(p, t)
  <2>1. /\ resume[p][t] # "none" /\ resume'[p][t] = "none"
        /\ \A q \in Procs, u \in VideoTasks : q # p \/ u # t => resume'[q][u] = resume[q][u]
    BY <1>3, ResumeDoes DEF ResumeClose, ResumeStates
  <2>2. /\ \A u \in VideoTasks : u # t => status'[u] = status[u]
        /\ status'[t] = "queued" => status[t] = "queued"
        /\ status'[t] = "succeeded" => status[t] = "succeeded" \/ resume[p][t] = "closing"
    <3>1. CASE EndedAs(t, "failed")
      BY <3>1, EndedAsDoes DEF Ended
    <3>2. CASE resume[p][t] = "closing" /\ EndedAs(t, "succeeded")
      BY <3>2, EndedAsDoes DEF Ended
    <3>3. CASE MarkCancelled(t)
      BY <3>3, MarkCancelledDoes DEF Ended
    <3> QED BY <1>3, <3>1, <3>2, <3>3 DEF ResumeClose
  <2>3. UNCHANGED <<saved, row, gen, hands, bookFaults, todo>>
    BY <1>3 DEF ResumeClose
  <2> USE <2>1, <2>2, <2>3 DEF Apart, LedgerTypeOK
  <2>a. \A u \in VideoTasks : Generates(u)'
    BY DEF Generates, Books, Resumes, Settled, InBlock
  <2>b. \A u \in VideoTasks : Books(u)'
    BY DEF Generates, Books, Resumes, Settled, InBlock
  <2>c. \A q \in Procs, u \in VideoTasks : Resumes(q, u)'
    BY DEF Generates, Books, Resumes, Settled, InBlock
  <2>d. \A q \in Procs : Lists(q)'
    BY DEF Generates, Books, Lists, Listed
  <2> QED BY <2>a, <2>b, <2>c, <2>d
<1> QED BY <1>1, <1>2, <1>3 DEF ResumeStep

LEMMA CancelKeeps ==
  ASSUME LedgerInv, NEW p \in Procs, NEW t \in VideoTasks, CancelTask(p, t), UNCHANGED <<leaseVars, todo, crashes>>
  PROVE  Apart'
<1> USE DEF LedgerInv
<1>1. UNCHANGED <<saved, row, hands, bookFaults, todo>>
  BY DEF CancelTask
<1>2. CASE status[t] = "queued"
  <2>1. UNCHANGED <<gen, resume>> /\ status'[t] = "cancelled" /\ \A u \in VideoTasks : u # t => status'[u] = status[u]
    BY <1>2, MarkCancelledDoes DEF CancelTask, Ended
  <2> USE <1>1, <1>2, <2>1 DEF Apart, LedgerTypeOK
  <2>a. \A u \in VideoTasks : Generates(u)'
    BY SMTT(40) DEF Generates, Books, Resumes, Settled, InBlock
  <2>b. \A u \in VideoTasks : Books(u)'
    BY DEF Generates, Books, Resumes, Settled, InBlock
  <2>c. \A q \in Procs, u \in VideoTasks : Resumes(q, u)'
    BY DEF Generates, Books, Resumes, Settled, InBlock
  <2>d. \A q \in Procs : Lists(q)'
    BY DEF Generates, Books, Lists, Listed
  <2> QED BY <2>a, <2>b, <2>c, <2>d
<1>3. CASE status[t] # "queued"
  <2>1. status'[t] = "cancelling" /\ \A u \in VideoTasks : u # t => status'[u] = status[u]
    BY <1>3 DEF CancelTask, LedgerTypeOK
  <2>2. /\ \A u \in VideoTasks : gen'[u].proc = gen[u].proc /\ (u # t => gen'[u] = gen[u])
        /\ gen'[t].at = gen[t].at \/ (gen[t].at # "none" /\ gen'[t].at = "cancelled")
    <3>1. gen' = gen \/ (gen[t].at # "none" /\ GenAt(t, gen[t].at, "cancelled"))
      BY <1>3 DEF CancelTask, Deaf, GenAt
    <3> QED BY <3>1, GenAtDoes DEF GenStates
  <2>3. \A q \in Procs, u \in VideoTasks :
          resume'[q][u] = resume[q][u] \/ (resume[q][u] # "none" /\ resume'[q][u] = "cancelled")
    <3>1. resume' = resume \/ (resume[p][t] # "none" /\ resume' = [resume EXCEPT ![p][t] = "cancelled"])
      BY <1>3 DEF CancelTask, Deaf
    <3> QED BY <3>1, ResumeDoes DEF ResumeStates
  <2> USE <1>1, <1>3, <2>1, <2>2, <2>3 DEF Apart, LedgerTypeOK
  <2>a. \A u \in VideoTasks : Generates(u)'
    BY DEF Generates, Books, Resumes, Settled, InBlock
  <2>b. \A u \in VideoTasks : Books(u)'
    BY SMTT(40) DEF Generates, Books, Resumes, Settled, InBlock
  <2>c. \A q \in Procs, u \in VideoTasks : Resumes(q, u)'
    BY DEF Generates, Books, Resumes, Settled, InBlock
  <2>d. \A q \in Procs : Lists(q)'
    BY DEF Generates, Books, Lists, Listed
  <2> QED BY <2>a, <2>b, <2>c, <2>d
<1> QED BY <1>2, <1>3

LEMMA DieKeeps ==
  ASSUME LedgerInv, NEW p \in Procs, Die(p)
  PROVE  Apart'
<1> USE DEF LedgerInv
<1>1. /\ UNCHANGED <<status, saved, row, hands, bookFaults>>
      /\ \A u \in VideoTasks : gen'[u] = gen[u] \/ (gen'[u].at = "none" /\ gen'[u].proc = NoProc)
      /\ \A q \in Procs, u \in VideoTasks : resume'[q][u] \in {resume[q][u], "none"}
      /\ \A q \in Procs : todo'[q] \subseteq todo[q]
  BY DEF Die, LedgerTypeOK
<1>2. \A q \in Procs, u \in VideoTasks : gen[u].proc # q => gen'[u].proc # q
  BY <1>1, OwnersDiffer
<1> USE <1>1, <1>2 DEF Apart, LedgerTypeOK
<1>a. \A u \in VideoTasks : Generates(u)'
  BY DEF Generates, Books, Resumes, Settled, InBlock
<1>b. \A u \in VideoTasks : Books(u)'
  BY DEF Generates, Books, Resumes, Settled, InBlock
<1>c. \A q \in Procs, u \in VideoTasks : Resumes(q, u)'
  BY DEF Generates, Books, Resumes, Settled, InBlock
<1>d. \A q \in Procs : Lists(q)'
  BY DEF Generates, Books, Lists, Listed
<1> QED BY <1>a, <1>b, <1>c, <1>d

LEMMA ClaimKeeps ==
  ASSUME LedgerInv, NEW p \in Procs, NEW t \in VideoTasks, Claim(p, t)
  PROVE  Apart'
<1> USE DEF LedgerInv
<1>1. /\ UNCHANGED <<saved, row, resume, hands, bookFaults, todo>>
      /\ status[t] = "queued" /\ status'[t] = "running" /\ gen'[t].at = "open" /\ gen'[t].proc = p
      /\ \A u \in VideoTasks : u # t => status'[u] = status[u] /\ gen'[u] = gen[u]
  BY DEF Claim, LedgerTypeOK
<1> USE <1>1 DEF Apart, LedgerTypeOK
<1>a. \A u \in VideoTasks : Generates(u)'
  BY DEF Generates, Books, Resumes, Settled, InBlock
<1>b. \A u \in VideoTasks : Books(u)'
  BY DEF Generates, Books, Resumes, Settled, InBlock
<1>c. \A q \in Procs, u \in VideoTasks : Resumes(q, u)'
  BY SMTT(40) DEF Generates, Books, Resumes, Settled, InBlock
<1>d. \A q \in Procs : Lists(q)'
  BY DEF Generates, Books, Lists, Listed
<1> QED BY <1>a, <1>b, <1>c, <1>d

\* The scan lists no task of its own process, and hands over only what has a job.
LEMMA ScanKeeps ==
  ASSUME LedgerInv, NEW p \in Procs, ScanStep(p)
  PROVE  Apart'
<1> USE DEF LedgerInv
<1>1. CASE ScanList(p)
  <2>1. UNCHANGED <<status, saved, row, gen, resume, hands, bookFaults>>
    BY <1>1 DEF ScanList, callVars
  <2>2. \A q \in Procs : Lists(q)'
    <3>1. \A q \in Procs : q # p => todo'[q] = todo[q]
      BY <1>1 DEF ScanList, LedgerTypeOK
    <3>2. \A o \in todo'[p] : \E u \in VideoTasks :
            /\ o = [task |-> u, status |-> status[u], saved |-> saved[u]]
            /\ status[u] \in {"running", "cancelling"} /\ gen[u].proc # p
      BY <1>1 DEF ScanList, LedgerTypeOK, SelfActive
    <3> QED BY <2>1, <3>1, <3>2 DEF Apart, Lists
  <2> QED BY <2>1, <2>2 DEF Apart, Generates, Books, Resumes, Settled
<1>2. ASSUME NEW o \in todo[p], ScanOne(p, o) PROVE Apart'
  <2>1. o.task \in VideoTasks
    BY DEF LedgerTypeOK, Listed
  <2>2. /\ UNCHANGED <<saved, row, gen, bookFaults>>
        /\ \A q \in Procs : todo'[q] \subseteq todo[q]
        /\ p \in hands'[o.task] /\ \A u \in VideoTasks : hands[u] \subseteq hands'[u]
    BY <1>2, <2>1 DEF ScanOne, LedgerTypeOK
  <2>3. /\ \A u \in VideoTasks : u # o.task => status'[u] = status[u]
        /\ status'[o.task] = "queued" => status[o.task] = "queued"
        /\ status'[o.task] = "succeeded" => status[o.task] = "succeeded"
    <3>1. CASE EndedAs(o.task, "failed")
      BY <2>1, <3>1, EndedAsDoes DEF Ended
    <3>2. CASE MarkCancelled(o.task)
      BY <2>1, <3>2, MarkCancelledDoes DEF Ended
    <3> QED BY <1>2, <3>1, <3>2 DEF ScanOne
  <2>4. \A q \in Procs, u \in VideoTasks :
          \/ resume'[q][u] = resume[q][u]
          \/ q = p /\ u = o.task /\ o.saved = "job" /\ resume'[q][u] = "polling"
    <3>1. resume' = resume \/ (o.saved = "job" /\ resume' = [resume EXCEPT ![p][o.task] = "polling"])
      BY <1>2 DEF ScanOne
    <3> QED BY <2>1, <3>1, ResumeDoes DEF ResumeStates
  <2>5. gen[o.task].proc # p /\ (o.saved = "job" => saved[o.task] = "job")
    BY DEF Apart, Lists
  <2>6. /\ \A u \in VideoTasks :
             /\ hands[u] # {} => hands'[u] # {}
             /\ hands[u] \ {gen[u].proc} # {} => hands'[u] \ {gen[u].proc} # {}
        /\ hands'[o.task] # {} /\ hands'[o.task] \ {gen[o.task].proc} # {}
    BY <2>1, <2>2, <2>5
  <2> USE <2>1, <2>2, <2>3, <2>4, <2>5, <2>6 DEF Apart, LedgerTypeOK
  <2>a. \A u \in VideoTasks : Generates(u)'
    BY SMTT(40) DEF Generates, Books, Resumes, Settled, InBlock
  <2>b. \A u \in VideoTasks : Books(u)'
    BY DEF Generates, Books, Resumes, Settled, InBlock
  <2>c. \A q \in Procs, u \in VideoTasks : Resumes(q, u)'
    BY DEF Generates, Books, Resumes, Settled, InBlock
  <2>d. \A q \in Procs : Lists(q)'
    BY DEF Generates, Books, Lists, Listed
  <2> QED BY <2>a, <2>b, <2>c, <2>d
<1>3. CASE ScanDone(p)
  BY <1>3 DEF ScanDone, callVars, Apart, Generates, Books, Resumes, Lists, Settled
<1> QED BY <1>1, <1>2, <1>3 DEF ScanStep

LEMMA LedgerInitInv == LedgerInit => LedgerInv
<1> SUFFICES ASSUME LedgerInit PROVE LedgerInv
  OBVIOUS
<1> USE LedgerBounds, OwnersDiffer DEF LedgerInit
<1>1. LedgerTypeOK
  BY DEF LedgerTypeOK, LeaseInit, LeaseTypeOK, LoopStates, Statuses, GenStates, ResumeStates
<1>2. Apart
  BY DEF Apart, Generates, Books, Resumes, Lists, InBlock
<1> QED BY <1>1, <1>2 DEF LedgerInv

LEMMA LedgerStepInv == LedgerInv /\ [LedgerNext]_ledgerVars => LedgerInv'
<1> SUFFICES ASSUME LedgerInv, [LedgerNext]_ledgerVars PROVE LedgerInv'
  OBVIOUS
<1>1. LedgerTypeOK'
  BY LedgerTypeStep DEF LedgerInv
<1>2. ASSUME UNCHANGED <<callVars, todo, bookFaults>> PROVE Apart'
  BY <1>2 DEF LedgerInv, callVars, Apart, Generates, Books, Resumes, Lists, Settled
<1>3. ASSUME UNCHANGED ledgerVars PROVE Apart'
  BY <1>2, <1>3 DEF ledgerVars
<1>4. ASSUME NEW p \in Procs, LeaseStep(p) \/ ClaimNothing(p) PROVE Apart'
  BY <1>2, <1>4 DEF LeaseStep, ClaimNothing
<1>5. ASSUME LeaseExpires PROVE Apart'
  BY <1>2, <1>5 DEF LeaseExpires
<1>6. Apart'
  BY <1>3, <1>4, <1>5, GenKeeps, ResumeKeeps, CancelKeeps, DieKeeps, ClaimKeeps, ScanKeeps DEF LedgerNext, LoopStep
<1> QED BY <1>1, <1>6 DEF LedgerInv

LEMMA LedgerInductive == LedgerSpec => []LedgerInv
BY LedgerInitInv, LedgerStepInv, PTL DEF LedgerSpec

-----------------------------------------------------------------------------
(* The theorems                                                            *)

\* Types; a generator that has a process is at some point of its code.
THEOREM LedgerTypes == LedgerSpec => []LedgerTypeOK
<1>1. LedgerInv => LedgerTypeOK
  BY DEF LedgerInv
<1> QED BY <1>1, LedgerInductive, PTL

\* A task reported as succeeded is in the books, and as failed only where a second process
\* scanned it (record, resume_success).
THEOREM Booked == LedgerSpec => []SucceededIsBooked
<1>1. LedgerInv => SucceededIsBooked
  BY DEF LedgerInv, Apart, Books, SucceededIsBooked
<1> QED BY <1>1, LedgerInductive, PTL

\* A call that stays pending after its task has ended was cancelled, met a failing write of the
\* ledger or was given up by a scan (the bracket of ledger.record).
THEOREM PendingCaused == LedgerSpec => []PendingHasCause
<1>1. LedgerInv => PendingHasCause
  BY DEF LedgerInv, Apart, Books, PendingHasCause, Ended
<1> QED BY <1>1, LedgerInductive, PTL

\* Who changes a settled row is a generator whose task another process took over.
LEMMA Rewrites ==
  ASSUME LedgerInv, LedgerNext, NEW t \in VideoTasks, Settled(t), row'[t] # row[t]
  PROVE  gen[t].at \in {"got", "broken"}
<1> USE DEF LedgerInv
<1>1. ~\E p \in Procs : LoopStep(p) \/ Die(p)
  BY DEF LoopStep, LeaseStep, ScanStep, ScanList, ScanOne, ScanDone, ClaimNothing, Claim, Die, callVars
<1>2. ~LeaseExpires
  BY DEF LeaseExpires, callVars
<1>3. ASSUME NEW p \in Procs, NEW u \in VideoTasks, ResumeStep(p, u) PROVE FALSE
  BY <1>3, RowDoes, FaultDoes
  DEF ResumeStep, ResumeAnswer, ResumeSettle, ResumeClose, Settled
<1>4. ASSUME NEW p \in Procs, NEW u \in VideoTasks, CancelTask(p, u) PROVE FALSE
  BY <1>4 DEF CancelTask
<1>5. PICK u \in VideoTasks : GenStep(u)
  BY <1>1, <1>2, <1>3, <1>4 DEF LedgerNext
<1>6. OpenRecord(u) \/ CloseRecord(u)
  BY <1>5 DEF GenStep, SaveCheckpoint, SubmitJob, SaveJobId, EndBlock, CloseTask
<1>7. ASSUME OpenRecord(u) PROVE FALSE
  <2>1. u = t
    BY <1>7, FaultDoes DEF OpenRecord, StartCall, LedgerTypeOK
  <2> QED BY <1>7, <2>1 DEF OpenRecord, GenAt, Apart, Generates, Settled
<1>8. u = t
  BY <1>6, <1>7, RowDoes, FaultDoes DEF CloseRecord
<1> QED BY <1>6, <1>7, <1>8 DEF CloseRecord, GenAt

\* What a call was settled as is rewritten only by a generator whose task the scan of another
\* process took over, which finish_call does not notice.
THEOREM RewrittenShared == LedgerSpec => RewrittenOnlyWhenShared
<1> DEFINE A == \A t \in VideoTasks : Settled(t) /\ row'[t] # row[t] =>
                  \E p \in Procs : gen[t].proc = p /\ hands[t] \ {p} # {}
<1>1. LedgerInv /\ [LedgerNext]_ledgerVars => [A]_ledgerVars
  <2> SUFFICES ASSUME LedgerInv, LedgerNext, NEW t \in VideoTasks, Settled(t), row'[t] # row[t]
               PROVE  \E p \in Procs : gen[t].proc = p /\ hands[t] \ {p} # {}
    OBVIOUS
  <2>1. gen[t].at \in {"got", "broken"}
    BY Rewrites
  <2>2. gen[t].proc \in Procs
    BY <2>1 DEF LedgerInv, LedgerTypeOK
  <2> QED BY <2>1, <2>2 DEF LedgerInv, Apart, Generates, InBlock
<1> QED BY <1>1, LedgerInductive, PTL DEF LedgerSpec, RewrittenOnlyWhenShared

\* A live lease passes to another owner only when its holder gives it up
\* (acquire_or_renew_lease, release_lease).
THEOREM LeaseIsKept == LedgerSpec => NoTheft
<1> DEFINE A == lease.live /\ lease.owner \in Procs /\ lease'.owner # lease.owner => loop'[lease.owner] = "off"
<1>1. LedgerInv /\ [LedgerNext]_ledgerVars => [A]_leaseVars
  <2> SUFFICES ASSUME LedgerInv, [LedgerNext]_ledgerVars,
                      lease.live, lease.owner \in Procs, lease'.owner # lease.owner
               PROVE  loop'[lease.owner] = "off"
    OBVIOUS
  <2> USE DEF LedgerInv, LedgerTypeOK, LeaseTypeOK
  <2>1. ASSUME NEW p \in Procs, LeaseStep(p) PROVE loop'[lease.owner] = "off"
    <3>1. ~Renew(p)
      BY OwnersDiffer DEF Renew, Obtains
    <3>2. CASE LeaveLoop(p)
      BY <3>2 DEF LeaveLoop, Releases
    <3> QED BY <2>1, <3>1, <3>2 DEF LeaseStep, StartLoop, LostForLong, StopLoop, LoopTo
  <2>2. ASSUME NEW p \in Procs, Die(p) PROVE loop'[lease.owner] = "off"
    BY <2>2 DEF Die, DieLoop
  <2>3. ~LeaseExpires
    BY DEF LeaseExpires, Expire
  <2>4. UNCHANGED lease => FALSE
    OBVIOUS
  <2>5. ASSUME NEW p \in Procs PROVE ~(ScanStep(p) \/ ClaimNothing(p) \/ \E t \in VideoTasks : Claim(p, t))
    BY <2>4 DEF ScanStep, ScanList, ScanOne, ScanDone, ClaimNothing, Claim, LoopTo, leaseVars
  <2> HIDE DEF LedgerInv, LedgerTypeOK, LeaseTypeOK
  <2> QED BY <2>1, <2>2, <2>3, <2>4, <2>5 DEF LedgerNext, LoopStep, leaseVars, ledgerVars
<1> QED BY <1>1, LedgerInductive, PTL DEF LedgerSpec, NoTheft

-----------------------------------------------------------------------------
(* The results                                                             *)

\* The media with their manifest and the ledger with the lease go on as each does alone.
THEOREM ResultParts == ResultSpec => ArtifactSpec /\ LedgerSpec
<1>1. ResultInit => ArtifactInit /\ LedgerInit
  BY DEF ResultInit
<1>2. [ResultNext]_resultVars => [ArtifactNext]_artifactVars
  BY DEF ResultNext, resultVars
<1>3. [ResultNext]_resultVars => [LedgerNext]_ledgerVars
  BY DEF ResultNext, resultVars
<1> QED BY <1>1, <1>2, <1>3, PTL DEF ResultSpec, ArtifactSpec, LedgerSpec

\* The two parts keep their types, each with what it states beside them.
THEOREM ResultTypes == ResultSpec => []ResultTypeOK
<1>1. ArtifactTypeOK /\ LedgerTypeOK => ResultTypeOK
  BY DEF ResultTypeOK
<1> QED BY <1>1, ResultParts, TypesHold, LedgerTypes, PTL

\* What is paid for is kept and booked, selections change by single transitions from fresh
\* versions, and neither a settled call nor a live lease is taken over unseen.
THEOREM ResultsHold ==
  ResultSpec =>
    /\ [](/\ PaidIsKept /\ CancelledNotClaimed /\ OrderedOtherwise /\ PointerLeaksOnlyLate
          /\ SucceededIsBooked /\ PendingHasCause)
    /\ SelectionIsOneTransition /\ NoStaleSelection /\ RewrittenOnlyWhenShared /\ NoTheft
BY ResultParts, PaidIsKeptHolds, CancelledNotClaimedHolds, OrderedOtherwiseHolds, PointerLeaksOnlyLateHolds,
   Booked, PendingCaused, ImplementsSelection, NoStaleSelectionHolds, RewrittenShared, LeaseIsKept, PTL
=============================================================================
