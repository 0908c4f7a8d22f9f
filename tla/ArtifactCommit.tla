--------------------------- MODULE ArtifactCommit ---------------------------
(***************************************************************************)
(* The writers of formal media: paid video tasks, image tasks, version     *)
(* restores, manual uploads and script edits, as threads that take the     *)
(* file locks one by one and move the canonical file, versions.json, the   *)
(* Artifact Manifest and the script in separate steps, each of which may   *)
(* fail and be rolled back.  A cancelled task undoes its selection after   *)
(* the row's terminal gate, if its result reaches the gate.                *)
(***************************************************************************)
EXTENDS Naturals, Sequences, FiniteSets

CONSTANTS
  Resources,     \* storyboards, videos, ...: one formal file each
  Videos,        \* those whose versions carry typed evidence
  PaidTasks, ImageTasks, Restorers, Uploaders, Editors,
  TtsTasks,      \* paid tasks whose basis depends on the current TTS settings
  Target,        \* Target[t]: the resource a thread works on
  Bases,         \* digests of what a medium is generated from
  Legacy, NoBytes, NoClaim, NoThread,
  MaxFaults,     \* disk failures in one behaviour
  MaxActors      \* threads that act in one behaviour

Tasks == PaidTasks \cup ImageTasks
Threads == Tasks \cup Restorers \cup Uploaders \cup Editors

ASSUME ThreadsHaveTargets ==
  /\ \A t \in Threads : Target[t] \in Resources
  /\ \A t \in PaidTasks : Target[t] \in Videos
  /\ \A t \in ImageTasks : Target[t] \notin Videos
  /\ TtsTasks \subseteq PaidTasks

\* A thread is of one kind, and the names in use are told apart.
ASSUME NamesDiffer ==
  /\ Tasks \cap (Restorers \cup Uploaders \cup Editors) = {}
  /\ Restorers \cap (Uploaders \cup Editors) = {} /\ Uploaders \cap Editors = {}
  /\ NoThread \notin Threads /\ NoBytes \notin Threads \cup {Legacy}
  /\ Bases # {} /\ NoClaim \notin Bases
  /\ Resources \cap {"script", "project", "versions", "loop"} = {}
  /\ MaxFaults \in Nat

VARIABLES
  res,     \* res[r]: hist, cur (versions.json), formal (the file), claim
           \*   (manifest), meta (script), basis (what r would be made from), present
  th,      \* th[t]: where the thread stands and what it captured
  own,     \* own[l]: the thread that holds lock l
  faults   \* disk failures so far

artifactVars == <<res, th, own, faults>>

Locks == Resources \cup {"script", "project", "versions", "loop"}
Bytes == Threads \cup {Legacy, NoBytes}
Record == [bytes : Bytes, basis : Bases \cup {NoClaim}, prev : Nat]

-----------------------------------------------------------------------------
(* Locks *)

\* Mutant: the selection is decided without holding the script and project locks.
UnguardedSelection(t) ==
  IF t \in PaidTasks THEN <<Target[t], "versions">>
  ELSE IF th[t].stage = "undo" THEN <<"versions", "script", "project">>
  ELSE <<"script", "project", "versions">>

\* Mutant: the compensation of a video takes the versions lock first.
InvertedVideoUndo(t) ==
  IF t \in PaidTasks
  THEN IF th[t].stage = "undo" THEN <<Target[t], "versions", "script", "project">>
       ELSE <<Target[t], "script", "project", "versions">>
  ELSE IF th[t].stage = "undo" THEN <<"versions", "script", "project">>
  ELSE <<"script", "project", "versions">>

\* The locks of the stage a thread is in, in the order they are taken.
LockPlan(t) ==
  IF t \in PaidTasks THEN <<Target[t], "script", "project", "versions">>
  ELSE IF th[t].stage = "undo" THEN <<"versions", "script", "project">>
  ELSE <<"script", "project", "versions">>

\* The image compensation reaches the metadata locks only in on_reject.
LocksNeeded(t) ==
  IF t \in ImageTasks /\ th[t].stage = "undo" /\ th[t].step # "register"
  THEN 1 ELSE Len(LockPlan(t))

Locking(t) == th[t].stage \in {"commit", "undo"} /\ th[t].got < LocksNeeded(t)
Waited(t) == LockPlan(t)[th[t].got + 1]
At(t, stage, step) ==
  th[t].stage = stage /\ th[t].step = step /\ th[t].got >= LocksNeeded(t)
\* Coroutines advance only while no synchronous call holds the event loop.
LoopFree == own["loop"] = NoThread
\* The selection of a narrated video consults the loop from inside its locks.
ConsultsLoop(t) == t \in TtsTasks /\ At(t, "commit", "begin") /\ th[t].valid
MetadataFree == own["script"] = NoThread /\ own["project"] = NoThread

AcquireLock(t) ==
  /\ Locking(t)
  /\ own[Waited(t)] = NoThread
  /\ own' = [own EXCEPT ![Waited(t)] = t]
  /\ th' = [th EXCEPT ![t].got = @ + 1]
  /\ UNCHANGED <<res, faults>>

\* Leaving a stage forgets what the transaction captured.
Leave(t, stage) ==
  [th[t] EXCEPT !.stage = stage, !.step = "begin", !.got = 0, !.old = <<>>, !.to = <<>>]

\* Mutant: the executor ends without releasing its admission guard.
KeepGuard(t) ==
  own' = [l \in Locks |-> IF own[l] = t /\ l # Target[t] THEN NoThread ELSE own[l]]

ReleaseAll(t) == own' = [l \in Locks |-> IF own[l] = t THEN NoThread ELSE own[l]]
ReleaseInner(t) ==
  own' = [l \in Locks |-> IF own[l] = t /\ l # Target[t] THEN NoThread ELSE own[l]]

-----------------------------------------------------------------------------
(* Starting a thread *)

\* A task freezes the basis and the parent version when it submits; validation of
\* the paid bytes may fail.  A user starts a restore of a recorded version.
SubmitTask(t) ==
  /\ LoopFree
  /\ t \in Tasks
  /\ th[t].stage = "idle"
  /\ res[Target[t]].present
  /\ \E valid \in (IF t \in PaidTasks THEN BOOLEAN ELSE {TRUE}) :
       th' = [th EXCEPT ![t].stage = "commit", ![t].row = "running", ![t].valid = valid,
                        ![t].basis = res[Target[t]].basis, ![t].parent = res[Target[t]].cur]
  /\ UNCHANGED <<res, own, faults>>

StartUpload(t) ==
  /\ LoopFree
  /\ t \in Uploaders
  /\ th[t].stage = "idle"
  /\ th' = [th EXCEPT ![t].stage = "commit"]
  /\ UNCHANGED <<res, own, faults>>

StartRestore(t) ==
  /\ LoopFree
  /\ t \in Restorers
  /\ th[t].stage = "idle"
  /\ own["versions"] = NoThread
  /\ \E v \in 1..Len(res[Target[t]].hist) :
       /\ Target[t] \in Videos => res[Target[t]].hist[v].basis # NoClaim
       /\ th' = [th EXCEPT ![t].stage = "commit", ![t].ver = v]
  /\ UNCHANGED <<res, own, faults>>

-----------------------------------------------------------------------------
(* The head of a transaction, once every lock of the plan is held *)

\* A formal file nobody recorded becomes version 1 before anything else is recorded.
Track(x) ==
  IF x.formal # NoBytes /\ x.cur = 0
  THEN [x EXCEPT !.hist = Append(@, [bytes |-> x.formal, basis |-> NoClaim, prev |-> 0]),
                 !.cur = Len(x.hist) + 1]
  ELSE x

WithVersion(x, t) ==
  [x EXCEPT !.hist = Append(@, [bytes |-> t, basis |-> th[t].basis, prev |-> x.cur])]

\* commit_paid_video_artifact selects only provably current media.
SelectIfCurrent(t) ==
  /\ th[t].valid
  /\ th[t].parent = res[Target[t]].cur
  /\ res[Target[t]].present
  /\ th[t].basis = res[Target[t]].basis

\* Paid bytes enter the history durably, then the selection is decided.
BeginPaid(t) ==
  LET r == Target[t]
      tracked == Track(res[r])
      recorded == WithVersion(tracked, t)
      version == Len(recorded.hist)
  IN /\ t \in PaidTasks
     /\ At(t, "commit", "begin")
     /\ ConsultsLoop(t) => LoopFree
     /\ res' = [res EXCEPT ![r] = recorded]
     /\ \/ /\ SelectIfCurrent(t)
           /\ th' = [th EXCEPT ![t].step = "replace", ![t].ver = version, ![t].old = res',
                  ![t].to = [bytes |-> t, cur |-> version, hist |-> recorded.hist],
                  ![t].prior = [claim |-> res[r].claim, meta |-> res[r].meta]]
           /\ UNCHANGED own
        \/ /\ ~SelectIfCurrent(t)
           /\ th' = [th EXCEPT ![t] = [Leave(t, IF th[t].valid THEN "cleanup" ELSE "fail") EXCEPT !.ver = version]]
           /\ ReleaseAll(t)
     /\ UNCHANGED faults

\* The history write fails: versions.json is restored and the staged file deleted.
HistoryFails(t) ==
  /\ t \in PaidTasks
  /\ At(t, "commit", "begin")
  /\ faults < MaxFaults
  /\ faults' = faults + 1
  /\ th' = [th EXCEPT ![t] = [Leave(t, "fail") EXCEPT !.lost = TRUE]]
  /\ ReleaseAll(t)
  /\ UNCHANGED res

\* The script's pointer is written first and the selection goes on to its goal; a
\* resource that left the script is an error where the writer needs its owner.
Activate(t, goal, ownerNeeded) ==
  LET r == Target[t]
      owned == res[r].present
  IN /\ At(t, "commit", "begin")
     /\ \/ /\ owned \/ ~ownerNeeded
           /\ res' = [res EXCEPT ![r].meta = owned]
           /\ th' = [th EXCEPT ![t].step = "replace", ![t].ver = goal.cur, ![t].to = goal,
                               ![t].old = res, ![t].prior = [claim |-> res[r].claim, meta |-> res[r].meta]]
           /\ UNCHANGED own
        \/ /\ ~owned /\ ownerNeeded
           /\ th' = [th EXCEPT ![t] = Leave(t, "fail")]
           /\ ReleaseAll(t)
           /\ UNCHANGED res
     /\ UNCHANGED faults

\* commit_staged_version: the file on disk is tracked, the staged one becomes a version.
StagedGoal(t) ==
  LET recorded == WithVersion(Track(res[Target[t]]), t)
  IN [bytes |-> t, cur |-> Len(recorded.hist), hist |-> recorded.hist]

BeginImage(t) == t \in ImageTasks /\ Activate(t, StagedGoal(t), TRUE)
BeginUpload(t) == t \in Uploaders /\ Activate(t, StagedGoal(t), TRUE)

\* restore_version: a recorded version becomes current again, no record is added.
RestoredGoal(t) ==
  LET x == res[Target[t]]
  IN [bytes |-> x.hist[th[t].ver].bytes, cur |-> th[t].ver, hist |-> x.hist]

BeginTypedRestore(t) ==
  t \in Restorers /\ Target[t] \in Videos /\ Activate(t, RestoredGoal(t), TRUE)
BeginImageRestore(t) ==
  t \in Restorers /\ Target[t] \notin Videos /\ Activate(t, RestoredGoal(t), FALSE)

\* reject_current_version returns to the version that was selected before.
Predecessor(x, v) == x.hist[v].prev

\* Compensation: nothing to do when another version has been selected meanwhile.
\* The video one restores the script's pointer first, under the same locks.
BeginUndo(t) ==
  LET r == Target[t]
      back == Predecessor(res[r], th[t].ver)
      goal == [bytes |-> IF back = 0 THEN NoBytes ELSE res[r].hist[back].bytes,
               cur |-> back, hist |-> res[r].hist]
  IN /\ At(t, "undo", "begin")
     /\ \/ /\ res[r].cur = th[t].ver
           /\ res' = IF t \in PaidTasks /\ res[r].present
                     THEN [res EXCEPT ![r].meta = th[t].prior.meta] ELSE res
           /\ th' = [th EXCEPT ![t].step = "replace", ![t].to = goal, ![t].old = res]
           /\ UNCHANGED own
        \/ /\ res[r].cur # th[t].ver
           /\ th' = [th EXCEPT ![t] = Leave(t, "fail")]
           /\ ReleaseAll(t)
           /\ UNCHANGED res
     /\ UNCHANGED faults

-----------------------------------------------------------------------------
(* The steps every selection shares: file, pointer, registration *)

InTransaction(t) == th[t].stage \in {"commit", "undo"} /\ th[t].step \in {"replace", "point", "register"}

ReplaceFile(t) ==
  /\ InTransaction(t) /\ At(t, th[t].stage, "replace")
  /\ res' = [res EXCEPT ![Target[t]].formal = th[t].to.bytes]
  /\ th' = [th EXCEPT ![t].step = "point"]
  /\ UNCHANGED <<own, faults>>

SavePointer(t) ==
  /\ InTransaction(t) /\ At(t, th[t].stage, "point")
  /\ res' = [res EXCEPT ![Target[t]].cur = th[t].to.cur, ![Target[t]].hist = th[t].to.hist]
  /\ th' = [th EXCEPT ![t].step = "register"]
  /\ UNCHANGED <<own, faults>>

\* A restore claims the evidence in the version's record, if its owner is there.
RestoredClaim(t) ==
  LET x == res[Target[t]] IN IF x.present THEN x.hist[th[t].ver].basis ELSE NoClaim

\* What the committed selection claims in the manifest; an upload proves nothing.
CommittedClaim(t) ==
  IF t \in Uploaders THEN NoClaim
  ELSE IF t \in Restorers THEN RestoredClaim(t)
  ELSE th[t].basis

Register(t) ==
  /\ At(t, "commit", "register")
  /\ res' = [res EXCEPT ![Target[t]].claim = CommittedClaim(t)]
  /\ \/ /\ t \in PaidTasks
        /\ th' = [th EXCEPT ![t] = [Leave(t, "finalize") EXCEPT !.step = "write", !.selected = TRUE]]
        /\ ReleaseInner(t)
     \/ /\ t \in ImageTasks
        /\ th' = [th EXCEPT ![t] = [Leave(t, "gate") EXCEPT !.selected = TRUE]]
        /\ ReleaseAll(t)
     \/ /\ t \notin Tasks
        /\ th' = [th EXCEPT ![t] = [Leave(t, "end") EXCEPT !.selected = TRUE]]
        /\ ReleaseAll(t)
  /\ UNCHANGED faults

ClaimIsMine(t) == res[Target[t]].claim = th[t].basis

\* The video compensation puts back the captured entry if the claim is still its own.
UnregisterVideo(t) ==
  /\ t \in PaidTasks
  /\ At(t, "undo", "register")
  /\ ClaimIsMine(t)
  /\ res' = [res EXCEPT ![Target[t]].claim = th[t].prior.claim]
  /\ th' = [th EXCEPT ![t] = Leave(t, "fail")]
  /\ ReleaseAll(t)
  /\ UNCHANGED faults

\* Mutant: the image compensation puts back the claim and not the pointer.
UnregisterClaimOnly(t) ==
  LET x == res[Target[t]]
  IN /\ t \in ImageTasks
     /\ At(t, "undo", "register")
     /\ res' = [res EXCEPT
            ![Target[t]].claim = IF ClaimIsMine(t) THEN th[t].prior.claim ELSE x.claim]
     /\ th' = [th EXCEPT ![t] = Leave(t, "fail")]
     /\ ReleaseAll(t)
     /\ UNCHANGED faults

\* The image compensation reverses only what still holds the value it wrote.
UnregisterImage(t) ==
  LET x == res[Target[t]]
  IN /\ t \in ImageTasks
     /\ At(t, "undo", "register")
     /\ res' = [res EXCEPT
            ![Target[t]].meta = IF x.present /\ x.meta THEN th[t].prior.meta ELSE x.meta,
            ![Target[t]].claim = IF ClaimIsMine(t) THEN th[t].prior.claim ELSE x.claim]
     /\ th' = [th EXCEPT ![t] = Leave(t, "fail")]
     /\ ReleaseAll(t)
     /\ UNCHANGED faults

-----------------------------------------------------------------------------
(* Failure inside a transaction *)

\* Mutant: the rollback of a failed activation forgets the canonical file.
KeepNewFile(t) ==
  [q \in Resources |->
     [res[q] EXCEPT !.cur = th[t].old[q].cur, !.hist = th[t].old[q].hist,
                    !.meta = IF q = Target[t] THEN th[t].old[q].meta ELSE @]]

\* Mutant: a failed selection drops the paid record with it.
DropRecord(t) ==
  [q \in Resources |->
     [res[q] EXCEPT
        !.cur = th[t].old[q].cur,
        !.hist = IF q = Target[t] THEN SubSeq(@, 1, Len(@) - 1) ELSE @,
        !.formal = IF q = Target[t] THEN th[t].old[q].formal ELSE @]]

\* File and pointer return to what they were; versions.json is restored whole, and
\* the script's pointer where the enclosing script transaction wrote it.
RolledBack(t) ==
  [q \in Resources |->
     [res[q] EXCEPT
        !.cur = th[t].old[q].cur,
        !.hist = th[t].old[q].hist,
        !.formal = IF q = Target[t] THEN th[t].old[q].formal ELSE @,
        !.meta = IF q = Target[t] /\ ~(t \in ImageTasks /\ th[t].stage = "undo")
                 THEN th[t].old[q].meta ELSE @]]

\* A write fails in the middle of a selection or of its compensation.
StepFails(t) ==
  /\ InTransaction(t) /\ th[t].got >= LocksNeeded(t)
  /\ faults < MaxFaults
  /\ faults' = faults + 1
  /\ res' = RolledBack(t)
  /\ th' = [th EXCEPT ![t] = [Leave(t, "fail") EXCEPT !.stuck = (th[t].stage = "undo")]]
  /\ ReleaseAll(t)

\* The claim is no longer the one registered: everything is put back and the
\* cancelled version stays selected ("video selection compensation" fails).
UnregisterRefused(t) ==
  /\ t \in PaidTasks
  /\ At(t, "undo", "register")
  /\ ~ClaimIsMine(t)
  /\ res' = RolledBack(t)
  /\ th' = [th EXCEPT ![t] = Leave(t, "fail")]
  /\ ReleaseAll(t)
  /\ UNCHANGED faults

-----------------------------------------------------------------------------
(* After the selection of a video *)

ToUndo(t, held, late) ==
  th' = [th EXCEPT ![t].stage = "undo", ![t].step = "begin", ![t].got = held, ![t].late = late]

\* A failed finalization is compensated on the event loop itself, guard held.
UndoOnLoop(t, late) ==
  LoopFree /\ ToUndo(t, 1, late) /\ own' = [own EXCEPT !["loop"] = t]

\* A thread writes the script's pointer; the resource may have been removed.
WriteMetadata(t) ==
  /\ th[t].stage = "finalize" /\ th[t].step = "write"
  /\ MetadataFree
  /\ \/ /\ res[Target[t]].present
        /\ res' = [res EXCEPT ![Target[t]].meta = TRUE]
        /\ th' = [th EXCEPT ![t].step = "thumbnail"]
        /\ UNCHANGED own
     \/ /\ ~res[Target[t]].present
        /\ UndoOnLoop(t, FALSE)
        /\ UNCHANGED res
  /\ UNCHANGED faults

\* The thumbnail is written and the admission guard released, or finalization fails.
FinishFinalize(t) ==
  /\ LoopFree
  /\ th[t].stage = "finalize" /\ th[t].step = "thumbnail"
  /\ \/ /\ th' = [th EXCEPT ![t] = Leave(t, "cleanup")]
        /\ ReleaseAll(t)
        /\ UNCHANGED faults
     \/ /\ faults < MaxFaults
        /\ faults' = faults + 1
        /\ UndoOnLoop(t, FALSE)
  /\ UNCHANGED res

\* The executor's finally ends without its result: the compensation it carried is gone.
Dropped(t) == [Leave(t, "fail") EXCEPT !.dropped = th[t].selected]

\* The video executor's finally awaits the removal of the task's staged inputs; when
\* that raises, the result is lost although the version stays selected.
CleansUp(t) ==
  /\ LoopFree
  /\ th[t].stage = "cleanup"
  /\ \/ th' = [th EXCEPT ![t] = Leave(t, "gate")] /\ UNCHANGED faults
     \/ /\ faults < MaxFaults
        /\ faults' = faults + 1
        /\ th' = [th EXCEPT ![t] = Dropped(t)]
  /\ UNCHANGED <<res, own>>

\* The user cancels: the row is cancelling and the coroutine is interrupted, except
\* inside the uninterruptible commit or when the signal comes after its last await.
\* In finalization the awaited thread goes on; in the final cleanup the result is lost.
Cancel(t) ==
  /\ LoopFree
  /\ t \in Tasks
  /\ th[t].row = "running"
  /\ \/ /\ th[t].stage \in {"commit", "cleanup", "gate"}
        /\ \E valid \in (IF th[t].stage = "commit" /\ th[t].got <= 1 /\ t \in PaidTasks
                         THEN {th[t].valid, FALSE} ELSE {th[t].valid}) :
             th' = [th EXCEPT ![t].row = "cancelling", ![t].valid = valid]
        /\ UNCHANGED own
     \/ /\ th[t].stage = "finalize"
        /\ th' = [th EXCEPT ![t].row = "cancelling", ![t].stage = "undo", ![t].step = "begin",
                            ![t].got = 1, ![t].late = (th[t].step = "write")]
        /\ own' = [own EXCEPT !["loop"] = t]
     \/ /\ th[t].stage = "cleanup"
        /\ th' = [th EXCEPT ![t] = [Dropped(t) EXCEPT !.row = "cancelling"]]
        /\ UNCHANGED own
  /\ UNCHANGED <<res, faults>>

\* The thread the interrupted finalizer left behind writes after all.
LateWrite(t) ==
  /\ th[t].late
  /\ MetadataFree
  /\ res' = IF res[Target[t]].present THEN [res EXCEPT ![Target[t]].meta = TRUE] ELSE res
  /\ th' = [th EXCEPT ![t].late = FALSE, ![t].wroteLate = TRUE]
  /\ UNCHANGED <<own, faults>>

-----------------------------------------------------------------------------
(* The terminal gate of the row *)

\* Mutant: a result whose row was cancelled is not compensated.
GateWithoutUndo(t) ==
  /\ th[t].stage = "gate"
  /\ \/ th[t].row = "running" /\ th' = [th EXCEPT ![t].row = "succeeded", ![t].stage = "end"]
     \/ th[t].row = "cancelling" /\ th' = [th EXCEPT ![t] = Leave(t, "fail")]
  /\ UNCHANGED <<res, own, faults>>

\* mark_task_succeeded finds the row running, or compensates the selected result.
TerminalGate(t) ==
  /\ LoopFree
  /\ th[t].stage = "gate"
  /\ \/ /\ th[t].row = "running"
        /\ th' = [th EXCEPT ![t].row = "succeeded", ![t].stage = "end"]
     \/ /\ th[t].row = "cancelling" /\ th[t].selected
        /\ ToUndo(t, 0, FALSE)
     \/ /\ th[t].row = "cancelling" /\ ~th[t].selected
        /\ th' = [th EXCEPT ![t] = Leave(t, "fail")]
  /\ UNCHANGED <<res, own, faults>>

\* The failed or cancelled executor settles its row.
SettleRow(t) ==
  /\ LoopFree
  /\ th[t].stage = "fail"
  /\ th' = [th EXCEPT ![t].stage = "end",
              ![t].row = IF t \notin Tasks THEN "none"
                         ELSE IF @ = "cancelling" THEN "cancelled" ELSE "failed"]
  /\ UNCHANGED <<res, own, faults>>

-----------------------------------------------------------------------------
\* What an edit of the script does to one item: its inputs change and its claim is
\* merely stale, or the item is replaced or removed and the claim forgotten.
Edits(x) ==
  {[x EXCEPT !.basis = b] : b \in Bases \ {x.basis}}
  \cup {[x EXCEPT !.basis = b, !.claim = NoClaim] : b \in Bases}
  \cup {[x EXCEPT !.present = FALSE, !.meta = FALSE, !.claim = NoClaim]}

EditScript(t) ==
  /\ t \in Editors
  /\ th[t].stage = "idle"
  /\ MetadataFree
  /\ \E r \in Resources : \E x \in Edits(res[r]) :
       res[r].present /\ res' = [res EXCEPT ![r] = x]
  /\ th' = [th EXCEPT ![t].stage = "end"]
  /\ UNCHANGED <<own, faults>>

-----------------------------------------------------------------------------
ArtifactInit ==
  /\ \E made \in {NoBytes, Legacy} :
       res = [r \in Resources |->
                [hist |-> <<>>, cur |-> 0, formal |-> made, claim |-> NoClaim,
                 meta |-> made # NoBytes, basis |-> CHOOSE b \in Bases : TRUE, present |-> TRUE]]
  /\ \E acting \in SUBSET Threads :
       /\ Cardinality(acting) = MaxActors
       /\ th = [t \in Threads |->
             [stage |-> IF t \in acting THEN "idle" ELSE "end", step |-> "begin", got |-> 0, ver |-> 0, old |-> <<>>, to |-> <<>>,
              prior |-> [claim |-> NoClaim, meta |-> FALSE], basis |-> NoClaim, parent |-> 0,
              valid |-> TRUE, row |-> "none", selected |-> FALSE, lost |-> FALSE,
              late |-> FALSE, wroteLate |-> FALSE, stuck |-> FALSE, dropped |-> FALSE]]
  /\ own = [l \in Locks |-> NoThread]
  /\ faults = 0

ArtifactNext ==
  \E t \in Threads :
    \/ AcquireLock(t)
    \/ SubmitTask(t) \/ StartUpload(t) \/ StartRestore(t)
    \/ BeginPaid(t) \/ HistoryFails(t) \/ BeginImage(t) \/ BeginUpload(t)
    \/ BeginTypedRestore(t) \/ BeginImageRestore(t) \/ BeginUndo(t)
    \/ ReplaceFile(t) \/ SavePointer(t) \/ Register(t)
    \/ UnregisterVideo(t) \/ UnregisterImage(t) \/ UnregisterRefused(t) \/ StepFails(t)
    \/ WriteMetadata(t) \/ FinishFinalize(t) \/ CleansUp(t) \/ Cancel(t) \/ LateWrite(t)
    \/ TerminalGate(t) \/ SettleRow(t) \/ EditScript(t)

ArtifactSpec == ArtifactInit /\ [][ArtifactNext]_artifactVars

-----------------------------------------------------------------------------
(* Properties *)

Stages == {"idle", "commit", "finalize", "cleanup", "gate", "undo", "fail", "end"}

\* The locks a thread holds at the stage it is in; a video keeps its admission guard
\* from the commit to the end of the finalization.
Held(t) ==
  IF th[t].stage \in {"commit", "undo"} THEN {LockPlan(t)[i] : i \in 1..th[t].got}
  ELSE IF th[t].stage = "finalize" THEN {Target[t]} ELSE {}

\* Types of the stored state, and a lock is owned by the thread whose stage holds it.
ArtifactTypeOK ==
  /\ \A r \in Resources :
       /\ \A v \in 1..Len(res[r].hist) : res[r].hist[v] \in Record
       /\ res[r].cur \in 0..Len(res[r].hist)
       /\ res[r].formal \in Bytes /\ res[r].claim \in Bases \cup {NoClaim}
       /\ res[r].meta \in BOOLEAN /\ res[r].present \in BOOLEAN /\ res[r].basis \in Bases
  /\ \A t \in Threads :
       /\ th[t].stage \in Stages
       /\ \A l \in Locks \ {"loop"} : own[l] = t <=> l \in Held(t)

\* The state others may rely on: while a transaction is under way, what it started from.
Visible(r) ==
  IF \E t \in Threads : InTransaction(t) /\ Target[t] = r
  THEN th[CHOOSE t \in Threads : InTransaction(t) /\ Target[t] = r].old[r]
  ELSE res[r]

Formal == INSTANCE FormalSelection WITH
  Records <- Record,
  history <- [r \in Resources |-> Visible(r).hist],
  selection <- [r \in Resources |->
     [version |-> Visible(r).cur, bytes |-> Visible(r).formal, claim |-> Visible(r).claim]]

\* The file, the version pointer and the manifest claim of every resource move as one
\* guarded transition to recorded bytes with their own evidence, whatever fails, is
\* rolled back or compensated in between.
SelectionIsOneTransition == Formal!AbsSpec

\* Paid bytes become current only while what they were made from is still what the
\* script asks for: the basis compared before the three writes holds after them.
NoStaleSelection ==
  [][\A t \in PaidTasks :
       th[t].stage = "commit" /\ th'[t].stage = "finalize" =>
         /\ res[Target[t]].present
         /\ th[t].basis = res[Target[t]].basis]_artifactVars

\* A paid result that was delivered stays in the version history for good, through
\* every rollback of any writer, unless its own history write failed.
PaidIsKept ==
  \A t \in PaidTasks :
    th[t].stage \in {"finalize", "cleanup", "gate", "undo", "end"} /\ th[t].row # "none" /\ ~th[t].lost =>
      \E v \in 1..Len(res[Target[t]].hist) : res[Target[t]].hist[v].bytes = t

\* A task that took over from version v and was taken back in its turn.
TakenBack(u, v) ==
  /\ th[u].selected /\ th[u].stage \in {"undo", "fail", "end"} /\ th[u].row # "succeeded"
  /\ Predecessor(res[Target[u]], th[u].ver) = v

\* The version of a task that ended cancelled or failed never stays selected with its
\* claim, unless a user restored it, a task that had replaced it meanwhile was itself
\* taken back, the compensation met a disk failure, or a video's result was lost with
\* its compensation in the executor's last await (generation_tasks.py:2742-2746).
CancelledNotClaimed ==
  \A t \in Tasks :
    LET x == res[Target[t]]
    IN /\ th[t].row \in {"cancelled", "failed"} /\ th[t].selected
       /\ x.cur = th[t].ver /\ x.claim = th[t].basis
       => \/ th[t].stuck \/ th[t].dropped
          \/ \E u \in Restorers : Target[u] = Target[t] /\ th[u].ver = th[t].ver
          \/ \E u \in Tasks : Target[u] = Target[t] /\ TakenBack(u, th[t].ver)

\* Threads that wait for each other in a circle.
Waiting ==
  {t \in Threads : \/ Locking(t) /\ own[Waited(t)] # NoThread
                   \/ ConsultsLoop(t) /\ ~LoopFree}
WaitsFor(t) == IF Locking(t) THEN own[Waited(t)] ELSE own["loop"]
Deadlocked(S) == S # {} /\ \A t \in S : WaitsFor(t) \in S

\* Commits, restores, uploads and video compensations take the locks in one order: no
\* circle can form without the compensation of a cancelled image, which starts at the
\* versions lock, or one that runs on the event loop.
OrderedOtherwise ==
  \A S \in SUBSET Waiting :
    Deadlocked(S) => \/ \E t \in S : t \in ImageTasks /\ th[t].stage = "undo"
                     \/ own["loop"] \in S

\* No circle of waits at all ("none of those paths can form an ABBA cycle").
NoLockCycle == \A S \in SUBSET Waiting : ~Deadlocked(S)

Quiet(r) == \A t \in Threads : Target[t] = r => th[t].stage \in {"idle", "end"} /\ ~th[t].late

\* Only a finalizer interrupted while its thread was writing leaves a pointer without
\* a file; every other path keeps the two together.
PointerLeaksOnlyLate ==
  \A r \in Resources :
    Quiet(r) /\ res[r].meta /\ res[r].formal = NoBytes
      => \E t \in PaidTasks : Target[t] = r /\ th[t].wroteLate
=============================================================================
