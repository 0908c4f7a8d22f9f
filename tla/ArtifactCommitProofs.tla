------------------------ MODULE ArtifactCommitProofs ------------------------
(***************************************************************************)
(* Theorems about the writers of formal media, for any number of writers,  *)
(* resources and disk failures: they implement FormalSelection, keep what  *)
(* was paid for, and order their locks.                                    *)
(***************************************************************************)
EXTENDS ArtifactCommit, TLAPS

-----------------------------------------------------------------------------
(* The inductive invariant *)

Claims == Bases \cup {NoClaim}
Goals == [bytes : Bytes, cur : Nat, hist : Seq(Record)]
Steps == {"begin", "replace", "point", "register", "write", "thumbnail"}
Rows == {"none", "running", "cancelling", "succeeded", "cancelled", "failed"}
Stored == [hist : Seq(Record), cur : Nat, formal : Bytes, claim : Claims, meta : BOOLEAN,
           basis : Bases, present : BOOLEAN]
Writers == [stage : Stages, step : Steps, got : 0..4, ver : Nat,
            old : {<<>>} \cup [Resources -> Stored], to : {<<>>} \cup Goals,
            prior : [claim : Claims, meta : BOOLEAN], basis : Claims, parent : Nat,
            valid : BOOLEAN, row : Rows, selected : BOOLEAN, lost : BOOLEAN, late : BOOLEAN,
            wroteLate : BOOLEAN, stuck : BOOLEAN, dropped : BOOLEAN]

Typed ==
  /\ res \in [Resources -> Stored]
  /\ th \in [Threads -> Writers]
  /\ own \in [Locks -> Threads \cup {NoThread}]
  /\ faults \in Nat

\* The image compensation, which holds only the versions lock while it moves the file.
UndoesImage(t) == t \in ImageTasks /\ th[t].stage = "undo"

\* What each stage says of a thread.
StageOK(t) ==
  /\ th[t].stage \in {"commit", "undo"} => th[t].step \in {"begin", "replace", "point", "register"}
  /\ th[t].stage \notin {"commit", "undo", "finalize"} => th[t].step = "begin"
  /\ th[t].stage = "cleanup" => t \in PaidTasks
  /\ th[t].stage = "finalize" => t \in PaidTasks /\ th[t].step \in {"write", "thumbnail"}
  /\ th[t].stage \notin {"commit", "undo"} => th[t].got = 0
  /\ th[t].stage \in {"cleanup", "gate", "undo"} => t \in Tasks
  /\ t \in Editors => th[t].stage \in {"idle", "end"}
  /\ th[t].stage \in {"finalize", "undo"} => th[t].selected
  /\ th[t].stage \in {"idle", "commit"} => ~ th[t].selected
  /\ th[t].row \in {"succeeded", "cancelled", "failed"} => th[t].stage = "end"
  /\ th[t].stage = "idle" => th[t].row = "none"
  /\ t \in Tasks /\ th[t].stage \notin {"idle", "end"} => th[t].row # "none"
  /\ t \in Tasks /\ (th[t].stage = "commit" \/ th[t].selected) => th[t].basis \in Bases
  /\ th[t].late => t \in PaidTasks

\* A thread holds the locks of its stage, and moves media only under them.
LocksOK(t) ==
  /\ \A l \in Locks \ {"loop"} : own[l] = t <=> l \in Held(t)
  /\ th[t].got <= Len(LockPlan(t))
  /\ InTransaction(t) => th[t].got >= IF UndoesImage(t) THEN 1 ELSE Len(LockPlan(t))

HistOK(h) == \A i \in 1..Len(h) : h[i].bytes # NoBytes /\ h[i].prev < i

\* The selection of x is proven by its history.
Sound(x) ==
  /\ HistOK(x.hist)
  /\ x.cur <= Len(x.hist)
  /\ x.cur = 0 => x.claim = NoClaim
  /\ x.cur # 0 => x.formal = x.hist[x.cur].bytes /\ x.claim \in {NoClaim, x.hist[x.cur].basis}

LateOn(r) == \E u \in PaidTasks : Target[u] = r /\ th[u].wroteLate

\* The script names a file that is there.
Points(x, r) == x.meta /\ x.formal = NoBytes => LateOn(r)

AtRest(r) == \A t \in Threads : Target[t] = r => ~ InTransaction(t)

\* Outside of transactions.
RestOK(r) ==
  /\ res[r].meta => res[r].present
  /\ AtRest(r) => Sound(res[r]) /\ Points(res[r], r)

\* h continues g by at most two records.
Continues(h, g) ==
  /\ Len(g) <= Len(h) /\ Len(h) <= Len(g) + 2
  /\ \A i \in 1..Len(g) : h[i] = g[i]

\* A transaction: what it started from, and how far it has come.
FrameOK(t) ==
  LET r == Target[t]
      o == th[t].old
      g == th[t].to
  IN InTransaction(t) =>
       /\ o \in [Resources -> Stored] /\ g \in Goals
       /\ Sound(o[r]) /\ Points(o[r], r) /\ (o[r].meta => o[r].present)
       /\ \A q \in Resources \ {r} : res[q].hist = o[q].hist /\ res[q].cur = o[q].cur
       /\ th[t].step \in {"replace", "point"} => res[r].hist = o[r].hist /\ res[r].cur = o[r].cur
       /\ th[t].step = "register" => res[r].hist = g.hist /\ res[r].cur = g.cur
       /\ th[t].step = "replace" => res[r].formal = o[r].formal
       /\ th[t].step # "replace" => res[r].formal = g.bytes
       /\ res[r].claim \in {NoClaim, o[r].claim}
       /\ ~ UndoesImage(t) => res[r].present = o[r].present /\ res[r].claim = o[r].claim

\* The goal of a transaction is a recorded version, or none for an undo.
GoalOK(t) ==
  LET r == Target[t]
      o == th[t].old
      g == th[t].to
  IN InTransaction(t) =>
       /\ HistOK(g.hist) /\ Continues(g.hist, o[r].hist)
       /\ \/ g.cur = 0 /\ g.bytes = NoBytes /\ th[t].stage = "undo"
          \/ g.cur \in 1..Len(g.hist) /\ g.bytes = g.hist[g.cur].bytes
       /\ th[t].ver \in 1..Len(g.hist)
       /\ th[t].stage = "commit" => g.cur = th[t].ver
       /\ th[t].stage = "commit" /\ t \notin Restorers =>
            g.hist[th[t].ver].bytes = t /\ g.hist[th[t].ver].basis = th[t].basis
       /\ t \in PaidTasks \cup Restorers \/ th[t].stage = "undo" => g.hist = o[r].hist
       /\ th[t].stage = "undo" => g.cur = g.hist[th[t].ver].prev /\ o[r].cur = th[t].ver
       /\ th[t].stage = "undo" /\ t \in PaidTasks /\ g.cur = 0 /\ res[r].meta => LateOn(r)

Writing == {u \in Threads : InTransaction(u)}

\* The histories of r: the stored one, and the one a transaction would put back.
Hists(r) == {res[r].hist} \cup {th[u].old[r].hist : u \in Writing}

\* The versions of r that are selected now, or would be after a rollback.
Sels(r) == {res[r].cur} \cup {th[u].old[r].cur : u \in {w \in Writing : Target[w] = r}}

\* The version a restore was started for is recorded for good.
RestoreOK(t) ==
  t \in Restorers =>
    /\ th[t].stage = "idle" => th[t].ver = 0
    /\ th[t].stage = "commit" => \A h \in Hists(Target[t]) : th[t].ver \in 1..Len(h)

\* The version of a task is in h, with what was selected before it.
Carries(t, h) ==
  LET v == th[t].ver
      b == h[v].prev
  IN /\ v \in 1..Len(h)
     /\ h[v].bytes = t /\ h[v].basis = th[t].basis
     /\ b = 0 => th[t].prior.claim = NoClaim /\ (th[t].prior.meta => LateOn(Target[t]))
     /\ b # 0 => th[t].prior.claim \in {NoClaim, h[b].basis}

\* The version of a selected task is in every history.
CarriedOK(t) ==
  t \in Tasks =>
    /\ th[t].selected => \A h \in Hists(Target[t]) : Carries(t, h)
    /\ th[t].stage = "commit" /\ InTransaction(t) => Carries(t, th[t].to.hist)

Has(h, t) == \E v \in 1..Len(h) : h[v].bytes = t

\* A paid result that was recorded.
Delivered(t) ==
  /\ t \in PaidTasks /\ th[t].row # "none" /\ ~ th[t].lost
  /\ \/ th[t].stage \in {"finalize", "cleanup", "gate", "undo", "fail", "end"}
     \/ InTransaction(t)

KeptOK(t) == Delivered(t) => \A h \in Hists(Target[t]) : Has(h, t)

\* The basis of a video that is being selected is that of the script.
FreshOK(t) ==
  t \in PaidTasks /\ th[t].stage = "commit" /\ InTransaction(t) =>
    res[Target[t]].present /\ th[t].basis = res[Target[t]].basis

\* A finalized video has its file.
FileOK(t) ==
  th[t].stage = "finalize" =>
    /\ res[Target[t]].formal # NoBytes
    /\ \A u \in Threads : InTransaction(u) /\ Target[u] = Target[t] => th[u].old[Target[t]].formal # NoBytes

\* What CancelledNotClaimed excuses.
Excused(t) ==
  \/ th[t].stuck \/ th[t].dropped
  \/ \E u \in Restorers : Target[u] = Target[t] /\ th[u].ver = th[t].ver
  \/ \E u \in Tasks : Target[u] = Target[t] /\ TakenBack(u, th[t].ver)

UndoneOK(t) ==
  /\ t \in Tasks /\ th[t].selected /\ th[t].stage \in {"fail", "end"} /\ th[t].row # "succeeded"
  /\ th[t].ver \in Sels(Target[t]) /\ ~ Excused(t)
  => res[Target[t]].claim # th[t].basis

ArtifactInv ==
  /\ Typed
  /\ \A r \in Resources : RestOK(r)
  /\ \A t \in Threads : StageOK(t) /\ LocksOK(t) /\ FrameOK(t) /\ GoalOK(t)
  /\ \A t \in Threads : RestoreOK(t) /\ CarriedOK(t) /\ KeptOK(t) /\ FreshOK(t) /\ FileOK(t) /\ UndoneOK(t)

-----------------------------------------------------------------------------
(* Threads and locks *)

\* The kinds of threads exclude each other.
LEMMA Kinds ==
  ASSUME NEW t \in Threads
  PROVE  /\ Target[t] \in Resources /\ Target[t] \in Locks \ {"script", "project", "versions", "loop"}
         /\ t \in PaidTasks => t \in Tasks /\ t \notin ImageTasks
         /\ t \in ImageTasks => t \in Tasks
         /\ t \in Tasks => t \notin Restorers \cup Uploaders \cup Editors
         /\ t \in Restorers => t \notin Uploaders \cup Editors
         /\ t \in Uploaders => t \notin Editors
         /\ t # NoThread /\ t # NoBytes /\ t \in Bytes
BY ThreadsHaveTargets, NamesDiffer DEF Threads, Tasks, Locks, Bytes

\* The order in which the locks are taken.
LEMMA Plans ==
  ASSUME NEW t \in Threads
  PROVE  /\ t \in PaidTasks => LockPlan(t) = <<Target[t], "script", "project", "versions">>
         /\ UndoesImage(t) => LockPlan(t) = <<"versions", "script", "project">>
         /\ t \notin PaidTasks /\ ~ (th[t].stage = "undo") => LockPlan(t) = <<"script", "project", "versions">>
BY Kinds DEF LockPlan, UndoesImage

\* A transaction holds the versions lock, and the metadata locks but in an image undo.
LEMMA HoldsVersions ==
  ASSUME ArtifactInv, NEW t \in Threads, InTransaction(t)
  PROVE  /\ own["versions"] = t
         /\ ~ UndoesImage(t) => own["script"] = t /\ own["project"] = t
         /\ t \in PaidTasks => own[Target[t]] = t
<1>1. /\ th[t].stage \in {"commit", "undo"} /\ th[t].got \in 0..4
      /\ th[t].stage = "undo" => t \in Tasks
      /\ \A l \in Locks \ {"loop"} : own[l] = t <=> l \in {LockPlan(t)[i] : i \in 1..th[t].got}
      /\ th[t].got >= IF UndoesImage(t) THEN 1 ELSE Len(LockPlan(t))
  BY DEF ArtifactInv, Typed, Writers, StageOK, LocksOK, InTransaction, Held
<1>2. CASE t \in PaidTasks
  <2>1. LockPlan(t) = <<Target[t], "script", "project", "versions">> /\ ~ UndoesImage(t)
    BY <1>2, Plans, Kinds DEF UndoesImage
  <2> QED BY <1>1, <2>1, Kinds DEF Locks
<1>3. CASE UndoesImage(t)
  BY <1>1, <1>3, Plans, Kinds DEF UndoesImage, Locks
<1>4. CASE t \notin PaidTasks /\ ~ UndoesImage(t)
  <2>1. LockPlan(t) = <<"script", "project", "versions">>
    BY <1>1, <1>4, Plans DEF UndoesImage, Tasks
  <2> QED BY <1>1, <1>4, <2>1 DEF Locks
<1> QED BY <1>2, <1>3, <1>4

\* There is at most one transaction, that of the thread with the versions lock.
LEMMA OneWriter ==
  ASSUME ArtifactInv, NEW u \in Writing
  PROVE  /\ \A t \in Threads : own["versions"] = t => u = t
         /\ \A t \in Writing : u = t
         /\ own["versions"] # NoThread
BY HoldsVersions, Kinds DEF Writing

\* At the head of a stage the versions lock is held, and in a commit those of the metadata.
LEMMA HeadHolds ==
  ASSUME ArtifactInv, NEW t \in Threads, NEW s \in {"commit", "undo"}, At(t, s, "begin")
  PROVE  /\ own["versions"] = t
         /\ ~ UndoesImage(t) => own["script"] = t /\ own["project"] = t /\ th[t].got >= Len(LockPlan(t))
         /\ UndoesImage(t) => th[t].got >= 1
         /\ t \in PaidTasks => own[Target[t]] = t
         /\ ~ InTransaction(t)
         /\ Writing = {}
<1>1. /\ th[t].stage \in {"commit", "undo"} /\ th[t].got \in 0..4 /\ th[t].step = "begin"
      /\ th[t].stage = "undo" => t \in Tasks
      /\ \A l \in Locks \ {"loop"} : own[l] = t <=> l \in {LockPlan(t)[i] : i \in 1..th[t].got}
      /\ th[t].got >= IF UndoesImage(t) THEN 1 ELSE Len(LockPlan(t))
  BY DEF ArtifactInv, Typed, Writers, StageOK, LocksOK, At, LocksNeeded, UndoesImage, Held
<1>2. /\ own["versions"] = t
      /\ ~ UndoesImage(t) => own["script"] = t /\ own["project"] = t
      /\ t \in PaidTasks => own[Target[t]] = t
  <2>2. CASE t \in PaidTasks
    <3>1. LockPlan(t) = <<Target[t], "script", "project", "versions">> /\ ~ UndoesImage(t)
      BY <2>2, Plans, Kinds DEF UndoesImage
    <3> QED BY <1>1, <3>1, Kinds DEF Locks
  <2>3. CASE UndoesImage(t)
    BY <1>1, <2>3, Plans, Kinds DEF UndoesImage, Locks
  <2>4. CASE t \notin PaidTasks /\ ~ UndoesImage(t)
    <3>1. LockPlan(t) = <<"script", "project", "versions">>
      BY <1>1, <2>4, Plans DEF UndoesImage, Tasks
    <3> QED BY <1>1, <2>4, <3>1 DEF Locks
  <2> QED BY <2>2, <2>3, <2>4
<1>3. ~ InTransaction(t)
  BY <1>1 DEF InTransaction
<1> QED BY <1>1, <1>2, <1>3, OneWriter DEF Writing

LEMMA InitInv == ArtifactInit => ArtifactInv
<1> SUFFICES ASSUME ArtifactInit PROVE ArtifactInv
  OBVIOUS
<1>1. PICK made \in {NoBytes, Legacy} :
        res = [r \in Resources |->
                [hist |-> <<>>, cur |-> 0, formal |-> made, claim |-> NoClaim,
                 meta |-> made # NoBytes, basis |-> CHOOSE b \in Bases : TRUE, present |-> TRUE]]
  BY DEF ArtifactInit
<1>2. PICK acting \in SUBSET Threads :
       th = [t \in Threads |->
             [stage |-> IF t \in acting THEN "idle" ELSE "end", step |-> "begin", got |-> 0, ver |-> 0, old |-> <<>>, to |-> <<>>,
              prior |-> [claim |-> NoClaim, meta |-> FALSE], basis |-> NoClaim, parent |-> 0,
              valid |-> TRUE, row |-> "none", selected |-> FALSE, lost |-> FALSE,
              late |-> FALSE, wroteLate |-> FALSE, stuck |-> FALSE, dropped |-> FALSE]]
  BY DEF ArtifactInit
<1>3. own = [l \in Locks |-> NoThread] /\ faults = 0
  BY DEF ArtifactInit
<1>4. \A t \in Threads : /\ th[t].stage \in {"idle", "end"} /\ th[t].step = "begin" /\ th[t].got = 0 /\ th[t].ver = 0
                         /\ th[t].row = "none" /\ th[t].selected = FALSE /\ th[t].late = FALSE
                         /\ ~ InTransaction(t)
  BY <1>2 DEF InTransaction
<1>5. Typed
  <2>1. (CHOOSE b \in Bases : TRUE) \in Bases
    BY NamesDiffer
  <2>2. res \in [Resources -> Stored]
    <3>1. <<>> \in Seq(Record)
      OBVIOUS
    <3>2. made \in Bytes
      BY DEF Bytes
    <3> QED BY <1>1, <2>1, <3>1, <3>2 DEF Stored, Claims
  <2>3. th \in [Threads -> Writers]
    BY <1>2 DEF Writers, Stages, Steps, Rows, Claims
  <2>4. own \in [Locks -> Threads \cup {NoThread}] /\ faults \in Nat
    BY <1>3
  <2> QED BY <2>2, <2>3, <2>4 DEF Typed
<1>6. ASSUME NEW r \in Resources PROVE RestOK(r)
  <2>1. res[r].hist = <<>> /\ res[r].cur = 0 /\ res[r].claim = NoClaim /\ res[r].present = TRUE
        /\ res[r].formal = made /\ (res[r].meta => made # NoBytes)
    BY <1>1
  <2>2. Len(res[r].hist) = 0
    BY <2>1
  <2>3. Sound(res[r])
    BY <2>1, <2>2 DEF Sound, HistOK
  <2>4. Points(res[r], r)
    BY <2>1 DEF Points
  <2> QED BY <2>1, <2>3, <2>4 DEF RestOK
<1>7. ASSUME NEW t \in Threads PROVE StageOK(t) /\ LocksOK(t) /\ FrameOK(t) /\ GoalOK(t)
  <2>1. StageOK(t) /\ FrameOK(t) /\ GoalOK(t)
    BY <1>4 DEF StageOK, FrameOK, GoalOK
  <2>2. Held(t) = {} /\ \A l \in Locks : own[l] # t
    BY <1>3, <1>4, Kinds DEF Held
  <2>3. Len(LockPlan(t)) >= 0
    BY <1>4, Plans
  <2> QED BY <1>4, <2>1, <2>2, <2>3 DEF LocksOK
<1>8. ASSUME NEW t \in Threads
      PROVE  RestoreOK(t) /\ CarriedOK(t) /\ KeptOK(t) /\ FreshOK(t) /\ FileOK(t) /\ UndoneOK(t)
  BY <1>4 DEF RestoreOK, CarriedOK, KeptOK, Delivered, FreshOK, FileOK, UndoneOK
<1> QED BY <1>5, <1>6, <1>7, <1>8 DEF ArtifactInv

-----------------------------------------------------------------------------
(* Histories *)

\* Every history of a resource is one of recorded versions.
LEMMA HistsOK ==
  ASSUME ArtifactInv, NEW r \in Resources, NEW h \in Hists(r)
  PROVE  h \in Seq(Record) /\ HistOK(h)
<1>1. CASE Writing = {}
  <2>1. AtRest(r) /\ h = res[r].hist
    BY <1>1 DEF AtRest, Writing, Hists
  <2> QED BY <2>1 DEF ArtifactInv, RestOK, Sound, Typed, Stored
<1>2. ASSUME NEW u \in Writing PROVE h \in Seq(Record) /\ HistOK(h)
  <2>1. u \in Threads /\ InTransaction(u) /\ FrameOK(u) /\ GoalOK(u) /\ res[r] \in Stored
    BY DEF ArtifactInv, Writing, Typed
  <2>2. h = res[r].hist \/ h = th[u].old[r].hist
    BY <1>2, OneWriter DEF Hists
  <2>3. th[u].old[r] \in Stored
    BY <2>1 DEF FrameOK
  <2>4. CASE r = Target[u]
    <3>1. HistOK(th[u].old[r].hist) /\ HistOK(th[u].to.hist) /\ th[u].to.hist \in Seq(Record)
      BY <2>1, <2>4 DEF FrameOK, GoalOK, Sound, Goals
    <3>2. res[r].hist \in {th[u].old[r].hist, th[u].to.hist}
      BY <2>1, <2>4 DEF FrameOK, InTransaction
    <3> QED BY <2>2, <2>3, <3>1, <3>2 DEF Stored
  <2>5. CASE r # Target[u]
    <3>1. AtRest(r)
      BY <1>2, <2>5, OneWriter DEF AtRest, Writing
    <3>2. HistOK(res[r].hist) /\ res[r].hist = th[u].old[r].hist
      BY <2>1, <2>5, <3>1 DEF ArtifactInv, RestOK, Sound, FrameOK
    <3> QED BY <2>1, <2>2, <3>2 DEF Stored
  <2> QED BY <2>4, <2>5
<1> QED BY <1>1, <1>2

LEMMA RecordAt ==
  ASSUME NEW h \in Seq(Record), HistOK(h), NEW v \in 1..Len(h)
  PROVE  h[v] \in Record /\ v \in Nat /\ Len(h) \in Nat /\ h[v].prev \in Nat /\ h[v].prev < v
<1>1. Len(h) \in Nat
  OBVIOUS
<1>2. v \in Nat /\ h[v] \in Record
  BY <1>1
<1> QED BY <1>1, <1>2 DEF Record, HistOK

LEMMA ContinuesItself ==
  ASSUME NEW h \in Seq(Record) PROVE Continues(h, h)
<1>1. Len(h) \in Nat
  OBVIOUS
<1> QED BY <1>1 DEF Continues

\* A longer history still has the version of a task.
LEMMA CarriesOn ==
  ASSUME NEW t \in Threads, NEW g \in Seq(Record), NEW h \in Seq(Record), HistOK(g), Carries(t, g), Continues(h, g),
         th'[t].ver = th[t].ver, th'[t].basis = th[t].basis, th'[t].prior = th[t].prior, th[t].ver \in Nat,
         LateOn(Target[t]) => LateOn(Target[t])'
  PROVE  Carries(t, h)'
<1> DEFINE v == th[t].ver
<1>1. v \in 1..Len(g) /\ Len(g) \in Nat /\ Len(h) \in Nat
  BY DEF Carries
<1>2. v \in 1..Len(h) /\ h[v] = g[v] /\ g[v] \in Record
  BY <1>1 DEF Continues
<1>3. g[v].prev \in Nat /\ g[v].prev < v
  BY <1>1, <1>2 DEF HistOK, Record
<1>4. g[v].prev # 0 => h[g[v].prev] = g[g[v].prev]
  BY <1>1, <1>3, SMTT(40) DEF Continues
<1> QED BY <1>1, <1>2, <1>3, <1>4 DEF Carries

LEMMA HasOn ==
  ASSUME NEW t, NEW g \in Seq(Record), NEW h \in Seq(Record), Has(g, t), Continues(h, g)
  PROVE  Has(h, t)
<1>1. PICK v \in 1..Len(g) : g[v].bytes = t
  BY DEF Has
<1>2. Len(g) \in Nat /\ Len(h) \in Nat
  OBVIOUS
<1> QED BY <1>1, <1>2 DEF Has, Continues

-----------------------------------------------------------------------------
(* What a step of one thread leaves to the others *)

Others(t) == \A u \in Threads \ {t} : th'[u] = th[u]

\* What a thread never forgets.
Ages(t) ==
  /\ t \in Restorers /\ th[t].ver # 0 => th'[t].ver = th[t].ver
  /\ th[t].wroteLate => th'[t].wroteLate
  /\ t \in Tasks /\ th[t].selected =>
       /\ th'[t].selected /\ th'[t].ver = th[t].ver /\ th'[t].basis = th[t].basis /\ th'[t].prior = th[t].prior
       /\ th[t].stage \in {"undo", "fail", "end"} /\ th[t].row # "succeeded" =>
            th'[t].stage \in {"undo", "fail", "end"} /\ th'[t].row # "succeeded"

\* Histories only grow, and no record changes.
HistStep ==
  /\ \A r \in Resources : \A h \in Hists(r)' : \E g \in Hists(r) : Continues(h, g)
  /\ \A r \in Resources, v \in Nat \ {0} :
       (\A h \in Hists(r) : v <= Len(h)) => res'[r].hist[v] = res[r].hist[v]

\* A transaction under way is not disturbed.
Calm(t) ==
  \A u \in Writing \ {t} :
    /\ ~ UndoesImage(u) => res' = res
    /\ \A q \in Resources :
         /\ res'[q].hist = res[q].hist /\ res'[q].cur = res[q].cur /\ res'[q].formal = res[q].formal
         /\ res'[q].claim \in {NoClaim, res[q].claim}

\* The files of r, now and after a rollback.
Forms(r) == {res[r].formal} \cup {th[u].old[r].formal : u \in {w \in Writing : Target[w] = r}}

\* The file of a video vanishes only under its admission guard.
FormStep(t) ==
  \A r \in Resources \cap Videos : NoBytes \in Forms(r)' => NoBytes \in Forms(r) \/ own[r] = t

\* A version of another task is selected again only for a reason that excuses it.
SelStep(t) ==
  \A u \in Tasks \ {t} :
    th[u].selected /\ th[u].ver \in Sels(Target[u])' =>
      \/ Excused(u)'
      \/ th[u].ver \in Sels(Target[u]) /\ res'[Target[u]].claim \in {NoClaim, res[Target[u]].claim}

Aside(t) == Others(t) /\ Ages(t) /\ HistStep /\ Calm(t) /\ FormStep(t) /\ SelStep(t)

LEMMA LateStays ==
  ASSUME NEW t \in Threads, Others(t), Ages(t), NEW r, LateOn(r)
  PROVE  LateOn(r)'
<1>1. PICK u \in PaidTasks : Target[u] = r /\ th[u].wroteLate
  BY DEF LateOn
<1>2. u \in Threads
  BY DEF Threads, Tasks
<1> QED BY <1>1, <1>2 DEF LateOn, Others, Ages

\* An excuse stays one.
LEMMA ExcuseStays ==
  ASSUME ArtifactInv, NEW t \in Threads, Others(t), Ages(t), HistStep, NEW u \in Tasks \ {t}, Excused(u),
         th[u].selected
  PROVE  Excused(u)'
<1>0. u \in Threads /\ th'[u] = th[u] /\ th[u].ver \in Nat
  BY DEF Others, Threads, ArtifactInv, Typed, Writers
<1>1. CASE th[u].stuck \/ th[u].dropped
  BY <1>0, <1>1 DEF Excused
<1>2. ASSUME NEW w \in Restorers, Target[w] = Target[u], th[w].ver = th[u].ver PROVE Excused(u)'
  <2>1. th[u].ver # 0
    <3>1. res[Target[u]].hist \in Hists(Target[u])
      BY DEF Hists
    <3>2. Carries(u, res[Target[u]].hist) /\ res[Target[u]].hist \in Seq(Record)
      BY <1>0, <3>1, HistsOK, Kinds DEF ArtifactInv, CarriedOK
    <3>3. Len(res[Target[u]].hist) \in Nat
      BY <3>2
    <3>4. th[u].ver \in 1..Len(res[Target[u]].hist)
      BY <3>2 DEF Carries
    <3> QED BY <3>3, <3>4
  <2>2. th'[w].ver = th[w].ver
    BY <1>2, <2>1 DEF Others, Ages, Threads
  <2> QED BY <1>0, <1>2, <2>2 DEF Excused
<1>3. ASSUME NEW w \in Tasks, Target[w] = Target[u], TakenBack(w, th[u].ver) PROVE Excused(u)'
  <2>0. w \in Threads /\ th[w].ver \in Nat
    BY DEF Threads, ArtifactInv, Typed, Writers
  <2>1. /\ th[w].selected /\ th[w].stage \in {"undo", "fail", "end"} /\ th[w].row # "succeeded"
        /\ res[Target[w]].hist[th[w].ver].prev = th[u].ver
    BY <1>3 DEF TakenBack, Predecessor
  <2>2. /\ th'[w].selected /\ th'[w].stage \in {"undo", "fail", "end"} /\ th'[w].row # "succeeded"
        /\ th'[w].ver = th[w].ver
    BY <2>0, <2>1 DEF Others, Ages
  <2>3. \A h \in Hists(Target[w]) : th[w].ver \in 1..Len(h) /\ h \in Seq(Record)
    BY <2>0, <2>1, HistsOK, Kinds DEF ArtifactInv, CarriedOK, Carries
  <2>4. th[w].ver \in Nat \ {0} /\ \A h \in Hists(Target[w]) : th[w].ver <= Len(h)
    <3>1. res[Target[w]].hist \in Hists(Target[w])
      BY DEF Hists
    <3>2. th[w].ver \in 1..Len(res[Target[w]].hist) /\ Len(res[Target[w]].hist) \in Nat
      BY <2>3, <3>1
    <3>3. \A h \in Hists(Target[w]) : Len(h) \in Nat
      BY <2>3
    <3> QED BY <2>0, <2>3, <3>2, <3>3
  <2>5. res'[Target[w]].hist[th[w].ver] = res[Target[w]].hist[th[w].ver]
    BY <2>0, <2>4, Kinds DEF HistStep
  <2>6. TakenBack(w, th[u].ver)'
    BY <1>0, <2>1, <2>2, <2>5 DEF TakenBack, Predecessor
  <2> QED BY <1>3, <2>6, <1>0 DEF Excused
<1> QED BY <1>1, <1>2, <1>3 DEF Excused

\* A step of another thread leaves a thread what it has.
LEMMA Bystander ==
  ASSUME ArtifactInv, Typed', NEW t \in Threads, Aside(t), NEW u \in Threads \ {t},
         \A r \in Resources : \A h \in Hists(r)' : h \in Seq(Record)
  PROVE  /\ StageOK(u)' /\ FrameOK(u)' /\ GoalOK(u)'
         /\ RestoreOK(u)' /\ CarriedOK(u)' /\ KeptOK(u)' /\ FreshOK(u)' /\ FileOK(u)' /\ UndoneOK(u)'
<1> DEFINE r == Target[u]
<1>0. /\ th'[u] = th[u] /\ r \in Resources /\ th[u].ver \in Nat
      /\ InTransaction(u)' = InTransaction(u)
      /\ UndoesImage(u)' = UndoesImage(u)
      /\ LateOn(r) => LateOn(r)'
  BY LateStays, Kinds DEF Aside, Others, InTransaction, UndoesImage, ArtifactInv, Typed, Writers
<1>1. StageOK(u)'
  BY <1>0 DEF ArtifactInv, StageOK
<1>2. InTransaction(u) => /\ ~ UndoesImage(u) => res' = res
                          /\ \A q \in Resources :
                               /\ res'[q].hist = res[q].hist /\ res'[q].cur = res[q].cur /\ res'[q].formal = res[q].formal
                               /\ res'[q].claim \in {NoClaim, res[q].claim}
  BY DEF Aside, Calm, Writing
<1>3. FrameOK(u)'
  <2> SUFFICES ASSUME InTransaction(u) PROVE FrameOK(u)'
    BY <1>0 DEF FrameOK
  <2>1. FrameOK(u)
    BY DEF ArtifactInv
  <2>2. Points(th[u].old[r], r)'
    BY <1>0, <2>1 DEF Points, FrameOK
  <2> QED BY <1>0, <1>2, <2>1, <2>2, ZenonT(60) DEF FrameOK, Sound
<1>4. GoalOK(u)'
  <2> SUFFICES ASSUME InTransaction(u) PROVE GoalOK(u)'
    BY <1>0 DEF GoalOK
  <2>1. GoalOK(u)
    BY DEF ArtifactInv
  <2>2. u \in PaidTasks => ~ UndoesImage(u)
    BY Kinds DEF UndoesImage
  <2>3. u \in PaidTasks => res' = res
    BY <1>2, <2>2
  <2> QED BY <1>0, <2>1, <2>3 DEF GoalOK
<1>5. \A h \in Hists(r)' : h \in Seq(Record) /\ \E g \in Hists(r) : g \in Seq(Record) /\ HistOK(g) /\ Continues(h, g)
  BY <1>0, HistsOK DEF Aside, HistStep
<1>6. RestoreOK(u)'
  <2> SUFFICES ASSUME u \in Restorers, th[u].stage = "commit", NEW h \in Hists(r)' PROVE th[u].ver \in 1..Len(h)
    BY <1>0 DEF RestoreOK, ArtifactInv
  <2>1. PICK g \in Hists(r) : g \in Seq(Record) /\ Continues(h, g)
    BY <1>5
  <2>2. th[u].ver \in 1..Len(g) /\ Len(g) \in Nat
    BY <2>1 DEF ArtifactInv, RestoreOK
  <2>3. Len(h) \in Nat
    BY <1>5
  <2> QED BY <2>1, <2>2, <2>3 DEF Continues
<1>7. CarriedOK(u)'
  <2>1. ASSUME u \in Tasks, th[u].selected, NEW h \in Hists(r)' PROVE Carries(u, h)'
    <3>1. PICK g \in Hists(r) : g \in Seq(Record) /\ HistOK(g) /\ Continues(h, g)
      BY <1>5
    <3>2. Carries(u, g)
      BY <2>1 DEF ArtifactInv, CarriedOK
    <3> QED BY <1>0, <1>5, <3>1, <3>2, CarriesOn
  <2>2. ASSUME u \in Tasks, th[u].stage = "commit", InTransaction(u) PROVE Carries(u, th[u].to.hist)'
    <3>1. th[u].to.hist \in Seq(Record) /\ HistOK(th[u].to.hist) /\ Carries(u, th[u].to.hist)
      BY <2>2 DEF ArtifactInv, FrameOK, GoalOK, Goals, CarriedOK
    <3>2. Continues(th[u].to.hist, th[u].to.hist)
      BY <3>1, ContinuesItself
    <3> DEFINE h == th[u].to.hist
    <3>3. Carries(u, h) /\ HistOK(h) /\ h \in Seq(Record)
      BY <3>1
    <3> QED BY <1>0, <3>3 DEF Carries
  <2> QED BY <1>0, <2>1, <2>2 DEF CarriedOK
<1>8. KeptOK(u)'
  <2> SUFFICES ASSUME Delivered(u), NEW h \in Hists(r)' PROVE Has(h, u)
    BY <1>0 DEF KeptOK, Delivered
  <2>1. PICK g \in Hists(r) : g \in Seq(Record) /\ Continues(h, g)
    BY <1>5
  <2>2. Has(g, u)
    BY DEF ArtifactInv, KeptOK
  <2> QED BY <1>5, <2>1, <2>2, HasOn
<1>9. FreshOK(u)'
  <2>1. u \in PaidTasks => ~ UndoesImage(u)
    BY Kinds DEF UndoesImage
  <2> QED BY <1>0, <1>2, <2>1 DEF FreshOK, ArtifactInv
<1>10. FileOK(u)'
  <2> SUFFICES ASSUME th[u].stage = "finalize" PROVE NoBytes \notin Forms(r)'
    BY <1>0 DEF FileOK, Forms, Writing
  <2>1. u \in PaidTasks /\ r \in Videos /\ own[r] = u
    BY <1>0, ThreadsHaveTargets, Kinds DEF ArtifactInv, StageOK, LocksOK, Held
  <2>2. NoBytes \notin Forms(r)
    BY DEF ArtifactInv, FileOK, Forms, Writing
  <2> QED BY <1>0, <2>1, <2>2 DEF Aside, FormStep
<1>11. UndoneOK(u)'
  <2> SUFFICES ASSUME u \in Tasks, th[u].selected, th[u].stage \in {"fail", "end"}, th[u].row # "succeeded",
                      th[u].ver \in Sels(r)', ~ Excused(u)'
               PROVE  res'[r].claim # th[u].basis
    BY <1>0 DEF UndoneOK
  <2>1. ~ Excused(u)
    BY ExcuseStays DEF Aside
  <2>2. th[u].ver \in Sels(r) /\ res'[r].claim \in {NoClaim, res[r].claim}
    BY DEF Aside, SelStep
  <2>3. res[r].claim # th[u].basis
    BY <2>1, <2>2 DEF ArtifactInv, UndoneOK
  <2>4. th[u].basis # NoClaim
    BY NamesDiffer DEF ArtifactInv, StageOK
  <2> QED BY <2>2, <2>3, <2>4
<1> QED BY <1>1, <1>3, <1>4, <1>6, <1>7, <1>8, <1>9, <1>10, <1>11

-----------------------------------------------------------------------------
(* Locks *)

\* The locks of t stay what they are.
LEMMA KeepLocks ==
  ASSUME ArtifactInv, NEW t \in Threads, Others(t), \A l \in Locks \ {"loop"} : own'[l] = own[l],
         Held(t)' = Held(t), th'[t].got <= Len(LockPlan(t))',
         InTransaction(t)' => th'[t].got >= IF UndoesImage(t)' THEN 1 ELSE Len(LockPlan(t))'
  PROVE  \A u \in Threads : LocksOK(u)'
<1>1. LocksOK(t)'
  BY DEF ArtifactInv, LocksOK
<1>2. ASSUME NEW u \in Threads \ {t} PROVE LocksOK(u)'
  <2>1. th'[u] = th[u]
    BY DEF Others
  <2>2. Held(u)' = Held(u) /\ LockPlan(u)' = LockPlan(u)
    BY <2>1 DEF Held, LockPlan
  <2> QED BY <2>1, <2>2 DEF ArtifactInv, LocksOK, InTransaction, UndoesImage
<1> QED BY <1>1, <1>2

\* The thread ends a stage without locks.
LEMMA DropLocks ==
  ASSUME ArtifactInv, NEW t \in Threads, Others(t), ReleaseAll(t),
         th'[t].got = 0, th'[t].stage \notin {"commit", "undo", "finalize"}
  PROVE  \A u \in Threads : LocksOK(u)'
<1>0. \A l \in Locks \ {"loop"} : own'[l] = IF own[l] = t THEN NoThread ELSE own[l]
  BY DEF ReleaseAll
<1>1. LocksOK(t)'
  <2>1. Held(t)' = {} /\ ~ InTransaction(t)'
    BY DEF Held, InTransaction
  <2>2. \A l \in Locks \ {"loop"} : own'[l] # t
    BY <1>0, Kinds
  <2>3. Len(LockPlan(t)') >= 0
    BY DEF LockPlan
  <2> QED BY <2>1, <2>2, <2>3 DEF LocksOK
<1>2. ASSUME NEW u \in Threads \ {t} PROVE LocksOK(u)'
  <2>1. th'[u] = th[u]
    BY DEF Others
  <2>2. Held(u)' = Held(u) /\ LockPlan(u)' = LockPlan(u)
    BY <2>1 DEF Held, LockPlan
  <2>3. \A l \in Locks \ {"loop"} : own'[l] = u <=> own[l] = u
    BY <1>0, Kinds
  <2> QED BY <2>1, <2>2, <2>3 DEF ArtifactInv, LocksOK, InTransaction, UndoesImage
<1> QED BY <1>1, <1>2

\* A video that was selected keeps its admission guard.
LEMMA KeepGuardOnly ==
  ASSUME ArtifactInv, NEW t \in PaidTasks, Others(t), ReleaseInner(t), own[Target[t]] = t,
         th'[t].got = 0, th'[t].stage = "finalize"
  PROVE  \A u \in Threads : LocksOK(u)'
<1> t \in Threads /\ Target[t] \in Locks \ {"loop"}
  BY Kinds DEF Threads, Tasks
<1>0. \A l \in Locks \ {"loop"} : own'[l] = IF own[l] = t /\ l # Target[t] THEN NoThread ELSE own[l]
  BY DEF ReleaseInner
<1>1. LocksOK(t)'
  <2>1. Held(t)' = {Target[t]} /\ ~ InTransaction(t)'
    BY DEF Held, InTransaction
  <2>2. \A l \in Locks \ {"loop"} : own'[l] = t <=> l = Target[t]
    BY <1>0, Kinds
  <2>3. Len(LockPlan(t)') >= 0
    BY DEF LockPlan
  <2> QED BY <2>1, <2>2, <2>3 DEF LocksOK
<1>2. ASSUME NEW u \in Threads \ {t} PROVE LocksOK(u)'
  <2>1. th'[u] = th[u]
    BY DEF Others
  <2>2. Held(u)' = Held(u) /\ LockPlan(u)' = LockPlan(u)
    BY <2>1 DEF Held, LockPlan
  <2>3. \A l \in Locks \ {"loop"} : own'[l] = u <=> own[l] = u
    BY <1>0, Kinds
  <2> QED BY <2>1, <2>2, <2>3 DEF ArtifactInv, LocksOK, InTransaction, UndoesImage
<1> QED BY <1>1, <1>2

\* A step of a thread as an assignment to its record.
LEMMA ThreadStep ==
  ASSUME Typed, NEW t \in Threads, NEW y \in Writers, th' = [th EXCEPT ![t] = y]
  PROVE  th' \in [Threads -> Writers] /\ th'[t] = y /\ Others(t)
BY DEF Typed, Others

-----------------------------------------------------------------------------
(* Steps that write neither a file nor a history *)

\* Nothing of the histories and selections moves, and no transaction begins or ends.
Still(t) ==
  /\ Others(t) /\ Ages(t)
  /\ InTransaction(t)' <=> InTransaction(t)
  /\ InTransaction(t) => th'[t].old = th[t].old
  /\ \A q \in Resources : /\ res'[q].hist = res[q].hist /\ res'[q].cur = res[q].cur /\ res'[q].formal = res[q].formal
                          /\ res'[q].claim \in {NoClaim, res[q].claim}
  /\ \A u \in Writing \ {t} : ~ UndoesImage(u) => res' = res

LEMMA StillSets ==
  ASSUME NEW t \in Threads, Still(t)
  PROVE  /\ Writing' = Writing
         /\ \A q \in Resources : Hists(q)' = Hists(q) /\ Sels(q)' = Sels(q) /\ Forms(q)' = Forms(q)
<1>1. \A u \in Threads : InTransaction(u)' <=> InTransaction(u)
  BY DEF Still, Others, InTransaction
<1>2. Writing' = Writing
  BY <1>1 DEF Writing
<1>3. \A u \in Writing : th'[u].old = th[u].old
  BY DEF Still, Others, Writing
<1> QED BY <1>2, <1>3 DEF Still, Hists, Sels, Forms

LEMMA StillAside ==
  ASSUME ArtifactInv, NEW t \in Threads, Still(t)
  PROVE  Aside(t) /\ \A q \in Resources : \A h \in Hists(q)' : h \in Seq(Record)
<1>1. \A q \in Resources : \A h \in Hists(q) : h \in Seq(Record) /\ Continues(h, h)
  BY HistsOK, ContinuesItself
<1>2. HistStep
  BY <1>1, StillSets DEF HistStep, Still
<1>3. Calm(t)
  BY DEF Still, Calm
<1>4. FormStep(t)
  BY StillSets DEF FormStep
<1>5. SelStep(t)
  BY StillSets, Kinds DEF SelStep, Still, Threads
<1> QED BY <1>1, <1>2, <1>3, <1>4, <1>5, StillSets DEF Aside, Still

\* Steps of the control alone: nothing stored changes.
Control(t) ==
  /\ res' = res /\ Others(t)
  /\ th'[t].selected = th[t].selected /\ th'[t].wroteLate = th[t].wroteLate
  /\ th[t].stage # "idle" =>
       th'[t].ver = th[t].ver /\ th'[t].basis = th[t].basis /\ th'[t].prior = th[t].prior
  /\ InTransaction(t)' <=> InTransaction(t)
  /\ InTransaction(t) => /\ th'[t].stage = th[t].stage /\ th'[t].step = th[t].step
                         /\ th'[t].old = th[t].old /\ th'[t].to = th[t].to
  /\ Delivered(t)' => Delivered(t)
  /\ th'[t].stage = "finalize" => th[t].stage = "finalize"
  /\ th[t].stage # "idle" => th'[t].stage # "idle"
  /\ th'[t].stage = "commit" => th[t].stage \in {"idle", "commit"}
  /\ th[t].stage \in {"undo", "fail", "end"} /\ th[t].row # "succeeded" =>
       th'[t].stage \in {"undo", "fail", "end"} /\ th'[t].row # "succeeded"
  /\ th'[t].stage \in {"fail", "end"} /\ th[t].selected /\ th'[t].row # "succeeded" =>
       \/ th[t].stage \in {"fail", "end"} /\ th[t].row # "succeeded" /\ th'[t].stuck = th[t].stuck /\ th'[t].dropped = th[t].dropped
       \/ th[t].ver \notin Sels(Target[t])
       \/ th'[t].dropped

LEMMA ControlInv ==
  ASSUME ArtifactInv, Typed', NEW t \in Threads, Control(t), StageOK(t)',
         th[t].stage = "idle" => RestoreOK(t)', \A u \in Threads : LocksOK(u)'
  PROVE  ArtifactInv'
<1> DEFINE r == Target[t]
<1>0. r \in Resources /\ StageOK(t) /\ th[t] \in Writers /\ RestoreOK(t)
  BY Kinds DEF ArtifactInv, Typed
<1>1. Ages(t)
  BY <1>0, Kinds DEF Ages, Control, StageOK, RestoreOK
<1>2. Still(t)
  BY <1>1 DEF Still, Control
<1>3. Aside(t) /\ \A q \in Resources : \A h \in Hists(q)' : h \in Seq(Record)
  BY <1>2, StillAside
<1>4. \A q \in Resources : Hists(q)' = Hists(q) /\ Sels(q)' = Sels(q) /\ Forms(q)' = Forms(q)
  BY <1>2, StillSets
<1>5. Writing' = Writing
  BY <1>2, StillSets
<1>6. \A q : LateOn(q) => LateOn(q)'
  BY <1>3, LateStays DEF Aside
<1>7. ASSUME NEW q \in Resources PROVE RestOK(q)'
  <2>1. AtRest(q)' <=> AtRest(q)
    BY <1>5 DEF AtRest, Writing
  <2> QED BY <1>6, <2>1 DEF ArtifactInv, RestOK, Control, Points, Sound
<1>8. FrameOK(t)' /\ GoalOK(t)' /\ FreshOK(t)'
  <2> SUFFICES ASSUME InTransaction(t) PROVE FrameOK(t)' /\ GoalOK(t)' /\ FreshOK(t)'
    BY DEF FrameOK, GoalOK, FreshOK, Control
  <2>1. /\ res' = res /\ th'[t].stage = th[t].stage /\ th'[t].step = th[t].step
        /\ th'[t].old = th[t].old /\ th'[t].to = th[t].to /\ th[t].stage # "idle"
        /\ th'[t].ver = th[t].ver /\ th'[t].basis = th[t].basis
        /\ InTransaction(t)'
    BY DEF Control, InTransaction
  <2>2. UndoesImage(t)' = UndoesImage(t)
    BY <2>1 DEF UndoesImage
  <2>3. FrameOK(t) /\ GoalOK(t) /\ FreshOK(t)
    BY DEF ArtifactInv
  <2>4. Points(th[t].old[r], r)'
    BY <1>6, <2>1, <2>3 DEF Points, FrameOK
  <2>5. FrameOK(t)'
    <3>1. Sound(th[t].old[r]) <=> Sound(th[t].old[r])'
      BY <2>1 DEF Sound
    <3> QED BY <2>1, <2>2, <2>3, <2>4, <3>1 DEF FrameOK
  <2>6. GoalOK(t)'
    BY <1>6, <2>1, <2>3 DEF GoalOK
  <2> QED BY <2>1, <2>3, <2>5, <2>6 DEF FreshOK
<1>9. RestoreOK(t)'
  <2>1. CASE th[t].stage # "idle"
    <3>1. th'[t].stage # "idle"
      BY <2>1 DEF Control
    <3> QED BY <1>0, <1>4, <2>1, <3>1 DEF RestoreOK, Control
  <2> QED BY <2>1
<1>10. CarriedOK(t)'
  <2>1. ASSUME t \in Tasks, th'[t].selected, NEW h \in Hists(r)' PROVE Carries(t, h)'
    <3>1. th[t].selected /\ th[t].stage # "idle" /\ Carries(t, h) /\ HistOK(h) /\ h \in Seq(Record) /\ Continues(h, h)
      BY <1>0, <1>4, <2>1, HistsOK, ContinuesItself DEF ArtifactInv, CarriedOK, Control, StageOK
    <3> QED BY <1>0, <1>6, <3>1, CarriesOn DEF Control, Writers
  <2>2. ASSUME t \in Tasks, th'[t].stage = "commit", InTransaction(t)' PROVE Carries(t, th[t].to.hist)'
    <3>1. /\ th'[t].to = th[t].to /\ th[t].stage = "commit" /\ InTransaction(t)
          /\ th'[t].ver = th[t].ver /\ th'[t].basis = th[t].basis /\ th'[t].prior = th[t].prior
      BY <2>2 DEF Control, InTransaction
    <3>2. Carries(t, th[t].to.hist)
      BY <2>2, <3>1 DEF ArtifactInv, CarriedOK
    <3> QED BY <1>6, <3>1, <3>2 DEF Carries
  <2> QED BY <2>1, <2>2 DEF CarriedOK
<1>11. KeptOK(t)'
  BY <1>0, <1>4 DEF Control, KeptOK, ArtifactInv
<1>12. FileOK(t)'
  <2> SUFFICES ASSUME th'[t].stage = "finalize" PROVE NoBytes \notin Forms(r)'
    BY DEF FileOK, Forms, Writing
  <2>1. FileOK(t) /\ th[t].stage = "finalize"
    BY DEF ArtifactInv, Control
  <2>2. NoBytes \notin Forms(r)
    BY <2>1 DEF FileOK, Forms, Writing
  <2> QED BY <1>0, <1>4, <2>2
<1>13. UndoneOK(t)'
  <2> SUFFICES ASSUME t \in Tasks, th'[t].selected, th'[t].stage \in {"fail", "end"}, th'[t].row # "succeeded",
                      th'[t].ver \in Sels(r)', ~ Excused(t)'
               PROVE  res'[r].claim # th'[t].basis
    BY DEF UndoneOK
  <2>1. th[t].selected /\ th[t].stage # "idle"
    BY <1>0 DEF Control, StageOK
  <2>2. th[t].ver = th'[t].ver /\ th'[t].basis = th[t].basis /\ th[t].ver \in Sels(r) /\ res' = res
    BY <1>0, <1>4, <2>1 DEF Control
  <2>3. th[t].stage \in {"fail", "end"} /\ th[t].row # "succeeded" /\ th'[t].stuck = th[t].stuck /\ th'[t].dropped = th[t].dropped
    BY <2>1, <2>2 DEF Control, Excused
  <2>4. ~ Excused(t)
    <3>1. ASSUME NEW w \in Restorers, Target[w] = Target[t], th[w].ver = th[t].ver PROVE FALSE
      BY <2>2, <3>1, Kinds DEF Control, Others, Threads, Excused
    <3>2. ASSUME NEW w \in Tasks, Target[w] = Target[t], TakenBack(w, th[t].ver) PROVE FALSE
      <4>1. w \in Threads
        BY DEF Threads
      <4>2. TakenBack(w, th[t].ver)'
        BY <3>2, <4>1, <2>1, <2>2, <2>3, <1>1 DEF TakenBack, Control, Others, Predecessor, Ages
      <4> QED BY <2>2, <3>2, <4>2 DEF Excused
    <3> QED BY <2>3, <3>1, <3>2 DEF Excused
  <2> QED BY <1>0, <2>1, <2>2, <2>3, <2>4 DEF ArtifactInv, UndoneOK
<1>14. ASSUME NEW u \in Threads \ {t}
       PROVE  /\ StageOK(u)' /\ FrameOK(u)' /\ GoalOK(u)'
              /\ RestoreOK(u)' /\ CarriedOK(u)' /\ KeptOK(u)' /\ FreshOK(u)' /\ FileOK(u)' /\ UndoneOK(u)'
  BY <1>3, Bystander
<1> QED BY <1>7, <1>8, <1>9, <1>10, <1>11, <1>12, <1>13, <1>14 DEF ArtifactInv

\* The next lock of the plan is taken.
LEMMA AcquireInv ==
  ASSUME ArtifactInv, NEW t \in Threads, AcquireLock(t)
  PROVE  ArtifactInv'
<1>0. th[t] \in Writers /\ StageOK(t) /\ LocksOK(t) /\ Typed
  BY DEF ArtifactInv, Typed
<1>1. /\ res' = res /\ Others(t) /\ th'[t] = [th[t] EXCEPT !.got = @ + 1]
      /\ th' = [th EXCEPT ![t] = [th[t] EXCEPT !.got = @ + 1]]
      /\ own' = [own EXCEPT ![Waited(t)] = t] /\ own[Waited(t)] = NoThread
      /\ th[t].stage \in {"commit", "undo"} /\ th[t].got < LocksNeeded(t) /\ faults' = faults
  BY <1>0 DEF AcquireLock, Locking, Typed, Others
<1>2. /\ LocksNeeded(t) <= Len(LockPlan(t)) /\ Len(LockPlan(t)) \in 3..4
      /\ \A i \in 1..Len(LockPlan(t)) : LockPlan(t)[i] \in Locks \ {"loop"}
  <2>1. CASE t \in PaidTasks
    <3>1. LockPlan(t) = <<Target[t], "script", "project", "versions">> /\ LocksNeeded(t) = Len(LockPlan(t))
      BY <2>1, Plans, Kinds DEF LocksNeeded
    <3> QED BY <3>1, Kinds DEF Locks
  <2>2. CASE UndoesImage(t)
    <3>1. LockPlan(t) = <<"versions", "script", "project">>
      BY <2>2, Plans, Kinds DEF UndoesImage
    <3> QED BY <3>1 DEF Locks, LocksNeeded
  <2>3. CASE t \notin PaidTasks /\ ~ UndoesImage(t)
    <3>1. LockPlan(t) = <<"script", "project", "versions">>
      BY <1>0, <2>3, Plans DEF UndoesImage, StageOK, Tasks
    <3> QED BY <3>1 DEF Locks, LocksNeeded
  <2> QED BY <2>1, <2>2, <2>3
<1>3. th[t].got \in Nat /\ th[t].got + 1 <= Len(LockPlan(t)) /\ th[t].got + 1 \in 0..4
      /\ Waited(t) = LockPlan(t)[th[t].got + 1] /\ Waited(t) \in Locks \ {"loop"}
  <2>1. th[t].got \in 0..4 /\ LocksNeeded(t) \in Nat
    BY <1>0, <1>2 DEF Writers, LocksNeeded
  <2> QED BY <1>1, <1>2, <2>1, SMTT(40) DEF Waited
<1>4. Typed'
  BY <1>0, <1>1, <1>3 DEF Typed, Writers
<1>5. /\ th'[t].got = th[t].got + 1 /\ th'[t].stage = th[t].stage /\ th'[t].step = th[t].step /\ th'[t].ver = th[t].ver
      /\ th'[t].old = th[t].old /\ th'[t].to = th[t].to /\ th'[t].prior = th[t].prior /\ th'[t].basis = th[t].basis
      /\ th'[t].row = th[t].row /\ th'[t].selected = th[t].selected /\ th'[t].lost = th[t].lost
      /\ th'[t].late = th[t].late /\ th'[t].wroteLate = th[t].wroteLate /\ th'[t].stuck = th[t].stuck /\ th'[t].dropped = th[t].dropped
  BY <1>0, <1>1 DEF Writers
<1>6. InTransaction(t)' = InTransaction(t) /\ Delivered(t)' = Delivered(t)
  BY <1>5 DEF InTransaction, Delivered
<1>7. Control(t) /\ StageOK(t)'
  BY <1>0, <1>1, <1>5, <1>6 DEF Control, StageOK
<1>8. \A u \in Threads : LocksOK(u)'
  <2>1. LockPlan(t)' = LockPlan(t) /\ UndoesImage(t)' = UndoesImage(t)
    BY <1>5 DEF LockPlan, UndoesImage
  <2>2. Held(t) = {LockPlan(t)[i] : i \in 1..th[t].got} /\ Held(t)' = {LockPlan(t)[i] : i \in 1..(th[t].got + 1)}
    BY <1>1, <1>5, <2>1 DEF Held
  <2>3. Held(t)' = Held(t) \cup {Waited(t)}
    BY <1>3, <2>2
  <2>4. LocksOK(t)'
    BY <1>0, <1>1, <1>3, <1>5, <1>6, <2>1, <2>3 DEF LocksOK, Typed
  <2>5. ASSUME NEW u \in Threads \ {t} PROVE LocksOK(u)'
    <3>1. th'[u] = th[u]
      BY <1>1 DEF Others
    <3>2. Held(u)' = Held(u) /\ LockPlan(u)' = LockPlan(u)
      BY <3>1 DEF Held, LockPlan
    <3>3. \A l \in Locks \ {"loop"} : own'[l] = u <=> own[l] = u
      BY <1>0, <1>1, Kinds DEF Typed
    <3> QED BY <3>1, <3>2, <3>3 DEF ArtifactInv, LocksOK, InTransaction, UndoesImage
  <2> QED BY <2>4, <2>5
<1> QED BY <1>1, <1>4, <1>7, <1>8, ControlInv

\* A task, an upload or a restore starts.
LEMMA StartInv ==
  ASSUME ArtifactInv, NEW t \in Threads, SubmitTask(t) \/ StartUpload(t) \/ StartRestore(t)
  PROVE  ArtifactInv'
<1>0. th[t] \in Writers /\ StageOK(t) /\ LocksOK(t) /\ Typed /\ Target[t] \in Resources
  BY Kinds DEF ArtifactInv, Typed
<1> DEFINE Facts ==
      /\ res' = res /\ own' = own /\ faults' = faults /\ th[t].stage = "idle" /\ th'[t].stage = "commit"
      /\ Others(t) /\ th' \in [Threads -> Writers]
      /\ th'[t].step = th[t].step /\ th'[t].got = th[t].got
      /\ th'[t].old = th[t].old /\ th'[t].to = th[t].to /\ th'[t].prior = th[t].prior
      /\ th'[t].selected = th[t].selected /\ th'[t].lost = th[t].lost
      /\ th'[t].late = th[t].late /\ th'[t].wroteLate = th[t].wroteLate /\ th'[t].stuck = th[t].stuck /\ th'[t].dropped = th[t].dropped
      /\ th'[t].row \in {th[t].row, "running"}
      /\ t \notin Editors /\ (t \in Tasks => th'[t].basis \in Bases /\ th'[t].row = "running")
<1>1. Facts
  <2>1. CASE SubmitTask(t)
    <3>1. PICK valid \in BOOLEAN :
            th' = [th EXCEPT ![t].stage = "commit", ![t].row = "running", ![t].valid = valid,
                             ![t].basis = res[Target[t]].basis, ![t].parent = res[Target[t]].cur]
      BY <2>1 DEF SubmitTask
    <3>2. t \in Tasks /\ t \notin Editors /\ res[Target[t]].basis \in Bases /\ res[Target[t]].cur \in Nat
      BY <1>0, <2>1, Kinds DEF SubmitTask, Typed, Stored
    <3> DEFINE y == [th[t] EXCEPT !.stage = "commit", !.row = "running", !.valid = valid,
                             !.basis = res[Target[t]].basis, !.parent = res[Target[t]].cur]
    <3>3. y \in Writers
      BY <1>0, <3>2 DEF Writers, Stages, Rows, Claims
    <3>4. th' = [th EXCEPT ![t] = y]
      BY <1>0, <3>1 DEF Typed
    <3>5. th' \in [Threads -> Writers] /\ th'[t] = y /\ Others(t)
      BY <1>0, <3>3, <3>4, ThreadStep
    <3>6. /\ y.stage = "commit" /\ y.step = th[t].step /\ y.got = th[t].got
          /\ y.old = th[t].old /\ y.to = th[t].to /\ y.prior = th[t].prior
          /\ y.selected = th[t].selected /\ y.lost = th[t].lost
          /\ y.late = th[t].late /\ y.wroteLate = th[t].wroteLate /\ y.stuck = th[t].stuck /\ y.dropped = th[t].dropped
          /\ y.row = "running" /\ y.basis = res[Target[t]].basis
      BY <1>0 DEF Writers
    <3>7. res' = res /\ own' = own /\ faults' = faults /\ th[t].stage = "idle"
      BY <2>1 DEF SubmitTask
    <3> HIDE DEF y
    <3> QED BY <3>2, <3>5, <3>6, <3>7
  <2>2. CASE StartUpload(t)
    <3> DEFINE y == [th[t] EXCEPT !.stage = "commit"]
    <3>3. y \in Writers
      BY <1>0 DEF Writers, Stages
    <3>4. th' = [th EXCEPT ![t] = y]
      BY <1>0, <2>2 DEF Typed, StartUpload
    <3>5. th' \in [Threads -> Writers] /\ th'[t] = y /\ Others(t)
      BY <1>0, <3>3, <3>4, ThreadStep
    <3> QED BY <1>0, <2>2, <3>5, Kinds DEF StartUpload, Writers
  <2>3. CASE StartRestore(t)
    <3>1. PICK v \in 1..Len(res[Target[t]].hist) : th' = [th EXCEPT ![t].stage = "commit", ![t].ver = v]
      BY <2>3 DEF StartRestore
    <3>2. v \in Nat
      BY <1>0 DEF Typed, Stored
    <3> DEFINE y == [th[t] EXCEPT !.stage = "commit", !.ver = v]
    <3>3. y \in Writers
      BY <1>0, <3>2 DEF Writers, Stages
    <3>4. th' = [th EXCEPT ![t] = y]
      BY <1>0, <3>1 DEF Typed
    <3>5. th' \in [Threads -> Writers] /\ th'[t] = y /\ Others(t)
      BY <1>0, <3>3, <3>4, ThreadStep
    <3> QED BY <1>0, <2>3, <3>5, Kinds DEF StartRestore, Writers
  <2> QED BY <2>1, <2>2, <2>3
<1>4. ~ InTransaction(t) /\ ~ InTransaction(t)' /\ th[t].step = "begin" /\ th[t].got = 0 /\ ~ th[t].selected /\ th[t].row = "none"
  BY <1>0, <1>1 DEF InTransaction, StageOK
<1>5. Typed'
  BY <1>0, <1>1 DEF Typed
<1>6. Control(t)
  BY <1>1, <1>4 DEF Control, Delivered
<1>7. StageOK(t)'
  BY <1>0, <1>1, <1>4 DEF StageOK
<1>8. RestoreOK(t)'
  <2> SUFFICES ASSUME t \in Restorers, NEW h \in Hists(Target[t])' PROVE th'[t].ver \in 1..Len(h)
    BY <1>1 DEF RestoreOK
  <2>1. StartRestore(t)
    BY Kinds DEF SubmitTask, StartUpload
  <2>2. Writing = {}
    BY <2>1, OneWriter DEF StartRestore
  <2>3. Writing' = {}
    BY <1>1, <1>4, <2>2 DEF Writing, Others, InTransaction
  <2>4. h = res[Target[t]].hist
    BY <1>1, <2>3 DEF Hists
  <2>5. PICK v \in 1..Len(res[Target[t]].hist) : th' = [th EXCEPT ![t].stage = "commit", ![t].ver = v]
    BY <2>1 DEF StartRestore
  <2>6. th'[t].ver = v
    BY <1>0, <2>5 DEF Typed, Writers
  <2> QED BY <2>4, <2>5, <2>6
<1>9. \A u \in Threads : LocksOK(u)'
  <2>1. Held(t)' = Held(t)
    BY <1>1, <1>4 DEF Held
  <2>2. Len(LockPlan(t)') \in Nat
    BY DEF LockPlan
  <2> QED BY <1>1, <1>4, <2>1, <2>2, KeepLocks
<1> QED BY <1>5, <1>6, <1>7, <1>8, <1>9, ControlInv

LEMMA LeaveFields ==
  ASSUME NEW t \in Threads, th[t] \in Writers, NEW s \in Stages
  PROVE  /\ Leave(t, s) \in Writers
         /\ Leave(t, s).stage = s /\ Leave(t, s).step = "begin" /\ Leave(t, s).got = 0
         /\ Leave(t, s).ver = th[t].ver /\ Leave(t, s).prior = th[t].prior /\ Leave(t, s).basis = th[t].basis
         /\ Leave(t, s).row = th[t].row /\ Leave(t, s).selected = th[t].selected /\ Leave(t, s).lost = th[t].lost
         /\ Leave(t, s).late = th[t].late /\ Leave(t, s).wroteLate = th[t].wroteLate /\ Leave(t, s).stuck = th[t].stuck /\ Leave(t, s).dropped = th[t].dropped
<1> DEFINE y == Leave(t, s)
<1>1. y \in Writers
  <2>1. <<>> \in {<<>>} \cup [Resources -> Stored] /\ <<>> \in {<<>>} \cup Goals /\ "begin" \in Steps /\ 0 \in 0..4
    BY DEF Steps
  <2> QED BY <2>1 DEF Leave, Writers
<1>2. /\ y.stage = s /\ y.step = "begin" /\ y.got = 0
      /\ y.ver = th[t].ver /\ y.prior = th[t].prior /\ y.basis = th[t].basis
      /\ y.row = th[t].row /\ y.selected = th[t].selected /\ y.lost = th[t].lost
      /\ y.late = th[t].late /\ y.wroteLate = th[t].wroteLate /\ y.stuck = th[t].stuck /\ y.dropped = th[t].dropped
  BY DEF Leave, Writers
<1> QED BY <1>1, <1>2

\* A thread gives up at the head of a stage: its history write failed, its owner is gone,
\* or another version has been selected.
LEMMA AbandonInv ==
  ASSUME ArtifactInv, NEW t \in Threads, NEW s \in {"commit", "undo"}, At(t, s, "begin"),
         res' = res, faults' \in Nat, ReleaseAll(t), NEW y \in Writers, th' = [th EXCEPT ![t] = y],
         y.stage = "fail", y.step = "begin", y.got = 0, y.ver = th[t].ver, y.prior = th[t].prior,
         y.basis = th[t].basis, y.row = th[t].row, y.selected = th[t].selected, y.late = th[t].late,
         y.wroteLate = th[t].wroteLate, s = "undo" => y.lost = th[t].lost,
         s = "commit" /\ t \in PaidTasks => y.lost, s = "undo" => res[Target[t]].cur # th[t].ver
  PROVE  ArtifactInv'
<1>0. th[t] \in Writers /\ StageOK(t) /\ Typed /\ own' \in [Locks -> Threads \cup {NoThread}]
      /\ th[t].stage = s /\ th[t].step = "begin"
  BY DEF ArtifactInv, Typed, At, ReleaseAll
<1>1. th' \in [Threads -> Writers] /\ th'[t] = y /\ Others(t)
  BY <1>0, ThreadStep
<1>2. Typed'
  BY <1>0, <1>1 DEF Typed
<1>3. Writing = {} /\ ~ InTransaction(t) /\ ~ InTransaction(t)'
  BY <1>1, HeadHolds DEF InTransaction
<1>4. s = "undo" => th[t].ver \notin Sels(Target[t])
  BY <1>3 DEF Sels
<1>5. Delivered(t)' => Delivered(t)
  BY <1>0, <1>1, <1>3 DEF Delivered
<1>6. Control(t)
  BY <1>0, <1>1, <1>3, <1>4, <1>5 DEF Control, StageOK
<1>7. StageOK(t)'
  BY <1>0, <1>1 DEF StageOK
<1>8. \A u \in Threads : LocksOK(u)'
  BY <1>1, DropLocks
<1> QED BY <1>0, <1>2, <1>6, <1>7, <1>8, ControlInv

LEMMA HistoryFailsInv ==
  ASSUME ArtifactInv, NEW t \in Threads, HistoryFails(t)
  PROVE  ArtifactInv'
<1> DEFINE y == [Leave(t, "fail") EXCEPT !.lost = TRUE]
<1>0. th[t] \in Writers /\ "fail" \in Stages /\ faults \in Nat
  BY DEF ArtifactInv, Typed, Stages
<1> DEFINE x == Leave(t, "fail")
<1>a. /\ x \in Writers /\ x.stage = "fail" /\ x.step = "begin" /\ x.got = 0 /\ x.ver = th[t].ver /\ x.prior = th[t].prior
      /\ x.basis = th[t].basis /\ x.row = th[t].row /\ x.selected = th[t].selected /\ x.late = th[t].late
      /\ x.wroteLate = th[t].wroteLate
  BY <1>0, LeaveFields
<1> HIDE DEF x
<1>b. y = [x EXCEPT !.lost = TRUE]
  BY DEF x
<1> HIDE DEF y
<1>1. /\ y \in Writers /\ y.stage = "fail" /\ y.step = "begin" /\ y.got = 0 /\ y.ver = th[t].ver /\ y.prior = th[t].prior
      /\ y.basis = th[t].basis /\ y.row = th[t].row /\ y.selected = th[t].selected /\ y.late = th[t].late
      /\ y.wroteLate = th[t].wroteLate /\ y.lost = TRUE
  BY <1>a, <1>b DEF Writers
<1>2. /\ th' = [th EXCEPT ![t] = y] /\ res' = res /\ faults' \in Nat /\ ReleaseAll(t) /\ At(t, "commit", "begin")
  BY <1>0 DEF HistoryFails, y
<1> QED BY <1>1, <1>2, AbandonInv

LEMMA GivesUpInv ==
  ASSUME ArtifactInv, NEW t \in Threads, NEW s \in {"commit", "undo"}, At(t, s, "begin"),
         res' = res, faults' = faults, ReleaseAll(t), th' = [th EXCEPT ![t] = Leave(t, "fail")],
         t \notin PaidTasks \/ s = "undo", s = "undo" => res[Target[t]].cur # th[t].ver
  PROVE  ArtifactInv'
<1>0. th[t] \in Writers /\ "fail" \in Stages /\ faults \in Nat
  BY DEF ArtifactInv, Typed, Stages
<1> DEFINE y == Leave(t, "fail")
<1>1. /\ y \in Writers /\ y.stage = "fail" /\ y.step = "begin" /\ y.got = 0 /\ y.ver = th[t].ver /\ y.prior = th[t].prior
      /\ y.basis = th[t].basis /\ y.row = th[t].row /\ y.selected = th[t].selected /\ y.late = th[t].late
      /\ y.wroteLate = th[t].wroteLate /\ y.lost = th[t].lost
  BY <1>0, LeaveFields
<1>2. th' = [th EXCEPT ![t] = y]
  OBVIOUS
<1> HIDE DEF y
<1> QED BY <1>0, <1>1, <1>2, AbandonInv

\* A finalizer that fails or is cancelled goes over to its compensation, guard held.
LEMMA TurnsBackInv ==
  ASSUME ArtifactInv, NEW t \in Threads, th[t].stage = "finalize", NEW l \in BOOLEAN, NEW rw \in Rows,
         rw = th[t].row \/ (th[t].row = "running" /\ rw = "cancelling"),
         res' = res, faults' \in Nat, own' = [own EXCEPT !["loop"] = t],
         th' = [th EXCEPT ![t] = [th[t] EXCEPT !.stage = "undo", !.step = "begin", !.got = 1, !.late = l, !.row = rw]]
  PROVE  ArtifactInv'
<1> DEFINE y == [th[t] EXCEPT !.stage = "undo", !.step = "begin", !.got = 1, !.late = l, !.row = rw]
<1>0. th[t] \in Writers /\ StageOK(t) /\ Typed /\ own' \in [Locks -> Threads \cup {NoThread}] /\ t \in PaidTasks
  BY DEF ArtifactInv, Typed, StageOK
<1>a. y \in Writers
  <2> DEFINE x == [th[t] EXCEPT !.stage = "undo", !.step = "begin", !.got = 1]
  <2>1. x \in Writers
    <3>1. "undo" \in Stages /\ "begin" \in Steps /\ 1 \in 0..4
      BY DEF Stages, Steps
    <3> QED BY <1>0, <3>1 DEF Writers
  <2>2. y = [x EXCEPT !.late = l, !.row = rw]
    BY <1>0 DEF Writers
  <2> HIDE DEF x
  <2>3. [x EXCEPT !.late = l, !.row = rw] \in Writers
    BY <2>1 DEF Writers
  <2> QED BY <2>2, <2>3
<1>1. /\ y \in Writers /\ y.stage = "undo" /\ y.step = "begin" /\ y.got = 1 /\ y.ver = th[t].ver /\ y.prior = th[t].prior
      /\ y.basis = th[t].basis /\ y.row = rw /\ y.selected = th[t].selected /\ y.late = l /\ y.lost = th[t].lost
      /\ y.wroteLate = th[t].wroteLate
  BY <1>0, <1>a DEF Writers
<1>2. th' \in [Threads -> Writers] /\ th'[t] = y /\ Others(t)
  BY <1>0, <1>1, ThreadStep
<1> HIDE DEF y
<1>3. Typed'
  BY <1>0, <1>2 DEF Typed
<1>4. ~ InTransaction(t) /\ ~ InTransaction(t)'
  BY <1>1, <1>2 DEF InTransaction
<1>5. Delivered(t)' => Delivered(t)
  BY <1>1, <1>2, <1>4 DEF Delivered
<1>6. Control(t)
  BY <1>0, <1>1, <1>2, <1>4, <1>5 DEF Control
<1>7. StageOK(t)'
  BY <1>0, <1>1, <1>2, Kinds DEF StageOK
<1>8. \A u \in Threads : LocksOK(u)'
  <2>1. LockPlan(t)' = <<Target[t], "script", "project", "versions">> /\ Len(LockPlan(t)') = 4
    BY <1>0 DEF LockPlan
  <2>2. Held(t) = {Target[t]} /\ Held(t)' = {Target[t]}
    BY <1>1, <1>2, <2>1 DEF Held
  <2>3. \A k \in Locks \ {"loop"} : own'[k] = own[k]
    BY <1>0 DEF Typed
  <2>4. th'[t].got <= Len(LockPlan(t))'
    BY <1>1, <1>2, <2>1
  <2>5. Held(t)' = Held(t)
    BY <2>2
  <2> QED BY <1>2, <1>4, <2>3, <2>4, <2>5, KeepLocks
<1> QED BY <1>3, <1>6, <1>7, <1>8, ControlInv

\* A finalized video goes on to its cleanup and from there to the gate, or loses its result.
LEMMA PassesOnInv ==
  ASSUME ArtifactInv, NEW t \in PaidTasks, th[t].stage \in {"finalize", "cleanup"}, NEW y \in Writers,
         th' = [th EXCEPT ![t] = y], res' = res, faults' \in Nat,
         ReleaseAll(t) \/ (th[t].stage = "cleanup" /\ own' = own),
         y.stage \in {"cleanup", "gate", "fail"}, y.step = "begin", y.got = 0, y.ver = th[t].ver,
         y.prior = th[t].prior, y.basis = th[t].basis, y.selected = th[t].selected, y.late = th[t].late,
         y.wroteLate = th[t].wroteLate, y.lost = th[t].lost,
         y.row = th[t].row \/ (th[t].row # "none" /\ y.row = "cancelling"),
         y.stage = "fail" /\ y.selected => y.dropped
  PROVE  ArtifactInv'
<1>0. t \in Threads /\ th[t] \in Writers /\ StageOK(t) /\ Typed
  BY DEF ArtifactInv, Typed, Threads, Tasks
<1>1. th' \in [Threads -> Writers] /\ th'[t] = y /\ Others(t)
  BY <1>0, ThreadStep
<1>2. Typed'
  <2>1. own' \in [Locks -> Threads \cup {NoThread}]
    BY <1>0 DEF Typed, ReleaseAll
  <2> QED BY <1>0, <1>1, <2>1 DEF Typed
<1>3. ~ InTransaction(t) /\ ~ InTransaction(t)'
  BY <1>0, <1>1 DEF InTransaction
<1>4. Delivered(t)' => Delivered(t)
  BY <1>0, <1>1, <1>3 DEF Delivered
<1>5. Control(t)
  BY <1>0, <1>1, <1>3, <1>4 DEF Control
<1>6. StageOK(t)'
  BY <1>0, <1>1, Kinds DEF StageOK
<1>7. \A u \in Threads : LocksOK(u)'
  <2>1. CASE ReleaseAll(t)
    BY <1>1, <2>1, DropLocks
  <2>2. CASE th[t].stage = "cleanup" /\ own' = own
    <3>1. Held(t) = {} /\ Held(t)' = {}
      BY <1>1, <2>2 DEF Held
    <3>2. Len(LockPlan(t)') >= 0
      BY DEF LockPlan
    <3>3. th'[t].got <= Len(LockPlan(t))' /\ \A k \in Locks \ {"loop"} : own'[k] = own[k]
      BY <1>1, <2>2, <3>2
    <3> QED BY <1>0, <1>1, <1>3, <3>1, <3>3, KeepLocks
  <2> QED BY <2>1, <2>2
<1> QED BY <1>0, <1>2, <1>5, <1>6, <1>7, ControlInv

\* The fields of a writer whose result is lost.
LEMMA DroppedFields ==
  ASSUME NEW t \in Threads, th[t] \in Writers
  PROVE  /\ Dropped(t) \in Writers
         /\ Dropped(t).stage = "fail" /\ Dropped(t).step = "begin" /\ Dropped(t).got = 0
         /\ Dropped(t).ver = th[t].ver /\ Dropped(t).prior = th[t].prior /\ Dropped(t).basis = th[t].basis
         /\ Dropped(t).row = th[t].row /\ Dropped(t).selected = th[t].selected /\ Dropped(t).lost = th[t].lost
         /\ Dropped(t).late = th[t].late /\ Dropped(t).wroteLate = th[t].wroteLate
         /\ Dropped(t).dropped = th[t].selected
<1> DEFINE x == Leave(t, "fail")
           y == [x EXCEPT !.dropped = th[t].selected]
<1>1. "fail" \in Stages /\ th[t].selected \in BOOLEAN
  BY DEF Stages, Writers
<1>2. /\ x \in Writers /\ x.stage = "fail" /\ x.step = "begin" /\ x.got = 0 /\ x.ver = th[t].ver
      /\ x.prior = th[t].prior /\ x.basis = th[t].basis /\ x.row = th[t].row /\ x.selected = th[t].selected
      /\ x.lost = th[t].lost /\ x.late = th[t].late /\ x.wroteLate = th[t].wroteLate
  BY <1>1, LeaveFields
<1>3. Dropped(t) = y
  BY DEF Dropped
<1> HIDE DEF x
<1>4. /\ y \in Writers /\ y.stage = x.stage /\ y.step = x.step /\ y.got = x.got /\ y.ver = x.ver
      /\ y.prior = x.prior /\ y.basis = x.basis /\ y.row = x.row /\ y.selected = x.selected
      /\ y.lost = x.lost /\ y.late = x.late /\ y.wroteLate = x.wroteLate /\ y.dropped = th[t].selected
  BY <1>1, <1>2 DEF Writers
<1> HIDE DEF y
<1> QED BY <1>2, <1>3, <1>4

\* The executor's final cleanup succeeds, or raises.
LEMMA CleansUpInv ==
  ASSUME ArtifactInv, NEW t \in Threads, CleansUp(t)
  PROVE  ArtifactInv'
<1>0. /\ th[t] \in Writers /\ StageOK(t) /\ th[t].stage = "cleanup" /\ res' = res /\ own' = own
      /\ faults \in Nat /\ t \in PaidTasks
  BY DEF ArtifactInv, Typed, CleansUp, StageOK
<1>1. CASE th' = [th EXCEPT ![t] = Leave(t, "gate")] /\ UNCHANGED faults
  <2> DEFINE y == Leave(t, "gate")
  <2>1. "gate" \in Stages
    BY DEF Stages
  <2>2. /\ y \in Writers /\ y.stage = "gate" /\ y.step = "begin" /\ y.got = 0 /\ y.ver = th[t].ver /\ y.prior = th[t].prior
        /\ y.basis = th[t].basis /\ y.row = th[t].row /\ y.selected = th[t].selected /\ y.late = th[t].late
        /\ y.wroteLate = th[t].wroteLate /\ y.lost = th[t].lost
    BY <1>0, <2>1, LeaveFields
  <2>3. th' = [th EXCEPT ![t] = y] /\ faults' \in Nat
    BY <1>0, <1>1
  <2> HIDE DEF y
  <2> QED BY <1>0, <2>2, <2>3, PassesOnInv
<1>2. CASE faults < MaxFaults /\ faults' = faults + 1 /\ th' = [th EXCEPT ![t] = Dropped(t)]
  <2>1. faults' \in Nat
    BY <1>0, <1>2
  <2> DEFINE y == Dropped(t)
  <2>2. /\ y \in Writers /\ y.stage = "fail" /\ y.step = "begin" /\ y.got = 0 /\ y.ver = th[t].ver /\ y.prior = th[t].prior
        /\ y.basis = th[t].basis /\ y.row = th[t].row /\ y.selected = th[t].selected /\ y.late = th[t].late
        /\ y.wroteLate = th[t].wroteLate /\ y.lost = th[t].lost /\ y.dropped = th[t].selected
    BY <1>0, DroppedFields
  <2>3. th' = [th EXCEPT ![t] = y]
    BY <1>2
  <2> HIDE DEF y
  <2> QED BY <1>0, <2>1, <2>2, <2>3, PassesOnInv
<1> QED BY <1>1, <1>2 DEF CleansUp

\* The user cancels a task.
LEMMA CancelInv ==
  ASSUME ArtifactInv, NEW t \in Threads, Cancel(t)
  PROVE  ArtifactInv'
<1>0. th[t] \in Writers /\ StageOK(t) /\ LocksOK(t) /\ Typed /\ res' = res /\ faults' = faults /\ th[t].row = "running"
  BY DEF ArtifactInv, Typed, Cancel
<1>1. CASE /\ th[t].stage \in {"commit", "cleanup", "gate"}
           /\ \E valid \in (IF th[t].stage = "commit" /\ th[t].got <= 1 /\ t \in PaidTasks
                            THEN {th[t].valid, FALSE} ELSE {th[t].valid}) :
                th' = [th EXCEPT ![t].row = "cancelling", ![t].valid = valid]
           /\ UNCHANGED own
  <2>1. PICK valid \in {th[t].valid, FALSE} : th' = [th EXCEPT ![t].row = "cancelling", ![t].valid = valid]
    BY <1>1
  <2> DEFINE y == [th[t] EXCEPT !.row = "cancelling", !.valid = valid]
  <2>2. y \in Writers
    <3>1. "cancelling" \in Rows /\ th[t].valid \in BOOLEAN
      BY <1>0 DEF Rows, Writers
    <3>2. valid \in BOOLEAN
      BY <3>1
    <3> QED BY <1>0, <3>1, <3>2 DEF Writers
  <2>3. /\ y.got = th[t].got /\ y.stage = th[t].stage /\ y.step = th[t].step /\ y.ver = th[t].ver
        /\ y.old = th[t].old /\ y.to = th[t].to /\ y.prior = th[t].prior /\ y.basis = th[t].basis
        /\ y.row = "cancelling" /\ y.selected = th[t].selected /\ y.lost = th[t].lost
        /\ y.late = th[t].late /\ y.wroteLate = th[t].wroteLate /\ y.stuck = th[t].stuck /\ y.dropped = th[t].dropped
    BY <1>0 DEF Writers
  <2>4. th' = [th EXCEPT ![t] = y]
    BY <1>0, <2>1 DEF Typed
  <2> HIDE DEF y
  <2>5. th' \in [Threads -> Writers] /\ th'[t] = y /\ Others(t)
    BY <1>0, <2>2, <2>4, ThreadStep
  <2>6. Typed'
    BY <1>0, <1>1, <2>5 DEF Typed
  <2>7. InTransaction(t)' = InTransaction(t) /\ Delivered(t)' = Delivered(t)
    BY <1>0, <2>3, <2>5 DEF InTransaction, Delivered
  <2>8. Control(t) /\ StageOK(t)'
    BY <1>0, <1>1, <2>3, <2>5, <2>7 DEF Control, StageOK
  <2>9. \A u \in Threads : LocksOK(u)'
    <3>1. Held(t)' = Held(t) /\ LockPlan(t)' = LockPlan(t) /\ UndoesImage(t)' = UndoesImage(t)
      BY <2>3, <2>5 DEF Held, LockPlan, UndoesImage
    <3>2. \A k \in Locks \ {"loop"} : own'[k] = own[k]
      BY <1>1
    <3>3. /\ th'[t].got <= Len(LockPlan(t))'
          /\ InTransaction(t)' => th'[t].got >= IF UndoesImage(t)' THEN 1 ELSE Len(LockPlan(t))'
      BY <1>0, <2>3, <2>5, <2>7, <3>1 DEF LocksOK
    <3> QED BY <2>5, <3>1, <3>2, <3>3, KeepLocks
  <2> QED BY <1>1, <2>6, <2>8, <2>9, ControlInv
<1>2. CASE /\ th[t].stage = "finalize"
           /\ th' = [th EXCEPT ![t].row = "cancelling", ![t].stage = "undo", ![t].step = "begin",
                               ![t].got = 1, ![t].late = (th[t].step = "write")]
           /\ own' = [own EXCEPT !["loop"] = t]
  <2> DEFINE l == (th[t].step = "write")
  <2>1. l \in BOOLEAN /\ "cancelling" \in Rows
    BY DEF Rows
  <2>2. th' = [th EXCEPT ![t] = [th[t] EXCEPT !.stage = "undo", !.step = "begin", !.got = 1, !.late = l, !.row = "cancelling"]]
    BY <1>0, <1>2, SMTT(40) DEF Typed, Writers
  <2>3. faults' \in Nat
    BY <1>0 DEF Typed
  <2> HIDE DEF l
  <2> QED BY <1>0, <1>2, <2>1, <2>2, <2>3, TurnsBackInv
<1>3. CASE /\ th[t].stage = "cleanup"
           /\ th' = [th EXCEPT ![t] = [Dropped(t) EXCEPT !.row = "cancelling"]]
           /\ UNCHANGED own
  <2> DEFINE x == Dropped(t)
             y == [x EXCEPT !.row = "cancelling"]
  <2>1. "cancelling" \in Rows
    BY DEF Rows
  <2>2. /\ x \in Writers /\ x.stage = "fail" /\ x.step = "begin" /\ x.got = 0 /\ x.ver = th[t].ver
        /\ x.prior = th[t].prior /\ x.basis = th[t].basis /\ x.selected = th[t].selected
        /\ x.lost = th[t].lost /\ x.late = th[t].late /\ x.wroteLate = th[t].wroteLate
        /\ x.dropped = th[t].selected
    BY <1>0, DroppedFields
  <2>3. th' = [th EXCEPT ![t] = y]
    BY <1>3
  <2> HIDE DEF x
  <2>4. /\ y \in Writers /\ y.stage = x.stage /\ y.step = x.step /\ y.got = x.got /\ y.ver = x.ver
        /\ y.prior = x.prior /\ y.basis = x.basis /\ y.row = "cancelling" /\ y.selected = x.selected
        /\ y.lost = x.lost /\ y.late = x.late /\ y.wroteLate = x.wroteLate /\ y.dropped = x.dropped
    BY <2>1, <2>2 DEF Writers
  <2> HIDE DEF y
  <2>5. faults' \in Nat /\ t \in PaidTasks
    BY <1>0, <1>3 DEF Typed, StageOK
  <2>6. /\ y.stage = "fail" /\ y.step = "begin" /\ y.got = 0 /\ y.ver = th[t].ver
        /\ y.prior = th[t].prior /\ y.basis = th[t].basis /\ y.selected = th[t].selected
        /\ y.lost = th[t].lost /\ y.late = th[t].late /\ y.wroteLate = th[t].wroteLate
        /\ y.dropped = y.selected /\ th[t].row # "none" /\ own' = own
    BY <1>0, <1>3, <2>2, <2>4
  <2> QED BY <1>0, <1>3, <2>3, <2>4, <2>5, <2>6, PassesOnInv
<1> QED BY <1>1, <1>2, <1>3 DEF Cancel

\* A step that compensates on the event loop.
LEMMA OnLoopInv ==
  ASSUME ArtifactInv, NEW t \in Threads, th[t].stage = "finalize", UndoOnLoop(t, FALSE), res' = res, faults' \in Nat
  PROVE  ArtifactInv'
<1>0. th[t] \in Writers /\ Typed /\ th[t].row \in Rows /\ FALSE \in BOOLEAN
  BY DEF ArtifactInv, Typed, Writers
<1>1. th' = [th EXCEPT ![t].stage = "undo", ![t].step = "begin", ![t].got = 1, ![t].late = FALSE]
      /\ own' = [own EXCEPT !["loop"] = t]
  BY DEF UndoOnLoop, ToUndo
<1>2. th' = [th EXCEPT ![t] = [th[t] EXCEPT !.stage = "undo", !.step = "begin", !.got = 1, !.late = FALSE, !.row = th[t].row]]
  BY <1>0, <1>1 DEF Typed, Writers
<1> QED BY <1>0, <1>1, <1>2, TurnsBackInv

\* The finalization ends, or fails.
LEMMA FinishInv ==
  ASSUME ArtifactInv, NEW t \in Threads, FinishFinalize(t)
  PROVE  ArtifactInv'
<1>0. th[t] \in Writers /\ StageOK(t) /\ Typed /\ res' = res /\ th[t].stage = "finalize" /\ t \in PaidTasks
  BY DEF ArtifactInv, Typed, FinishFinalize, StageOK
<1>1. CASE th' = [th EXCEPT ![t] = Leave(t, "cleanup")] /\ ReleaseAll(t) /\ UNCHANGED faults
  <2> DEFINE y == Leave(t, "cleanup")
  <2>1. "cleanup" \in Stages
    BY DEF Stages
  <2>2. /\ y \in Writers /\ y.stage = "cleanup" /\ y.step = "begin" /\ y.got = 0 /\ y.ver = th[t].ver /\ y.prior = th[t].prior
        /\ y.basis = th[t].basis /\ y.row = th[t].row /\ y.selected = th[t].selected /\ y.late = th[t].late
        /\ y.wroteLate = th[t].wroteLate /\ y.lost = th[t].lost
    BY <1>0, <2>1, LeaveFields
  <2>3. th' = [th EXCEPT ![t] = y] /\ faults' \in Nat
    BY <1>0, <1>1 DEF Typed
  <2> HIDE DEF y
  <2> QED BY <1>0, <1>1, <2>2, <2>3, PassesOnInv
<1>2. CASE faults < MaxFaults /\ faults' = faults + 1 /\ UndoOnLoop(t, FALSE)
  <2>1. faults' \in Nat
    BY <1>0, <1>2 DEF Typed
  <2> QED BY <1>0, <1>2, <2>1, OnLoopInv
<1> QED BY <1>1, <1>2 DEF FinishFinalize

\* The row decides what becomes of a result, and takes its outcome.
LEMMA GateInv ==
  ASSUME ArtifactInv, NEW t \in Threads, TerminalGate(t) \/ SettleRow(t)
  PROVE  ArtifactInv'
<1>0. /\ th[t] \in Writers /\ StageOK(t) /\ Typed /\ res' = res /\ own' = own /\ faults' = faults
      /\ th[t].stage \in {"gate", "fail"} /\ th[t].step = "begin" /\ th[t].got = 0 /\ ~ InTransaction(t)
  BY DEF ArtifactInv, Typed, TerminalGate, SettleRow, StageOK, InTransaction
<1>1. ASSUME NEW y \in Writers, th' = [th EXCEPT ![t] = y], y.stage \in {"end", "undo", "fail"},
             y.step = "begin", y.got = 0, y.ver = th[t].ver, y.prior = th[t].prior,
             y.basis = th[t].basis, y.selected = th[t].selected, y.late => th[t].late, y.wroteLate = th[t].wroteLate,
             y.lost = th[t].lost, y.stuck = th[t].stuck /\ y.dropped = th[t].dropped, y.row # "none" => th[t].row # "none",
             y.stage # "end" => y.row = th[t].row,
             y.row \in {"succeeded", "cancelled", "failed"} => y.stage = "end",
             th[t].stage = "fail" => y.stage = "end" /\ y.row # "succeeded",
             th[t].stage = "gate" /\ y.stage = "end" => y.row = "succeeded",
             th[t].stage = "gate" /\ y.stage = "fail" => ~ th[t].selected,
             y.stage = "undo" => t \in Tasks /\ th[t].selected, t \in Editors => y.stage = "end"
      PROVE  ArtifactInv'
  <2>1. th' \in [Threads -> Writers] /\ th'[t] = y /\ Others(t)
    BY <1>0, <1>1, ThreadStep
  <2>2. Typed'
    BY <1>0, <2>1 DEF Typed
  <2>3. ~ InTransaction(t)'
    BY <1>1, <2>1 DEF InTransaction
  <2>4. Delivered(t)' => Delivered(t)
    BY <1>0, <1>1, <2>1, <2>3 DEF Delivered
  <2>5. Control(t)
    BY <1>0, <1>1, <2>1, <2>3, <2>4 DEF Control, StageOK
  <2>6. StageOK(t)'
    BY <1>0, <1>1, <2>1 DEF StageOK
  <2>7. \A u \in Threads : LocksOK(u)'
    <3>1. Held(t) = {} /\ Held(t)' = {}
      BY <1>0, <1>1, <2>1 DEF Held
    <3>2. Len(LockPlan(t)') >= 0
      BY DEF LockPlan
    <3>3. th'[t].got <= Len(LockPlan(t))' /\ \A k \in Locks \ {"loop"} : own'[k] = own[k]
      BY <1>0, <1>1, <2>1, <3>2
    <3> QED BY <2>1, <2>3, <3>1, <3>3, KeepLocks
  <2> QED BY <1>0, <2>2, <2>5, <2>6, <2>7, ControlInv
<1>2. CASE SettleRow(t)
  <2> DEFINE rw == IF t \notin Tasks THEN "none" ELSE IF th[t].row = "cancelling" THEN "cancelled" ELSE "failed"
             y == [th[t] EXCEPT !.stage = "end", !.row = rw]
  <2>1. y \in Writers
    <3>1. "end" \in Stages /\ rw \in Rows
      BY DEF Stages, Rows
    <3> QED BY <1>0, <3>1, ZenonT(60) DEF Writers
  <2>2. th' = [th EXCEPT ![t] = y]
    BY <1>0, <1>2 DEF SettleRow, Typed, Writers
  <2>3. /\ y.stage = "end" /\ y.step = "begin" /\ y.got = 0 /\ y.ver = th[t].ver /\ y.prior = th[t].prior
        /\ y.basis = th[t].basis /\ y.selected = th[t].selected /\ y.late = th[t].late /\ y.wroteLate = th[t].wroteLate
        /\ y.lost = th[t].lost /\ y.stuck = th[t].stuck /\ y.dropped = th[t].dropped /\ y.row = rw
    BY <1>0 DEF Writers
  <2>4. /\ th[t].stage = "fail" /\ rw # "succeeded"
        /\ rw # "none" => th[t].row # "none"
    BY <1>0, <1>2 DEF SettleRow, StageOK
  <2> HIDE DEF y, rw
  <2> QED BY <1>1, <2>1, <2>2, <2>3, <2>4
<1>3. CASE TerminalGate(t)
  <2>0. th[t].stage = "gate" /\ t \in Tasks /\ t \notin Editors /\ th[t].row \in {"running", "cancelling"}
    BY <1>0, <1>3, Kinds DEF TerminalGate, StageOK
  <2>1. CASE th[t].row = "running" /\ th' = [th EXCEPT ![t].row = "succeeded", ![t].stage = "end"]
    <3> DEFINE y == [th[t] EXCEPT !.row = "succeeded", !.stage = "end"]
    <3>1. y \in Writers
      <4>1. "end" \in Stages /\ "succeeded" \in Rows
        BY DEF Stages, Rows
      <4> QED BY <1>0, <4>1 DEF Writers
    <3>2. th' = [th EXCEPT ![t] = y]
      BY <1>0, <2>1 DEF Typed, Writers
    <3>3. /\ y.stage = "end" /\ y.step = "begin" /\ y.got = 0 /\ y.ver = th[t].ver /\ y.prior = th[t].prior
          /\ y.basis = th[t].basis /\ y.selected = th[t].selected /\ y.late = th[t].late /\ y.wroteLate = th[t].wroteLate
          /\ y.lost = th[t].lost /\ y.stuck = th[t].stuck /\ y.dropped = th[t].dropped /\ y.row = "succeeded"
      BY <1>0 DEF Writers
    <3> HIDE DEF y
    <3> QED BY <1>1, <2>0, <3>1, <3>2, <3>3
  <2>2. CASE th[t].row = "cancelling" /\ th[t].selected /\ ToUndo(t, 0, FALSE)
    <3> DEFINE y == [th[t] EXCEPT !.stage = "undo", !.step = "begin", !.got = 0, !.late = FALSE]
    <3>1. y \in Writers
      <4>1. "undo" \in Stages /\ "begin" \in Steps /\ 0 \in 0..4 /\ FALSE \in BOOLEAN
        BY DEF Stages, Steps
      <4> QED BY <1>0, <4>1, ZenonT(60) DEF Writers
    <3>2. th' = [th EXCEPT ![t] = y]
      BY <1>0, <2>2 DEF Typed, Writers, ToUndo
    <3>3. /\ y.stage = "undo" /\ y.step = "begin" /\ y.got = 0 /\ y.ver = th[t].ver /\ y.prior = th[t].prior
          /\ y.basis = th[t].basis /\ y.selected = th[t].selected /\ y.late = FALSE /\ y.wroteLate = th[t].wroteLate
          /\ y.lost = th[t].lost /\ y.stuck = th[t].stuck /\ y.dropped = th[t].dropped /\ y.row = th[t].row
      BY <1>0 DEF Writers
    <3> HIDE DEF y
    <3> QED BY <1>1, <2>0, <2>2, <3>1, <3>2, <3>3
  <2>3. CASE th[t].row = "cancelling" /\ ~th[t].selected /\ th' = [th EXCEPT ![t] = Leave(t, "fail")]
    <3> DEFINE y == Leave(t, "fail")
    <3>0. "fail" \in Stages
      BY DEF Stages
    <3>1. /\ y \in Writers /\ y.stage = "fail" /\ y.step = "begin" /\ y.got = 0 /\ y.ver = th[t].ver /\ y.prior = th[t].prior
          /\ y.basis = th[t].basis /\ y.selected = th[t].selected /\ y.late = th[t].late /\ y.wroteLate = th[t].wroteLate
          /\ y.lost = th[t].lost /\ y.stuck = th[t].stuck /\ y.dropped = th[t].dropped /\ y.row = th[t].row
      BY <1>0, <3>0, LeaveFields
    <3>2. th' = [th EXCEPT ![t] = y]
      BY <2>3
    <3> HIDE DEF y
    <3> QED BY <1>1, <2>0, <2>3, <3>1, <3>2
  <2> QED BY <1>3, <2>1, <2>2, <2>3 DEF TerminalGate
<1> QED BY <1>2, <1>3

-----------------------------------------------------------------------------
(* Steps that write the script *)

\* The conjuncts of the acting thread, and what the others keep, make the invariant.
LEMMA Assembled ==
  ASSUME ArtifactInv, Typed', NEW t \in Threads, Aside(t),
         \A q \in Resources : \A h \in Hists(q)' : h \in Seq(Record),
         \A q \in Resources : RestOK(q)', \A u \in Threads : LocksOK(u)',
         StageOK(t)', FrameOK(t)', GoalOK(t)', RestoreOK(t)', CarriedOK(t)', KeptOK(t)', FreshOK(t)', FileOK(t)', UndoneOK(t)'
  PROVE  ArtifactInv'
<1>1. ASSUME NEW u \in Threads \ {t}
      PROVE  /\ StageOK(u)' /\ FrameOK(u)' /\ GoalOK(u)'
             /\ RestoreOK(u)' /\ CarriedOK(u)' /\ KeptOK(u)' /\ FreshOK(u)' /\ FileOK(u)' /\ UndoneOK(u)'
  BY Bystander
<1> QED BY <1>1 DEF ArtifactInv

\* A step that writes only pointers, claims and bases of the script, outside of transactions.
LEMMA ScriptInv ==
  ASSUME ArtifactInv, Typed', NEW t \in Threads, Still(t), ~ InTransaction(t), StageOK(t)', \A u \in Threads : LocksOK(u)',
         \A q \in Resources : res'[q].meta => res'[q].present /\ (res[q].meta \/ res[q].formal # NoBytes \/ LateOn(q)'),
         th'[t].selected = th[t].selected, th'[t].ver = th[t].ver, th'[t].basis = th[t].basis,
         th'[t].prior = th[t].prior, th'[t].stuck = th[t].stuck /\ th'[t].dropped = th[t].dropped, th'[t].row = th[t].row, th'[t].lost = th[t].lost,
         th'[t].stage = th[t].stage \/ (t \in Editors /\ th'[t].stage = "end")
  PROVE  ArtifactInv'
<1> DEFINE r == Target[t]
<1>0. r \in Resources /\ StageOK(t) /\ th[t] \in Writers /\ RestoreOK(t) /\ ~ InTransaction(t)'
      /\ th[t].ver \in Nat
  BY Kinds DEF ArtifactInv, Typed, Still, Writers
<1>3. Aside(t) /\ \A q \in Resources : \A h \in Hists(q)' : h \in Seq(Record)
  BY StillAside
<1>4. \A q \in Resources : Hists(q)' = Hists(q) /\ Sels(q)' = Sels(q) /\ Forms(q)' = Forms(q)
  BY StillSets
<1>5. Writing' = Writing
  BY StillSets
<1>6. \A q : LateOn(q) => LateOn(q)'
  BY <1>3, LateStays DEF Aside
<1>7. ASSUME NEW q \in Resources PROVE RestOK(q)'
  <2>1. AtRest(q)' <=> AtRest(q)
    BY <1>5 DEF AtRest, Writing
  <2>2. /\ res'[q].hist = res[q].hist /\ res'[q].cur = res[q].cur /\ res'[q].formal = res[q].formal
        /\ res'[q].claim \in {NoClaim, res[q].claim}
    BY DEF Still
  <2>3. RestOK(q)
    BY DEF ArtifactInv
  <2>4. Sound(res[q]) => Sound(res[q])'
    BY <2>2 DEF Sound
  <2>5. Points(res[q], q) => Points(res[q], q)'
    BY <1>6, <2>2 DEF Points
  <2> QED BY <2>1, <2>3, <2>4, <2>5 DEF RestOK
<1>8. FrameOK(t)' /\ GoalOK(t)' /\ FreshOK(t)'
  BY <1>0 DEF FrameOK, GoalOK, FreshOK
<1>9. RestoreOK(t)'
  BY <1>0, <1>4, Kinds DEF RestoreOK
<1>10. CarriedOK(t)'
  <2>1. ASSUME t \in Tasks, th'[t].selected, NEW h \in Hists(r)' PROVE Carries(t, h)'
    <3>1. th[t].selected /\ Carries(t, h) /\ HistOK(h) /\ h \in Seq(Record) /\ Continues(h, h)
      BY <1>0, <1>4, <2>1, HistsOK, ContinuesItself DEF ArtifactInv, CarriedOK
    <3> QED BY <1>0, <1>6, <3>1, CarriesOn
  <2> QED BY <1>0, <2>1 DEF CarriedOK
<1>11. KeptOK(t)'
  <2>1. Delivered(t)' => Delivered(t)
    BY <1>0, Kinds DEF Delivered
  <2> QED BY <1>0, <1>4, <2>1 DEF KeptOK, ArtifactInv
<1>12. FileOK(t)'
  <2> SUFFICES ASSUME th'[t].stage = "finalize" PROVE NoBytes \notin Forms(r)'
    BY DEF FileOK, Forms, Writing
  <2>1. FileOK(t) /\ th[t].stage = "finalize"
    BY DEF ArtifactInv
  <2>2. NoBytes \notin Forms(r)
    BY <2>1 DEF FileOK, Forms, Writing
  <2> QED BY <1>0, <1>4, <2>2
<1>13. UndoneOK(t)'
  <2> SUFFICES ASSUME t \in Tasks, th'[t].selected, th'[t].stage \in {"fail", "end"}, th'[t].row # "succeeded",
                      th'[t].ver \in Sels(r)', ~ Excused(t)'
               PROVE  res'[r].claim # th'[t].basis
    BY DEF UndoneOK
  <2>1. /\ th[t].stage \in {"fail", "end"} /\ th[t].row # "succeeded" /\ th[t].selected
        /\ th[t].ver \in Sels(r) /\ res'[r].claim \in {NoClaim, res[r].claim}
    BY <1>0, <1>4, Kinds DEF Still
  <2>4. ~ Excused(t)
    <3>1. ASSUME NEW w \in Restorers, Target[w] = Target[t], th[w].ver = th[t].ver PROVE FALSE
      BY <3>1, Kinds DEF Still, Others, Threads, Excused
    <3>2. ASSUME NEW w \in Tasks, Target[w] = Target[t], TakenBack(w, th[t].ver) PROVE FALSE
      <4>1. w \in Threads /\ Target[w] \in Resources
        BY Kinds DEF Threads
      <4>2. TakenBack(w, th[t].ver)'
        BY <3>2, <4>1, <2>1 DEF TakenBack, Still, Others, Predecessor
      <4> QED BY <3>2, <4>2 DEF Excused
    <3> QED BY <3>1, <3>2 DEF Excused
  <2>5. th[t].basis # NoClaim
    BY <1>0, <2>1, NamesDiffer DEF StageOK
  <2> QED BY <2>1, <2>4, <2>5 DEF ArtifactInv, UndoneOK
<1> QED BY <1>3, <1>7, <1>8, <1>9, <1>10, <1>11, <1>12, <1>13, Assembled

\* While the metadata locks are free, only the compensation of an image writes media.
LEMMA FreeMetadata ==
  ASSUME ArtifactInv, MetadataFree, NEW u \in Threads, InTransaction(u)
  PROVE  UndoesImage(u)
BY HoldsVersions, Kinds DEF MetadataFree

\* The finalizer writes the script's pointer, or fails because the resource is gone.
LEMMA WriteInv ==
  ASSUME ArtifactInv, NEW t \in Threads, WriteMetadata(t)
  PROVE  ArtifactInv'
<1> DEFINE r == Target[t]
<1>0. /\ th[t] \in Writers /\ StageOK(t) /\ LocksOK(t) /\ Typed /\ r \in Resources /\ faults' = faults
      /\ th[t].stage = "finalize" /\ MetadataFree /\ t \in PaidTasks /\ ~ InTransaction(t) /\ FileOK(t)
  BY Kinds DEF ArtifactInv, Typed, WriteMetadata, StageOK, InTransaction
<1>1. CASE ~ res[r].present /\ UndoOnLoop(t, FALSE) /\ UNCHANGED res
  <2>1. faults' \in Nat
    BY <1>0 DEF Typed
  <2> QED BY <1>0, <1>1, <2>1, OnLoopInv
<1>2. CASE /\ res[r].present
           /\ res' = [res EXCEPT ![r].meta = TRUE]
           /\ th' = [th EXCEPT ![t].step = "thumbnail"]
           /\ UNCHANGED own
  <2> DEFINE y == [th[t] EXCEPT !.step = "thumbnail"]
  <2>1. y \in Writers
    <3>1. "thumbnail" \in Steps
      BY DEF Steps
    <3> QED BY <1>0, <3>1 DEF Writers
  <2>2. /\ y.got = th[t].got /\ y.stage = th[t].stage /\ y.step = "thumbnail" /\ y.ver = th[t].ver
        /\ y.old = th[t].old /\ y.to = th[t].to /\ y.prior = th[t].prior /\ y.basis = th[t].basis
        /\ y.row = th[t].row /\ y.selected = th[t].selected /\ y.lost = th[t].lost
        /\ y.late = th[t].late /\ y.wroteLate = th[t].wroteLate /\ y.stuck = th[t].stuck /\ y.dropped = th[t].dropped
    BY <1>0 DEF Writers
  <2>3. th' = [th EXCEPT ![t] = y]
    BY <1>0, <1>2 DEF Typed
  <2> HIDE DEF y
  <2>4. th' \in [Threads -> Writers] /\ th'[t] = y /\ Others(t)
    BY <1>0, <2>1, <2>3, ThreadStep
  <2>5. \A q \in Resources : /\ res'[q].hist = res[q].hist /\ res'[q].cur = res[q].cur /\ res'[q].formal = res[q].formal
                             /\ res'[q].claim = res[q].claim /\ res'[q].present = res[q].present
                             /\ q # r => res'[q] = res[q]
    BY <1>0, <1>2 DEF Typed, Stored
  <2>6. Typed'
    <3>1. res' \in [Resources -> Stored]
      BY <1>0, <1>2, ZenonT(60) DEF Typed, Stored
    <3> QED BY <1>0, <1>2, <2>4, <3>1 DEF Typed
  <2>7. ~ InTransaction(t)'
    BY <1>0, <2>2, <2>4 DEF InTransaction
  <2>8. Still(t)
    <3>1. Ages(t)
      BY <1>0, <2>2, <2>4, Kinds DEF Ages
    <3>2. Writing \ {t} = {u \in Writing \ {t} : UndoesImage(u)}
      BY <1>0, FreeMetadata DEF Writing
    <3> QED BY <1>0, <2>4, <2>5, <2>7, <3>1, <3>2 DEF Still
  <2>9. StageOK(t)'
    BY <1>0, <2>2, <2>4 DEF StageOK
  <2>10. \A u \in Threads : LocksOK(u)'
    <3>1. Held(t)' = Held(t) /\ LockPlan(t)' = LockPlan(t)
      BY <2>2, <2>4 DEF Held, LockPlan
    <3>2. th'[t].got <= Len(LockPlan(t))' /\ \A l \in Locks \ {"loop"} : own'[l] = own[l]
      BY <1>0, <1>2, <2>2, <2>4, <3>1 DEF LocksOK
    <3> QED BY <2>4, <2>7, <3>1, <3>2, KeepLocks
  <2>11. \A q \in Resources : res'[q].meta => res'[q].present /\ (res[q].meta \/ res[q].formal # NoBytes)
    BY <1>0, <1>2, <2>5 DEF ArtifactInv, RestOK, FileOK
  <2> QED BY <1>0, <2>2, <2>4, <2>6, <2>8, <2>9, <2>10, <2>11, ScriptInv
<1> QED BY <1>1, <1>2 DEF WriteMetadata

\* The thread an interrupted finalizer left behind writes the pointer.
LEMMA LateInv ==
  ASSUME ArtifactInv, NEW t \in Threads, LateWrite(t)
  PROVE  ArtifactInv'
<1> DEFINE r == Target[t]
<1>0. /\ th[t] \in Writers /\ StageOK(t) /\ LocksOK(t) /\ Typed /\ r \in Resources /\ faults' = faults /\ own' = own
      /\ MetadataFree /\ t \in PaidTasks
      /\ res' = IF res[r].present THEN [res EXCEPT ![r].meta = TRUE] ELSE res
      /\ th' = [th EXCEPT ![t].late = FALSE, ![t].wroteLate = TRUE]
  BY Kinds DEF ArtifactInv, Typed, LateWrite, StageOK
<1>1. ~ InTransaction(t)
  BY <1>0, FreeMetadata, Kinds DEF UndoesImage
<1> DEFINE y == [th[t] EXCEPT !.late = FALSE, !.wroteLate = TRUE]
<1>2. y \in Writers
  <2>1. TRUE \in BOOLEAN /\ FALSE \in BOOLEAN
    OBVIOUS
  <2> QED BY <1>0, <2>1 DEF Writers
<1>3. /\ y.got = th[t].got /\ y.stage = th[t].stage /\ y.step = th[t].step /\ y.ver = th[t].ver
      /\ y.old = th[t].old /\ y.to = th[t].to /\ y.prior = th[t].prior /\ y.basis = th[t].basis
      /\ y.row = th[t].row /\ y.selected = th[t].selected /\ y.lost = th[t].lost
      /\ y.late = FALSE /\ y.wroteLate = TRUE /\ y.stuck = th[t].stuck /\ y.dropped = th[t].dropped
  BY <1>0 DEF Writers
<1>4. th' = [th EXCEPT ![t] = y]
  BY <1>0 DEF Typed
<1> HIDE DEF y
<1>5. th' \in [Threads -> Writers] /\ th'[t] = y /\ Others(t)
  BY <1>0, <1>2, <1>4, ThreadStep
<1>6. \A q \in Resources : /\ res'[q].hist = res[q].hist /\ res'[q].cur = res[q].cur /\ res'[q].formal = res[q].formal
                           /\ res'[q].claim = res[q].claim /\ res'[q].present = res[q].present
                           /\ q # r => res'[q] = res[q]
                           /\ ~ res[q].present => res'[q] = res[q]
  BY <1>0 DEF Typed, Stored
<1>7. Typed'
  <2>1. res' \in [Resources -> Stored]
    BY <1>0, ZenonT(60) DEF Typed, Stored
  <2> QED BY <1>0, <1>5, <2>1 DEF Typed
<1>8. ~ InTransaction(t)'
  BY <1>1, <1>3, <1>5 DEF InTransaction
<1>9. Still(t)
  <2>1. Ages(t)
    BY <1>0, <1>3, <1>5, Kinds DEF Ages
  <2>2. Writing \ {t} = {u \in Writing \ {t} : UndoesImage(u)}
    BY <1>0, FreeMetadata DEF Writing
  <2> QED BY <1>1, <1>5, <1>6, <1>8, <2>1, <2>2 DEF Still
<1>10. StageOK(t)'
  BY <1>0, <1>3, <1>5 DEF StageOK
<1>11. \A u \in Threads : LocksOK(u)'
  <2>1. Held(t)' = Held(t) /\ LockPlan(t)' = LockPlan(t)
    BY <1>3, <1>5 DEF Held, LockPlan
  <2>2. th'[t].got <= Len(LockPlan(t))' /\ \A l \in Locks \ {"loop"} : own'[l] = own[l]
    BY <1>0, <1>3, <1>5, <2>1 DEF LocksOK
  <2> QED BY <1>5, <1>8, <2>1, <2>2, KeepLocks
<1>12. \A q \in Resources : res'[q].meta => res'[q].present /\ (res[q].meta \/ LateOn(q)')
  <2>1. LateOn(r)'
    BY <1>0, <1>3, <1>5 DEF LateOn
  <2> QED BY <1>6, <2>1 DEF ArtifactInv, RestOK
<1> QED BY <1>1, <1>3, <1>5, <1>7, <1>9, <1>10, <1>11, <1>12, ScriptInv

\* An edit of the script.
LEMMA EditInv ==
  ASSUME ArtifactInv, NEW t \in Threads, EditScript(t)
  PROVE  ArtifactInv'
<1>0. /\ th[t] \in Writers /\ StageOK(t) /\ LocksOK(t) /\ Typed /\ faults' = faults /\ own' = own
      /\ MetadataFree /\ t \in Editors /\ th[t].stage = "idle" /\ th' = [th EXCEPT ![t].stage = "end"]
  BY DEF ArtifactInv, Typed, EditScript
<1>r. PICK r \in Resources : \E x \in Edits(res[r]) : res[r].present /\ res' = [res EXCEPT ![r] = x]
  BY DEF EditScript
<1>x. PICK x \in Edits(res[r]) : res[r].present /\ res' = [res EXCEPT ![r] = x]
  BY <1>r
<1>1. ~ InTransaction(t)
  BY <1>0 DEF InTransaction
<1> DEFINE y == [th[t] EXCEPT !.stage = "end"]
<1>2. y \in Writers
  <2>1. "end" \in Stages
    BY DEF Stages
  <2> QED BY <1>0, <2>1 DEF Writers
<1>3. /\ y.got = th[t].got /\ y.stage = "end" /\ y.step = th[t].step /\ y.ver = th[t].ver
      /\ y.old = th[t].old /\ y.to = th[t].to /\ y.prior = th[t].prior /\ y.basis = th[t].basis
      /\ y.row = th[t].row /\ y.selected = th[t].selected /\ y.lost = th[t].lost
      /\ y.late = th[t].late /\ y.wroteLate = th[t].wroteLate /\ y.stuck = th[t].stuck /\ y.dropped = th[t].dropped
  BY <1>0 DEF Writers
<1>4. th' = [th EXCEPT ![t] = y]
  BY <1>0 DEF Typed
<1> HIDE DEF y
<1>5. th' \in [Threads -> Writers] /\ th'[t] = y /\ Others(t)
  BY <1>0, <1>2, <1>4, ThreadStep
<1>6. /\ x \in Stored /\ x.hist = res[r].hist /\ x.cur = res[r].cur /\ x.formal = res[r].formal
      /\ x.claim \in {NoClaim, res[r].claim} /\ (x.meta => res[r].meta /\ x.present)
  <2>0. res[r] \in Stored /\ res[r].present /\ NoClaim \in Claims
    BY <1>0, <1>x DEF Typed, Claims
  <2>1. CASE x \in {[res[r] EXCEPT !.basis = b] : b \in Bases \ {res[r].basis}}
    BY <2>0, <2>1 DEF Stored
  <2>2. CASE x \in {[res[r] EXCEPT !.basis = b, !.claim = NoClaim] : b \in Bases}
    BY <2>0, <2>2 DEF Stored
  <2>3. CASE x = [res[r] EXCEPT !.present = FALSE, !.meta = FALSE, !.claim = NoClaim]
    BY <2>0, <2>3 DEF Stored
  <2> QED BY <1>x, <2>1, <2>2, <2>3 DEF Edits
<1>7. /\ res' \in [Resources -> Stored]
      /\ \A q \in Resources : /\ res'[q].hist = res[q].hist /\ res'[q].cur = res[q].cur /\ res'[q].formal = res[q].formal
                              /\ res'[q].claim \in {NoClaim, res[q].claim}
                              /\ (res'[q].meta => res[q].meta) /\ (res'[q].meta => res'[q].present)
  BY <1>0, <1>x, <1>6 DEF Typed, ArtifactInv, RestOK
<1>8. Typed'
  BY <1>0, <1>5, <1>7 DEF Typed
<1>9. ~ InTransaction(t)'
  BY <1>3, <1>5 DEF InTransaction
<1>10. Still(t)
  <2>1. Ages(t)
    BY <1>0, <1>3, <1>5, Kinds DEF Ages
  <2>2. Writing \ {t} = {u \in Writing \ {t} : UndoesImage(u)}
    BY <1>0, FreeMetadata DEF Writing
  <2> QED BY <1>1, <1>5, <1>7, <1>9, <2>1, <2>2 DEF Still
<1>11. StageOK(t)'
  BY <1>0, <1>3, <1>5, Kinds DEF StageOK
<1>12. \A u \in Threads : LocksOK(u)'
  <2>1. Held(t)' = {} /\ Held(t) = {} /\ LockPlan(t)' = LockPlan(t)
    BY <1>0, <1>3, <1>5 DEF Held, LockPlan
  <2>2. th'[t].got <= Len(LockPlan(t))' /\ \A l \in Locks \ {"loop"} : own'[l] = own[l]
    BY <1>0, <1>3, <1>5, <2>1 DEF LocksOK
  <2> QED BY <1>5, <1>9, <2>1, <2>2, KeepLocks
<1> QED BY <1>0, <1>1, <1>3, <1>5, <1>7, <1>8, <1>10, <1>11, <1>12, ScriptInv

-----------------------------------------------------------------------------
(* Transactions *)

\* The facts about the only transaction under way.
LEMMA MyTransaction ==
  ASSUME ArtifactInv, NEW t \in Threads, InTransaction(t)
  PROVE  /\ Writing = {t} /\ Target[t] \in Resources
         /\ th[t].old \in [Resources -> Stored] /\ th[t].to \in Goals /\ th[t].old[Target[t]] \in Stored
         /\ res[Target[t]] \in Stored /\ th[t] \in Writers
         /\ \A q \in Resources : /\ Hists(q) = {res[q].hist, th[t].old[q].hist}
                                 /\ q # Target[t] => Hists(q) = {res[q].hist} /\ Sels(q) = {res[q].cur} /\ Forms(q) = {res[q].formal}
         /\ Sels(Target[t]) = {res[Target[t]].cur, th[t].old[Target[t]].cur}
         /\ Forms(Target[t]) = {res[Target[t]].formal, th[t].old[Target[t]].formal}
<1>1. Writing = {t}
  <2>1. t \in Writing
    BY DEF Writing
  <2> QED BY <2>1, OneWriter
<1>2. FrameOK(t) /\ Target[t] \in Resources /\ res[Target[t]] \in Stored /\ th[t] \in Writers
  BY Kinds DEF ArtifactInv, Typed
<1>3. /\ th[t].old \in [Resources -> Stored] /\ th[t].to \in Goals /\ th[t].old[Target[t]] \in Stored
      /\ \A q \in Resources \ {Target[t]} : res[q].hist = th[t].old[q].hist
  BY <1>2 DEF FrameOK
<1>4. ASSUME NEW q \in Resources
      PROVE  /\ Hists(q) = {res[q].hist, th[t].old[q].hist}
             /\ q # Target[t] => Hists(q) = {res[q].hist} /\ Sels(q) = {res[q].cur} /\ Forms(q) = {res[q].formal}
  BY <1>1, <1>3 DEF Hists, Sels, Forms
<1>5. /\ Sels(Target[t]) = {res[Target[t]].cur, th[t].old[Target[t]].cur}
      /\ Forms(Target[t]) = {res[Target[t]].formal, th[t].old[Target[t]].formal}
  BY <1>1 DEF Sels, Forms
<1> QED BY <1>1, <1>2, <1>3, <1>4, <1>5

\* Both histories of a transaction agree on what was recorded before it.
LEMMA SamePrefix ==
  ASSUME ArtifactInv, NEW t \in Threads, InTransaction(t)
  PROVE  /\ res[Target[t]].hist \in {th[t].old[Target[t]].hist, th[t].to.hist}
         /\ \A v \in 1..Len(th[t].old[Target[t]].hist) :
              /\ res[Target[t]].hist[v] = th[t].old[Target[t]].hist[v]
              /\ th[t].to.hist[v] = th[t].old[Target[t]].hist[v]
<1>1. FrameOK(t) /\ GoalOK(t)
  BY DEF ArtifactInv
<1>2. res[Target[t]].hist \in {th[t].old[Target[t]].hist, th[t].to.hist}
  BY <1>1 DEF FrameOK, InTransaction
<1> QED BY <1>1, <1>2 DEF GoalOK, Continues

\* Without transactions there is one history, one selection and one file.
LEMMA NoTransaction ==
  ASSUME Writing = {}, NEW q \in Resources
  PROVE  Hists(q) = {res[q].hist} /\ Sels(q) = {res[q].cur} /\ Forms(q) = {res[q].formal}
BY DEF Hists, Sels, Forms

\* A transaction that selects the version of another task has the excuse for it.
LEMMA TakesOver ==
  ASSUME ArtifactInv, NEW t \in Threads, InTransaction(t), Others(t), NEW u \in Tasks \ {t}, Target[u] = Target[t],
         th[u].selected, th[u].ver = th[t].to.cur, th'[t].ver = th[t].ver,
         th[t].stage = "undo" => /\ th'[t].selected /\ th'[t].stage \in {"undo", "fail"} /\ th'[t].row # "succeeded"
                                 /\ res'[Target[t]].hist = th[t].to.hist
  PROVE  Excused(u)'
<1> DEFINE r == Target[t]
           o == th[t].old[r].hist
<1>0. /\ u \in Threads /\ th'[u] = th[u] /\ GoalOK(t) /\ StageOK(t) /\ CarriedOK(u) /\ o \in Hists(r)
      /\ th[t].stage \in {"commit", "undo"}
  <2>1. u \in Threads
    BY DEF Threads
  <2>2. o \in Hists(r)
    BY MyTransaction
  <2> QED BY <2>1, <2>2 DEF Others, ArtifactInv, InTransaction
<1>1. CASE th[t].stage = "undo"
  <2>1. t \in Tasks /\ th[t].to.cur = th[t].to.hist[th[t].ver].prev
    BY <1>0, <1>1 DEF GoalOK, StageOK
  <2>2. TakenBack(t, th[u].ver)'
    BY <1>0, <1>1, <2>1 DEF TakenBack, Predecessor
  <2> QED BY <1>0, <2>1, <2>2 DEF Excused
<1>2. CASE t \in Restorers /\ th[t].stage = "commit"
  <2>1. th[t].to.cur = th[t].ver
    BY <1>2 DEF ArtifactInv, GoalOK
  <2> QED BY <1>0, <1>2, <2>1 DEF Excused
<1>3. CASE t \notin Restorers /\ th[t].stage = "commit"
  <2>1. th[t].to.cur = th[t].ver /\ th[t].to.hist[th[t].ver].bytes = t
    BY <1>0, <1>3 DEF GoalOK
  <2>2. th[u].ver \in 1..Len(o) /\ o[th[u].ver].bytes = u
    BY <1>0, ZenonT(60) DEF CarriedOK, Carries
  <2>3. th[t].to.hist[th[u].ver] = o[th[u].ver]
    BY <2>2, SamePrefix
  <2> QED BY <2>1, <2>2, <2>3, ZenonT(60)
<1> QED BY <1>0, <1>1, <1>2, <1>3

\* A transaction ends, with what it wrote or with what it started from.
LEMMA CloseInv ==
  ASSUME ArtifactInv, NEW t \in Threads, InTransaction(t), Typed', Others(t), ~ InTransaction(t)',
         StageOK(t)', \A u \in Threads : LocksOK(u)',
         th'[t].ver = th[t].ver, th'[t].basis = th[t].basis, th'[t].prior = th[t].prior, th'[t].row = th[t].row,
         th'[t].lost = th[t].lost, th'[t].wroteLate = th[t].wroteLate, th[t].selected => th'[t].selected,
         th[t].stage = "undo" => th'[t].stage = "fail", th'[t].stage \notin {"idle", "commit", "undo"},
         \A q \in Resources \ {Target[t]} : res'[q] = res[q],
         res'[Target[t]].hist \in {res[Target[t]].hist, th[t].old[Target[t]].hist},
         res'[Target[t]].cur \in {res[Target[t]].cur, th[t].old[Target[t]].cur},
         res'[Target[t]].formal \in {res[Target[t]].formal, th[t].old[Target[t]].formal},
         \A u \in Tasks \ {t} : Target[u] = Target[t] /\ th[u].selected /\ th[u].ver = res'[Target[t]].cur =>
            Excused(u)' \/ res'[Target[t]].claim \in {NoClaim, res[Target[t]].claim},
         Sound(res'[Target[t]]), Points(res[Target[t]], Target[t])', res'[Target[t]].meta => res'[Target[t]].present,
         t \in Tasks /\ th'[t].selected => th[t].selected \/ (th[t].stage = "commit" /\ res'[Target[t]].hist = th[t].to.hist),
         th'[t].stage = "finalize" => res'[Target[t]].formal # NoBytes,
         UndoneOK(t)'
  PROVE  ArtifactInv'
<1> DEFINE r == Target[t]
<1>0. /\ r \in Resources /\ StageOK(t) /\ th[t] \in Writers /\ th[t].ver \in Nat
      /\ CarriedOK(t) /\ KeptOK(t) /\ FrameOK(t) /\ th[t].stage \in {"commit", "undo"}
  BY Kinds DEF ArtifactInv, Typed, Writers, InTransaction
<1>1. Writing' = {}
  <2>1. Writing = {t}
    BY MyTransaction
  <2> QED BY <2>1 DEF Writing, Others, InTransaction
<1>2. \A q \in Resources : /\ Hists(q)' = {res'[q].hist} /\ Sels(q)' = {res'[q].cur} /\ Forms(q)' = {res'[q].formal}
                           /\ res'[q].hist \in Hists(q) /\ res'[q].cur \in Sels(q) /\ res'[q].formal \in Forms(q)
  <2>1. \A q \in Resources : Hists(q)' = {res'[q].hist} /\ Sels(q)' = {res'[q].cur} /\ Forms(q)' = {res'[q].formal}
    BY <1>1 DEF Hists, Sels, Forms
  <2>2. ASSUME NEW q \in Resources PROVE res'[q].hist \in Hists(q) /\ res'[q].cur \in Sels(q) /\ res'[q].formal \in Forms(q)
    <3>1. CASE q = r
      <4>1. Hists(r) = {res[r].hist, th[t].old[r].hist}
        BY <1>0, MyTransaction
      <4>2. Sels(r) = {res[r].cur, th[t].old[r].cur} /\ Forms(r) = {res[r].formal, th[t].old[r].formal}
        BY MyTransaction
      <4> QED BY <3>1, <4>1, <4>2
    <3>2. CASE q # r
      <4>1. Hists(q) = {res[q].hist} /\ Sels(q) = {res[q].cur} /\ Forms(q) = {res[q].formal}
        BY <3>2, MyTransaction
      <4> QED BY <3>2, <4>1
    <3> QED BY <3>1, <3>2
  <2> QED BY <2>1, <2>2
<1>3. \A q \in Resources : \A h \in Hists(q)' : h \in Hists(q) /\ h \in Seq(Record) /\ HistOK(h) /\ Continues(h, h)
  BY <1>2, HistsOK, ContinuesItself
<1>4. HistStep
  <2>1. ASSUME NEW q \in Resources, NEW v \in Nat \ {0}, \A h \in Hists(q) : v <= Len(h)
        PROVE  res'[q].hist[v] = res[q].hist[v]
    <3>1. CASE q = r
      <4>0. th[t].old[r].hist \in Seq(Record)
        BY MyTransaction DEF Stored
      <4>1. v \in 1..Len(th[t].old[r].hist)
        BY <2>1, <3>1, <4>0, MyTransaction
      <4> QED BY <3>1, <4>1, SamePrefix
    <3> QED BY <3>1
  <2> QED BY <1>3, <2>1 DEF HistStep
<1>5. Ages(t)
  BY <1>0, Kinds DEF Ages, StageOK
<1>6. Calm(t)
  BY MyTransaction DEF Calm
<1>7. FormStep(t)
  BY <1>2 DEF FormStep
<1>8. SelStep(t)
  <2> SUFFICES ASSUME NEW u \in Tasks \ {t}, th[u].selected, th[u].ver \in Sels(Target[u])'
               PROVE  \/ Excused(u)'
                      \/ th[u].ver \in Sels(Target[u]) /\ res'[Target[u]].claim \in {NoClaim, res[Target[u]].claim}
    BY DEF SelStep
  <2>1. Target[u] \in Resources
    BY Kinds DEF Threads
  <2>2. th[u].ver = res'[Target[u]].cur /\ th[u].ver \in Sels(Target[u])
    BY <1>2, <2>1
  <2> QED BY <2>1, <2>2
<1>9. Aside(t)
  BY <1>4, <1>5, <1>6, <1>7, <1>8 DEF Aside
<1>10. \A q : LateOn(q) => LateOn(q)'
  BY <1>5, LateStays
<1>11. ASSUME NEW q \in Resources PROVE RestOK(q)'
  <2>1. CASE q = r
    <3>1. Sound(res[r])'
      BY DEF Sound
    <3> QED BY <2>1, <3>1 DEF RestOK
  <2>2. CASE q # r
    <3>1. AtRest(q)
      BY <2>2, MyTransaction DEF AtRest, Writing
    <3>2. RestOK(q) /\ res'[q] = res[q]
      BY <2>2 DEF ArtifactInv
    <3> QED BY <1>10, <3>1, <3>2 DEF RestOK, Points, Sound
  <2> QED BY <2>1, <2>2
<1>12. FrameOK(t)' /\ GoalOK(t)' /\ FreshOK(t)' /\ RestoreOK(t)'
  BY DEF FrameOK, GoalOK, FreshOK, RestoreOK
<1>13. CarriedOK(t)'
  <2> SUFFICES ASSUME t \in Tasks, th'[t].selected, NEW h \in Hists(r)' PROVE Carries(t, h)'
    BY DEF CarriedOK
  <2>1. h \in Hists(r) /\ h \in Seq(Record) /\ HistOK(h) /\ Continues(h, h)
    BY <1>0, <1>3
  <2>2. Carries(t, h)
    <3>1. CASE th[t].selected
      BY <1>0, <2>1, <3>1 DEF CarriedOK
    <3>2. CASE th[t].stage = "commit" /\ res'[r].hist = th[t].to.hist
      <4>1. h = th[t].to.hist
        BY <1>0, <1>2, <3>2
      <4> QED BY <1>0, <3>2, <4>1 DEF CarriedOK
    <3> QED BY <3>1, <3>2
  <2> QED BY <1>0, <1>10, <2>1, <2>2, CarriesOn
<1>14. KeptOK(t)'
  <2>1. Delivered(t)' => Delivered(t)
    BY DEF Delivered
  <2> QED BY <1>0, <1>3, <2>1 DEF KeptOK
<1>15. FileOK(t)'
  BY <1>1 DEF FileOK, Writing
<1> QED BY <1>3, <1>9, <1>11, <1>12, <1>13, <1>14, <1>15, Assembled

\* What the manifest is told is what the record of the selected version says.
LEMMA ClaimOfRecord ==
  ASSUME ArtifactInv, NEW t \in Threads, InTransaction(t), th[t].stage = "commit", th[t].step = "register"
  PROVE  /\ res[Target[t]].hist = th[t].to.hist /\ res[Target[t]].cur = th[t].to.cur /\ res[Target[t]].formal = th[t].to.bytes
         /\ th[t].to.cur = th[t].ver /\ th[t].ver \in 1..Len(th[t].to.hist)
         /\ th[t].to.bytes = th[t].to.hist[th[t].ver].bytes /\ th[t].to.bytes # NoBytes
         /\ CommittedClaim(t) \in Claims
         /\ CommittedClaim(t) \in {NoClaim, th[t].to.hist[th[t].ver].basis}
<1> DEFINE r == Target[t]
<1>0. FrameOK(t) /\ GoalOK(t) /\ th[t] \in Writers /\ r \in Resources /\ th[t].to \in Goals
  BY Kinds, MyTransaction DEF ArtifactInv, Typed
<1>1. res[r].hist = th[t].to.hist /\ res[r].cur = th[t].to.cur /\ res[r].formal = th[t].to.bytes
  BY <1>0 DEF FrameOK
<1>2. /\ th[t].to.cur = th[t].ver /\ th[t].ver \in 1..Len(th[t].to.hist)
      /\ th[t].to.bytes = th[t].to.hist[th[t].ver].bytes /\ HistOK(th[t].to.hist) /\ th[t].to.hist \in Seq(Record)
  <2>1. th[t].to.hist \in Seq(Record)
    BY <1>0 DEF Goals
  <2>2. Len(th[t].to.hist) \in Nat
    BY <2>1
  <2> QED BY <1>0, <2>1, <2>2 DEF GoalOK
<1>3. th[t].to.bytes # NoBytes
  BY <1>2 DEF HistOK
<1>4. th[t].to.hist[th[t].ver].basis \in Claims
  <2>1. th[t].to.hist[th[t].ver] \in Record
    BY <1>2
  <2> QED BY <2>1 DEF Record, Claims
<1>5. CommittedClaim(t) \in {NoClaim, th[t].to.hist[th[t].ver].basis}
  <2>1. CASE t \in Uploaders
    BY <2>1 DEF CommittedClaim
  <2>2. CASE t \in Restorers
    BY <1>1, <2>2 DEF CommittedClaim, RestoredClaim
  <2>3. CASE t \notin Uploaders /\ t \notin Restorers
    BY <1>0, <2>3 DEF CommittedClaim, GoalOK
  <2> QED BY <2>1, <2>2, <2>3
<1> QED BY <1>1, <1>2, <1>3, <1>4, <1>5 DEF Claims

\* The selection is registered.
LEMMA RegisterInv ==
  ASSUME ArtifactInv, NEW t \in Threads, Register(t)
  PROVE  ArtifactInv'
<1> DEFINE r == Target[t]
<1>0. /\ th[t].stage = "commit" /\ th[t].step = "register" /\ InTransaction(t) /\ ~ UndoesImage(t)
      /\ r \in Resources /\ StageOK(t) /\ FrameOK(t) /\ th[t] \in Writers /\ Typed /\ faults' = faults
      /\ res' = [res EXCEPT ![r].claim = CommittedClaim(t)]
  BY Kinds DEF Register, At, InTransaction, UndoesImage, ArtifactInv, Typed
<1>1. /\ res' \in [Resources -> Stored] /\ \A q \in Resources \ {r} : res'[q] = res[q]
      /\ res'[r].hist = res[r].hist /\ res'[r].cur = res[r].cur /\ res'[r].formal = res[r].formal
      /\ res'[r].meta = res[r].meta /\ res'[r].present = res[r].present /\ res'[r].claim = CommittedClaim(t)
  BY <1>0, ClaimOfRecord DEF Typed, Stored
<1>2. Sound(res'[r]) /\ res'[r].formal # NoBytes
  <2>1. HistOK(th[t].to.hist) /\ th[t].to.hist \in Seq(Record)
    BY <1>0, MyTransaction DEF ArtifactInv, GoalOK, Goals
  <2>2. Len(th[t].to.hist) \in Nat
    BY <2>1
  <2> QED BY <1>0, <1>1, <2>1, <2>2, ClaimOfRecord, SMTT(40) DEF Sound
<1>3. ASSUME NEW y \in Writers, th' = [th EXCEPT ![t] = y], y.stage \in {"finalize", "gate", "end"},
             y.step = (IF y.stage = "finalize" THEN "write" ELSE "begin"), y.got = 0, y.selected = TRUE,
             y.ver = th[t].ver, y.prior = th[t].prior, y.basis = th[t].basis, y.row = th[t].row, y.late = th[t].late,
             y.wroteLate = th[t].wroteLate, y.lost = th[t].lost, y.stuck = th[t].stuck /\ y.dropped = th[t].dropped,
             y.stage = "finalize" => t \in PaidTasks, y.stage = "gate" => t \in Tasks, y.stage = "end" => t \notin Tasks,
             y.stage = "finalize" => ReleaseInner(t), y.stage # "finalize" => ReleaseAll(t)
      PROVE  ArtifactInv'
  <2>1. th' \in [Threads -> Writers] /\ th'[t] = y /\ Others(t)
    BY <1>0, <1>3, ThreadStep
  <2>2. Typed'
    <3>1. own' \in [Locks -> Threads \cup {NoThread}]
      BY <1>0, <1>3 DEF Typed, ReleaseAll, ReleaseInner
    <3> QED BY <1>0, <1>1, <2>1, <3>1 DEF Typed
  <2>3. ~ InTransaction(t)'
    BY <1>3, <2>1 DEF InTransaction
  <2>4. StageOK(t)'
    BY <1>0, <1>3, <2>1, Kinds DEF StageOK
  <2>5. \A u \in Threads : LocksOK(u)'
    <3>1. CASE y.stage = "finalize"
      <4>1. own[r] = t
        BY <1>0, <1>3, <3>1, HoldsVersions
      <4> QED BY <1>3, <2>1, <3>1, <4>1, KeepGuardOnly
    <3>2. CASE y.stage # "finalize"
      BY <1>3, <2>1, <3>2, DropLocks
    <3> QED BY <3>1, <3>2
  <2>6. UndoneOK(t)'
    BY <1>3, <2>1 DEF UndoneOK
  <2>7. ASSUME NEW u \in Tasks \ {t}, Target[u] = r, th[u].selected, th[u].ver = res'[r].cur PROVE Excused(u)'
    BY <1>0, <1>1, <1>3, <2>1, <2>7, ClaimOfRecord, TakesOver
  <2>8. Points(res[r], r)' /\ (res'[r].meta => res'[r].present)
    BY <1>0, <1>1, <1>2 DEF Points, ArtifactInv, RestOK
  <2>9. t \in Tasks /\ th'[t].selected => th[t].selected \/ (th[t].stage = "commit" /\ res'[r].hist = th[t].to.hist)
    BY <1>0, <1>1, ClaimOfRecord
  <2>10. th'[t].stage \notin {"idle", "commit", "undo"} /\ (th[t].stage = "undo" => th'[t].stage = "fail")
    BY <1>0, <1>3, <2>1
  <2> QED BY <1>0, <1>1, <1>2, <1>3, <2>1, <2>2, <2>3, <2>4, <2>5, <2>6, <2>7, <2>8, <2>9, <2>10, CloseInv
<1>4. ASSUME NEW s \in {"finalize", "gate", "end"}, NEW p \in Steps,
             th' = [th EXCEPT ![t] = [[Leave(t, s) EXCEPT !.step = p] EXCEPT !.selected = TRUE]],
             p = (IF s = "finalize" THEN "write" ELSE "begin"),
             s = "finalize" => t \in PaidTasks, s = "gate" => t \in Tasks, s = "end" => t \notin Tasks,
             s = "finalize" => ReleaseInner(t), s # "finalize" => ReleaseAll(t)
      PROVE  ArtifactInv'
  <2> DEFINE x == Leave(t, s)
             y == [[x EXCEPT !.step = p] EXCEPT !.selected = TRUE]
  <2>0. s \in Stages /\ TRUE \in BOOLEAN
    BY DEF Stages
  <2>1. /\ x \in Writers /\ x.stage = s /\ x.step = "begin" /\ x.got = 0 /\ x.ver = th[t].ver /\ x.prior = th[t].prior
        /\ x.basis = th[t].basis /\ x.row = th[t].row /\ x.late = th[t].late
        /\ x.wroteLate = th[t].wroteLate /\ x.lost = th[t].lost /\ x.stuck = th[t].stuck /\ x.dropped = th[t].dropped
    BY <1>0, <2>0, LeaveFields
  <2>2. th' = [th EXCEPT ![t] = y]
    BY <1>4
  <2> HIDE DEF x
  <2>3. y \in Writers
    BY <2>0, <2>1 DEF Writers
  <2>4. /\ y.stage = s /\ y.step = p /\ y.got = 0 /\ y.selected = TRUE
        /\ y.ver = th[t].ver /\ y.prior = th[t].prior /\ y.basis = th[t].basis /\ y.row = th[t].row /\ y.late = th[t].late
        /\ y.wroteLate = th[t].wroteLate /\ y.lost = th[t].lost /\ y.stuck = th[t].stuck /\ y.dropped = th[t].dropped
    BY <2>1 DEF Writers
  <2> HIDE DEF y
  <2> QED BY <1>3, <1>4, <2>2, <2>3, <2>4
<1>5. "write" \in Steps /\ "begin" \in Steps
  BY DEF Steps
<1>6. \A s : th[t] \in Writers /\ s \in Stages => Leave(t, s).step = "begin" /\ Leave(t, s) \in Writers
  BY LeaveFields
<1>7. CASE t \in PaidTasks /\ ReleaseInner(t)
           /\ th' = [th EXCEPT ![t] = [Leave(t, "finalize") EXCEPT !.step = "write", !.selected = TRUE]]
  <2>1. [Leave(t, "finalize") EXCEPT !.step = "write", !.selected = TRUE]
        = [[Leave(t, "finalize") EXCEPT !.step = "write"] EXCEPT !.selected = TRUE]
    OBVIOUS
  <2> QED BY <1>4, <1>5, <1>7, <2>1
<1>8. CASE t \in ImageTasks /\ ReleaseAll(t) /\ th' = [th EXCEPT ![t] = [Leave(t, "gate") EXCEPT !.selected = TRUE]]
  <2>0. "gate" \in Stages
    BY DEF Stages
  <2> DEFINE x == Leave(t, "gate")
  <2>1. x \in Writers /\ x.step = "begin"
    BY <1>0, <1>6, <2>0
  <2> HIDE DEF x
  <2>2. [x EXCEPT !.step = "begin"] = x
    BY <2>1 DEF Writers
  <2>3. th' = [th EXCEPT ![t] = [[x EXCEPT !.step = "begin"] EXCEPT !.selected = TRUE]]
    BY <1>8, <2>2 DEF x
  <2>4. t \in Tasks
    BY <1>8, Kinds
  <2> QED BY <1>4, <1>5, <1>8, <2>3, <2>4 DEF x
<1>9. CASE t \notin Tasks /\ ReleaseAll(t) /\ th' = [th EXCEPT ![t] = [Leave(t, "end") EXCEPT !.selected = TRUE]]
  <2>0. "end" \in Stages
    BY DEF Stages
  <2> DEFINE x == Leave(t, "end")
  <2>1. x \in Writers /\ x.step = "begin"
    BY <1>0, <1>6, <2>0
  <2> HIDE DEF x
  <2>2. [x EXCEPT !.step = "begin"] = x
    BY <2>1 DEF Writers
  <2>3. th' = [th EXCEPT ![t] = [[x EXCEPT !.step = "begin"] EXCEPT !.selected = TRUE]]
    BY <1>9, <2>2 DEF x
  <2> QED BY <1>4, <1>5, <1>9, <2>3 DEF x
<1> QED BY <1>7, <1>8, <1>9 DEF Register

\* A compensation ends: the version before is selected again, with its own claim.
LEMMA TakenBackInv ==
  ASSUME ArtifactInv, NEW t \in Threads, At(t, "undo", "register"), t \in Tasks,
         res' \in [Resources -> Stored], \A q \in Resources \ {Target[t]} : res'[q] = res[q],
         res'[Target[t]].hist = res[Target[t]].hist, res'[Target[t]].cur = res[Target[t]].cur,
         res'[Target[t]].formal = res[Target[t]].formal, res'[Target[t]].present = res[Target[t]].present,
         \/ res'[Target[t]].claim = th[t].prior.claim
         \/ res'[Target[t]].claim = res[Target[t]].claim /\ ~ ClaimIsMine(t),
         res'[Target[t]].meta => res[Target[t]].meta,
         t \in ImageTasks /\ res'[Target[t]].meta => th[t].prior.meta,
         th' = [th EXCEPT ![t] = Leave(t, "fail")], ReleaseAll(t), faults' = faults
  PROVE  ArtifactInv'
<1> DEFINE r == Target[t]
           h == th[t].to.hist
           y == Leave(t, "fail")
<1>0. /\ th[t].stage = "undo" /\ th[t].step = "register" /\ InTransaction(t)
      /\ r \in Resources /\ StageOK(t) /\ FrameOK(t) /\ GoalOK(t) /\ CarriedOK(t) /\ th[t] \in Writers /\ Typed
  BY Kinds DEF At, InTransaction, ArtifactInv, Typed
<1>1. /\ res[r].hist = h /\ res[r].cur = th[t].to.cur /\ res[r].formal = th[t].to.bytes /\ h = th[t].old[r].hist
      /\ h \in Seq(Record) /\ HistOK(h) /\ Len(h) \in Nat /\ th[t].ver \in 1..Len(h)
      /\ th[t].to.cur = h[th[t].ver].prev /\ th[t].old[r].cur = th[t].ver
      /\ \/ th[t].to.cur = 0 /\ th[t].to.bytes = NoBytes
         \/ th[t].to.cur \in 1..Len(h) /\ th[t].to.bytes = h[th[t].to.cur].bytes
  <2>1. h \in Seq(Record)
    BY <1>0, MyTransaction DEF Goals
  <2>2. Len(h) \in Nat
    BY <2>1
  <2> QED BY <1>0, <2>1, <2>2 DEF FrameOK, GoalOK
<1>2. Carries(t, h)
  <2>1. h \in Hists(r)
    BY <1>0, <1>1, MyTransaction, ZenonT(60)
  <2> QED BY <1>0, <2>1 DEF CarriedOK, StageOK
<1>3. res'[r].claim = th[t].prior.claim \/ res'[r].claim = NoClaim
  <2> SUFFICES ASSUME res'[r].claim = res[r].claim, ~ ClaimIsMine(t) PROVE res[r].claim = NoClaim
    OBVIOUS
  <2>1. res[r].claim \in {NoClaim, th[t].old[r].claim} /\ Sound(th[t].old[r])
    BY <1>0 DEF FrameOK
  <2>2. th[t].old[r].claim \in {NoClaim, th[t].basis}
    BY <1>1, <1>2, <2>1, ZenonT(60) DEF Sound, Carries
  <2> QED BY <2>1, <2>2 DEF ClaimIsMine
<1>a. th[t].to.cur \in Nat /\ th[t].to.cur < th[t].ver /\ th[t].ver \in Nat
  <2>1. h \in Seq(Record) /\ HistOK(h) /\ th[t].ver \in 1..Len(h) /\ th[t].to.cur = h[th[t].ver].prev
    BY <1>1, ZenonT(60)
  <2> HIDE DEF h
  <2>2. h[th[t].ver].prev \in Nat /\ h[th[t].ver].prev < th[t].ver /\ th[t].ver \in Nat
    BY <2>1, RecordAt
  <2> QED BY <2>1, <2>2
<1>4. Sound(res'[r])
  <2>1. th[t].to.cur = 0 => th[t].prior.claim = NoClaim
    BY <1>1, <1>2 DEF Carries
  <2>2. th[t].to.cur # 0 => th[t].prior.claim \in {NoClaim, h[th[t].to.cur].basis}
    BY <1>1, <1>2, ZenonT(60) DEF Carries
  <2>3. th[t].to.cur <= Len(h)
    <3>1. Len(h) \in Nat /\ th[t].ver \in 1..Len(h)
      BY <1>1, ZenonT(60)
    <3> HIDE DEF h
    <3> QED BY <1>a, <3>1
  <2>4. res'[r].hist = h /\ res'[r].cur = th[t].to.cur /\ res'[r].formal = th[t].to.bytes
    BY <1>1, ZenonT(60)
  <2>5. th[t].to.cur # 0 => th[t].to.bytes = h[th[t].to.cur].bytes
    BY <1>1
  <2> QED BY <1>1, <1>3, <2>1, <2>2, <2>3, <2>4, <2>5, ZenonT(60) DEF Sound
<1>5. /\ y \in Writers /\ y.stage = "fail" /\ y.step = "begin" /\ y.got = 0 /\ y.ver = th[t].ver /\ y.prior = th[t].prior
      /\ y.basis = th[t].basis /\ y.row = th[t].row /\ y.selected = th[t].selected /\ y.late = th[t].late
      /\ y.wroteLate = th[t].wroteLate /\ y.lost = th[t].lost
  <2>1. "fail" \in Stages
    BY DEF Stages
  <2> QED BY <1>0, <2>1, LeaveFields
<1>6. th' = [th EXCEPT ![t] = y]
  OBVIOUS
<1> HIDE DEF y
<1>7. th' \in [Threads -> Writers] /\ th'[t] = y /\ Others(t)
  BY <1>0, <1>5, <1>6, ThreadStep
<1>8. Typed'
  <2>1. own' \in [Locks -> Threads \cup {NoThread}]
    BY <1>0 DEF Typed, ReleaseAll
  <2> QED BY <1>0, <1>7, <2>1 DEF Typed
<1>9. ~ InTransaction(t)'
  BY <1>5, <1>7 DEF InTransaction
<1>10. StageOK(t)'
  BY <1>0, <1>5, <1>7, Kinds DEF StageOK
<1>11. \A u \in Threads : LocksOK(u)'
  BY <1>5, <1>7, DropLocks
<1>12. UndoneOK(t)'
  <2>1. Writing' = {}
    BY <1>0, <1>7, <1>9, MyTransaction DEF Writing, Others, InTransaction
  <2>2. Sels(r)' = {res[r].cur}
    BY <2>1 DEF Sels
  <2>3. th[t].ver # res[r].cur
    <3>1. res[r].cur = th[t].to.cur
      BY <1>1, ZenonT(60)
    <3> QED BY <1>a, <3>1
  <2> QED BY <1>5, <1>7, <2>2, <2>3 DEF UndoneOK
<1>13. ASSUME NEW u \in Tasks \ {t}, Target[u] = r, th[u].selected, th[u].ver = res'[r].cur PROVE Excused(u)'
  <2>1. th[u].ver = th[t].to.cur /\ th'[t].row # "succeeded" /\ res'[r].hist = h
    BY <1>0, <1>1, <1>5, <1>7, <1>13, ZenonT(60) DEF StageOK
  <2>2. th'[t].selected /\ th'[t].stage = "fail" /\ th'[t].ver = th[t].ver
    BY <1>0, <1>5, <1>7 DEF StageOK
  <2> QED BY <1>0, <1>7, <1>13, <2>1, <2>2, TakesOver
<1>14. Points(res[r], r)' /\ (res'[r].meta => res'[r].present)
  <2>0. res[r].meta => res[r].present
    BY <1>0 DEF ArtifactInv, RestOK
  <2>1. ASSUME res'[r].meta, res'[r].formal = NoBytes PROVE LateOn(r)
    <3>1. th[t].to.cur = 0
      BY <1>1, <2>1, ZenonT(60) DEF HistOK
    <3>2. CASE t \in PaidTasks
      BY <1>0, <2>1, <3>1, <3>2 DEF GoalOK
    <3>3. CASE t \in ImageTasks
      BY <1>1, <1>2, <2>1, <3>1, <3>3 DEF Carries
    <3> QED BY <3>2, <3>3 DEF Tasks
  <2>2. LateOn(r) => LateOn(r)'
    <3>1. Ages(t)
      BY <1>0, <1>5, <1>7, Kinds DEF Ages, StageOK
    <3> QED BY <1>7, <3>1, LateStays
  <2> QED BY <2>0, <2>1, <2>2 DEF Points
<1>15. th'[t].stage \notin {"idle", "commit", "undo"} /\ th'[t].stage = "fail" /\ th'[t].stage # "finalize"
  BY <1>5, <1>7
<1>16. t \in Tasks /\ th'[t].selected => th[t].selected
  BY <1>5, <1>7
<1> QED BY <1>0, <1>4, <1>5, <1>7, <1>8, <1>9, <1>10, <1>11, <1>12, <1>13, <1>14, <1>15, <1>16, CloseInv

LEMMA UnregisterInv ==
  ASSUME ArtifactInv, NEW t \in Threads, UnregisterVideo(t) \/ UnregisterImage(t)
  PROVE  ArtifactInv'
<1> DEFINE r == Target[t]
<1>0. /\ r \in Resources /\ res[r] \in Stored /\ Typed /\ th[t].prior.claim \in Claims /\ th[t].prior.meta \in BOOLEAN
      /\ (res[r].meta => res[r].present)
  BY Kinds DEF ArtifactInv, Typed, Writers, RestOK
<1>1. CASE UnregisterVideo(t)
  <2>1. /\ t \in PaidTasks /\ At(t, "undo", "register") /\ res' = [res EXCEPT ![r].claim = th[t].prior.claim]
        /\ th' = [th EXCEPT ![t] = Leave(t, "fail")] /\ ReleaseAll(t) /\ faults' = faults
    BY <1>1 DEF UnregisterVideo
  <2>2. /\ res' \in [Resources -> Stored] /\ \A q \in Resources \ {r} : res'[q] = res[q]
        /\ res'[r].hist = res[r].hist /\ res'[r].cur = res[r].cur /\ res'[r].formal = res[r].formal
        /\ res'[r].meta = res[r].meta /\ res'[r].present = res[r].present /\ res'[r].claim = th[t].prior.claim
    BY <1>0, <2>1 DEF Typed, Stored
  <2>3. t \in Tasks /\ t \notin ImageTasks
    BY <2>1, Kinds
  <2> QED BY <2>1, <2>2, <2>3, TakenBackInv
<1>2. CASE UnregisterImage(t)
  <2> DEFINE m == IF res[r].present /\ res[r].meta THEN th[t].prior.meta ELSE res[r].meta
             c == IF ClaimIsMine(t) THEN th[t].prior.claim ELSE res[r].claim
  <2>1. /\ t \in ImageTasks /\ At(t, "undo", "register") /\ res' = [res EXCEPT ![r].meta = m, ![r].claim = c]
        /\ th' = [th EXCEPT ![t] = Leave(t, "fail")] /\ ReleaseAll(t) /\ faults' = faults
    BY <1>2 DEF UnregisterImage
  <2>2. m \in BOOLEAN /\ c \in Claims /\ (m => res[r].meta) /\ (m => th[t].prior.meta)
        /\ (c = th[t].prior.claim \/ (c = res[r].claim /\ ~ ClaimIsMine(t)))
    BY <1>0 DEF Stored
  <2> HIDE DEF m, c
  <2>3. /\ res' \in [Resources -> Stored] /\ \A q \in Resources \ {r} : res'[q] = res[q]
        /\ res'[r].hist = res[r].hist /\ res'[r].cur = res[r].cur /\ res'[r].formal = res[r].formal
        /\ res'[r].meta = m /\ res'[r].present = res[r].present /\ res'[r].claim = c
    BY <1>0, <2>1, <2>2 DEF Typed, Stored
  <2>4. t \in Tasks
    BY <2>1, Kinds
  <2> QED BY <2>1, <2>2, <2>3, <2>4, TakenBackInv
<1> QED BY <1>1, <1>2

\* A transaction fails, or its compensation is refused: everything is put back.
LEMMA RollbackInv ==
  ASSUME ArtifactInv, NEW t \in Threads, StepFails(t) \/ UnregisterRefused(t)
  PROVE  ArtifactInv'
<1> DEFINE r == Target[t]
           o == th[t].old
<1>0. /\ InTransaction(t) /\ r \in Resources /\ StageOK(t) /\ FrameOK(t) /\ GoalOK(t) /\ th[t] \in Writers /\ Typed
      /\ res' = RolledBack(t) /\ ReleaseAll(t) /\ faults' \in Nat /\ o \in [Resources -> Stored]
      /\ th[t].stage \in {"commit", "undo"}
  <2>1. InTransaction(t)
    BY DEF StepFails, UnregisterRefused, At, InTransaction
  <2>2. faults \in Nat
    BY DEF ArtifactInv, Typed
  <2> QED BY <2>1, <2>2, Kinds DEF StepFails, UnregisterRefused, ArtifactInv, Typed, FrameOK, InTransaction
<1> DEFINE m == IF UndoesImage(t) THEN res[r].meta ELSE o[r].meta
<1>1. /\ res' \in [Resources -> Stored] /\ \A q \in Resources \ {r} : res'[q] = res[q]
      /\ res'[r].hist = o[r].hist /\ res'[r].cur = o[r].cur /\ res'[r].formal = o[r].formal
      /\ res'[r].meta = m /\ res'[r].present = res[r].present /\ res'[r].claim = res[r].claim
  <2>1. ASSUME NEW q \in Resources \ {r} PROVE res'[q] = res[q]
    <3>1. res'[q] = [res[q] EXCEPT !.cur = o[q].cur, !.hist = o[q].hist]
      BY <1>0 DEF RolledBack, Typed, Stored
    <3>2. o[q].cur = res[q].cur /\ o[q].hist = res[q].hist /\ res[q] \in Stored
      BY <1>0 DEF FrameOK, Typed
    <3> QED BY <3>1, <3>2 DEF Stored
  <2>2. res'[r] = [res[r] EXCEPT !.cur = o[r].cur, !.hist = o[r].hist, !.formal = o[r].formal, !.meta = m]
    BY <1>0 DEF RolledBack, Typed, Stored, UndoesImage
  <2>3. res[r] \in Stored /\ o[r] \in Stored
    BY <1>0 DEF Typed
  <2>4. m \in BOOLEAN /\ o[r].cur \in Nat /\ o[r].hist \in Seq(Record) /\ o[r].formal \in Bytes
    BY <2>3 DEF Stored
  <2> HIDE DEF m, o
  <2>5. /\ res'[r] \in Stored
        /\ res'[r].hist = o[r].hist /\ res'[r].cur = o[r].cur /\ res'[r].formal = o[r].formal
        /\ res'[r].meta = m /\ res'[r].present = res[r].present /\ res'[r].claim = res[r].claim
    BY <2>2, <2>3, <2>4 DEF Stored
  <2>6. res' \in [Resources -> Stored]
    <3>1. res' = [q \in Resources |-> res'[q]]
      BY <1>0 DEF RolledBack
    <3>2. \A q \in Resources : res'[q] \in Stored
      BY <1>0, <2>1, <2>5 DEF Typed
    <3> QED BY <3>1, <3>2
  <2> QED BY <2>1, <2>5, <2>6
<1>2. Sound(res'[r])
  BY <1>0, <1>1 DEF Sound, FrameOK
<1>3. PICK y \in Writers :
        /\ th' = [th EXCEPT ![t] = y] /\ y.stage = "fail" /\ y.step = "begin" /\ y.got = 0 /\ y.ver = th[t].ver
        /\ y.prior = th[t].prior /\ y.basis = th[t].basis /\ y.row = th[t].row /\ y.selected = th[t].selected
        /\ y.late = th[t].late /\ y.wroteLate = th[t].wroteLate /\ y.lost = th[t].lost
        /\ th[t].stage = "undo" => y.stuck \/ ~ ClaimIsMine(t)
  <2> DEFINE x == Leave(t, "fail")
             b == (th[t].stage = "undo")
  <2>0. "fail" \in Stages /\ b \in BOOLEAN
    BY DEF Stages
  <2>1. /\ x \in Writers /\ x.stage = "fail" /\ x.step = "begin" /\ x.got = 0 /\ x.ver = th[t].ver
        /\ x.prior = th[t].prior /\ x.basis = th[t].basis /\ x.row = th[t].row /\ x.selected = th[t].selected
        /\ x.late = th[t].late /\ x.wroteLate = th[t].wroteLate /\ x.lost = th[t].lost
    BY <1>0, <2>0, LeaveFields
  <2>2. CASE StepFails(t)
    <3> DEFINE y == [x EXCEPT !.stuck = b]
    <3>1. th' = [th EXCEPT ![t] = y]
      BY <2>2 DEF StepFails
    <3> HIDE DEF x
    <3>2. y \in Writers
      BY <2>0, <2>1 DEF Writers
    <3>3. /\ y.stage = "fail" /\ y.step = "begin" /\ y.got = 0 /\ y.ver = th[t].ver
          /\ y.prior = th[t].prior /\ y.basis = th[t].basis /\ y.row = th[t].row /\ y.selected = th[t].selected
          /\ y.late = th[t].late /\ y.wroteLate = th[t].wroteLate /\ y.lost = th[t].lost /\ y.stuck = b
      BY <2>1 DEF Writers
    <3>4. th[t].stage = "undo" => y.stuck
      BY <3>3
    <3> HIDE DEF y
    <3> QED BY <3>1, <3>2, <3>3, <3>4
  <2>3. CASE UnregisterRefused(t)
    <3>1. th' = [th EXCEPT ![t] = x] /\ ~ ClaimIsMine(t)
      BY <2>3 DEF UnregisterRefused
    <3> HIDE DEF x
    <3> QED BY <2>1, <3>1
  <2> QED BY <2>2, <2>3
<1>4. th' \in [Threads -> Writers] /\ th'[t] = y /\ Others(t)
  BY <1>0, <1>3, ThreadStep
<1>5. Typed'
  <2>1. own' \in [Locks -> Threads \cup {NoThread}]
    BY <1>0 DEF Typed, ReleaseAll
  <2> QED BY <1>0, <1>1, <1>4, <2>1 DEF Typed
<1>6. ~ InTransaction(t)'
  BY <1>3, <1>4 DEF InTransaction
<1>7. StageOK(t)'
  BY <1>0, <1>3, <1>4, Kinds DEF StageOK
<1>8. \A u \in Threads : LocksOK(u)'
  BY <1>0, <1>3, <1>4, DropLocks
<1>9. UndoneOK(t)'
  <2> SUFFICES ASSUME th'[t].selected, ~ th'[t].stuck PROVE res'[r].claim # th'[t].basis
    BY DEF UndoneOK, Excused
  <2>1. th[t].stage = "undo"
    BY <1>0, <1>3, <1>4 DEF StageOK
  <2> QED BY <1>1, <1>3, <1>4, <2>1 DEF ClaimIsMine
<1>10. Points(res[r], r)' /\ (res'[r].meta => res'[r].present)
  <2>1. res'[r].meta => res'[r].present
    BY <1>0, <1>1 DEF FrameOK, ArtifactInv, RestOK
  <2>2. LateOn(r) => LateOn(r)'
    <3>1. Ages(t)
      BY <1>0, <1>3, <1>4, Kinds DEF Ages, StageOK
    <3> QED BY <1>4, <3>1, LateStays
  <2>3. ASSUME res'[r].meta, res'[r].formal = NoBytes PROVE LateOn(r)
    <3>1. CASE UndoesImage(t)
      <4>1. o[r].cur = th[t].ver /\ th[t].ver \in 1..Len(th[t].to.hist) /\ th[t].to.hist = o[r].hist /\ Sound(o[r])
        BY <1>0, <3>1 DEF UndoesImage, GoalOK, FrameOK
      <4>2. o[r].hist \in Seq(Record) /\ Len(o[r].hist) \in Nat
        BY <1>0 DEF Stored
      <4>3. o[r].formal = o[r].hist[th[t].ver].bytes /\ o[r].hist[th[t].ver].bytes # NoBytes
        BY <4>1, <4>2 DEF Sound, HistOK
      <4> QED BY <1>1, <2>3, <4>3
    <3>2. CASE ~ UndoesImage(t)
      BY <1>0, <1>1, <2>3, <3>2 DEF FrameOK, Points
    <3> QED BY <3>1, <3>2
  <2> QED BY <2>1, <2>2, <2>3 DEF Points
<1>11. th'[t].stage \notin {"idle", "commit", "undo"} /\ th'[t].stage = "fail" /\ th'[t].stage # "finalize"
  BY <1>3, <1>4
<1>12. \A u \in Tasks \ {t} : Target[u] = Target[t] /\ th[u].selected /\ th[u].ver = res'[Target[t]].cur =>
            Excused(u)' \/ res'[Target[t]].claim \in {NoClaim, res[Target[t]].claim}
  BY <1>1
<1> QED BY <1>0, <1>1, <1>2, <1>3, <1>4, <1>5, <1>6, <1>7, <1>8, <1>9, <1>10, <1>11, <1>12, CloseInv

\* The file is replaced, the version pointer saved: the transaction goes on.
LEMMA MoveInv ==
  ASSUME ArtifactInv, NEW t \in Threads, ReplaceFile(t) \/ SavePointer(t)
  PROVE  ArtifactInv'
<1> DEFINE r == Target[t]
           o == th[t].old
           g == th[t].to
           p == IF th[t].step = "replace" THEN "point" ELSE "register"
           y == [th[t] EXCEPT !.step = p]
<1>0. /\ InTransaction(t) /\ r \in Resources /\ StageOK(t) /\ FrameOK(t) /\ GoalOK(t) /\ RestoreOK(t) /\ CarriedOK(t)
      /\ KeptOK(t) /\ FreshOK(t) /\ LocksOK(t) /\ th[t] \in Writers /\ Typed
      /\ own' = own /\ faults' = faults /\ th' = [th EXCEPT ![t].step = p]
      /\ th[t].stage \in {"commit", "undo"} /\ th[t].step \in {"replace", "point"}
      /\ o \in [Resources -> Stored] /\ g \in Goals /\ o[r] \in Stored
  BY Kinds DEF ReplaceFile, SavePointer, ArtifactInv, Typed, FrameOK, InTransaction, At
<1>1. g.bytes \in Bytes /\ g.cur \in Nat /\ g.hist \in Seq(Record)
  BY <1>0 DEF Goals
<1>2. /\ res' \in [Resources -> Stored] /\ \A q \in Resources \ {r} : res'[q] = res[q]
      /\ res'[r].meta = res[r].meta /\ res'[r].present = res[r].present /\ res'[r].claim = res[r].claim
      /\ res'[r].basis = res[r].basis /\ res'[r].formal = g.bytes
      /\ th[t].step = "replace" => res'[r].hist = o[r].hist /\ res'[r].cur = o[r].cur
      /\ th[t].step = "point" => res'[r].hist = g.hist /\ res'[r].cur = g.cur
  <2>0. res[r] \in Stored /\ res[r].hist = o[r].hist /\ res[r].cur = o[r].cur
    BY <1>0 DEF Typed, FrameOK
  <2>1. CASE ReplaceFile(t)
    <3>1. res' = [res EXCEPT ![r].formal = g.bytes] /\ th[t].step = "replace"
      BY <2>1 DEF ReplaceFile, At
    <3> HIDE DEF g, o
    <3> QED BY <1>0, <1>1, <2>0, <3>1 DEF Typed, Stored
  <2>2. CASE SavePointer(t)
    <3>1. res' = [res EXCEPT ![r].cur = g.cur, ![r].hist = g.hist] /\ th[t].step = "point"
      BY <2>2 DEF SavePointer, At
    <3>2. res[r].formal = g.bytes
      BY <1>0, <3>1 DEF FrameOK
    <3> HIDE DEF g, o
    <3> QED BY <1>0, <1>1, <2>0, <3>1, <3>2 DEF Typed, Stored
  <2> QED BY <2>1, <2>2
<1>3. y \in Writers
  <2>1. p \in Steps
    BY DEF Steps
  <2> HIDE DEF p
  <2> QED BY <1>0, <2>1 DEF Writers
<1>4. /\ y.got = th[t].got /\ y.stage = th[t].stage /\ y.step = p /\ y.ver = th[t].ver
      /\ y.old = o /\ y.to = g /\ y.prior = th[t].prior /\ y.basis = th[t].basis
      /\ y.row = th[t].row /\ y.selected = th[t].selected /\ y.lost = th[t].lost
      /\ y.late = th[t].late /\ y.wroteLate = th[t].wroteLate /\ y.stuck = th[t].stuck /\ y.dropped = th[t].dropped
  BY <1>0 DEF Writers
<1>5. th' = [th EXCEPT ![t] = y]
  BY <1>0 DEF Typed
<1> HIDE DEF y
<1>6. th' \in [Threads -> Writers] /\ th'[t] = y /\ Others(t)
  BY <1>0, <1>3, <1>5, ThreadStep
<1>7. Typed'
  BY <1>0, <1>2, <1>6 DEF Typed
<1>8. InTransaction(t)' /\ UndoesImage(t)' = UndoesImage(t) /\ p \in {"point", "register"}
  BY <1>0, <1>4, <1>6 DEF InTransaction, UndoesImage
<1>9. Writing = {t} /\ Writing' = {t}
  <2>1. Writing = {t}
    BY <1>0, MyTransaction
  <2> QED BY <1>6, <1>8, <2>1 DEF Writing, Others, InTransaction
<1>10. /\ \A q \in Resources : Hists(q)' = {res'[q].hist, o[q].hist} /\ Hists(q) = {res[q].hist, o[q].hist}
       /\ \A q \in Resources \ {r} : Sels(q)' = Sels(q) /\ Forms(q)' = Forms(q)
       /\ Sels(r)' = {res'[r].cur, o[r].cur} /\ Sels(r) = {o[r].cur}
       /\ Forms(r)' = {g.bytes, o[r].formal} /\ o[r].formal \in Forms(r)
  <2>1. res[r].cur = o[r].cur
    BY <1>0 DEF FrameOK
  <2>2. th'[t].old = o
    BY <1>4, <1>6
  <2>3. \A q \in Resources : Hists(q)' = {res'[q].hist, o[q].hist} /\ Hists(q) = {res[q].hist, o[q].hist}
    BY <1>9, <2>2 DEF Hists
  <2>4. \A q \in Resources \ {r} : {w \in Writing : Target[w] = q} = {}
    BY <1>9
  <2>5. \A q \in Resources \ {r} : Sels(q)' = Sels(q) /\ Forms(q)' = Forms(q)
    BY <1>2, <1>9, <2>4 DEF Sels, Forms
  <2>6. {w \in Writing : Target[w] = r} = {t}
    BY <1>9
  <2>7. Sels(r)' = {res'[r].cur, o[r].cur} /\ Sels(r) = {o[r].cur}
    BY <1>9, <2>1, <2>2, <2>6 DEF Sels
  <2>8. Forms(r)' = {g.bytes, o[r].formal} /\ o[r].formal \in Forms(r)
    BY <1>2, <1>9, <2>2, <2>6 DEF Forms
  <2> QED BY <2>3, <2>5, <2>7, <2>8
<1>11. res[r].hist = o[r].hist /\ Continues(g.hist, o[r].hist) /\ HistOK(g.hist) /\ o[r].hist \in Hists(r)
       /\ res'[r].hist \in {o[r].hist, g.hist}
  BY <1>0, <1>2, <1>10, ZenonT(60) DEF FrameOK, GoalOK
<1>12. \A q \in Resources : \A h \in Hists(q)' : h \in Seq(Record) /\ \E k \in Hists(q) : Continues(h, k)
  <2>1. ASSUME NEW q \in Resources, NEW h \in Hists(q)', h \in Hists(q)
        PROVE  h \in Seq(Record) /\ \E k \in Hists(q) : Continues(h, k)
    BY <2>1, HistsOK, ContinuesItself
  <2>2. ASSUME NEW q \in Resources, NEW h \in Hists(q)', h \notin Hists(q) PROVE q = r /\ h = g.hist
    BY <1>2, <1>10, <1>11, <2>2
  <2> QED BY <1>1, <1>11, <2>1, <2>2
<1>13. HistStep
  <2>1. ASSUME NEW q \in Resources, NEW v \in Nat \ {0}, \A h \in Hists(q) : v <= Len(h)
        PROVE  res'[q].hist[v] = res[q].hist[v]
    <3>1. CASE q = r
      <4>1. o[r].hist \in Seq(Record)
        BY <1>0 DEF Stored
      <4>2. v \in 1..Len(o[r].hist)
        BY <1>11, <2>1, <3>1, <4>1
      <4> QED BY <1>11, <3>1, <4>2 DEF Continues
    <3> QED BY <1>2, <3>1
  <2> QED BY <1>12, <2>1 DEF HistStep
<1>14. Ages(t)
  BY <1>0, <1>4, <1>6 DEF Ages, StageOK
<1>15. Calm(t)
  BY <1>9 DEF Calm
<1>16. FormStep(t)
  <2> SUFFICES ASSUME r \in Videos, g.bytes = NoBytes PROVE own[r] = t
    BY <1>10 DEF FormStep
  <2>1. HistOK(g.hist) /\ Len(g.hist) \in Nat
    BY <1>1, <1>11
  <2>2. th[t].stage = "undo"
    BY <1>0, <2>1 DEF GoalOK, HistOK
  <2>3. t \in PaidTasks
    BY <1>0, <2>2, ThreadsHaveTargets DEF StageOK, Tasks
  <2> QED BY <1>0, <2>3, HoldsVersions
<1>17. SelStep(t)
  <2> SUFFICES ASSUME NEW u \in Tasks \ {t}, th[u].selected, th[u].ver \in Sels(Target[u])'
               PROVE  \/ Excused(u)'
                      \/ th[u].ver \in Sels(Target[u]) /\ res'[Target[u]].claim \in {NoClaim, res[Target[u]].claim}
    BY DEF SelStep
  <2>1. Target[u] \in Resources
    BY Kinds DEF Threads
  <2>2. CASE th[u].ver \in Sels(Target[u])
    BY <1>2, <2>1, <2>2
  <2>3. CASE th[u].ver \notin Sels(Target[u])
    <3>1. Target[u] = r /\ th[u].ver = g.cur /\ th[t].step = "point"
      BY <1>0, <1>2, <1>10, <2>1, <2>3
    <3>2. th[t].stage = "undo" => /\ th'[t].selected /\ th'[t].stage \in {"undo", "fail"} /\ th'[t].row # "succeeded"
                                  /\ res'[r].hist = g.hist
      BY <1>0, <1>2, <1>4, <1>6, <3>1 DEF StageOK
    <3> QED BY <1>0, <1>4, <1>6, <3>1, <3>2, TakesOver
  <2> QED BY <2>2, <2>3
<1>18. Aside(t)
  BY <1>6, <1>13, <1>14, <1>15, <1>16, <1>17 DEF Aside
<1>19. \A q : LateOn(q) => LateOn(q)'
  BY <1>6, <1>14, LateStays
<1>20. ASSUME NEW q \in Resources PROVE RestOK(q)'
  <2>1. CASE q = r
    <3>1. ~ AtRest(r)'
      BY <1>8 DEF AtRest
    <3> QED BY <1>0, <1>2, <2>1, <3>1 DEF RestOK, ArtifactInv
  <2>2. CASE q # r
    <3>1. AtRest(q)
      BY <1>9, <2>2 DEF AtRest, Writing
    <3> QED BY <1>2, <1>19, <2>2, <3>1 DEF ArtifactInv, RestOK, Points, Sound
  <2> QED BY <2>1, <2>2
<1>21. FrameOK(t)'
  <2>1. Sound(o[r])' /\ Points(o[r], r)'
    BY <1>0, <1>4, <1>6, <1>19, ZenonT(60) DEF FrameOK, Sound, Points
  <2>2. th'[t].old = o /\ th'[t].to = g /\ th'[t].step = p
    BY <1>4, <1>6
  <2>3. \A q \in Resources \ {r} : res'[q].hist = o[q].hist /\ res'[q].cur = o[q].cur
    BY <1>0, <1>2 DEF FrameOK
  <2>4. p = "point" => res'[r].hist = o[r].hist /\ res'[r].cur = o[r].cur
    BY <1>2
  <2>5. p = "register" => res'[r].hist = g.hist /\ res'[r].cur = g.cur
    BY <1>0, <1>2
  <2>6. /\ res'[r].claim \in {NoClaim, o[r].claim} /\ (o[r].meta => o[r].present)
        /\ ~ UndoesImage(t) => res'[r].present = o[r].present /\ res'[r].claim = o[r].claim
    BY <1>0, <1>2 DEF FrameOK
  <2> HIDE DEF o, g, p
  <2>7. /\ th'[t].old \in [Resources -> Stored] /\ th'[t].to \in Goals /\ Sound(th'[t].old[r]) /\ Points(th[t].old[r], r)'
        /\ (th'[t].old[r].meta => th'[t].old[r].present)
    BY <1>0, <2>1, <2>2, <2>6 DEF o
  <2>8. p # "replace"
    BY <1>8
  <2>9. p \in {"replace", "point"} => p = "point"
    BY <2>8
  <2> QED BY <1>2, <1>8, <2>2, <2>3, <2>4, <2>5, <2>6, <2>7, <2>8, <2>9 DEF FrameOK
<1>22. GoalOK(t)'
  <2>1. th'[t].old = th[t].old /\ th'[t].to = th[t].to /\ th'[t].stage = th[t].stage /\ th'[t].ver = th[t].ver
        /\ th'[t].basis = th[t].basis
    BY <1>4, <1>6
  <2> QED BY <1>0, <1>2, <1>19, <2>1 DEF GoalOK
<1>23. RestoreOK(t)'
  <2> SUFFICES ASSUME t \in Restorers, th[t].stage = "commit", NEW h \in Hists(r)' PROVE th[t].ver \in 1..Len(h)
    BY <1>0, <1>4, <1>6 DEF RestoreOK
  <2>1. g.hist = o[r].hist
    BY <1>0 DEF GoalOK
  <2>2. h = o[r].hist
    BY <1>0, <1>10, <1>11, <2>1
  <2> QED BY <1>0, <1>11, <2>2 DEF RestoreOK
<1>24. CarriedOK(t)'
  <2>1. ASSUME t \in Tasks, th'[t].selected, NEW h \in Hists(r)' PROVE Carries(t, h)'
    <3>1. PICK k \in Hists(r) : Continues(h, k)
      BY <1>0, <1>12
    <3>2. k \in Seq(Record) /\ HistOK(k) /\ h \in Seq(Record) /\ Carries(t, k)
      BY <1>0, <1>4, <1>6, <1>12, <2>1, HistsOK DEF CarriedOK
    <3>3. th[t].ver \in Nat
      BY <1>0 DEF Writers
    <3> QED BY <1>4, <1>6, <1>19, <3>1, <3>2, <3>3, CarriesOn
  <2>2. ASSUME t \in Tasks, th'[t].stage = "commit" PROVE Carries(t, th[t].to.hist)'
    <3>1. th[t].stage = "commit" /\ Carries(t, g.hist) /\ th'[t].to = g
      BY <1>0, <1>4, <1>6, <2>2 DEF CarriedOK
    <3> QED BY <1>4, <1>6, <1>19, <3>1 DEF Carries
  <2> QED BY <2>1, <2>2 DEF CarriedOK
<1>25. KeptOK(t)'
  <2> SUFFICES ASSUME Delivered(t)', NEW h \in Hists(r)' PROVE Has(h, t)
    BY DEF KeptOK
  <2>1. Delivered(t)
    BY <1>0, <1>4, <1>6 DEF Delivered
  <2>2. PICK k \in Hists(r) : Continues(h, k)
    BY <1>0, <1>12
  <2>3. k \in Seq(Record) /\ h \in Seq(Record) /\ Has(k, t)
    BY <1>0, <1>12, <2>1, HistsOK DEF KeptOK
  <2> QED BY <2>2, <2>3, HasOn
<1>26. FreshOK(t)' /\ FileOK(t)' /\ UndoneOK(t)'
  BY <1>0, <1>2, <1>4, <1>6 DEF FreshOK, FileOK, UndoneOK
<1>27. StageOK(t)'
  BY <1>0, <1>4, <1>6, <1>8 DEF StageOK
<1>28. \A u \in Threads : LocksOK(u)'
  <2>1. Held(t)' = Held(t) /\ LockPlan(t)' = LockPlan(t)
    BY <1>4, <1>6 DEF Held, LockPlan
  <2>2. /\ th'[t].got <= Len(LockPlan(t))'
        /\ InTransaction(t)' => th'[t].got >= IF UndoesImage(t)' THEN 1 ELSE Len(LockPlan(t))'
    BY <1>0, <1>4, <1>6, <1>8, <2>1 DEF LocksOK
  <2> QED BY <1>0, <1>6, <2>1, <2>2, KeepLocks
<1> QED BY <1>7, <1>12, <1>18, <1>20, <1>21, <1>22, <1>23, <1>24, <1>25, <1>26, <1>27, <1>28, Assembled

-----------------------------------------------------------------------------
(* The head of a transaction *)

\* A step of the writer that has the versions lock while nobody writes, or begins to.
\* The history may grow by what the writer records.
LEMMA RecordAside ==
  ASSUME ArtifactInv, NEW t \in Threads, Writing = {}, Writing' \subseteq {t}, Others(t), Ages(t),
         res' \in [Resources -> Stored], \A q \in Resources \ {Target[t]} : res'[q] = res[q],
         res'[Target[t]].formal = res[Target[t]].formal, res'[Target[t]].claim = res[Target[t]].claim,
         Continues(res'[Target[t]].hist, res[Target[t]].hist),
         res'[Target[t]].cur = res[Target[t]].cur \/ res'[Target[t]].cur > Len(res[Target[t]].hist),
         \A q \in Resources : t \in Writing' =>
            /\ th'[t].old[q].hist = res'[q].hist /\ th'[t].old[q].cur = res'[q].cur
            /\ th'[t].old[q].formal = res'[q].formal
  PROVE  /\ Aside(t)
         /\ \A q \in Resources : /\ Hists(q)' = {res'[q].hist} /\ Hists(q) = {res[q].hist}
                                 /\ res'[q].hist \in Seq(Record) /\ res[q].hist \in Seq(Record)
                                 /\ Continues(res'[q].hist, res[q].hist) /\ HistOK(res[q].hist)
<1> DEFINE r == Target[t]
<1>0. r \in Resources /\ Typed
  BY Kinds DEF ArtifactInv
<1>1. ASSUME NEW q \in Resources
      PROVE  /\ Hists(q) = {res[q].hist} /\ Sels(q) = {res[q].cur} /\ Forms(q) = {res[q].formal}
             /\ Hists(q)' = {res'[q].hist} /\ Sels(q)' = {res'[q].cur} /\ Forms(q)' = {res'[q].formal}
  <2>1. Hists(q) = {res[q].hist} /\ Sels(q) = {res[q].cur} /\ Forms(q) = {res[q].formal}
    BY NoTransaction
  <2>2. CASE Writing' = {}
    BY <2>1, <2>2 DEF Hists, Sels, Forms
  <2>3. CASE Writing' = {t}
    BY <2>1, <2>3 DEF Hists, Sels, Forms
  <2> QED BY <2>1, <2>2, <2>3
<1>2. ASSUME NEW q \in Resources
      PROVE  /\ res'[q].hist \in Seq(Record) /\ res[q].hist \in Seq(Record)
             /\ Continues(res'[q].hist, res[q].hist) /\ HistOK(res[q].hist)
  <2>1. res'[q].hist \in Seq(Record) /\ res[q].hist \in Seq(Record)
    BY <1>0 DEF Typed, Stored
  <2>2. HistOK(res[q].hist)
    BY <1>1, HistsOK
  <2>3. Continues(res[q].hist, res[q].hist)
    BY <2>1, ContinuesItself
  <2> QED BY <2>1, <2>2, <2>3
<1>3. HistStep
  <2>1. ASSUME NEW q \in Resources, NEW v \in Nat \ {0}, \A h \in Hists(q) : v <= Len(h)
        PROVE  res'[q].hist[v] = res[q].hist[v]
    <3>1. v <= Len(res[q].hist) /\ Len(res[q].hist) \in Nat
      BY <1>1, <1>2, <2>1
    <3> QED BY <1>2, <3>1 DEF Continues
  <2>2. \A q \in Resources : \A h \in Hists(q)' : \E k \in Hists(q) : Continues(h, k)
    BY <1>1, <1>2
  <2> QED BY <2>1, <2>2 DEF HistStep
<1>4. Calm(t)
  BY DEF Calm
<1>5. FormStep(t)
  BY <1>0, <1>1 DEF FormStep
<1>6. SelStep(t)
  <2> SUFFICES ASSUME NEW u \in Tasks \ {t}, th[u].selected, th[u].ver \in Sels(Target[u])'
               PROVE  th[u].ver \in Sels(Target[u]) /\ res'[Target[u]].claim \in {NoClaim, res[Target[u]].claim}
    BY DEF SelStep
  <2>1. Target[u] \in Resources /\ u \in Threads
    BY Kinds DEF Threads
  <2>2. th[u].ver = res'[Target[u]].cur
    BY <1>1, <2>1
  <2>3. Carries(u, res[Target[u]].hist)
    BY <1>1, <2>1 DEF ArtifactInv, CarriedOK
  <2>4. th[u].ver \in 1..Len(res[Target[u]].hist) /\ Len(res[Target[u]].hist) \in Nat
    <3>1. res[Target[u]].hist \in Seq(Record)
      BY <1>2, <2>1
    <3>2. Len(res[Target[u]].hist) \in Nat
      BY <3>1
    <3> QED BY <2>3, <3>2 DEF Carries
  <2>5. CASE Target[u] = r
    <3>1. ~ (res'[r].cur > Len(res[r].hist))
      BY <2>2, <2>4, <2>5
    <3> QED BY <1>1, <2>1, <2>2, <2>5, <3>1
  <2>6. CASE Target[u] # r
    BY <1>1, <2>1, <2>2, <2>6
  <2> QED BY <2>5, <2>6
<1> QED BY <1>1, <1>2, <1>3, <1>4, <1>5, <1>6 DEF Aside

\* A transaction begins: it knows what to put back and where it wants to go.
LEMMA BeginInv ==
  ASSUME ArtifactInv, NEW t \in Threads, NEW s \in {"commit", "undo"}, At(t, s, "begin"),
         NEW o \in [Resources -> Stored], NEW g \in Goals, NEW y \in Writers, th' = [th EXCEPT ![t] = y],
         y.stage = s, y.step = "replace", y.got = th[t].got, y.old = o, y.to = g, y.basis = th[t].basis, y.row = th[t].row,
         y.selected = th[t].selected, y.late = th[t].late, y.lost = th[t].lost,
         y.wroteLate = th[t].wroteLate, s = "undo" => y.ver = th[t].ver /\ y.prior = th[t].prior,
         t \in Restorers => y.ver = th[t].ver,
         res' \in [Resources -> Stored], own' = own, faults' = faults,
         \A q \in Resources : /\ res'[q].hist = o[q].hist /\ res'[q].cur = o[q].cur /\ res'[q].formal = o[q].formal
                              /\ res'[q].claim = o[q].claim /\ res'[q].present = o[q].present,
         \A q \in Resources \ {Target[t]} : res'[q] = res[q],
         res'[Target[t]].formal = res[Target[t]].formal, res'[Target[t]].claim = res[Target[t]].claim,
         Continues(res'[Target[t]].hist, res[Target[t]].hist),
         res'[Target[t]].cur = res[Target[t]].cur \/ res'[Target[t]].cur > Len(res[Target[t]].hist),
         Sound(o[Target[t]]), Points(o[Target[t]], Target[t]), o[Target[t]].meta => o[Target[t]].present,
         res'[Target[t]].meta => res'[Target[t]].present,
         GoalOK(t)', s = "commit" /\ t \in Tasks => Carries(t, g.hist)',
         s = "commit" /\ t \in PaidTasks => Has(res'[Target[t]].hist, t), FreshOK(t)'
  PROVE  ArtifactInv'
<1> DEFINE r == Target[t]
<1>0. /\ r \in Resources /\ StageOK(t) /\ RestoreOK(t) /\ CarriedOK(t) /\ KeptOK(t) /\ LocksOK(t)
      /\ th[t] \in Writers /\ Typed /\ th[t].stage = s /\ th[t].step = "begin" /\ th[t].ver \in Nat
  BY Kinds DEF ArtifactInv, Typed, At, Writers
<1>1. th' \in [Threads -> Writers] /\ th'[t] = y /\ Others(t)
  BY <1>0, ThreadStep
<1>2. Typed'
  BY <1>0, <1>1 DEF Typed
<1>3. InTransaction(t)' /\ UndoesImage(t)' = UndoesImage(t)
  BY <1>0, <1>1 DEF InTransaction, UndoesImage
<1>4. Writing = {} /\ Writing' = {t}
  <2>1. Writing = {}
    BY HeadHolds
  <2> QED BY <1>1, <1>3, <2>1 DEF Writing, Others, InTransaction
<1>5. Ages(t)
  BY <1>0, <1>1, Kinds DEF Ages, StageOK
<1>6. /\ Aside(t)
      /\ \A q \in Resources : /\ Hists(q)' = {res'[q].hist} /\ Hists(q) = {res[q].hist}
                              /\ res'[q].hist \in Seq(Record) /\ res[q].hist \in Seq(Record)
                              /\ Continues(res'[q].hist, res[q].hist) /\ HistOK(res[q].hist)
  BY <1>1, <1>4, <1>5, RecordAside
<1>7. \A q : LateOn(q) => LateOn(q)'
  BY <1>1, <1>5, LateStays
<1>8. ASSUME NEW q \in Resources PROVE RestOK(q)'
  <2>1. CASE q = r
    <3>1. ~ AtRest(r)'
      BY <1>3 DEF AtRest
    <3> QED BY <2>1, <3>1 DEF RestOK
  <2>2. CASE q # r
    <3>1. AtRest(q)
      BY <1>4 DEF AtRest, Writing
    <3>2. RestOK(q) /\ res'[q] = res[q]
      BY <2>2 DEF ArtifactInv
    <3> QED BY <1>7, <3>1, <3>2 DEF RestOK, Points, Sound
  <2> QED BY <2>1, <2>2
<1>9. FrameOK(t)'
  <2>1. Sound(o[r])' /\ Points(o[r], r)'
    BY <1>7 DEF Sound, Points
  <2>2. /\ res'[r].hist = o[r].hist /\ res'[r].cur = o[r].cur /\ res'[r].formal = o[r].formal
        /\ res'[r].claim = o[r].claim /\ res'[r].present = o[r].present
    BY <1>0
  <2>3. th'[t].old = o /\ th'[t].to = g /\ th'[t].step = "replace"
    BY <1>1
  <2> QED BY <1>3, <2>1, <2>2, <2>3 DEF FrameOK
<1>10. RestoreOK(t)'
  <2> SUFFICES ASSUME t \in Restorers, s = "commit" PROVE th[t].ver \in 1..Len(res'[r].hist)
    BY <1>0, <1>1, <1>6 DEF RestoreOK
  <2>1. th[t].ver \in 1..Len(res[r].hist)
    BY <1>0, <1>6 DEF RestoreOK
  <2>2. Len(res[r].hist) \in Nat /\ Len(res'[r].hist) \in Nat /\ Len(res[r].hist) <= Len(res'[r].hist)
    BY <1>0, <1>6 DEF Continues
  <2> QED BY <2>1, <2>2
<1>11. CarriedOK(t)'
  <2>1. ASSUME t \in Tasks, th'[t].selected, NEW h \in Hists(r)' PROVE Carries(t, h)'
    <3>1. s = "undo" /\ th[t].selected
      BY <1>0, <1>1, <2>1 DEF StageOK
    <3>2. Carries(t, res[r].hist) /\ h = res'[r].hist
      BY <1>0, <1>6, <2>1, <3>1 DEF CarriedOK
    <3>3. th'[t].ver = th[t].ver /\ th'[t].basis = th[t].basis /\ th'[t].prior = th[t].prior
      BY <1>1, <3>1
    <3> QED BY <1>0, <1>6, <1>7, <3>2, <3>3, CarriesOn
  <2>2. ASSUME t \in Tasks, th'[t].stage = "commit" PROVE Carries(t, th[t].to.hist)'
    <3>1. s = "commit" /\ th'[t].to = g /\ Carries(t, g.hist)'
      BY <1>1, <2>2
    <3> QED BY <3>1 DEF Carries
  <2> QED BY <2>1, <2>2 DEF CarriedOK
<1>12. KeptOK(t)'
  <2> SUFFICES ASSUME Delivered(t)' PROVE Has(res'[r].hist, t)
    BY <1>0, <1>6 DEF KeptOK
  <2>1. CASE s = "commit"
    BY <2>1 DEF Delivered
  <2>2. CASE s = "undo"
    <3>1. Delivered(t)
      BY <1>0, <1>1, <2>2 DEF Delivered
    <3>2. Has(res[r].hist, t)
      BY <1>0, <1>6, <3>1 DEF KeptOK
    <3> QED BY <1>0, <1>6, <3>2, HasOn
  <2> QED BY <2>1, <2>2
<1>13. FileOK(t)' /\ UndoneOK(t)'
  BY <1>1 DEF FileOK, UndoneOK
<1>14. StageOK(t)'
  BY <1>0, <1>1 DEF StageOK
<1>15. \A u \in Threads : LocksOK(u)'
  <2>1. Held(t)' = Held(t) /\ LockPlan(t)' = LockPlan(t)
    BY <1>0, <1>1 DEF Held, LockPlan
  <2>2. th'[t].got >= IF UndoesImage(t)' THEN 1 ELSE Len(LockPlan(t))'
    BY <1>0, <1>1, <1>3, <2>1, HeadHolds
  <2>3. th'[t].got <= Len(LockPlan(t))'
    BY <1>0, <1>1, <2>1 DEF LocksOK
  <2> QED BY <1>1, <2>1, <2>2, <2>3, KeepLocks
<1>16. \A q \in Resources : \A h \in Hists(q)' : h \in Seq(Record)
  BY <1>6
<1> QED BY <1>2, <1>6, <1>8, <1>9, <1>10, <1>11, <1>12, <1>13, <1>14, <1>15, <1>16, Assembled

\* Appending a record continues a history.
LEMMA AppendHist ==
  ASSUME NEW h \in Seq(Record), HistOK(h), NEW e \in Record, e.bytes # NoBytes, e.prev <= Len(h)
  PROVE  /\ Append(h, e) \in Seq(Record) /\ HistOK(Append(h, e)) /\ Len(Append(h, e)) = Len(h) + 1 /\ Len(h) \in Nat
         /\ Append(h, e)[Len(h) + 1] = e /\ \A i \in 1..Len(h) : Append(h, e)[i] = h[i]
<1> DEFINE k == Append(h, e)
<1>1. /\ k \in Seq(Record) /\ Len(k) = Len(h) + 1 /\ Len(h) \in Nat
      /\ k[Len(h) + 1] = e /\ \A i \in 1..Len(h) : k[i] = h[i]
  OBVIOUS
<1>2. HistOK(k)
  <2> SUFFICES ASSUME NEW i \in 1..Len(k) PROVE k[i].bytes # NoBytes /\ k[i].prev < i
    BY DEF HistOK
  <2> HIDE DEF k
  <2>1. CASE i = Len(h) + 1
    <3>1. e.prev \in Nat
      BY DEF Record
    <3> QED BY <1>1, <2>1, <3>1
  <2>2. CASE i # Len(h) + 1
    <3>1. i \in 1..Len(h)
      BY <1>1, <2>2
    <3> QED BY <1>1, <3>1 DEF HistOK
  <2> QED BY <2>1, <2>2
<1> QED BY <1>1, <1>2

\* A file nobody recorded becomes version 1; a recorded one stays.
LEMMA TrackOK ==
  ASSUME NEW x \in Stored, Sound(x)
  PROVE  /\ Track(x) \in Stored /\ Sound(Track(x)) /\ Continues(Track(x).hist, x.hist) /\ Len(Track(x).hist) <= Len(x.hist) + 1
         /\ Track(x).formal = x.formal /\ Track(x).claim = x.claim /\ Track(x).meta = x.meta /\ Track(x).present = x.present
         /\ Track(x).basis = x.basis
         /\ Track(x).cur = x.cur \/ Track(x).cur > Len(x.hist)
         /\ Track(x).cur = 0 => x.cur = 0 /\ x.formal = NoBytes
<1>0. x.hist \in Seq(Record) /\ HistOK(x.hist) /\ x.cur \in Nat /\ x.formal \in Bytes /\ Len(x.hist) \in Nat
      /\ Continues(x.hist, x.hist)
  <2>1. x.hist \in Seq(Record)
    BY DEF Stored
  <2> QED BY <2>1, ContinuesItself DEF Stored, Sound
<1>1. CASE x.formal # NoBytes /\ x.cur = 0
  <2> DEFINE e == [bytes |-> x.formal, basis |-> NoClaim, prev |-> 0]
             k == Append(x.hist, e)
  <2>1. e \in Record /\ e.bytes = x.formal /\ e.prev = 0
    BY <1>0 DEF Record
  <2> HIDE DEF e
  <2>2. /\ k \in Seq(Record) /\ HistOK(k) /\ Len(k) = Len(x.hist) + 1
        /\ k[Len(x.hist) + 1] = e /\ \A i \in 1..Len(x.hist) : k[i] = x.hist[i]
    BY <1>0, <1>1, <2>1, AppendHist
  <2>3. Track(x) = [x EXCEPT !.hist = k, !.cur = Len(x.hist) + 1]
    BY <1>1 DEF Track, e
  <2> HIDE DEF k
  <2>4. /\ Track(x) \in Stored /\ Track(x).hist = k /\ Track(x).cur = Len(x.hist) + 1
        /\ Track(x).formal = x.formal /\ Track(x).claim = x.claim /\ Track(x).meta = x.meta /\ Track(x).present = x.present
        /\ Track(x).basis = x.basis
    <3> DEFINE n == Len(x.hist) + 1
    <3>1. n \in Nat /\ k \in Seq(Record) /\ Track(x) = [x EXCEPT !.hist = k, !.cur = n]
      BY <1>0, <2>2, <2>3
    <3> HIDE DEF n
    <3>2. /\ Track(x) \in Stored /\ Track(x).hist = k /\ Track(x).cur = n
          /\ Track(x).formal = x.formal /\ Track(x).claim = x.claim /\ Track(x).meta = x.meta
          /\ Track(x).present = x.present /\ Track(x).basis = x.basis
      BY <3>1 DEF Stored
    <3> QED BY <3>2 DEF n
  <2>5. x.claim = NoClaim
    BY <1>1 DEF Sound
  <2>6. Sound(Track(x))
    BY <1>0, <2>1, <2>2, <2>4, <2>5 DEF Sound
  <2>7. Continues(Track(x).hist, x.hist)
    BY <1>0, <2>2, <2>4 DEF Continues
  <2> QED BY <1>0, <2>2, <2>4, <2>6, <2>7
<1>2. CASE ~ (x.formal # NoBytes /\ x.cur = 0)
  <2>1. Track(x) = x
    BY <1>2 DEF Track
  <2> QED BY <1>0, <1>2, <2>1
<1> QED BY <1>1, <1>2

\* What a staged version records: after it the history of r is continued by the bytes of t,
\* whose predecessor is what was selected, with the claim it had.
Staged(t) == WithVersion(Track(res[Target[t]]), t)

LEMMA StagedOK ==
  ASSUME ArtifactInv, NEW t \in Threads, AtRest(Target[t])
  PROVE  LET x == res[Target[t]]
             z == Staged(t)
             v == Len(z.hist)
         IN /\ z \in Stored /\ Sound(z) /\ Continues(z.hist, x.hist) /\ HistOK(z.hist) /\ z.hist \in Seq(Record)
            /\ z.formal = x.formal /\ z.claim = x.claim /\ z.meta = x.meta /\ z.present = x.present /\ z.basis = x.basis
            /\ z.cur = x.cur \/ z.cur > Len(x.hist)
            /\ v \in 1..Len(z.hist) /\ v \in Nat /\ z.hist[v].bytes = t /\ z.hist[v].basis = th[t].basis
            /\ z.hist[v].prev = 0 => x.claim = NoClaim /\ (x.meta => LateOn(Target[t]))
            /\ z.hist[v].prev # 0 => x.claim \in {NoClaim, z.hist[z.hist[v].prev].basis}
<1> DEFINE r == Target[t]
           x == res[r]
           k == Track(x)
           e == [bytes |-> t, basis |-> th[t].basis, prev |-> k.cur]
           z == Staged(t)
           h == Append(k.hist, e)
<1>0. x \in Stored /\ Sound(x) /\ Points(x, r) /\ th[t].basis \in Claims /\ t \in Bytes /\ t # NoBytes
  BY Kinds DEF ArtifactInv, Typed, RestOK, Writers
<1>1. /\ k \in Stored /\ Sound(k) /\ Continues(k.hist, x.hist) /\ Len(k.hist) <= Len(x.hist) + 1
      /\ k.formal = x.formal /\ k.claim = x.claim /\ k.meta = x.meta /\ k.present = x.present /\ k.basis = x.basis
      /\ k.cur = x.cur \/ k.cur > Len(x.hist)
      /\ k.cur = 0 => x.cur = 0 /\ x.formal = NoBytes
  BY <1>0, TrackOK
<1>2. z = [k EXCEPT !.hist = h]
  BY DEF Staged, WithVersion
<1>x. x.hist \in Seq(Record) /\ x.claim \in Claims
  BY <1>0 DEF Stored
<1> HIDE DEF k, x
<1>3. k.hist \in Seq(Record) /\ HistOK(k.hist) /\ k.cur \in Nat /\ k.cur <= Len(k.hist)
  BY <1>1 DEF Stored, Sound
<1>4. e \in Record /\ e.bytes = t /\ e.basis = th[t].basis /\ e.prev = k.cur
  BY <1>0, <1>3 DEF Record, Claims
<1> HIDE DEF e
<1>5. /\ h \in Seq(Record) /\ HistOK(h) /\ Len(h) = Len(k.hist) + 1 /\ Len(k.hist) \in Nat
      /\ h[Len(k.hist) + 1] = e /\ \A i \in 1..Len(k.hist) : h[i] = k.hist[i]
  BY <1>0, <1>3, <1>4, AppendHist
<1> HIDE DEF h
<1>6. /\ z \in Stored /\ z.hist = h /\ z.cur = k.cur /\ z.formal = k.formal /\ z.claim = k.claim
      /\ z.meta = k.meta /\ z.present = k.present /\ z.basis = k.basis
  BY <1>1, <1>2, <1>5 DEF Stored
<1> HIDE DEF z
<1>7. Len(x.hist) \in Nat
  BY <1>x
<1>8. Continues(h, x.hist)
  <2>1. Len(x.hist) <= Len(k.hist) /\ Len(k.hist) <= Len(x.hist) + 1 /\ \A i \in 1..Len(x.hist) : k.hist[i] = x.hist[i]
    BY <1>1 DEF Continues
  <2>2. Len(x.hist) <= Len(h) /\ Len(h) <= Len(x.hist) + 2
    BY <1>5, <1>7, <2>1
  <2>3. \A i \in 1..Len(x.hist) : i \in 1..Len(k.hist)
    BY <1>5, <1>7, <2>1
  <2>4. \A i \in 1..Len(x.hist) : h[i] = x.hist[i]
    BY <1>5, <2>1, <2>3
  <2> QED BY <2>2, <2>4 DEF Continues
<1>9. Sound(z)
  BY <1>1, <1>3, <1>5, <1>6 DEF Sound
<1>10. Len(h) \in 1..Len(h) /\ Len(h) \in Nat /\ h[Len(h)] = e
  BY <1>5
<1>11. k.cur = 0 => x.claim = NoClaim /\ (x.meta => LateOn(r))
  BY <1>0, <1>1 DEF Sound, Points, x
<1>12. k.cur # 0 => x.claim \in {NoClaim, h[k.cur].basis}
  BY <1>1, <1>3, <1>5 DEF Sound
<1> QED BY <1>1, <1>4, <1>5, <1>6, <1>8, <1>9, <1>10, <1>11, <1>12 DEF z, x

\* At the head of a stage nobody writes, so every resource is at rest.
LEMMA HeadSettled ==
  ASSUME ArtifactInv, NEW t \in Threads, NEW s \in {"commit", "undo"}, At(t, s, "begin")
  PROVE  /\ Writing = {} /\ AtRest(Target[t]) /\ Target[t] \in Resources /\ res[Target[t]] \in Stored /\ th[t] \in Writers /\ Typed
         /\ Sound(res[Target[t]]) /\ Points(res[Target[t]], Target[t]) /\ (res[Target[t]].meta => res[Target[t]].present)
         /\ Hists(Target[t]) = {res[Target[t]].hist} /\ res[Target[t]].hist \in Seq(Record) /\ HistOK(res[Target[t]].hist)
         /\ th[t].stage = s /\ th[t].step = "begin" /\ StageOK(t)
<1>1. Writing = {} /\ Target[t] \in Resources
  BY HeadHolds, Kinds
<1>2. AtRest(Target[t]) /\ Typed /\ RestOK(Target[t]) /\ StageOK(t) /\ th[t].stage = s /\ th[t].step = "begin"
  BY <1>1 DEF AtRest, Writing, ArtifactInv, At
<1>3. res[Target[t]] \in Stored /\ th[t] \in Writers
  BY <1>1, <1>2 DEF Typed
<1>4. res[Target[t]].hist \in Seq(Record)
  BY <1>3 DEF Stored
<1> QED BY <1>1, <1>2, <1>3, <1>4, NoTransaction DEF RestOK, Sound

\* The selection of an image, an upload or a restore begins, or finds its owner gone.
LEMMA ActivateInv ==
  ASSUME ArtifactInv, NEW t \in Threads, NEW goal \in Goals, NEW need \in BOOLEAN, Activate(t, goal, need), t \notin PaidTasks,
         HistOK(goal.hist), Continues(goal.hist, res[Target[t]].hist), goal.cur \in 1..Len(goal.hist),
         goal.bytes = goal.hist[goal.cur].bytes,
         t \notin Restorers => goal.hist[goal.cur].bytes = t /\ goal.hist[goal.cur].basis = th[t].basis,
         t \in Restorers => goal.hist = res[Target[t]].hist /\ goal.cur = th[t].ver,
         t \in Tasks => LET b == goal.hist[goal.cur].prev
                            x == res[Target[t]]
                        IN /\ b = 0 => x.claim = NoClaim /\ (x.meta => LateOn(Target[t]))
                           /\ b # 0 => x.claim \in {NoClaim, goal.hist[b].basis}
  PROVE  ArtifactInv'
<1> DEFINE r == Target[t]
           x == res[r]
<1>0. At(t, "commit", "begin") /\ faults' = faults
  BY DEF Activate
<1>1. /\ Writing = {} /\ r \in Resources /\ x \in Stored /\ th[t] \in Writers /\ Typed
      /\ Sound(x) /\ Points(x, r) /\ (x.meta => x.present) /\ th[t].stage = "commit" /\ th[t].step = "begin" /\ StageOK(t)
      /\ x.hist \in Seq(Record)
  BY <1>0, HeadSettled
<1>2. CASE /\ ~ x.present /\ need
           /\ th' = [th EXCEPT ![t] = Leave(t, "fail")] /\ ReleaseAll(t) /\ UNCHANGED res
  BY <1>0, <1>2, GivesUpInv
<1>3. CASE /\ res' = [res EXCEPT ![r].meta = x.present]
           /\ th' = [th EXCEPT ![t].step = "replace", ![t].ver = goal.cur, ![t].to = goal,
                               ![t].old = res, ![t].prior = [claim |-> x.claim, meta |-> x.meta]]
           /\ UNCHANGED own
  <2> DEFINE p == [claim |-> x.claim, meta |-> x.meta]
             y == [th[t] EXCEPT !.step = "replace", !.ver = goal.cur, !.to = goal, !.old = res, !.prior = p]
  <2>1. /\ p \in [claim : Claims, meta : BOOLEAN] /\ p.claim = x.claim /\ p.meta = x.meta
        /\ goal.cur \in Nat /\ goal.hist \in Seq(Record) /\ res \in [Resources -> Stored] /\ "replace" \in Steps
    BY <1>1 DEF Stored, Goals, Typed, Steps
  <2> HIDE DEF p
  <2>2. y \in Writers
    <3>1. res \in {<<>>} \cup [Resources -> Stored] /\ goal \in {<<>>} \cup Goals
      BY <2>1
    <3> QED BY <1>1, <2>1, <3>1 DEF Writers
  <2>3. /\ y.got = th[t].got /\ y.stage = "commit" /\ y.step = "replace" /\ y.ver = goal.cur
        /\ y.old = res /\ y.to = goal /\ y.prior = p /\ y.basis = th[t].basis
        /\ y.row = th[t].row /\ y.selected = th[t].selected /\ y.lost = th[t].lost
        /\ y.late = th[t].late /\ y.wroteLate = th[t].wroteLate /\ y.stuck = th[t].stuck /\ y.dropped = th[t].dropped
    BY <1>1 DEF Writers
  <2>4. th' = [th EXCEPT ![t] = y]
    BY <1>1, <1>3 DEF Typed, p
  <2> HIDE DEF y
  <2>5. th'[t] = y /\ Others(t)
    BY <1>1, <2>2, <2>4, ThreadStep
  <2>6. /\ res' \in [Resources -> Stored] /\ \A q \in Resources \ {r} : res'[q] = res[q]
        /\ \A q \in Resources : /\ res'[q].hist = res[q].hist /\ res'[q].cur = res[q].cur /\ res'[q].formal = res[q].formal
                                /\ res'[q].claim = res[q].claim /\ res'[q].present = res[q].present
        /\ res'[r].meta = x.present
    <3>1. x.present \in BOOLEAN
      BY <1>1 DEF Stored
    <3> QED BY <1>1, <1>3, <3>1 DEF Typed, Stored
  <2>7. Continues(res'[r].hist, x.hist)
    BY <1>1, <2>6, ContinuesItself
  <2>8. LateOn(r) => LateOn(r)'
    <3>1. Ages(t)
      BY <1>1, <2>3, <2>5, Kinds DEF Ages, StageOK
    <3> QED BY <2>5, <3>1, LateStays
  <2>9. GoalOK(t)'
    BY <1>1, <2>3, <2>5 DEF GoalOK
  <2>10. t \in Tasks => Carries(t, goal.hist)'
    BY <2>1, <2>3, <2>5, <2>8, Kinds, SMTT(40) DEF Carries
  <2>11. FreshOK(t)'
    BY DEF FreshOK
  <2>12. t \in Restorers => y.ver = th[t].ver
    BY <2>3
  <2>13. /\ res'[r].meta => res'[r].present
         /\ res'[r].formal = x.formal /\ res'[r].claim = x.claim /\ res'[r].cur = x.cur
    BY <1>1, <2>6
  <2>14. own' = own /\ "commit" \in {"commit", "undo"}
    BY <1>3
  <2> QED BY <1>0, <1>1, <2>1, <2>2, <2>3, <2>4, <2>6, <2>7, <2>9, <2>10, <2>11, <2>12, <2>13, <2>14, BeginInv, ZenonT(60)
<1> QED BY <1>2, <1>3 DEF Activate

LEMMA StageInv ==
  ASSUME ArtifactInv, NEW t \in Threads, BeginImage(t) \/ BeginUpload(t)
  PROVE  ArtifactInv'
<1> DEFINE r == Target[t]
           g == StagedGoal(t)
           z == Staged(t)
<1>0. Activate(t, g, TRUE) /\ At(t, "commit", "begin") /\ t \notin PaidTasks /\ t \notin Restorers /\ TRUE \in BOOLEAN
  BY Kinds DEF BeginImage, BeginUpload, Activate
<1>1. AtRest(r) /\ t \in Bytes
  BY <1>0, HeadSettled, Kinds
<1>2. LET v == Len(z.hist)
          x == res[r]
      IN /\ Continues(z.hist, x.hist) /\ HistOK(z.hist) /\ z.hist \in Seq(Record)
         /\ v \in 1..Len(z.hist) /\ v \in Nat /\ z.hist[v].bytes = t /\ z.hist[v].basis = th[t].basis
         /\ z.hist[v].prev = 0 => x.claim = NoClaim /\ (x.meta => LateOn(r))
         /\ z.hist[v].prev # 0 => x.claim \in {NoClaim, z.hist[z.hist[v].prev].basis}
  BY <1>1, StagedOK
<1>3. g = [bytes |-> t, cur |-> Len(z.hist), hist |-> z.hist]
  BY DEF StagedGoal, Staged
<1> HIDE DEF g, z
<1>4. g \in Goals /\ g.bytes = t /\ g.cur = Len(z.hist) /\ g.hist = z.hist
  BY <1>1, <1>2, <1>3 DEF Goals
<1> QED BY <1>0, <1>2, <1>4, ActivateInv

LEMMA RestoreInv ==
  ASSUME ArtifactInv, NEW t \in Threads, BeginTypedRestore(t) \/ BeginImageRestore(t)
  PROVE  ArtifactInv'
<1> DEFINE r == Target[t]
           g == RestoredGoal(t)
           h == res[r].hist
           v == th[t].ver
<1>0. /\ t \in Restorers /\ t \notin Tasks /\ t \notin PaidTasks /\ At(t, "commit", "begin")
      /\ \E need \in BOOLEAN : Activate(t, g, need)
  BY Kinds DEF BeginTypedRestore, BeginImageRestore, Activate
<1>1. h \in Seq(Record) /\ HistOK(h) /\ Continues(h, h) /\ Hists(r) = {h} /\ th[t].stage = "commit"
  BY <1>0, HeadSettled, ContinuesItself
<1>2. v \in 1..Len(h)
  BY <1>0, <1>1 DEF ArtifactInv, RestoreOK
<1>3. g = [bytes |-> h[v].bytes, cur |-> v, hist |-> h]
  BY DEF RestoredGoal
<1> HIDE DEF g, h, v
<1>4. g \in Goals /\ g.bytes = h[v].bytes /\ g.cur = v /\ g.hist = h
  <2>1. v \in Nat /\ h[v] \in Record
    BY <1>1, <1>2, RecordAt
  <2>2. h[v].bytes \in Bytes
    BY <2>1 DEF Record
  <2> QED BY <1>1, <1>3, <2>1, <2>2 DEF Goals
<1> QED BY <1>0, <1>1, <1>2, <1>4, ActivateInv, ZenonT(60) DEF h, v

\* A compensation begins, or finds another version selected.
LEMMA UndoInv ==
  ASSUME ArtifactInv, NEW t \in Threads, BeginUndo(t)
  PROVE  ArtifactInv'
<1> DEFINE r == Target[t]
           x == res[r]
           h == x.hist
           v == th[t].ver
           b == h[v].prev
           n == IF b = 0 THEN NoBytes ELSE h[b].bytes
           g == [bytes |-> n, cur |-> b, hist |-> h]
<1>0. At(t, "undo", "begin") /\ faults' = faults
  BY DEF BeginUndo
<1>1. /\ Writing = {} /\ r \in Resources /\ x \in Stored /\ th[t] \in Writers /\ Typed
      /\ Sound(x) /\ Points(x, r) /\ (x.meta => x.present) /\ th[t].stage = "undo" /\ th[t].step = "begin" /\ StageOK(t)
      /\ h \in Seq(Record) /\ HistOK(h) /\ Hists(r) = {h} /\ t \in Tasks /\ th[t].selected /\ t \notin Restorers
  BY <1>0, HeadSettled, Kinds DEF StageOK
<1>2. Carries(t, h) /\ v \in 1..Len(h)
  BY <1>1, ZenonT(60) DEF ArtifactInv, CarriedOK, Carries
<1>3. b \in Nat /\ b < v /\ v \in Nat /\ Len(h) \in Nat
  BY <1>1, <1>2, RecordAt
<1>4. b # 0 => b \in 1..Len(h) /\ h[b] \in Record /\ h[b].bytes \in Bytes
  <2> SUFFICES ASSUME b # 0 PROVE b \in 1..Len(h) /\ h[b] \in Record /\ h[b].bytes \in Bytes
    BY ZenonT(60)
  <2>1. b \in 1..Len(h)
    BY <1>2, <1>3
  <2>2. h[b] \in Record
    BY <1>1, <2>1, RecordAt
  <2> QED BY <2>1, <2>2, ZenonT(60) DEF Record
<1>5. n \in Bytes /\ (b = 0 => n = NoBytes) /\ (b # 0 => n = h[b].bytes)
  BY <1>4, ZenonT(60) DEF Bytes
<1>6. CASE x.cur # v /\ th' = [th EXCEPT ![t] = Leave(t, "fail")] /\ ReleaseAll(t) /\ UNCHANGED res
  BY <1>0, <1>6, GivesUpInv
<1>7. CASE /\ x.cur = v
           /\ res' = IF t \in PaidTasks /\ x.present THEN [res EXCEPT ![r].meta = th[t].prior.meta] ELSE res
           /\ th' = [th EXCEPT ![t].step = "replace", ![t].to = g, ![t].old = res]
           /\ UNCHANGED own
  <2> HIDE DEF n
  <2>1. g \in Goals /\ g.bytes = n /\ g.cur = b /\ g.hist = h /\ "replace" \in Steps /\ res \in [Resources -> Stored]
    <3> HIDE DEF b, h
    <3> QED BY <1>1, <1>3, <1>5 DEF Goals, Steps, Typed
  <2> HIDE DEF g
  <2> DEFINE y == [th[t] EXCEPT !.step = "replace", !.to = g, !.old = res]
  <2>2. y \in Writers
    <3>1. res \in {<<>>} \cup [Resources -> Stored] /\ g \in {<<>>} \cup Goals
      BY <2>1
    <3> QED BY <1>1, <2>1, <3>1 DEF Writers
  <2>3. /\ y.got = th[t].got /\ y.stage = "undo" /\ y.step = "replace" /\ y.ver = v
        /\ y.old = res /\ y.to = g /\ y.prior = th[t].prior /\ y.basis = th[t].basis
        /\ y.row = th[t].row /\ y.selected = th[t].selected /\ y.lost = th[t].lost
        /\ y.late = th[t].late /\ y.wroteLate = th[t].wroteLate
    BY <1>1 DEF Writers
  <2>4. th' = [th EXCEPT ![t] = y]
    BY <1>1, <1>7 DEF Typed, g
  <2> HIDE DEF y
  <2>5. th'[t] = y /\ Others(t)
    BY <1>1, <2>2, <2>4, ThreadStep
  <2>6. /\ res' \in [Resources -> Stored] /\ \A q \in Resources \ {r} : res'[q] = res[q]
        /\ \A q \in Resources : /\ res'[q].hist = res[q].hist /\ res'[q].cur = res[q].cur /\ res'[q].formal = res[q].formal
                                /\ res'[q].claim = res[q].claim /\ res'[q].present = res[q].present
        /\ res'[r].meta => x.present
        /\ t \in PaidTasks /\ res'[r].meta => th[t].prior.meta
    <3>1. th[t].prior.meta \in BOOLEAN
      BY <1>1 DEF Writers
    <3>2. CASE t \in PaidTasks /\ x.present
      BY <1>1, <1>7, <3>1, <3>2 DEF Typed, Stored
    <3>3. CASE ~ (t \in PaidTasks /\ x.present)
      BY <1>1, <1>7, <3>3 DEF Typed
    <3> QED BY <3>2, <3>3
  <2>7. Continues(h, h)
    BY <1>1, ContinuesItself
  <2>8. LateOn(r) => LateOn(r)'
    <3>1. Ages(t)
      BY <1>1, <2>3, <2>5 DEF Ages, StageOK
    <3> QED BY <2>5, <3>1, LateStays
  <2>9. GoalOK(t)'
    <3>1. b = 0 /\ t \in PaidTasks /\ res'[r].meta => LateOn(r)'
      BY <1>2, <2>6, <2>8 DEF Carries
    <3>2. th'[t].stage = "undo" /\ th'[t].ver = v /\ th'[t].old = res /\ th'[t].to = g
      BY <2>3, <2>5
    <3>3. \/ b = 0 /\ n = NoBytes
          \/ b \in 1..Len(h) /\ n = h[b].bytes
      BY <1>4, <1>5
    <3> QED BY <1>1, <1>2, <1>7, <2>1, <2>7, <3>1, <3>2, <3>3 DEF GoalOK
  <2>10. FreshOK(t)'
    BY <2>3, <2>5 DEF FreshOK
  <2>11. Continues(res'[r].hist, x.hist) /\ res'[r].cur = x.cur
    BY <1>1, <2>6, <2>7
  <2>12. res'[r].meta => res'[r].present
    BY <1>1, <2>6
  <2>13. /\ Sound(res[r]) /\ Points(res[r], r) /\ (res[r].meta => res[r].present)
         /\ own' = own /\ faults' = faults /\ t \notin Restorers
    BY <1>0, <1>1, <1>7
  <2>14. /\ res'[r].formal = res[r].formal /\ res'[r].claim = res[r].claim
         /\ Continues(res'[r].hist, res[r].hist) /\ res'[r].cur = res[r].cur
    BY <1>1, <2>6, <2>11
  <2>15. /\ y.got = th[t].got /\ y.stage = "undo" /\ y.step = "replace" /\ y.ver = th[t].ver
         /\ y.old = res /\ y.to = g /\ y.prior = th[t].prior /\ y.basis = th[t].basis
         /\ y.row = th[t].row /\ y.selected = th[t].selected /\ y.lost = th[t].lost
         /\ y.late = th[t].late /\ y.wroteLate = th[t].wroteLate
    BY <2>3
  <2> HIDE DEF x, h, v, b
  <2> QED BY <1>0, <2>1, <2>2, <2>4, <2>6, <2>9, <2>10, <2>12, <2>13, <2>14, <2>15, BeginInv
<1> QED BY <1>6, <1>7, ZenonT(60) DEF BeginUndo, Predecessor

\* The paid bytes are recorded; they are selected if they are current.
LEMMA PaidInv ==
  ASSUME ArtifactInv, NEW t \in Threads, BeginPaid(t)
  PROVE  ArtifactInv'
<1> DEFINE r == Target[t]
           x == res[r]
           z == Staged(t)
           v == Len(z.hist)
<1>0. /\ t \in PaidTasks /\ At(t, "commit", "begin") /\ faults' = faults /\ res' = [res EXCEPT ![r] = z]
      /\ "commit" \in {"commit", "undo"}
  BY DEF BeginPaid, Staged
<1>1. /\ Writing = {} /\ r \in Resources /\ x \in Stored /\ th[t] \in Writers /\ Typed /\ AtRest(r)
      /\ Sound(x) /\ Points(x, r) /\ (x.meta => x.present) /\ th[t].stage = "commit" /\ th[t].step = "begin" /\ StageOK(t)
      /\ t \in Tasks /\ t \notin Restorers /\ t \in Bytes /\ ~ th[t].selected
  BY <1>0, HeadSettled, Kinds DEF StageOK
<1>2. /\ z \in Stored /\ Sound(z) /\ Continues(z.hist, x.hist) /\ HistOK(z.hist) /\ z.hist \in Seq(Record)
      /\ z.formal = x.formal /\ z.claim = x.claim /\ z.meta = x.meta /\ z.present = x.present /\ z.basis = x.basis
      /\ z.cur = x.cur \/ z.cur > Len(x.hist)
      /\ v \in 1..Len(z.hist) /\ v \in Nat /\ z.hist[v].bytes = t /\ z.hist[v].basis = th[t].basis
      /\ z.hist[v].prev = 0 => x.claim = NoClaim /\ (x.meta => LateOn(r))
      /\ z.hist[v].prev # 0 => x.claim \in {NoClaim, z.hist[z.hist[v].prev].basis}
  BY <1>1, StagedOK
<1>3. \/ /\ SelectIfCurrent(t)
         /\ th' = [th EXCEPT ![t].step = "replace", ![t].ver = v, ![t].old = res',
                  ![t].to = [bytes |-> t, cur |-> v, hist |-> z.hist],
                  ![t].prior = [claim |-> x.claim, meta |-> x.meta]]
         /\ UNCHANGED own
      \/ /\ th' = [th EXCEPT ![t] = [Leave(t, IF th[t].valid THEN "cleanup" ELSE "fail") EXCEPT !.ver = v]]
         /\ ReleaseAll(t)
  BY DEF BeginPaid, Staged
<1>4. /\ res' \in [Resources -> Stored] /\ \A q \in Resources \ {r} : res'[q] = res[q]
      /\ res'[r] = z
  BY <1>0, <1>1, <1>2 DEF Typed
<1> HIDE DEF z, v
<1>5. Has(z.hist, t) /\ Points(z, r)
  BY <1>1, <1>2 DEF Has, Points
<1>6. CASE /\ SelectIfCurrent(t)
           /\ th' = [th EXCEPT ![t].step = "replace", ![t].ver = v, ![t].old = res',
                  ![t].to = [bytes |-> t, cur |-> v, hist |-> z.hist],
                  ![t].prior = [claim |-> x.claim, meta |-> x.meta]]
           /\ UNCHANGED own
  <2> DEFINE p == [claim |-> x.claim, meta |-> x.meta]
  <2>g. PICK g \in Goals : g = [bytes |-> t, cur |-> v, hist |-> z.hist]
    BY <1>1, <1>2 DEF Goals
  <2>1. /\ p \in [claim : Claims, meta : BOOLEAN] /\ p.claim = x.claim /\ p.meta = x.meta
        /\ g.bytes = t /\ g.cur = v /\ g.hist = z.hist /\ "replace" \in Steps
    BY <1>1, <2>g DEF Stored, Steps
  <2> HIDE DEF p
  <2>o. PICK o \in [Resources -> Stored] : o = res'
    BY <1>4
  <2> DEFINE y == [th[t] EXCEPT !.step = "replace", !.ver = v, !.old = o, !.to = g, !.prior = p]
  <2>2. y \in Writers
    <3>1. o \in {<<>>} \cup [Resources -> Stored] /\ g \in {<<>>} \cup Goals
      BY <2>1
    <3> QED BY <1>1, <1>2, <2>1, <3>1 DEF Writers
  <2>3. /\ y.got = th[t].got /\ y.stage = "commit" /\ y.step = "replace" /\ y.ver = v
        /\ y.old = o /\ y.to = g /\ y.prior = p /\ y.basis = th[t].basis
        /\ y.row = th[t].row /\ y.selected = th[t].selected /\ y.lost = th[t].lost
        /\ y.late = th[t].late /\ y.wroteLate = th[t].wroteLate /\ y.stuck = th[t].stuck /\ y.dropped = th[t].dropped
    BY <1>1 DEF Writers
  <2>4. th' = [th EXCEPT ![t] = y]
    BY <1>1, <1>6, <2>o, <2>g DEF Typed, p
  <2> HIDE DEF y
  <2>5. th'[t] = y /\ Others(t)
    BY <1>1, <2>2, <2>4, ThreadStep
  <2>6. \A q \in Resources : /\ res'[q].hist = o[q].hist /\ res'[q].cur = o[q].cur /\ res'[q].formal = o[q].formal
                             /\ res'[q].claim = o[q].claim /\ res'[q].present = o[q].present
    BY <2>o
  <2>7. LateOn(r) => LateOn(r)'
    <3>1. Ages(t)
      BY <1>1, <2>3, <2>5 DEF Ages
    <3> QED BY <2>5, <3>1, LateStays
  <2>8. o[r] = z
    BY <1>4, <2>o
  <2>9. GoalOK(t)'
    <3>1. th'[t].stage = "commit" /\ th'[t].ver = v /\ th'[t].old = o /\ th'[t].to = g /\ th'[t].basis = th[t].basis
      BY <2>3, <2>5
    <3>2. Continues(z.hist, z.hist)
      BY <1>2, ContinuesItself
    <3> QED BY <1>0, <1>1, <1>2, <2>1, <2>8, <3>1, <3>2 DEF GoalOK
  <2>10. Carries(t, g.hist)'
    <3>1. th'[t].ver = v /\ th'[t].prior = p /\ th'[t].basis = th[t].basis
      BY <2>3, <2>5
    <3> QED BY <1>2, <2>1, <2>7, <3>1 DEF Carries
  <2>11. FreshOK(t)'
    <3>1. x.present /\ th[t].basis = x.basis
      BY <1>6 DEF SelectIfCurrent
    <3>2. res'[r].present = x.present /\ res'[r].basis = x.basis /\ th'[t].basis = th[t].basis
      BY <1>2, <1>4, <2>3, <2>5
    <3> QED BY <3>1, <3>2 DEF FreshOK
  <2>12. /\ Continues(res'[r].hist, x.hist) /\ res'[r].formal = x.formal /\ res'[r].claim = x.claim
         /\ res'[r].cur = x.cur \/ res'[r].cur > Len(x.hist)
         /\ res'[r].meta => res'[r].present
         /\ Sound(o[r]) /\ Points(o[r], r) /\ (o[r].meta => o[r].present)
         /\ Has(res'[r].hist, t)
    BY <1>1, <1>2, <1>4, <1>5, <2>8
  <2>13. own' = own
    BY <1>6
  <2>14. /\ At(t, "commit", "begin") /\ faults' = faults /\ "commit" \in {"commit", "undo"}
         /\ res' \in [Resources -> Stored] /\ \A q \in Resources \ {r} : res'[q] = res[q]
    BY <1>0, <1>4
  <2>15. t \in Restorers => y.ver = th[t].ver
    BY <1>1
  <2>16. /\ y.got = th[t].got /\ y.stage = "commit" /\ y.step = "replace"
         /\ y.old = o /\ y.to = g /\ y.basis = th[t].basis
         /\ y.row = th[t].row /\ y.selected = th[t].selected /\ y.lost = th[t].lost
         /\ y.late = th[t].late /\ y.wroteLate = th[t].wroteLate
    BY <2>3
  <2> QED BY <2>2, <2>4, <2>6, <2>9, <2>10, <2>11, <2>12, <2>13, <2>14, <2>15, <2>16, BeginInv
<1>7. CASE /\ th' = [th EXCEPT ![t] = [Leave(t, IF th[t].valid THEN "cleanup" ELSE "fail") EXCEPT !.ver = v]]
           /\ ReleaseAll(t)
  <2> DEFINE s == IF th[t].valid THEN "cleanup" ELSE "fail"
             k == Leave(t, s)
             y == [k EXCEPT !.ver = v]
  <2>0. s \in Stages /\ s \in {"cleanup", "fail"}
    BY DEF Stages
  <2> HIDE DEF s
  <2>1. /\ k \in Writers /\ k.stage = s /\ k.step = "begin" /\ k.got = 0 /\ k.prior = th[t].prior
        /\ k.basis = th[t].basis /\ k.row = th[t].row /\ k.selected = th[t].selected /\ k.late = th[t].late
        /\ k.wroteLate = th[t].wroteLate /\ k.lost = th[t].lost
    BY <1>1, <2>0, LeaveFields
  <2>2. th' = [th EXCEPT ![t] = y]
    BY <1>7 DEF s
  <2> HIDE DEF k
  <2>3. /\ y \in Writers /\ y.stage = s /\ y.step = "begin" /\ y.got = 0 /\ y.prior = th[t].prior
        /\ y.basis = th[t].basis /\ y.row = th[t].row /\ y.selected = th[t].selected /\ y.late = th[t].late
        /\ y.wroteLate = th[t].wroteLate /\ y.lost = th[t].lost
    BY <1>2, <2>1 DEF Writers
  <2> HIDE DEF y
  <2>4. th' \in [Threads -> Writers] /\ th'[t] = y /\ Others(t)
    BY <1>1, <2>2, <2>3, ThreadStep
  <2>5. Typed'
    <3>1. own' \in [Locks -> Threads \cup {NoThread}]
      BY <1>1, <1>7 DEF Typed, ReleaseAll
    <3> QED BY <1>0, <1>1, <1>4, <2>4, <3>1 DEF Typed
  <2>6. ~ InTransaction(t)'
    BY <2>0, <2>3, <2>4 DEF InTransaction
  <2>7. Writing' = {}
    BY <1>1, <2>4, <2>6 DEF Writing, Others, InTransaction
  <2>8. Ages(t)
    BY <1>1, <2>3, <2>4 DEF Ages
  <2>9. /\ Aside(t)
        /\ \A q \in Resources : Hists(q)' = {res'[q].hist} /\ res'[q].hist \in Seq(Record)
    <3>1. /\ Continues(res'[r].hist, x.hist) /\ res'[r].formal = x.formal /\ res'[r].claim = x.claim
          /\ res'[r].cur = x.cur \/ res'[r].cur > Len(x.hist)
      BY <1>2, <1>4
    <3>2. Writing' \subseteq {t} /\ t \notin Writing'
      BY <2>7
    <3> QED BY <1>1, <1>4, <2>4, <2>8, <3>1, <3>2, RecordAside
  <2>10. \A q : LateOn(q) => LateOn(q)'
    BY <2>4, <2>8, LateStays
  <2>11. ASSUME NEW q \in Resources PROVE RestOK(q)'
    <3>1. CASE q = r
      <4>1. Sound(res[r])' /\ Points(res[r], r)'
        BY <1>2, <1>4, <1>5, <2>10 DEF Sound, Points
      <4> QED BY <1>1, <1>2, <1>4, <3>1, <4>1 DEF RestOK
    <3>2. CASE q # r
      <4>1. AtRest(q)
        BY <1>1 DEF AtRest, Writing
      <4>2. RestOK(q) /\ res'[q] = res[q]
        BY <1>4, <3>2 DEF ArtifactInv
      <4> QED BY <2>10, <4>1, <4>2 DEF RestOK, Points, Sound
    <3> QED BY <3>1, <3>2
  <2>12. StageOK(t)'
    BY <1>0, <1>1, <2>0, <2>3, <2>4, Kinds DEF StageOK
  <2>13. FrameOK(t)' /\ GoalOK(t)' /\ FreshOK(t)' /\ RestoreOK(t)' /\ FileOK(t)'
    BY <1>1, <2>0, <2>3, <2>4, <2>6 DEF FrameOK, GoalOK, FreshOK, RestoreOK, FileOK
  <2>14. CarriedOK(t)' /\ UndoneOK(t)'
    BY <1>1, <2>3, <2>4, <2>6 DEF CarriedOK, UndoneOK
  <2>15. KeptOK(t)'
    BY <1>1, <1>4, <1>5, <2>9 DEF KeptOK
  <2>16. \A u \in Threads : LocksOK(u)'
    BY <1>7, <2>0, <2>3, <2>4, DropLocks
  <2>17. \A q \in Resources : \A h \in Hists(q)' : h \in Seq(Record)
    BY <2>9
  <2> QED BY <2>5, <2>9, <2>11, <2>12, <2>13, <2>14, <2>15, <2>16, <2>17, Assembled
<1> QED BY <1>3, <1>6, <1>7

-----------------------------------------------------------------------------
(* The invariant *)

LEMMA StepInv == ArtifactInv /\ [ArtifactNext]_artifactVars => ArtifactInv'
<1> SUFFICES ASSUME ArtifactInv, [ArtifactNext]_artifactVars PROVE ArtifactInv'
  OBVIOUS
<1>1. CASE UNCHANGED artifactVars
  <2>1. res' = res /\ th' = th /\ own' = own /\ faults' = faults
    BY <1>1 DEF artifactVars
  <2>2. \A t \in Threads : /\ InTransaction(t)' = InTransaction(t) /\ UndoesImage(t)' = UndoesImage(t)
                           /\ LockPlan(t)' = LockPlan(t) /\ Held(t)' = Held(t) /\ Delivered(t)' = Delivered(t)
                           /\ StageOK(t)' = StageOK(t)
    BY <2>1 DEF InTransaction, UndoesImage, LockPlan, Held, Delivered, StageOK
  <2>3. Writing' = Writing
    BY <2>2 DEF Writing
  <2>4. \A r : /\ LateOn(r)' = LateOn(r) /\ AtRest(r)' = AtRest(r)
               /\ Hists(r)' = Hists(r) /\ Sels(r)' = Sels(r)
    BY <2>1, <2>2, <2>3 DEF LateOn, AtRest, Hists, Sels
  <2>5. \A r \in Resources : RestOK(r) => RestOK(r)'
    BY <2>1, <2>4 DEF RestOK, Sound, Points
  <2>6. \A t \in Threads : LocksOK(t) => LocksOK(t)'
    BY <2>1, <2>2 DEF LocksOK
  <2>7. ASSUME NEW t \in Threads, FrameOK(t) PROVE FrameOK(t)'
    <3>1. Points(th[t].old[Target[t]], Target[t])' = Points(th[t].old[Target[t]], Target[t])
      BY <2>1, <2>4 DEF Points
    <3>2. Sound(th[t].old[Target[t]])' = Sound(th[t].old[Target[t]])
      BY <2>1 DEF Sound
    <3> QED BY <2>1, <2>2, <2>7, <3>1, <3>2 DEF FrameOK
  <2>8. \A t \in Threads : GoalOK(t) => GoalOK(t)'
    BY <2>1, <2>2, <2>4 DEF GoalOK
  <2>9. \A t \in Threads : RestoreOK(t) => RestoreOK(t)'
    BY <2>1, <2>4 DEF RestoreOK
  <2>10. \A t \in Threads : CarriedOK(t) => CarriedOK(t)'
    BY <2>1, <2>2, <2>4, ZenonT(60) DEF CarriedOK, Carries
  <2>11. \A t \in Threads : (KeptOK(t) => KeptOK(t)') /\ (FreshOK(t) => FreshOK(t)') /\ (FileOK(t) => FileOK(t)')
    BY <2>1, <2>2, <2>4 DEF KeptOK, FreshOK, FileOK
  <2>12. \A t \in Threads : UndoneOK(t) => UndoneOK(t)'
    <3>1. \A t \in Threads : Excused(t)' = Excused(t)
      BY <2>1 DEF Excused, TakenBack, Predecessor
    <3> QED BY <2>1, <2>4, <3>1 DEF UndoneOK
  <2>13. Typed'
    BY <2>1 DEF ArtifactInv, Typed
  <2> QED BY <2>2, <2>5, <2>6, <2>7, <2>8, <2>9, <2>10, <2>11, <2>12, <2>13 DEF ArtifactInv
<1>2. ASSUME NEW t \in Threads,
             \/ AcquireLock(t)
             \/ SubmitTask(t) \/ StartUpload(t) \/ StartRestore(t)
             \/ BeginPaid(t) \/ HistoryFails(t) \/ BeginImage(t) \/ BeginUpload(t)
             \/ BeginTypedRestore(t) \/ BeginImageRestore(t) \/ BeginUndo(t)
             \/ ReplaceFile(t) \/ SavePointer(t) \/ Register(t)
             \/ UnregisterVideo(t) \/ UnregisterImage(t) \/ UnregisterRefused(t) \/ StepFails(t)
             \/ WriteMetadata(t) \/ FinishFinalize(t) \/ CleansUp(t) \/ Cancel(t) \/ LateWrite(t)
             \/ TerminalGate(t) \/ SettleRow(t) \/ EditScript(t)
      PROVE  ArtifactInv'
  BY <1>2, AcquireInv, StartInv, PaidInv, HistoryFailsInv, StageInv, RestoreInv, UndoInv, MoveInv, RegisterInv,
     UnregisterInv, RollbackInv, WriteInv, FinishInv, CleansUpInv, CancelInv, LateInv, GateInv, EditInv
<1> QED BY <1>1, <1>2 DEF ArtifactNext

\* The inductive invariant holds in every state.
THEOREM AlwaysInv == ArtifactSpec => []ArtifactInv
BY InitInv, StepInv, PTL DEF ArtifactSpec

-----------------------------------------------------------------------------
(* The theorems *)

\* The stored state is well typed, every selection names a recorded version, and a lock
\* is owned by the thread whose stage holds it.
THEOREM TypesHold == ArtifactSpec => []ArtifactTypeOK
<1>1. ArtifactInv => ArtifactTypeOK
  <2> SUFFICES ASSUME ArtifactInv PROVE ArtifactTypeOK
    OBVIOUS
  <2>1. ASSUME NEW r \in Resources PROVE res[r].cur <= Len(res[r].hist)
    <3>1. CASE AtRest(r)
      BY <3>1 DEF ArtifactInv, RestOK, Sound
    <3>2. ASSUME NEW t \in Threads, Target[t] = r, InTransaction(t) PROVE res[r].cur <= Len(res[r].hist)
      <4>1. FrameOK(t) /\ GoalOK(t) /\ th[t].to \in Goals /\ th[t].step \in {"replace", "point", "register"}
        BY <3>2, MyTransaction DEF ArtifactInv, InTransaction
      <4>2. CASE th[t].step \in {"replace", "point"}
        BY <3>2, <4>1, <4>2 DEF FrameOK, Sound
      <4>3. CASE th[t].step = "register"
        <5>1. res[r].hist = th[t].to.hist /\ res[r].cur = th[t].to.cur
          BY <3>2, <4>1, <4>3 DEF FrameOK
        <5>2. th[t].to.hist \in Seq(Record)
          BY <4>1 DEF Goals
        <5>3. Len(th[t].to.hist) \in Nat
          BY <5>2
        <5>4. th[t].to.cur = 0 \/ th[t].to.cur \in 1..Len(th[t].to.hist)
          BY <3>2, <4>1 DEF GoalOK
        <5> QED BY <5>1, <5>3, <5>4
      <4> QED BY <4>1, <4>2, <4>3
    <3> QED BY <3>1, <3>2 DEF AtRest
  <2>2. ASSUME NEW r \in Resources
        PROVE  /\ \A v \in 1..Len(res[r].hist) : res[r].hist[v] \in Record
               /\ res[r].cur \in 0..Len(res[r].hist)
               /\ res[r].formal \in Bytes /\ res[r].claim \in Bases \cup {NoClaim}
               /\ res[r].meta \in BOOLEAN /\ res[r].present \in BOOLEAN /\ res[r].basis \in Bases
    <3>1. /\ res[r].hist \in Seq(Record) /\ res[r].cur \in Nat /\ res[r].formal \in Bytes /\ res[r].claim \in Claims
          /\ res[r].meta \in BOOLEAN /\ res[r].present \in BOOLEAN /\ res[r].basis \in Bases
      BY DEF ArtifactInv, Typed, Stored
    <3>2. Len(res[r].hist) \in Nat /\ \A v \in 1..Len(res[r].hist) : res[r].hist[v] \in Record
      BY <3>1
    <3>3. res[r].cur \in 0..Len(res[r].hist)
      BY <2>1, <3>1, <3>2
    <3> QED BY <3>1, <3>2, <3>3 DEF Claims
  <2>3. ASSUME NEW t \in Threads
        PROVE  /\ th[t].stage \in Stages
               /\ \A l \in Locks \ {"loop"} : own[l] = t <=> l \in Held(t)
    BY DEF ArtifactInv, Typed, Writers, LocksOK
  <2> QED BY <2>2, <2>3 DEF ArtifactTypeOK
<1> QED BY <1>1, AlwaysInv, PTL

\* A paid result that was delivered is in the version history for good.
THEOREM PaidIsKeptHolds == ArtifactSpec => []PaidIsKept
<1>1. ArtifactInv => PaidIsKept
  <2> SUFFICES ASSUME ArtifactInv, NEW t \in PaidTasks, th[t].stage \in {"finalize", "cleanup", "gate", "undo", "end"},
                      th[t].row # "none", ~ th[t].lost
               PROVE  Has(res[Target[t]].hist, t)
    BY DEF PaidIsKept, Has
  <2>1. t \in Threads /\ Delivered(t)
    BY DEF Delivered, Threads, Tasks
  <2>2. res[Target[t]].hist \in Hists(Target[t])
    BY DEF Hists
  <2> QED BY <2>1, <2>2 DEF ArtifactInv, KeptOK
<1> QED BY <1>1, AlwaysInv, PTL

\* The version of a task that ended cancelled or failed keeps its claim only with an excuse.
THEOREM CancelledNotClaimedHolds == ArtifactSpec => []CancelledNotClaimed
<1>1. ArtifactInv => CancelledNotClaimed
  <2> SUFFICES ASSUME ArtifactInv, NEW t \in Tasks, th[t].row \in {"cancelled", "failed"}, th[t].selected,
                      res[Target[t]].cur = th[t].ver, res[Target[t]].claim = th[t].basis
               PROVE  Excused(t)
    BY DEF CancelledNotClaimed, Excused
  <2>1. t \in Threads /\ th[t].stage = "end"
    BY DEF ArtifactInv, StageOK, Threads
  <2>2. th[t].ver \in Sels(Target[t])
    BY DEF Sels
  <2> QED BY <2>1, <2>2 DEF ArtifactInv, UndoneOK
<1> QED BY <1>1, AlwaysInv, PTL

\* Only a late finalizer leaves a pointer without a file.
THEOREM PointerLeaksOnlyLateHolds == ArtifactSpec => []PointerLeaksOnlyLate
<1>1. ArtifactInv => PointerLeaksOnlyLate
  <2> SUFFICES ASSUME ArtifactInv, NEW r \in Resources, Quiet(r), res[r].meta, res[r].formal = NoBytes PROVE LateOn(r)
    BY DEF PointerLeaksOnlyLate, LateOn
  <2>1. AtRest(r)
    BY DEF AtRest, Quiet, InTransaction
  <2> QED BY <2>1 DEF ArtifactInv, RestOK, Points
<1> QED BY <1>1, AlwaysInv, PTL

\* The order of the locks: the admission guards, the script, the project, the versions.
Rank(l) == CASE l = "script" -> 2 [] l = "project" -> 3 [] l = "versions" -> 4 [] OTHER -> 1

\* But for the compensation of an image, a thread waits for a lock above those it holds.
LEMMA Climbs ==
  ASSUME ArtifactInv, NEW t \in Threads, Locking(t), ~ UndoesImage(t)
  PROVE  /\ Rank(Waited(t)) \in 1..4 /\ Waited(t) \in Locks \ {"loop"}
         /\ \A l \in Locks \ {"loop"} : own[l] = t => Rank(l) < Rank(Waited(t))
<1> DEFINE n == th[t].got
<1>0. /\ th[t].stage \in {"commit", "undo"} /\ n \in 0..4 /\ n < Len(LockPlan(t)) /\ Waited(t) = LockPlan(t)[n + 1]
      /\ \A l \in Locks \ {"loop"} : own[l] = t => l \in {LockPlan(t)[i] : i \in 1..n}
      /\ th[t].stage = "undo" => t \in Tasks
      /\ Rank("script") = 2 /\ Rank("project") = 3 /\ Rank("versions") = 4
  BY DEF Locking, LocksNeeded, UndoesImage, ArtifactInv, Typed, Writers, LocksOK, Held, Waited, StageOK, Rank
<1>1. CASE t \in PaidTasks
  <2>1. LockPlan(t) = <<Target[t], "script", "project", "versions">> /\ Len(LockPlan(t)) = 4
    BY <1>1, Plans
  <2>2. Target[t] \in Locks \ {"loop"} /\ Rank(Target[t]) = 1
    BY Kinds DEF Rank
  <2>3. n \in 0..3
    BY <1>0, <2>1
  <2>4. CASE n = 0
    BY <1>0, <2>1, <2>2, <2>4
  <2>5. CASE n = 1
    BY <1>0, <2>1, <2>2, <2>5 DEF Locks
  <2>6. CASE n = 2
    BY <1>0, <2>1, <2>2, <2>6 DEF Locks
  <2>7. CASE n = 3
    BY <1>0, <2>1, <2>2, <2>7 DEF Locks
  <2> QED BY <2>3, <2>4, <2>5, <2>6, <2>7
<1>2. CASE t \notin PaidTasks
  <2>1. LockPlan(t) = <<"script", "project", "versions">> /\ Len(LockPlan(t)) = 3
    BY <1>0, <1>2, Plans DEF UndoesImage, Tasks
  <2>3. n \in 0..2
    BY <1>0, <2>1
  <2>4. CASE n = 0
    BY <1>0, <2>1, <2>4 DEF Locks
  <2>5. CASE n = 1
    BY <1>0, <2>1, <2>5 DEF Locks
  <2>6. CASE n = 2
    BY <1>0, <2>1, <2>6 DEF Locks
  <2> QED BY <2>3, <2>4, <2>5, <2>6
<1> QED BY <1>1, <1>2

\* No circle of waits forms without the compensation of an image or one on the event loop.
THEOREM OrderedOtherwiseHolds == ArtifactSpec => []OrderedOtherwise
<1>1. ArtifactInv => OrderedOtherwise
  <2> SUFFICES ASSUME ArtifactInv, NEW S \in SUBSET Waiting, Deadlocked(S),
                      \A t \in S : ~ UndoesImage(t), own["loop"] \notin S
               PROVE  FALSE
    BY DEF OrderedOtherwise, UndoesImage
  <2>1. ASSUME NEW t \in S PROVE t \in Threads /\ Locking(t) /\ own[Waited(t)] \in S
    BY DEF Deadlocked, WaitsFor, Waiting
  <2>2. ASSUME NEW t \in S
        PROVE  /\ Rank(Waited(t)) \in 1..4
               /\ \E u \in S : Rank(Waited(t)) < Rank(Waited(u))
    <3>1. t \in Threads /\ Locking(t) /\ ~ UndoesImage(t)
      BY <2>1
    <3>2. Rank(Waited(t)) \in 1..4 /\ Waited(t) \in Locks \ {"loop"}
      BY <3>1, Climbs
    <3> DEFINE u == own[Waited(t)]
    <3>3. u \in S /\ u \in Threads /\ Locking(u) /\ ~ UndoesImage(u) /\ own[Waited(t)] = u
      BY <2>1
    <3>4. Rank(Waited(t)) < Rank(Waited(u))
      BY <3>2, <3>3, Climbs
    <3> QED BY <3>2, <3>3, <3>4
  <2>3. PICK a \in S : TRUE
    BY DEF Deadlocked
  <2>4. PICK b \in S : Rank(Waited(a)) < Rank(Waited(b))
    BY <2>2
  <2>5. PICK c \in S : Rank(Waited(b)) < Rank(Waited(c))
    BY <2>2
  <2>6. PICK d \in S : Rank(Waited(c)) < Rank(Waited(d))
    BY <2>2
  <2>7. PICK e \in S : Rank(Waited(d)) < Rank(Waited(e))
    BY <2>2
  <2>8. /\ Rank(Waited(a)) \in 1..4 /\ Rank(Waited(b)) \in 1..4 /\ Rank(Waited(c)) \in 1..4
        /\ Rank(Waited(d)) \in 1..4 /\ Rank(Waited(e)) \in 1..4
    BY <2>2
  <2> QED BY <2>4, <2>5, <2>6, <2>7, <2>8
<1> QED BY <1>1, AlwaysInv, PTL

-----------------------------------------------------------------------------
(* Action properties *)

Acts(t) ==
  \/ AcquireLock(t)
  \/ SubmitTask(t) \/ StartUpload(t) \/ StartRestore(t)
  \/ BeginPaid(t) \/ HistoryFails(t) \/ BeginImage(t) \/ BeginUpload(t)
  \/ BeginTypedRestore(t) \/ BeginImageRestore(t) \/ BeginUndo(t)
  \/ ReplaceFile(t) \/ SavePointer(t) \/ Register(t)
  \/ UnregisterVideo(t) \/ UnregisterImage(t) \/ UnregisterRefused(t) \/ StepFails(t)
  \/ WriteMetadata(t) \/ FinishFinalize(t) \/ CleansUp(t) \/ Cancel(t) \/ LateWrite(t)
  \/ TerminalGate(t) \/ SettleRow(t) \/ EditScript(t)

\* An action writes the record of its own thread.
LEMMA OnlyActor ==
  ASSUME Typed, NEW t \in Threads, Acts(t)
  PROVE  Others(t)
<1>1. CASE AcquireLock(t) \/ SubmitTask(t) \/ StartUpload(t) \/ StartRestore(t)
  BY <1>1 DEF Typed, Others, AcquireLock, SubmitTask, StartUpload, StartRestore
<1>2. CASE BeginPaid(t) \/ HistoryFails(t)
  BY <1>2 DEF Typed, Others, BeginPaid, HistoryFails
<1>3. CASE BeginImage(t) \/ BeginUpload(t) \/ BeginTypedRestore(t) \/ BeginImageRestore(t)
  BY <1>3 DEF Typed, Others, BeginImage, BeginUpload, BeginTypedRestore, BeginImageRestore, Activate
<1>4. CASE BeginUndo(t) \/ ReplaceFile(t) \/ SavePointer(t) \/ Register(t)
  BY <1>4 DEF Typed, Others, BeginUndo, ReplaceFile, SavePointer, Register
<1>5. CASE UnregisterVideo(t) \/ UnregisterImage(t) \/ UnregisterRefused(t) \/ StepFails(t)
  BY <1>5 DEF Typed, Others, UnregisterVideo, UnregisterImage, UnregisterRefused, StepFails
<1>6. CASE WriteMetadata(t) \/ FinishFinalize(t) \/ CleansUp(t)
  BY <1>6 DEF Typed, Others, WriteMetadata, FinishFinalize, CleansUp, UndoOnLoop, ToUndo
<1>7. CASE Cancel(t) \/ LateWrite(t) \/ TerminalGate(t) \/ SettleRow(t) \/ EditScript(t)
  BY <1>7 DEF Typed, Others, Cancel, LateWrite, TerminalGate, SettleRow, EditScript, ToUndo
<1> QED BY <1>1, <1>2, <1>3, <1>4, <1>5, <1>6, <1>7 DEF Acts

\* A commit goes over to the finalization only by the registration.
LEMMA FinalizesByRegister ==
  ASSUME ArtifactInv, NEW t \in Threads, Acts(t), th[t].stage = "commit", th'[t].stage = "finalize"
  PROVE  Register(t)
<1>0. th[t] \in Writers /\ Typed
  BY DEF ArtifactInv, Typed
<1>1. CASE AcquireLock(t)
  BY <1>0, <1>1 DEF AcquireLock, Typed, Writers
<1>2. CASE SubmitTask(t) \/ StartUpload(t) \/ StartRestore(t) \/ BeginUndo(t) \/ UnregisterVideo(t) \/ UnregisterImage(t)
           \/ UnregisterRefused(t) \/ WriteMetadata(t) \/ FinishFinalize(t) \/ CleansUp(t) \/ TerminalGate(t) \/ SettleRow(t) \/ EditScript(t)
  BY <1>2 DEF SubmitTask, StartUpload, StartRestore, BeginUndo, UnregisterVideo, UnregisterImage, UnregisterRefused,
     WriteMetadata, FinishFinalize, CleansUp, TerminalGate, SettleRow, EditScript, At
<1>3. \A s \in {"fail", "cleanup", "gate"} : Leave(t, s) \in Writers /\ Leave(t, s).stage = s
  <2>1. "fail" \in Stages /\ "cleanup" \in Stages /\ "gate" \in Stages
    BY DEF Stages
  <2> QED BY <1>0, <2>1, LeaveFields
<1>4. CASE BeginPaid(t)
  <2> DEFINE s == IF th[t].valid THEN "cleanup" ELSE "fail"
             k == Leave(t, s)
  <2>1. k \in Writers /\ k.stage # "finalize"
    BY <1>3
  <2> HIDE DEF k
  <2>2. \A n : [k EXCEPT !.ver = n].stage # "finalize"
    BY <2>1 DEF Writers
  <2> DEFINE z == Staged(t)
             n == Len(z.hist)
             g == [bytes |-> t, cur |-> n, hist |-> z.hist]
             p == [claim |-> res[Target[t]].claim, meta |-> res[Target[t]].meta]
  <2>3. \/ th' = [th EXCEPT ![t].step = "replace", ![t].ver = n, ![t].old = res', ![t].to = g, ![t].prior = p]
        \/ th' = [th EXCEPT ![t] = [k EXCEPT !.ver = n]]
    BY <1>4 DEF BeginPaid, Staged, k
  <2> HIDE DEF z, n, g, p
  <2>4. CASE th' = [th EXCEPT ![t].step = "replace", ![t].ver = n, ![t].old = res', ![t].to = g, ![t].prior = p]
    BY <1>0, <2>4 DEF Typed, Writers
  <2>5. CASE th' = [th EXCEPT ![t] = [k EXCEPT !.ver = n]]
    BY <1>0, <2>2, <2>5 DEF Typed
  <2> QED BY <2>3, <2>4, <2>5
<1>5. CASE HistoryFails(t) \/ StepFails(t)
  <2> DEFINE k == Leave(t, "fail")
  <2>1. k \in Writers /\ k.stage = "fail"
    BY <1>3
  <2> HIDE DEF k
  <2>2. \A b : [k EXCEPT !.lost = b].stage = "fail" /\ [k EXCEPT !.stuck = b].stage = "fail"
    BY <2>1 DEF Writers
  <2>3. \E b : th' = [th EXCEPT ![t] = [k EXCEPT !.lost = b]] \/ th' = [th EXCEPT ![t] = [k EXCEPT !.stuck = b]]
    BY <1>5 DEF HistoryFails, StepFails, k
  <2> QED BY <1>0, <2>2, <2>3 DEF Typed
<1>6. CASE BeginImage(t) \/ BeginUpload(t) \/ BeginTypedRestore(t) \/ BeginImageRestore(t)
  <2> DEFINE p == [claim |-> res[Target[t]].claim, meta |-> res[Target[t]].meta]
  <2>1. ASSUME NEW g, NEW b, Activate(t, g, b) PROVE th'[t].stage \in {"commit", "fail"}
    <3>1. \/ th' = [th EXCEPT ![t].step = "replace", ![t].ver = g.cur, ![t].to = g, ![t].old = res, ![t].prior = p]
          \/ th' = [th EXCEPT ![t] = Leave(t, "fail")]
      BY <2>1 DEF Activate
    <3> HIDE DEF p
    <3>2. CASE th' = [th EXCEPT ![t].step = "replace", ![t].ver = g.cur, ![t].to = g, ![t].old = res, ![t].prior = p]
      BY <1>0, <3>2 DEF Typed, Writers
    <3>3. CASE th' = [th EXCEPT ![t] = Leave(t, "fail")]
      BY <1>0, <1>3, <3>3 DEF Typed
    <3> QED BY <3>1, <3>2, <3>3
  <2>2. Activate(t, StagedGoal(t), TRUE) \/ Activate(t, RestoredGoal(t), TRUE) \/ Activate(t, RestoredGoal(t), FALSE)
    BY <1>6 DEF BeginImage, BeginUpload, BeginTypedRestore, BeginImageRestore
  <2> QED BY <2>1, <2>2
<1>7. CASE ReplaceFile(t) \/ SavePointer(t) \/ LateWrite(t)
  <2>1. \/ \E p : th' = [th EXCEPT ![t].step = p]
        \/ th' = [th EXCEPT ![t].late = FALSE, ![t].wroteLate = TRUE]
    BY <1>7 DEF ReplaceFile, SavePointer, LateWrite
  <2>2. ASSUME NEW p, th' = [th EXCEPT ![t].step = p] PROVE th'[t].stage = th[t].stage
    BY <1>0, <2>2 DEF Typed, Writers
  <2>3. CASE th' = [th EXCEPT ![t].late = FALSE, ![t].wroteLate = TRUE]
    BY <1>0, <2>3 DEF Typed, Writers
  <2> QED BY <2>1, <2>2, <2>3
<1>8. CASE Cancel(t)
  <2>1. PICK b : th' = [th EXCEPT ![t].row = "cancelling", ![t].valid = b]
    BY <1>8 DEF Cancel
  <2>2. th'[t].stage = th[t].stage
    BY <1>0, <2>1 DEF Typed, Writers
  <2> QED BY <2>2
<1> QED BY <1>1, <1>2, <1>4, <1>5, <1>6, <1>7, <1>8 DEF Acts

\* Paid bytes become current only while what they were made from is what the script asks for.
THEOREM NoStaleSelectionHolds == ArtifactSpec => NoStaleSelection
<1>1. ArtifactInv /\ [ArtifactNext]_artifactVars =>
        [\A t \in PaidTasks :
           th[t].stage = "commit" /\ th'[t].stage = "finalize" =>
             /\ res[Target[t]].present
             /\ th[t].basis = res[Target[t]].basis]_artifactVars
  <2> SUFFICES ASSUME ArtifactInv, ArtifactNext, NEW t \in PaidTasks, th[t].stage = "commit", th'[t].stage = "finalize"
               PROVE  res[Target[t]].present /\ th[t].basis = res[Target[t]].basis
    OBVIOUS
  <2>1. PICK u \in Threads : Acts(u)
    BY DEF ArtifactNext, Acts
  <2>2. t \in Threads /\ Typed
    BY DEF Threads, Tasks, ArtifactInv
  <2>3. u = t
    BY <2>1, <2>2, OnlyActor DEF Others
  <2>4. Register(t)
    BY <2>1, <2>2, <2>3, FinalizesByRegister
  <2>5. InTransaction(t)
    BY <2>4 DEF Register, At, InTransaction
  <2> QED BY <2>2, <2>5 DEF ArtifactInv, FreshOK
<1> QED BY <1>1, AlwaysInv, PTL DEF ArtifactSpec, NoStaleSelection

-----------------------------------------------------------------------------
(* The refinement: what others may rely on moves in one transition *)

\* x and y select the same and agree on the history.
SameSelection(x, y) == x.cur = y.cur /\ x.formal = y.formal /\ x.claim = y.claim
Alike(x, y) == x.hist = y.hist /\ SameSelection(x, y)

\* What is visible of r is what is stored, or what the only transaction started from.
LEMMA VisibleAtRest ==
  ASSUME NEW r, AtRest(r)
  PROVE  Visible(r) = res[r]
BY DEF AtRest, Visible

LEMMA VisibleInside ==
  ASSUME NEW t \in Threads, Writing = {t}
  PROVE  Visible(Target[t]) = th[t].old[Target[t]] /\ \A q : q # Target[t] => Visible(q) = res[q]
<1>1. \A u \in Threads : InTransaction(u) <=> u = t
  BY DEF Writing
<1>2. Visible(Target[t]) = th[t].old[Target[t]]
  <2> DEFINE c == CHOOSE u \in Threads : InTransaction(u) /\ Target[u] = Target[t]
  <2>1. c = t
    BY <1>1
  <2> QED BY <1>1, <2>1 DEF Visible
<1>3. \A q : q # Target[t] => Visible(q) = res[q]
  BY <1>1 DEF Visible
<1> QED BY <1>2, <1>3

LEMMA VisibleOutside ==
  ASSUME Writing = {}
  PROVE  \A q : Visible(q) = res[q]
<1>1. \A u \in Threads : ~ InTransaction(u)
  BY DEF Writing
<1> QED BY <1>1 DEF Visible

\* The same of the next state.
LEMMA VisibleInsideNext ==
  ASSUME NEW t \in Threads, Writing' = {t}
  PROVE  Visible(Target[t])' = th'[t].old[Target[t]] /\ \A q : q # Target[t] => Visible(q)' = res'[q]
<1>1. \A u \in Threads : InTransaction(u)' <=> u = t
  BY DEF Writing
<1>2. Visible(Target[t])' = th'[t].old[Target[t]]
  <2> DEFINE c == CHOOSE u \in Threads : InTransaction(u)' /\ Target[u] = Target[t]
  <2>1. c = t
    BY <1>1
  <2> QED BY <1>1, <2>1 DEF Visible
<1>3. \A q : q # Target[t] => Visible(q)' = res'[q]
  BY <1>1 DEF Visible
<1> QED BY <1>2, <1>3

LEMMA VisibleOutsideNext ==
  ASSUME Writing' = {}
  PROVE  \A q : Visible(q)' = res'[q]
<1>1. \A u \in Threads : ~ InTransaction(u)'
  BY DEF Writing
<1> QED BY <1>1 DEF Visible

\* Nobody writes, or one thread does.
LEMMA NoneOrOne ==
  ASSUME ArtifactInv
  PROVE  Writing = {} \/ \E u \in Threads : Writing = {u}
<1> SUFFICES ASSUME NEW u \in Writing PROVE Writing = {u}
  BY DEF Writing
<1> QED BY OneWriter

\* What is visible is stored data whose selection is proven.
LEMMA VisibleSound ==
  ASSUME ArtifactInv
  PROVE  \A r \in Resources : Visible(r) \in Stored /\ Sound(Visible(r))
<1> SUFFICES ASSUME NEW r \in Resources PROVE Visible(r) \in Stored /\ Sound(Visible(r))
  OBVIOUS
<1>1. CASE AtRest(r)
  <2>1. res[r] \in Stored /\ RestOK(r) /\ Visible(r) = res[r]
    BY <1>1, VisibleAtRest DEF ArtifactInv, Typed
  <2> QED BY <1>1, <2>1 DEF RestOK
<1>2. CASE ~ AtRest(r)
  <2>1. PICK u \in Threads : InTransaction(u) /\ Target[u] = r
    BY <1>2 DEF AtRest
  <2>2. FrameOK(u) /\ Writing = {u} /\ th[u].old[r] \in Stored
    BY <2>1, MyTransaction DEF ArtifactInv
  <2>3. Visible(r) = th[u].old[r]
    BY <2>1, <2>2, VisibleInside
  <2> QED BY <2>1, <2>2, <2>3 DEF FrameOK
<1> QED BY <1>1, <1>2

\* A step shows nothing of the other resources and continues the history of r, and the
\* selection of r stays, moves to a version, or is dropped.
Shows(r) ==
  /\ \A q \in Resources \ {r} : Alike(Visible(q)', Visible(q))
  /\ Continues(Visible(r)'.hist, Visible(r).hist)
  /\ \/ SameSelection(Visible(r)', Visible(r))
     \/ Visible(r)'.cur # 0
     \/ Visible(r)'.formal = NoBytes

\* The variables of FormalSelection.
Histories == [r \in Resources |-> Visible(r).hist]
Selections == [r \in Resources |->
  [version |-> Visible(r).cur, bytes |-> Visible(r).formal, claim |-> Visible(r).claim]]

\* A step that shows at most a move of r is a transition of the abstract specification.
LEMMA ShownIsTransition ==
  ASSUME ArtifactInv, NEW r \in Resources, Shows(r),
         \A q \in Resources : Visible(q)' \in Stored /\ Sound(Visible(q)')
  PROVE  Formal!Transition(r)
<1> DEFINE x == Visible(r)
<1>1. PICK y : y = Visible(r)'
  OBVIOUS
<1>2. /\ y \in Stored /\ Sound(y) /\ Continues(y.hist, x.hist)
      /\ SameSelection(y, x) \/ y.cur # 0 \/ y.formal = NoBytes
  BY <1>1 DEF Shows
<1>3. x \in Stored
  BY VisibleSound
<1>4. Len(x.hist) \in Nat /\ Len(y.hist) \in Nat /\ \A i \in 1..Len(y.hist) : y.hist[i] \in Record
  <2>1. x.hist \in Seq(Record) /\ y.hist \in Seq(Record)
    BY <1>2, <1>3 DEF Stored
  <2> QED BY <2>1
<1>5. Formal!Extended(r)
  <2>1. /\ Len(y.hist) \in Len(x.hist)..(Len(x.hist) + 2)
        /\ \A i \in 1..Len(y.hist) : y.hist[i] \in Record
        /\ \A i \in 1..Len(x.hist) : y.hist[i] = x.hist[i]
    BY <1>2, <1>4 DEF Continues
  <2> HIDE DEF x
  <2>2. /\ Len(y.hist) \in Len(Visible(r).hist)..(Len(Visible(r).hist) + 2)
        /\ \A i \in 1..Len(Visible(r).hist) : y.hist[i] = Visible(r).hist[i]
    BY <2>1 DEF x
  <2> QED BY <1>1, <2>1, <2>2 DEF Formal!Extended
<1>6. \A q \in Resources \ {r} :
        Histories'[q] = Histories[q] /\ Selections'[q] = Selections[q]
  BY DEF Shows, Alike, SameSelection, Histories, Selections
<1> DEFINE s == [version |-> y.cur, bytes |-> y.formal, claim |-> y.claim]
<1>7. \/ SameSelection(y, x)
      \/ /\ s.version \in 1..Len(y.hist) /\ s.bytes = y.hist[s.version].bytes
         /\ s.claim \in {NoClaim, y.hist[s.version].basis}
      \/ s.version = 0 /\ s.claim = NoClaim /\ s.bytes = NoBytes
  <2>1. y.cur \in Nat
    BY <1>2 DEF Stored
  <2> QED BY <1>2, <1>4, <2>1 DEF Sound
<1>8. \/ Selections'[r] = Selections[r]
      \/ Formal!Proven(Selections'[r], Histories'[r])
      \/ Formal!Unselected(Selections'[r]) /\ Selections'[r].bytes = NoBytes
  <2>1. Selections'[r] = s /\ Histories'[r] = y.hist
    BY <1>1 DEF Histories, Selections
  <2>2. SameSelection(y, x) => s = [version |-> x.cur, bytes |-> x.formal, claim |-> x.claim]
    BY DEF SameSelection
  <2> QED BY <1>7, <2>1, <2>2 DEF Formal!Proven, Formal!Unselected, Selections
<1> QED BY <1>5, <1>6, <1>8 DEF Formal!Transition, Histories, Selections

\* From x to y: the history goes on, and the selection is the old one, a version, or none.
Moved(y, x) ==
  /\ Continues(y.hist, x.hist)
  /\ SameSelection(y, x) \/ y.cur # 0 \/ y.formal = NoBytes

LEMMA AlikeMoved ==
  ASSUME NEW x \in Stored, NEW y, Alike(y, x)
  PROVE  Moved(y, x)
<1>1. x.hist \in Seq(Record)
  BY DEF Stored
<1> QED BY <1>1, ContinuesItself DEF Moved, Alike

\* A step inside or outside of a transaction that moves nothing outside of it.
LEMMA StillShows ==
  ASSUME ArtifactInv, NEW t \in Threads, Others(t), InTransaction(t)' <=> InTransaction(t),
         InTransaction(t) => th'[t].old = th[t].old,
         \A q \in Resources : Alike(res'[q], res[q]) \/ (InTransaction(t) /\ q = Target[t])
  PROVE  Shows(Target[t])
<1>1. \A u \in Threads : InTransaction(u)' <=> InTransaction(u)
  BY DEF Others, InTransaction
<1>2. Writing' = Writing
  BY <1>1 DEF Writing
<1>3. ASSUME NEW q \in Resources PROVE Alike(Visible(q)', Visible(q))
  <2>1. CASE Writing = {}
    <3>1. ~ InTransaction(t)
      BY <2>1 DEF Writing
    <3>2. Visible(q) = res[q] /\ Visible(q)' = res'[q]
      BY <1>2, <2>1, VisibleOutside, VisibleOutsideNext
    <3> QED BY <3>1, <3>2
  <2>2. ASSUME NEW u \in Threads, Writing = {u} PROVE Alike(Visible(q)', Visible(q))
    <3>1. InTransaction(t) => t = u
      BY <2>2 DEF Writing
    <3>2. InTransaction(u) /\ th'[u].old = th[u].old
      <4>1. InTransaction(u)
        BY <2>2 DEF Writing
      <4> QED BY <4>1 DEF Others
    <3>3. CASE q = Target[u]
      <4>1. Visible(q) = th[u].old[q] /\ Visible(q)' = th'[u].old[q]
        BY <1>2, <2>2, <3>3, VisibleInside, VisibleInsideNext
      <4> QED BY <3>2, <4>1 DEF Alike, SameSelection
    <3>4. CASE q # Target[u]
      <4>1. Visible(q) = res[q] /\ Visible(q)' = res'[q]
        BY <1>2, <2>2, <3>4, VisibleInside, VisibleInsideNext
      <4> QED BY <3>1, <3>4, <4>1
    <3> QED BY <3>3, <3>4
  <2> QED BY <2>1, <2>2, NoneOrOne
<1>4. Target[t] \in Resources /\ Visible(Target[t]) \in Stored
  BY Kinds, VisibleSound
<1>5. Alike(Visible(Target[t])', Visible(Target[t]))
  BY <1>3, <1>4
<1>6. PICK y : y = Visible(Target[t])'
  OBVIOUS
<1>7. Moved(y, Visible(Target[t]))
  BY <1>4, <1>5, <1>6, AlikeMoved
<1> QED BY <1>3, <1>6, <1>7 DEF Shows, Moved

\* A transaction begins: what it captured is what is visible from now on.
LEMMA EnterShows ==
  ASSUME NEW t \in Threads, Writing = {}, Others(t), InTransaction(t)',
         \A q \in Resources \ {Target[t]} : Alike(res'[q], res[q]),
         Moved(th'[t].old[Target[t]], res[Target[t]])
  PROVE  Shows(Target[t])
<1>1. Writing' = {t}
  BY DEF Writing, Others, InTransaction
<1>2. /\ \A q : Visible(q) = res[q]
      /\ Visible(Target[t])' = th'[t].old[Target[t]]
      /\ \A q : q # Target[t] => Visible(q)' = res'[q]
  BY <1>1, VisibleOutside, VisibleInsideNext
<1> QED BY <1>2 DEF Shows, Moved

\* A transaction ends: what is stored is visible again.
LEMMA LeaveShows ==
  ASSUME NEW t \in Threads, Writing = {t}, Others(t), ~ InTransaction(t)',
         \A q \in Resources \ {Target[t]} : Alike(res'[q], res[q]),
         Moved(res'[Target[t]], th[t].old[Target[t]])
  PROVE  Shows(Target[t])
<1>1. Writing' = {}
  BY DEF Writing, Others, InTransaction
<1>2. /\ \A q : Visible(q)' = res'[q]
      /\ Visible(Target[t]) = th[t].old[Target[t]]
      /\ \A q : q # Target[t] => Visible(q) = res[q]
  BY <1>1, VisibleInside, VisibleOutsideNext
<1> QED BY <1>2 DEF Shows, Moved

\* A step that writes a resource in one go, while nobody is in a transaction.
LEMMA OnceShows ==
  ASSUME NEW t \in Threads, Writing = {}, Others(t), ~ InTransaction(t)',
         \A q \in Resources \ {Target[t]} : Alike(res'[q], res[q]),
         Moved(res'[Target[t]], res[Target[t]])
  PROVE  Shows(Target[t])
<1>1. Writing' = {}
  BY DEF Writing, Others, InTransaction
<1>2. \A q : Visible(q)' = res'[q] /\ Visible(q) = res[q]
  BY <1>1, VisibleOutside, VisibleOutsideNext
<1> QED BY <1>2 DEF Shows, Moved

\* An edit of the script may forget a claim.
LEMMA EditShows ==
  ASSUME ArtifactInv, NEW t \in Threads, EditScript(t)
  PROVE  \E r \in Resources : Shows(r)
<1>0. Typed /\ th[t] \in Writers /\ StageOK(t)
  BY DEF ArtifactInv, Typed
<1>1a. PICK r \in Resources : \E x \in Edits(res[r]) : res' = [res EXCEPT ![r] = x]
  BY DEF EditScript
<1>1. PICK x \in Edits(res[r]) : res' = [res EXCEPT ![r] = x]
  BY <1>1a
<1>2. /\ x.hist = res[r].hist /\ x.cur = res[r].cur /\ x.formal = res[r].formal /\ x.claim \in {NoClaim, res[r].claim}
      /\ res[r] \in Stored
  <2>1. res[r] \in Stored
    BY <1>0 DEF Typed
  <2> QED BY <2>1 DEF Edits, Stored
<1>3. Others(t) /\ ~ InTransaction(t) /\ ~ InTransaction(t)'
  <2>1. th'[t].stage = "end" /\ th[t].stage = "idle"
    BY <1>0 DEF EditScript, Typed, Writers
  <2>2. Others(t)
    BY <1>0 DEF EditScript, Typed, Others
  <2> QED BY <2>1, <2>2 DEF InTransaction
<1>4. res'[r] = x /\ \A q \in Resources \ {r} : res'[q] = res[q]
  BY <1>0, <1>1 DEF Typed
<1>5. CASE AtRest(r)
  <2>1. \A u \in Threads : InTransaction(u)' <=> InTransaction(u)
    BY <1>3 DEF Others, InTransaction
  <2>2. Writing' = Writing /\ \A u \in Writing : Target[u] # r /\ th'[u].old = th[u].old
    BY <1>3, <1>5, <2>1 DEF Writing, AtRest, Others
  <2>3. Visible(r) = res[r] /\ Visible(r)' = x /\ \A q \in Resources \ {r} : Alike(Visible(q)', Visible(q))
    <3>1. CASE Writing = {}
      <4>1. \A q : Visible(q) = res[q] /\ Visible(q)' = res'[q]
        BY <2>2, <3>1, VisibleOutside, VisibleOutsideNext
      <4> QED BY <1>4, <4>1 DEF Alike, SameSelection
    <3>2. ASSUME NEW u \in Threads, Writing = {u}
          PROVE  Visible(r) = res[r] /\ Visible(r)' = x /\ \A q \in Resources \ {r} : Alike(Visible(q)', Visible(q))
      <4>1. /\ Visible(Target[u]) = th[u].old[Target[u]] /\ \A q : q # Target[u] => Visible(q) = res[q]
            /\ Visible(Target[u])' = th'[u].old[Target[u]] /\ \A q : q # Target[u] => Visible(q)' = res'[q]
        BY <2>2, <3>2, VisibleInside, VisibleInsideNext
      <4>2. Target[u] # r /\ th'[u].old = th[u].old
        BY <2>2, <3>2
      <4>3. \A q \in Resources \ {r} : Visible(q)' = Visible(q)
        BY <1>4, <4>1, <4>2
      <4> QED BY <1>4, <4>1, <4>2, <4>3 DEF Alike, SameSelection
    <3> QED BY <3>1, <3>2, NoneOrOne
  <2>4. Sound(res[r]) /\ res[r].hist \in Seq(Record) /\ Continues(res[r].hist, res[r].hist)
    <3>1. res[r].hist \in Seq(Record)
      BY <1>2 DEF Stored
    <3> QED BY <1>5, <3>1, ContinuesItself DEF ArtifactInv, RestOK
  <2>5. SameSelection(x, res[r]) \/ x.cur # 0
    BY <1>2, <2>4 DEF SameSelection, Sound
  <2> QED BY <1>2, <2>3, <2>4, <2>5 DEF Shows
<1>6. CASE ~ AtRest(r)
  <2>1. PICK u \in Threads : InTransaction(u) /\ Target[u] = r
    BY <1>6 DEF AtRest
  <2>2. Writing = {u} /\ u # t
    BY <1>3, <2>1, MyTransaction
  <2>3. Writing' = {u} /\ th'[u] = th[u]
    BY <1>3, <2>2 DEF Writing, Others, InTransaction
  <2>4. \A q : Visible(q)' = Visible(q) \/ q \notin Resources
    <3>1. /\ Visible(r) = th[u].old[r] /\ \A q : q # r => Visible(q) = res[q]
          /\ Visible(r)' = th'[u].old[r] /\ \A q : q # r => Visible(q)' = res'[q]
      BY <2>1, <2>2, <2>3, VisibleInside, VisibleInsideNext
    <3> QED BY <1>4, <2>3, <3>1
  <2>5. Visible(r) \in Stored /\ Visible(r)' = Visible(r)
    BY <2>4, VisibleSound
  <2>6. Visible(r).hist \in Seq(Record)
    BY <2>5 DEF Stored
  <2> QED BY <2>4, <2>5, <2>6, ContinuesItself DEF Shows, Alike, SameSelection
<1> QED BY <1>5, <1>6

\* A step of the control alone, or of what is not shown.
LEMMA ControlShows ==
  ASSUME ArtifactInv, NEW t \in Threads,
         \/ AcquireLock(t) \/ SubmitTask(t) \/ StartUpload(t) \/ StartRestore(t) \/ HistoryFails(t)
         \/ WriteMetadata(t) \/ FinishFinalize(t) \/ CleansUp(t) \/ Cancel(t) \/ LateWrite(t) \/ TerminalGate(t) \/ SettleRow(t)
  PROVE  Shows(Target[t])
<1>0. Typed /\ th[t] \in Writers /\ StageOK(t) /\ Others(t) /\ Target[t] \in Resources /\ res[Target[t]] \in Stored
  BY OnlyActor, Kinds DEF ArtifactInv, Typed, Acts
<1>1. \A q \in Resources : Alike(res'[q], res[q])
  <2>1. CASE res' = res
    BY <2>1 DEF Alike, SameSelection
  <2>2. CASE res' = [res EXCEPT ![Target[t]].meta = TRUE]
    BY <1>0, <2>2 DEF Typed, Stored, Alike, SameSelection
  <2> QED BY <2>1, <2>2 DEF AcquireLock, SubmitTask, StartUpload, StartRestore, HistoryFails, WriteMetadata,
          FinishFinalize, CleansUp, Cancel, LateWrite, TerminalGate, SettleRow
<1>2. \A s \in {"fail", "cleanup", "gate"} : Leave(t, s) \in Writers /\ Leave(t, s).stage = s /\ Leave(t, s).step = "begin"
  <2>1. "fail" \in Stages /\ "cleanup" \in Stages /\ "gate" \in Stages
    BY DEF Stages
  <2> QED BY <1>0, <2>1, LeaveFields
<1>3. /\ InTransaction(t)' <=> InTransaction(t)
      /\ InTransaction(t) => th'[t].old = th[t].old
  <2>1. CASE AcquireLock(t)
    <3>1. th'[t].stage = th[t].stage /\ th'[t].step = th[t].step /\ th'[t].old = th[t].old
      BY <1>0, <2>1 DEF AcquireLock, Typed, Writers
    <3> QED BY <3>1 DEF InTransaction
  <2>2. CASE SubmitTask(t)
    <3>1. PICK b : th' = [th EXCEPT ![t].stage = "commit", ![t].row = "running", ![t].valid = b,
                        ![t].basis = res[Target[t]].basis, ![t].parent = res[Target[t]].cur]
      BY <2>2, ZenonT(60) DEF SubmitTask
    <3>2. th[t].stage = "idle" /\ th[t].step = "begin"
      BY <1>0, <2>2 DEF SubmitTask, StageOK
    <3>3. th'[t].step = "begin"
      BY <1>0, <3>1, <3>2 DEF Typed, Writers
    <3> QED BY <3>2, <3>3 DEF InTransaction
  <2>3. CASE StartUpload(t) \/ StartRestore(t)
    <3>1. th[t].stage = "idle" /\ th[t].step = "begin"
      BY <1>0, <2>3 DEF StartUpload, StartRestore, StageOK
    <3>2. th'[t].step = "begin"
      BY <1>0, <2>3, <3>1 DEF StartUpload, StartRestore, Typed, Writers
    <3> QED BY <3>1, <3>2 DEF InTransaction
  <2>4. CASE HistoryFails(t)
    <3> DEFINE k == Leave(t, "fail")
    <3>1. th' = [th EXCEPT ![t] = [k EXCEPT !.lost = TRUE]] /\ th[t].step = "begin" /\ k \in Writers /\ k.stage = "fail"
      BY <1>2, <2>4 DEF HistoryFails, At
    <3> HIDE DEF k
    <3>2. th'[t].stage = "fail"
      BY <1>0, <3>1 DEF Typed, Writers
    <3> QED BY <3>1, <3>2 DEF InTransaction
  <2>5. CASE WriteMetadata(t)
    <3>1. th[t].stage = "finalize" /\ th'[t].step \in {"thumbnail", "begin"}
      BY <1>0, <2>5 DEF WriteMetadata, UndoOnLoop, ToUndo, Typed, Writers
    <3> QED BY <3>1 DEF InTransaction
  <2>6. CASE FinishFinalize(t)
    <3> DEFINE k == Leave(t, "cleanup")
    <3>1. th[t].stage = "finalize" /\ k \in Writers /\ k.step = "begin"
      BY <1>2, <2>6 DEF FinishFinalize
    <3>2. th' = [th EXCEPT ![t] = k] \/ ToUndo(t, 1, FALSE)
      BY <2>6 DEF FinishFinalize, UndoOnLoop
    <3> HIDE DEF k
    <3>3. th'[t].step = "begin"
      BY <1>0, <3>1, <3>2 DEF ToUndo, Typed, Writers
    <3> QED BY <3>1, <3>3 DEF InTransaction
  <2>7. CASE Cancel(t)
    <3>1. CASE \E b : th' = [th EXCEPT ![t].row = "cancelling", ![t].valid = b]
      <4>1. th'[t].stage = th[t].stage /\ th'[t].step = th[t].step /\ th'[t].old = th[t].old
        BY <1>0, <3>1 DEF Typed, Writers
      <4> QED BY <4>1 DEF InTransaction
    <3>2. CASE /\ th[t].stage = "finalize"
               /\ \E b : th' = [th EXCEPT ![t].row = "cancelling", ![t].stage = "undo", ![t].step = "begin",
                            ![t].got = 1, ![t].late = b]
      <4>1. th'[t].step = "begin"
        BY <1>0, <3>2 DEF Typed, Writers
      <4> QED BY <3>2, <4>1 DEF InTransaction
    <3>3. CASE /\ th[t].stage = "cleanup"
               /\ th' = [th EXCEPT ![t] = [Dropped(t) EXCEPT !.row = "cancelling"]]
      <4> DEFINE k == Dropped(t)
      <4>1. k \in Writers /\ k.step = "begin"
        BY <1>0, DroppedFields
      <4> HIDE DEF k
      <4>2. [k EXCEPT !.row = "cancelling"].step = "begin"
        BY <4>1 DEF Writers
      <4>3. th'[t] = [k EXCEPT !.row = "cancelling"]
        BY <1>0, <3>3 DEF Typed, k
      <4> QED BY <3>3, <4>2, <4>3 DEF InTransaction
    <3> QED BY <2>7, <3>1, <3>2, <3>3 DEF Cancel
  <2>8. CASE LateWrite(t)
    <3>1. th'[t].stage = th[t].stage /\ th'[t].step = th[t].step /\ th'[t].old = th[t].old
      BY <1>0, <2>8 DEF LateWrite, Typed, Writers
    <3> QED BY <3>1 DEF InTransaction
  <2>9. CASE TerminalGate(t)
    <3> DEFINE k == Leave(t, "fail")
    <3>1. th[t].stage = "gate" /\ th[t].step = "begin" /\ k \in Writers /\ k.step = "begin"
      BY <1>0, <1>2, <2>9 DEF TerminalGate, StageOK
    <3>2. th' = [th EXCEPT ![t].row = "succeeded", ![t].stage = "end"] \/ ToUndo(t, 0, FALSE) \/ th' = [th EXCEPT ![t] = k]
      BY <2>9 DEF TerminalGate
    <3> HIDE DEF k
    <3>3. th'[t].step = "begin"
      BY <1>0, <3>1, <3>2 DEF ToUndo, Typed, Writers
    <3> QED BY <3>1, <3>3 DEF InTransaction
  <2>10. CASE SettleRow(t)
    <3>1. th[t].stage = "fail" /\ th'[t].stage = "end"
      BY <1>0, <2>10 DEF SettleRow, Typed, Writers
    <3> QED BY <3>1 DEF InTransaction
  <2>11. CASE CleansUp(t)
    <3>1. th' = [th EXCEPT ![t] = Leave(t, "gate")] \/ th' = [th EXCEPT ![t] = Dropped(t)]
      BY <2>11 DEF CleansUp
    <3>2. Leave(t, "gate").step = "begin" /\ Dropped(t).step = "begin"
      BY <1>0, <1>2, DroppedFields
    <3>3. th[t].stage = "cleanup" /\ th'[t].step = "begin"
      BY <1>0, <2>11, <3>1, <3>2 DEF CleansUp, Typed
    <3> QED BY <3>3 DEF InTransaction
  <2> QED BY <2>1, <2>2, <2>3, <2>4, <2>5, <2>6, <2>7, <2>8, <2>9, <2>10, <2>11
<1> QED BY <1>0, <1>1, <1>3, StillShows

\* Inside a transaction the file and the pointer move unseen.
LEMMA MoveShows ==
  ASSUME ArtifactInv, NEW t \in Threads, ReplaceFile(t) \/ SavePointer(t)
  PROVE  Shows(Target[t])
<1>0. Typed /\ th[t] \in Writers /\ InTransaction(t) /\ Others(t)
  BY OnlyActor DEF ArtifactInv, Typed, Acts, ReplaceFile, SavePointer
<1>1. \A q \in Resources \ {Target[t]} : res'[q] = res[q]
  BY <1>0 DEF ReplaceFile, SavePointer, Typed
<1>2. th'[t].stage = th[t].stage /\ th'[t].step \in {"point", "register"} /\ th'[t].old = th[t].old
  BY <1>0 DEF ReplaceFile, SavePointer, Typed, Writers
<1>3. InTransaction(t)'
  BY <1>0, <1>2 DEF InTransaction
<1> QED BY <1>0, <1>1, <1>2, <1>3, StillShows DEF Alike, SameSelection

\* The head of a stage that gives up.
LEMMA GivenUpShows ==
  ASSUME ArtifactInv, NEW t \in Threads, NEW s \in {"commit", "undo"}, At(t, s, "begin"), Others(t),
         ~ InTransaction(t)', res' = res
  PROVE  Shows(Target[t])
<1>1. Writing = {} /\ res[Target[t]] \in Stored
  BY HeadSettled
<1>2. \A q : Alike(res'[q], res[q])
  BY DEF Alike, SameSelection
<1>3. Moved(res'[Target[t]], res[Target[t]])
  <2>1. PICK y : y = res'[Target[t]]
    OBVIOUS
  <2> QED BY <1>1, <1>2, <2>1, AlikeMoved
<1> QED BY <1>1, <1>2, <1>3, OnceShows

\* A thread that left its stage is in no transaction.
LEMMA LeftFields ==
  ASSUME Typed, NEW t \in Threads, NEW s \in Stages \ {"commit", "undo"},
         \/ th' = [th EXCEPT ![t] = Leave(t, s)]
         \/ \E b : th' = [th EXCEPT ![t] = [Leave(t, s) EXCEPT !.stuck = b]]
         \/ \E b : th' = [th EXCEPT ![t] = [Leave(t, s) EXCEPT !.ver = b]]
         \/ \E b, c : th' = [th EXCEPT ![t] = [Leave(t, s) EXCEPT !.step = b, !.selected = c]]
         \/ \E b : th' = [th EXCEPT ![t] = [Leave(t, s) EXCEPT !.selected = b]]
  PROVE  ~ InTransaction(t)'
<1> DEFINE k == Leave(t, s)
<1>1. k \in Writers /\ k.stage = s
  BY LeaveFields, ZenonT(60) DEF Typed
<1>2. \/ th' = [th EXCEPT ![t] = k]
      \/ \E b : th' = [th EXCEPT ![t] = [k EXCEPT !.stuck = b]]
      \/ \E b : th' = [th EXCEPT ![t] = [k EXCEPT !.ver = b]]
      \/ \E b, c : th' = [th EXCEPT ![t] = [k EXCEPT !.step = b, !.selected = c]]
      \/ \E b : th' = [th EXCEPT ![t] = [k EXCEPT !.selected = b]]
  OBVIOUS
<1> HIDE DEF k
<1>3. th'[t].stage = s
  <2>1. \A b, c : /\ [k EXCEPT !.stuck = b].stage = s /\ [k EXCEPT !.ver = b].stage = s
                  /\ [k EXCEPT !.step = b, !.selected = c].stage = s /\ [k EXCEPT !.selected = b].stage = s
    BY <1>1 DEF Writers
  <2>2. ASSUME NEW y, y.stage = s, th' = [th EXCEPT ![t] = y] PROVE th'[t].stage = s
    BY <2>2 DEF Typed
  <2>3. CASE th' = [th EXCEPT ![t] = k]
    BY <1>1, <2>2, <2>3
  <2>4. ASSUME NEW b, th' = [th EXCEPT ![t] = [k EXCEPT !.stuck = b]] PROVE th'[t].stage = s
    BY <2>1, <2>2, <2>4
  <2>5. ASSUME NEW b, th' = [th EXCEPT ![t] = [k EXCEPT !.ver = b]] PROVE th'[t].stage = s
    BY <2>1, <2>2, <2>5
  <2>6. ASSUME NEW b, NEW c, th' = [th EXCEPT ![t] = [k EXCEPT !.step = b, !.selected = c]] PROVE th'[t].stage = s
    <3>1. PICK y : y = [k EXCEPT !.step = b, !.selected = c]
      OBVIOUS
    <3>2. y.stage = s
      BY <2>1, <3>1
    <3> QED BY <2>2, <2>6, <3>1, <3>2
  <2>7. ASSUME NEW b, th' = [th EXCEPT ![t] = [k EXCEPT !.selected = b]] PROVE th'[t].stage = s
    BY <2>1, <2>2, <2>7
  <2> QED BY <1>2, <2>3, <2>4, <2>5, <2>6, <2>7
<1> QED BY <1>3, ZenonT(60) DEF InTransaction

\* A selection begins: what is visible stays what it was.
LEMMA ActivateShows ==
  ASSUME ArtifactInv, NEW t \in Threads, NEW goal, NEW need, Activate(t, goal, need), Others(t)
  PROVE  Shows(Target[t])
<1> DEFINE r == Target[t]
           p == [claim |-> res[r].claim, meta |-> res[r].meta]
<1>0. At(t, "commit", "begin")
  BY DEF Activate
<1>1. Writing = {} /\ r \in Resources /\ res[r] \in Stored /\ th[t] \in Writers /\ Typed /\ th[t].stage = "commit"
  BY <1>0, HeadSettled
<1>2. CASE th' = [th EXCEPT ![t] = Leave(t, "fail")] /\ UNCHANGED res
  <2>1. "fail" \in Stages \ {"commit", "undo"}
    BY DEF Stages
  <2>2. ~ InTransaction(t)'
    BY <1>1, <1>2, <2>1, LeftFields
  <2> QED BY <1>0, <1>2, <2>2, GivenUpShows
<1>3. CASE /\ res' = [res EXCEPT ![r].meta = res[r].present]
           /\ th' = [th EXCEPT ![t].step = "replace", ![t].ver = goal.cur, ![t].to = goal, ![t].old = res, ![t].prior = p]
  <2> HIDE DEF p
  <2>1. th'[t].stage = "commit" /\ th'[t].step = "replace" /\ th'[t].old = res
    BY <1>1, <1>3 DEF Typed, Writers
  <2>2. InTransaction(t)'
    BY <2>1 DEF InTransaction
  <2>3. \A q \in Resources \ {r} : Alike(res'[q], res[q])
    BY <1>1, <1>3 DEF Typed, Alike, SameSelection
  <2>4. Moved(th'[t].old[r], res[r])
    <3>1. Moved(res[r], res[r])
      BY <1>1, AlikeMoved DEF Alike, SameSelection
    <3> QED BY <2>1, <3>1
  <2> QED BY <1>1, <2>2, <2>3, <2>4, EnterShows
<1> QED BY <1>2, <1>3 DEF Activate

LEMMA UndoShows ==
  ASSUME ArtifactInv, NEW t \in Threads, BeginUndo(t)
  PROVE  Shows(Target[t])
<1> DEFINE r == Target[t]
           b == Predecessor(res[r], th[t].ver)
           g == [bytes |-> IF b = 0 THEN NoBytes ELSE res[r].hist[b].bytes, cur |-> b, hist |-> res[r].hist]
<1>0. At(t, "undo", "begin") /\ Others(t)
  BY OnlyActor DEF BeginUndo, Acts, ArtifactInv
<1>1. Writing = {} /\ r \in Resources /\ res[r] \in Stored /\ th[t] \in Writers /\ Typed /\ th[t].stage = "undo"
  BY <1>0, HeadSettled
<1>2. CASE th' = [th EXCEPT ![t] = Leave(t, "fail")] /\ UNCHANGED res
  <2>1. "fail" \in Stages \ {"commit", "undo"}
    BY DEF Stages
  <2>2. ~ InTransaction(t)'
    BY <1>1, <1>2, <2>1, LeftFields
  <2> QED BY <1>0, <1>2, <2>2, GivenUpShows
<1>3. CASE /\ res' = [res EXCEPT ![r].meta = th[t].prior.meta] \/ res' = res
           /\ th' = [th EXCEPT ![t].step = "replace", ![t].to = g, ![t].old = res]
  <2> HIDE DEF g
  <2>1. th'[t].stage = "undo" /\ th'[t].step = "replace" /\ th'[t].old = res
    BY <1>1, <1>3 DEF Typed, Writers
  <2>2. InTransaction(t)'
    BY <2>1 DEF InTransaction
  <2>3. \A q \in Resources \ {r} : Alike(res'[q], res[q])
    BY <1>1, <1>3 DEF Typed, Alike, SameSelection
  <2>4. Moved(th'[t].old[r], res[r])
    <3>1. Moved(res[r], res[r])
      BY <1>1, AlikeMoved DEF Alike, SameSelection
    <3> QED BY <2>1, <3>1
  <2> QED BY <1>0, <1>1, <2>2, <2>3, <2>4, EnterShows
<1>4. \/ th' = [th EXCEPT ![t] = Leave(t, "fail")] /\ UNCHANGED res
      \/ /\ res' = [res EXCEPT ![r].meta = th[t].prior.meta] \/ res' = res
         /\ th' = [th EXCEPT ![t].step = "replace", ![t].to = g, ![t].old = res]
  BY DEF BeginUndo
<1> QED BY <1>2, <1>3, <1>4

\* A paid result becomes visible as a record at once, whether it will be selected or not.
LEMMA PaidShows ==
  ASSUME ArtifactInv, NEW t \in Threads, BeginPaid(t)
  PROVE  Shows(Target[t])
<1> DEFINE r == Target[t]
           x == res[r]
           z == Staged(t)
           n == Len(z.hist)
           g == [bytes |-> t, cur |-> n, hist |-> z.hist]
           p == [claim |-> x.claim, meta |-> x.meta]
           s == IF th[t].valid THEN "cleanup" ELSE "fail"
<1>0. At(t, "commit", "begin") /\ Others(t)
  BY OnlyActor DEF BeginPaid, Acts, ArtifactInv
<1>1. /\ Writing = {} /\ AtRest(r) /\ r \in Resources /\ x \in Stored /\ th[t] \in Writers /\ Typed /\ Sound(x)
      /\ th[t].stage = "commit"
  BY <1>0, HeadSettled
<1>2. /\ z \in Stored /\ Sound(z) /\ Continues(z.hist, x.hist) /\ z.formal = x.formal /\ z.claim = x.claim
      /\ z.cur = x.cur \/ z.cur > Len(x.hist)
  BY <1>1, StagedOK
<1>3. Moved(z, x)
  <2>1. Len(x.hist) \in Nat /\ z.cur \in Nat
    <3>1. x.hist \in Seq(Record)
      BY <1>1 DEF Stored
    <3> QED BY <1>2, <3>1 DEF Stored
  <2>2. z.cur = x.cur \/ z.cur # 0
    BY <1>2, <2>1
  <2> QED BY <1>2, <2>2 DEF Moved, SameSelection
<1>4. /\ res' = [res EXCEPT ![r] = z]
      /\ \/ th' = [th EXCEPT ![t].step = "replace", ![t].ver = n, ![t].old = res', ![t].to = g, ![t].prior = p]
         \/ th' = [th EXCEPT ![t] = [Leave(t, s) EXCEPT !.ver = n]]
  BY DEF BeginPaid, Staged
<1> HIDE DEF z, n, g, p
<1>5. res'[r] = z /\ \A q \in Resources \ {r} : Alike(res'[q], res[q])
  BY <1>1, <1>4 DEF Typed, Alike, SameSelection
<1>6. CASE th' = [th EXCEPT ![t].step = "replace", ![t].ver = n, ![t].old = res', ![t].to = g, ![t].prior = p]
  <2>1. th'[t].stage = "commit" /\ th'[t].step = "replace" /\ th'[t].old = res'
    BY <1>1, <1>6 DEF Typed, Writers
  <2>2. InTransaction(t)'
    BY <2>1 DEF InTransaction
  <2>3. Moved(th'[t].old[r], res[r])
    BY <1>3, <1>5, <2>1
  <2> QED BY <1>0, <1>1, <1>5, <2>2, <2>3, EnterShows
<1>7. CASE th' = [th EXCEPT ![t] = [Leave(t, s) EXCEPT !.ver = n]]
  <2>1. s \in Stages \ {"commit", "undo"}
    BY DEF Stages
  <2> HIDE DEF s
  <2>2. ~ InTransaction(t)'
    BY <1>1, <1>7, <2>1, LeftFields
  <2>3. Moved(res'[r], res[r])
    BY <1>3, <1>5
  <2> QED BY <1>0, <1>1, <1>5, <2>2, <2>3, OnceShows
<1> QED BY <1>4, <1>6, <1>7

\* A selection is registered: its version, its bytes and its claim become visible together.
LEMMA RegisterShows ==
  ASSUME ArtifactInv, NEW t \in Threads, Register(t)
  PROVE  Shows(Target[t])
<1> DEFINE r == Target[t]
           c == CommittedClaim(t)
<1>0. /\ Typed /\ th[t] \in Writers /\ Others(t) /\ InTransaction(t) /\ th[t].stage = "commit" /\ th[t].step = "register"
      /\ r \in Resources /\ res[r] \in Stored
  BY OnlyActor, Kinds, ZenonT(60) DEF ArtifactInv, Typed, Acts, Register, At, InTransaction
<1>1. /\ Writing = {t} /\ res[r].hist = th[t].to.hist /\ res[r].cur = th[t].to.cur
      /\ th[t].to.cur = th[t].ver /\ th[t].ver \in 1..Len(th[t].to.hist)
      /\ Continues(th[t].to.hist, th[t].old[r].hist)
  BY <1>0, MyTransaction, ClaimOfRecord DEF ArtifactInv, GoalOK
<1>2. res' = [res EXCEPT ![r].claim = c]
  BY DEF Register
<1> HIDE DEF c
<1>3. /\ res'[r].hist = res[r].hist /\ res'[r].cur = res[r].cur
      /\ \A q \in Resources \ {r} : Alike(res'[q], res[q])
  BY <1>0, <1>2 DEF Typed, Stored, Alike, SameSelection
<1>4. ~ InTransaction(t)'
  <2>1. "finalize" \in Stages \ {"commit", "undo"} /\ "gate" \in Stages \ {"commit", "undo"} /\ "end" \in Stages \ {"commit", "undo"}
    BY DEF Stages
  <2>2. CASE th' = [th EXCEPT ![t] = [Leave(t, "finalize") EXCEPT !.step = "write", !.selected = TRUE]]
    BY <1>0, <2>1, <2>2, LeftFields
  <2>3. CASE th' = [th EXCEPT ![t] = [Leave(t, "gate") EXCEPT !.selected = TRUE]]
    BY <1>0, <2>1, <2>3, LeftFields
  <2>4. CASE th' = [th EXCEPT ![t] = [Leave(t, "end") EXCEPT !.selected = TRUE]]
    BY <1>0, <2>1, <2>4, LeftFields
  <2> QED BY <2>2, <2>3, <2>4 DEF Register
<1>5. res'[r].cur # 0
  <2>1. th[t].ver # 0
    BY <1>1
  <2> QED BY <1>1, <1>3, <2>1
<1>6. Moved(res'[r], th[t].old[r])
  BY <1>1, <1>3, <1>5 DEF Moved
<1> QED BY <1>0, <1>1, <1>3, <1>4, <1>6, LeaveShows

\* A compensation is registered: the predecessor is selected, or nothing is and no file is left.
LEMMA UnregisterShows ==
  ASSUME ArtifactInv, NEW t \in Threads, UnregisterVideo(t) \/ UnregisterImage(t)
  PROVE  Shows(Target[t])
<1> DEFINE r == Target[t]
<1>0. /\ Typed /\ th[t] \in Writers /\ Others(t) /\ InTransaction(t) /\ th[t].stage = "undo" /\ th[t].step = "register"
      /\ r \in Resources /\ res[r] \in Stored
  BY OnlyActor, Kinds DEF ArtifactInv, Typed, Acts, UnregisterVideo, UnregisterImage, At, InTransaction
<1>1. /\ Writing = {t} /\ res[r].hist = th[t].to.hist /\ res[r].cur = th[t].to.cur /\ res[r].formal = th[t].to.bytes
      /\ Continues(th[t].to.hist, th[t].old[r].hist)
      /\ th[t].to.cur = 0 => th[t].to.bytes = NoBytes
  <2>1. FrameOK(t) /\ GoalOK(t) /\ Writing = {t}
    BY <1>0, MyTransaction DEF ArtifactInv
  <2> QED BY <1>0, <2>1 DEF FrameOK, GoalOK
<1>2. PICK c, m : res' = [res EXCEPT ![r].meta = m, ![r].claim = c] \/ res' = [res EXCEPT ![r].claim = c]
  BY DEF UnregisterVideo, UnregisterImage
<1>3. /\ res'[r].hist = res[r].hist /\ res'[r].cur = res[r].cur /\ res'[r].formal = res[r].formal
      /\ \A q \in Resources \ {r} : Alike(res'[q], res[q])
  BY <1>0, <1>2 DEF Typed, Stored, Alike, SameSelection
<1>4. ~ InTransaction(t)'
  <2>1. "fail" \in Stages \ {"commit", "undo"} /\ th' = [th EXCEPT ![t] = Leave(t, "fail")]
    BY DEF Stages, UnregisterVideo, UnregisterImage
  <2> QED BY <1>0, <2>1, LeftFields
<1>5. Moved(res'[r], th[t].old[r])
  BY <1>1, <1>3 DEF Moved
<1> QED BY <1>0, <1>1, <1>3, <1>4, <1>5, LeaveShows

\* A rollback: what was visible all along is stored again, but for a claim that was forgotten.
LEMMA RollbackShows ==
  ASSUME ArtifactInv, NEW t \in Threads, UnregisterRefused(t) \/ StepFails(t)
  PROVE  Shows(Target[t])
<1> DEFINE r == Target[t]
           o == th[t].old
<1>0. /\ Typed /\ th[t] \in Writers /\ Others(t) /\ InTransaction(t) /\ r \in Resources /\ res[r] \in Stored
  BY OnlyActor, Kinds DEF ArtifactInv, Typed, Acts, UnregisterRefused, StepFails, At, InTransaction
<1>1. FrameOK(t) /\ Writing = {t} /\ o \in [Resources -> Stored] /\ o[r] \in Stored /\ Sound(o[r])
  <2>1. FrameOK(t) /\ Writing = {t} /\ o \in [Resources -> Stored] /\ o[r] \in Stored
    BY <1>0, MyTransaction DEF ArtifactInv
  <2> QED BY <1>0, <2>1 DEF FrameOK
<1>2. \A q \in Resources \ {r} : res[q].hist = o[q].hist /\ res[q].cur = o[q].cur
  BY <1>0, <1>1 DEF FrameOK
<1>3. res[r].claim \in {NoClaim, o[r].claim}
  BY <1>0, <1>1 DEF FrameOK
<1>4. res' = RolledBack(t)
  BY DEF UnregisterRefused, StepFails
<1>5. \A q \in Resources : /\ res'[q].hist = o[q].hist /\ res'[q].cur = o[q].cur /\ res'[q].claim = res[q].claim
                           /\ res'[q].formal = IF q = r THEN o[r].formal ELSE res[q].formal
  <2> SUFFICES ASSUME NEW q \in Resources
               PROVE  /\ res'[q].hist = o[q].hist /\ res'[q].cur = o[q].cur /\ res'[q].claim = res[q].claim
                      /\ res'[q].formal = IF q = r THEN o[r].formal ELSE res[q].formal
    OBVIOUS
  <2>1. PICK f, m : /\ res'[q] = [res[q] EXCEPT !.cur = o[q].cur, !.hist = o[q].hist, !.formal = f, !.meta = m]
                    /\ f = IF q = r THEN o[r].formal ELSE res[q].formal
    BY <1>0, <1>4 DEF RolledBack, Typed, Stored
  <2>2. res[q] \in Stored
    BY <1>0 DEF Typed
  <2> QED BY <2>1, <2>2 DEF Stored
<1>6. \A q \in Resources \ {r} : Alike(res'[q], res[q])
  BY <1>2, <1>5 DEF Alike, SameSelection
<1>7. Moved(res'[r], o[r])
  <2>1. o[r].hist \in Seq(Record)
    BY <1>1 DEF Stored
  <2>2. Continues(o[r].hist, o[r].hist)
    BY <2>1, ContinuesItself
  <2>3. /\ res'[r].hist = o[r].hist /\ res'[r].cur = o[r].cur /\ res'[r].formal = o[r].formal
        /\ res'[r].claim \in {NoClaim, o[r].claim}
    BY <1>0, <1>3, <1>5
  <2>4. SameSelection(res'[r], o[r]) \/ res'[r].cur # 0
    BY <1>1, <2>3 DEF SameSelection, Sound
  <2> QED BY <2>2, <2>3, <2>4 DEF Moved
<1>8. ~ InTransaction(t)'
  <2>1. "fail" \in Stages \ {"commit", "undo"}
    BY DEF Stages
  <2>2. th' = [th EXCEPT ![t] = Leave(t, "fail")] \/ \E b : th' = [th EXCEPT ![t] = [Leave(t, "fail") EXCEPT !.stuck = b]]
    BY DEF UnregisterRefused, StepFails
  <2> QED BY <1>0, <2>1, <2>2, LeftFields
<1> QED BY <1>0, <1>1, <1>6, <1>7, <1>8, LeaveShows

\* Every step shows one transition.
LEMMA StepShows ==
  ASSUME ArtifactInv, NEW t \in Threads, Acts(t)
  PROVE  \E r \in Resources : Shows(r)
<1>1. Target[t] \in Resources /\ Others(t)
  BY Kinds, OnlyActor DEF ArtifactInv
<1>2. CASE BeginImage(t) \/ BeginUpload(t) \/ BeginTypedRestore(t) \/ BeginImageRestore(t)
  <2>1. Activate(t, StagedGoal(t), TRUE) \/ Activate(t, RestoredGoal(t), TRUE) \/ Activate(t, RestoredGoal(t), FALSE)
    BY <1>2 DEF BeginImage, BeginUpload, BeginTypedRestore, BeginImageRestore
  <2>2. Shows(Target[t])
    BY <1>1, <2>1, ActivateShows
  <2> QED BY <1>1, <2>2
<1>3. CASE \/ AcquireLock(t) \/ SubmitTask(t) \/ StartUpload(t) \/ StartRestore(t) \/ HistoryFails(t)
           \/ WriteMetadata(t) \/ FinishFinalize(t) \/ CleansUp(t) \/ Cancel(t) \/ LateWrite(t) \/ TerminalGate(t) \/ SettleRow(t)
  BY <1>1, <1>3, ControlShows
<1> QED BY <1>1, <1>2, <1>3, EditShows, MoveShows, UndoShows, PaidShows, RegisterShows, UnregisterShows, RollbackShows DEF Acts

\* What is visible after a step that keeps the invariant is proven as well.
LEMMA VisibleSoundNext == ArtifactInv' => (\A r \in Resources : Visible(r) \in Stored /\ Sound(Visible(r)))'
<1>1. ArtifactInv => \A r \in Resources : Visible(r) \in Stored /\ Sound(Visible(r))
  BY VisibleSound
<1> QED BY <1>1, PTL

\* Whatever fails, is rolled back or is undone in between: file, pointer and claim of a resource
\* move as one guarded transition to recorded bytes with their own evidence.
THEOREM ImplementsSelection == ArtifactSpec => SelectionIsOneTransition
<1>1. ArtifactInit => Formal!AbsInit
  <2> SUFFICES ASSUME ArtifactInit PROVE Formal!AbsInit
    OBVIOUS
  <2>1. \A t \in Threads : ~ InTransaction(t)
    BY DEF ArtifactInit, InTransaction
  <2>2. \A r \in Resources : Visible(r) = res[r]
    BY <2>1 DEF Visible
  <2>3. \A r \in Resources : res[r].hist = <<>> /\ res[r].cur = 0 /\ res[r].claim = NoClaim
    BY DEF ArtifactInit
  <2> QED BY <2>2, <2>3 DEF Formal!AbsInit, Formal!Unselected
<1>2. ASSUME ArtifactInv, ArtifactInv', [ArtifactNext]_artifactVars PROVE [Formal!AbsNext]_(Formal!absVars)
  <2>1. CASE UNCHANGED artifactVars
    <3>1. res' = res /\ th' = th
      BY <2>1 DEF artifactVars
    <3>2. \A u \in Threads : InTransaction(u)' = InTransaction(u)
      BY <3>1 DEF InTransaction
    <3>3. \A r \in Resources : Visible(r)' = Visible(r)
      BY <3>1, <3>2 DEF Visible
    <3> QED BY <3>3 DEF Formal!absVars
  <2>2. CASE ArtifactNext
    <3>1. PICK t \in Threads : Acts(t)
      BY <2>2 DEF ArtifactNext, Acts
    <3>2. PICK r \in Resources : Shows(r)
      BY <1>2, <3>1, StepShows
    <3>3. \A q \in Resources : Visible(q)' \in Stored /\ Sound(Visible(q)')
      <4>1. (\A q \in Resources : Visible(q) \in Stored /\ Sound(Visible(q)))'
        BY <1>2, VisibleSoundNext
      <4> QED BY <4>1 DEF Stored, Sound
    <3>4. Formal!Transition(r)
      BY <1>2, <3>2, <3>3, ShownIsTransition
    <3> QED BY <3>4 DEF Formal!AbsNext
  <2> QED BY <1>2, <2>1, <2>2
<1>3. ArtifactInv /\ ArtifactInv' /\ [ArtifactNext]_artifactVars => [Formal!AbsNext]_(Formal!absVars)
  BY <1>2
<1> QED BY <1>1, <1>3, AlwaysInv, PTL DEF ArtifactSpec, SelectionIsOneTransition, Formal!AbsSpec

\* At any moment what others may rely on selects a recorded version, with its bytes and no more
\* than its own evidence, or selects nothing.
THEOREM VisibleIsProven ==
  ArtifactSpec =>
    [](\A r \in Resources : Formal!Proven(Selections[r], Histories[r]) \/ Formal!Unselected(Selections[r]))
<1>1. ASSUME ArtifactInv, NEW r \in Resources
      PROVE  Formal!Proven(Selections[r], Histories[r]) \/ Formal!Unselected(Selections[r])
  <2>1. PICK x : x = Visible(r)
    OBVIOUS
  <2>2. x \in Stored /\ Sound(x)
    BY <1>1, <2>1, VisibleSound
  <2>3. Len(x.hist) \in Nat /\ x.cur \in Nat
    <3>1. x.hist \in Seq(Record)
      BY <2>2 DEF Stored
    <3> QED BY <2>2, <3>1 DEF Stored
  <2>4. /\ Histories[r] = x.hist
        /\ Selections[r] = [version |-> x.cur, bytes |-> x.formal, claim |-> x.claim]
    BY <2>1 DEF Histories, Selections
  <2>5. \/ x.cur = 0 /\ x.claim = NoClaim
        \/ x.cur \in 1..Len(x.hist) /\ x.formal = x.hist[x.cur].bytes /\ x.claim \in {NoClaim, x.hist[x.cur].basis}
    BY <2>2, <2>3 DEF Sound
  <2> QED BY <2>4, <2>5 DEF Formal!Proven, Formal!Unselected
<1>2. ArtifactInv => \A r \in Resources : Formal!Proven(Selections[r], Histories[r]) \/ Formal!Unselected(Selections[r])
  BY <1>1
<1> QED BY <1>2, AlwaysInv, PTL
=============================================================================
