---------------------------- MODULE DraftReview ----------------------------
(***************************************************************************)
(* The two steps of an episode on the reference-video route: the formal    *)
(* step1 file, the script made from it in step2, a draft of each, and the  *)
(* review record of project.json that lets step2 run.  Clients are the web *)
(* editor and the tools of agents, in one server process or several.       *)
(*                                                                         *)
(* A fingerprint is the content itself.  lock1 and lock2 are the file      *)
(* locks of the two drafts, which are held while a client waits for a      *)
(* model or for the configuration; the lock of the formal step1 is held    *)
(* only inside a section (InStep1) and the locks of the script and of      *)
(* project.json only inside one step.  A formal write of several files is  *)
(* one step: an exception inside it restores them; a death inside it is    *)
(* left out.  So is ProjectManager.rename_asset, which rewrites a name in  *)
(* step1, both drafts and the scripts without write_step1_locked, under    *)
(* the locks of those files that exist.                                    *)
(***************************************************************************)
EXTENDS Naturals, FiniteSets

CONSTANTS
  Clients,
  Texts,            \* contents a person or a model may write
  Old, Tidy, Cut,   \* a step1 of the old shape, and what its migration gives:
                    \*   the same durations, or durations cut to a tier
  NoText, NoDraft, NoScript, NoClient,
  MaxOps,           \* operations begun in one behaviour
  MaxDeaths         \* processes that die in the middle of one

ASSUME TextsAssumption ==
  /\ NoText \notin Texts \cup {Old, Tidy, Cut} /\ NoClient \notin Clients
  /\ {Old, Tidy, Cut} \cap Texts = {} /\ Old # Tidy /\ Old # Cut /\ Tidy # Cut

ASSUME BoundsAssumption == MaxOps \in Nat /\ MaxDeaths \in Nat

VARIABLES
  step1,     \* the formal step1
  draft1,    \* its draft: text, base (fingerprint), bad (has violations) and,
             \*   for the properties, merged: the formal contents it accounts for
  draft2,    \* the draft of step2: on (the step1 it expands), base, bad, edit and,
             \*   for the properties, late: step1 was another one when it was written
  script,    \* the script: from (its step1_revision), on, edit
  review,    \* the fingerprint in episodes[i].step1_review
  lock1, lock2,
  op,        \* op[x]: where the operation of client x stands and what it holds
  view,      \* view[x]: the revisions client x was last given
  approved,  \* the contents a confirm recorded
  begun, deaths

reviewVars == <<step1, draft1, draft2, script, review, lock1, lock2, op, view, approved, begun, deaths>>
files == <<step1, draft1, draft2, script, review>>

Contents == Texts \cup {Old, Tidy, Cut}
Fingerprints == Contents \cup {NoText}
Scripts == [from : Fingerprints, on : Contents, edit : {0, 1}] \cup {NoScript}
Drafts1 == [text : Contents, base : Fingerprints, bad : BOOLEAN, merged : SUBSET Fingerprints]
Drafts2 == [on : Contents, base : Scripts, bad : BOOLEAN, edit : {0, 1}, late : BOOLEAN]

Files == Fingerprints \X (Drafts1 \cup {NoDraft}) \X (Drafts2 \cup {NoDraft})

InStep1 == {"migrate", "show", "confirm", "load", "reload"}
Operations ==
  [pc : InStep1 \cup {"rest", "look", "confirming", "record", "judge", "clear1", "model1", "commit1", "landed",
                     "preflight", "baseline", "claim", "model2", "saved", "keep", "gated", "found", "merge", "clear2"},
   then : InStep1 \cup {"rest"}, new : Fingerprints, gate : Fingerprints, used : Fingerprints, base : Fingerprints,
   rev : {NoDraft} \cup [text : Contents, base : Fingerprints, bad : BOOLEAN],
   script : Scripts, passed : BOOLEAN, before : Files \cup {NoDraft}, after : Files \cup {NoDraft}]
Rest == [pc |-> "rest", then |-> "rest", new |-> NoText, gate |-> NoText, used |-> NoText, base |-> NoText,
         rev |-> NoDraft, script |-> NoScript, passed |-> FALSE, before |-> NoDraft, after |-> NoDraft]

-----------------------------------------------------------------------------
(* Revisions, locks and the gate *)

\* draft_revision: what is persisted, without the bookkeeping of the properties.
Rev1(d) == IF d = NoDraft THEN NoDraft ELSE [text |-> d.text, base |-> d.base, bad |-> d.bad]
Rev2(d) == IF d = NoDraft THEN NoDraft ELSE [on |-> d.on, base |-> d.base, bad |-> d.bad, edit |-> d.edit]

Step1Free == \A x \in Clients : op[x].pc \notin InStep1

Begin(x) == op[x].pc = "rest" /\ begun < MaxOps /\ begun' = begun + 1
Go(x, f) == op' = [op EXCEPT ![x] = [k \in DOMAIN Rest |-> IF k \in DOMAIN f THEN f[k] ELSE @[k]]]
End(x) == op' = [op EXCEPT ![x] = Rest]

\* gate_blocks_step2: a waiting draft, a review of other content, or neither review nor script.
Blocks ==
  \/ draft1 # NoDraft
  \/ step1 # NoText /\ IF review # NoText THEN review # step1 ELSE script = NoScript

\* Mutant: the durations are cut without a mark for an episode that was never reviewed.
MarkedOnlyCarried(m) == IF m = Tidy /\ review = Old THEN Tidy ELSE review

\* The review record a migration leaves: carried over, or a mark that no longer fits.
Marked(m) ==
  IF m = Tidy THEN (IF review = Old THEN Tidy ELSE review)
  ELSE (IF review = NoText THEN Old ELSE review)

\* Mutant: the exit writes step1 and leaves the draft of step2.
WriteKeepsDraft2(c) == step1' = c /\ draft2' = draft2

\* write_step1_locked: the exit of the workflow for step1; a draft of step2 falls with
\* its base.
WriteStep1(c) ==
  /\ step1' = c
  /\ draft2' = IF c = step1 THEN draft2 ELSE NoDraft

\* Locks step2 draft then step1; a step1 of the old shape is migrated first, and
\* the review record is written before the file.
EnterStep1(x, next) ==
  /\ lock2 \in {NoClient, x} /\ Step1Free
  /\ lock2' = x
  /\ IF step1 = Old
     THEN \E m \in {Tidy, Cut} :
            /\ Go(x, [pc |-> "migrate", then |-> next, new |-> m, passed |-> ~Blocks])
            /\ review' = Marked(m)
     ELSE Go(x, [pc |-> next, passed |-> ~Blocks]) /\ UNCHANGED review

WriteMigrated(x) ==
  /\ op[x].pc = "migrate"
  /\ step1' = op[x].new
  /\ Go(x, [pc |-> op[x].then])
  /\ UNCHANGED <<draft1, draft2, script, review, lock1, lock2, view, approved, begun, deaths>>

-----------------------------------------------------------------------------
(* The review service *)

\* get_state, as a call of its own and as the end of save_content and confirm.
GetState(x) ==
  /\ Begin(x) \/ (op[x].pc = "look" /\ UNCHANGED begun)
  /\ EnterStep1(x, "show")
  /\ UNCHANGED <<step1, draft1, draft2, script, lock1, view, approved, deaths>>

ShowState(x) ==
  /\ op[x].pc = "show"
  /\ view' = [view EXCEPT ![x].step1 = step1]
  /\ lock2' = NoClient /\ End(x)
  /\ UNCHANGED <<files, lock1, approved, begun, deaths>>

\* Mutant: the draft of step2 is not locked, only step1.
SaveUnlocked(x, c, based) ==
  /\ Begin(x) /\ Step1Free
  /\ based => view[x].step1 = step1 /\ step1 # NoText
  /\ WriteStep1(c)
  /\ Go(x, [pc |-> "look"])
  /\ UNCHANGED <<draft1, script, review, lock1, lock2, view, approved, deaths>>

\* save_content, with the fingerprint of the last get_state or without one.
SaveContent(x, c, based) ==
  /\ Begin(x) /\ lock2 = NoClient /\ Step1Free
  /\ based => view[x].step1 = step1 /\ step1 # NoText
  /\ WriteStep1(c)
  /\ Go(x, [pc |-> "look"])
  /\ UNCHANGED <<draft1, script, review, lock1, lock2, view, approved, deaths>>

\* confirm looks for a draft before it takes the locks ...
StartConfirm(x) ==
  /\ Begin(x) /\ draft1 = NoDraft
  /\ Go(x, [pc |-> "confirming"])
  /\ UNCHANGED <<files, lock1, lock2, view, approved, deaths>>

EnterConfirm(x) ==
  /\ op[x].pc = "confirming" /\ EnterStep1(x, "confirm")
  /\ UNCHANGED <<step1, draft1, draft2, script, lock1, view, approved, begun, deaths>>

\* ... writes the validated content back under them ...
ConfirmContent(x) ==
  /\ op[x].pc = "confirm"
  /\ lock2' = NoClient
  /\ IF step1 = NoText THEN End(x) ELSE Go(x, [pc |-> "record", new |-> step1])
  /\ UNCHANGED <<files, lock1, view, approved, begun, deaths>>

\* ... and records the fingerprint after it let them go.
RecordReview(x) ==
  /\ op[x].pc = "record"
  /\ review' = op[x].new
  /\ approved' = approved \cup {op[x].new}
  /\ Go(x, [pc |-> "look"])
  /\ UNCHANGED <<step1, draft1, draft2, script, lock1, lock2, view, begun, deaths>>

\* delete_step1_file takes the lock of step1 alone and leaves the draft of step2.
DeleteStep1(x) ==
  /\ Begin(x) /\ Step1Free /\ step1 # NoText
  /\ step1' = NoText
  /\ UNCHANGED <<draft1, draft2, script, review, lock1, lock2, op, view, approved, deaths>>

-----------------------------------------------------------------------------
(* The draft of step1: open, patch, discard, promote *)

\* Given an existing draft, or a copy of the formal content.
OpenDraft1(x) ==
  /\ Begin(x) /\ lock1 = NoClient
  /\ \/ draft1 # NoDraft /\ draft1' = draft1
     \/ /\ draft1 = NoDraft /\ step1 # NoText /\ Step1Free
        /\ draft1' = [text |-> step1, base |-> step1, bad |-> FALSE, merged |-> {step1}]
  /\ view' = [view EXCEPT ![x].rev1 = Rev1(draft1'), ![x].step1 = step1]
  /\ UNCHANGED <<step1, draft2, script, review, lock1, lock2, op, approved, deaths>>

\* patch: accept declares that the formal revision the client was given is merged.
PatchDraft1(x, c, accept) ==
  /\ Begin(x) /\ lock1 = NoClient
  /\ draft1 # NoDraft /\ view[x].rev1 = Rev1(draft1)
  /\ accept => view[x].step1 = step1
  /\ draft1' = [draft1 EXCEPT !.text = c, !.base = IF accept THEN step1 ELSE @,
                              !.merged = IF accept THEN @ \cup {view[x].step1} ELSE @]
  /\ view' = [view EXCEPT ![x].rev1 = Rev1(draft1'), ![x].step1 = step1]
  /\ UNCHANGED <<step1, draft2, script, review, lock1, lock2, op, approved, deaths>>

\* Mutant: the draft is removed without its lock.
DiscardUnlocked(x) ==
  /\ Begin(x)
  /\ draft1 # NoDraft /\ view[x].rev1 = Rev1(draft1)
  /\ draft1' = NoDraft
  /\ UNCHANGED <<step1, draft2, script, review, lock1, lock2, op, view, approved, deaths>>

DiscardDraft1(x) ==
  /\ Begin(x) /\ lock1 = NoClient
  /\ draft1 # NoDraft /\ view[x].rev1 = Rev1(draft1)
  /\ draft1' = NoDraft
  /\ UNCHANGED <<step1, draft2, script, review, lock1, lock2, op, view, approved, deaths>>

\* promote holds the draft while it is judged against source and configuration.
StartPromote1(x) ==
  /\ Begin(x) /\ lock1 = NoClient
  /\ draft1 # NoDraft /\ view[x].rev1 = Rev1(draft1)
  /\ lock1' = x
  /\ Go(x, [pc |-> "judge"])
  /\ UNCHANGED <<files, lock2, view, approved, deaths>>

\* _rewrite_invalid_draft keeps text and base and renews the report.
RejectDraft1(x) ==
  /\ op[x].pc = "judge"
  /\ draft1' = [draft1 EXCEPT !.bad = TRUE]
  /\ lock1' = NoClient /\ End(x)
  /\ UNCHANGED <<step1, draft2, script, review, lock2, view, approved, begun, deaths>>

\* The old shape does not pass the schema of the judge.
CommitDraft1(x) ==
  /\ op[x].pc = "judge" /\ draft1.text # Old
  /\ lock2 = NoClient /\ Step1Free /\ draft1.base = step1
  /\ WriteStep1(draft1.text)
  /\ Go(x, [pc |-> "clear1"])
  /\ UNCHANGED <<draft1, script, review, lock1, lock2, view, approved, begun, deaths>>

\* Step1WriteConflict: nothing is written, the draft stays.
ConflictDraft1(x) ==
  /\ op[x].pc = "judge" /\ draft1.text # Old
  /\ lock2 = NoClient /\ Step1Free /\ draft1.base # step1
  /\ lock1' = NoClient /\ End(x)
  /\ UNCHANGED <<files, lock2, view, approved, begun, deaths>>

ClearDraft1(x) ==
  /\ op[x].pc = "clear1"
  /\ draft1' = NoDraft
  /\ lock1' = NoClient /\ End(x)
  /\ UNCHANGED <<step1, draft2, script, review, lock2, view, approved, begun, deaths>>

-----------------------------------------------------------------------------
(* generate_step1: a model writes a step1 while nobody holds a lock *)

\* _generation_baselines: the revision of the draft and of the formal file.
StartStep1(x) ==
  /\ Begin(x) /\ lock1 = NoClient
  /\ Go(x, [pc |-> "model1", rev |-> Rev1(draft1), base |-> step1])
  /\ UNCHANGED <<files, lock1, lock2, view, approved, deaths>>

Generated(x, c) == [text |-> c, base |-> op[x].base, bad |-> TRUE, merged |-> {op[x].base}]

\* _assert_draft_revision fails: the draft changed meanwhile, the result is dropped.
Step1Stale(x) ==
  /\ op[x].pc = "model1" /\ lock1 = NoClient
  /\ Rev1(draft1) # op[x].rev
  /\ End(x)
  /\ UNCHANGED <<files, lock1, lock2, view, approved, begun, deaths>>

\* A result with violations becomes the draft.
QuarantineStep1(x, c) ==
  /\ op[x].pc = "model1" /\ lock1 = NoClient
  /\ Rev1(draft1) = op[x].rev
  /\ draft1' = Generated(x, c)
  /\ End(x)
  /\ UNCHANGED <<step1, draft2, script, review, lock1, lock2, view, approved, begun, deaths>>

AdmitStep1(x, c) ==
  /\ op[x].pc = "model1" /\ lock1 = NoClient
  /\ Rev1(draft1) = op[x].rev
  /\ lock1' = x
  /\ Go(x, [pc |-> "commit1", new |-> c])
  /\ UNCHANGED <<files, lock2, view, approved, begun, deaths>>

\* _commit_generated_reference_step1; its receipt lives until the task is settled.
CommitStep1(x) ==
  /\ op[x].pc = "commit1" /\ lock2 = NoClient /\ Step1Free
  /\ op[x].base = step1
  /\ WriteStep1(op[x].new)
  /\ draft1' = NoDraft
  /\ lock1' = NoClient
  /\ Go(x, [pc |-> "landed", before |-> <<step1, draft1, draft2>>, after |-> <<step1', draft1', draft2'>>])
  /\ UNCHANGED <<script, review, lock2, view, approved, begun, deaths>>

\* Mutant: the result that met a conflict is kept with the revision it met as its base.
ConflictRebased(x) ==
  /\ op[x].pc = "commit1" /\ lock2 = NoClient /\ Step1Free
  /\ op[x].base # step1
  /\ draft1' = [Generated(x, op[x].new) EXCEPT !.base = step1]
  /\ lock1' = NoClient /\ End(x)
  /\ UNCHANGED <<step1, draft2, script, review, lock2, view, approved, begun, deaths>>

\* The formal file changed meanwhile: the result is kept as a draft on the old base.
ConflictStep1(x) ==
  /\ op[x].pc = "commit1" /\ lock2 = NoClient /\ Step1Free
  /\ op[x].base # step1
  /\ draft1' = Generated(x, op[x].new)
  /\ lock1' = NoClient /\ End(x)
  /\ UNCHANGED <<step1, draft2, script, review, lock2, view, approved, begun, deaths>>

SettleStep1(x) ==
  /\ op[x].pc = "landed"
  /\ End(x)
  /\ UNCHANGED <<files, lock1, lock2, view, approved, begun, deaths>>

\* compensate_cancelled: the task was cancelled; undone only if the files are still its own.
CompensateStep1(x) ==
  /\ op[x].pc = "landed" /\ lock1 = NoClient /\ lock2 = NoClient /\ Step1Free
  /\ IF <<step1, draft1, draft2>> = op[x].after
     THEN step1' = op[x].before[1] /\ draft1' = op[x].before[2] /\ draft2' = op[x].before[3]
     ELSE UNCHANGED <<step1, draft1, draft2>>
  /\ End(x)
  /\ UNCHANGED <<script, review, lock1, lock2, view, approved, begun, deaths>>

-----------------------------------------------------------------------------
(* generate_episode_script: step2 *)

\* _episode_generation_preflight: the gate is read here, without a lock.
Preflight(x) ==
  /\ Begin(x)
  /\ draft1 = NoDraft /\ draft2 = NoDraft /\ step1 # NoText /\ ~Blocks
  /\ Go(x, [pc |-> "preflight", gate |-> step1])
  /\ UNCHANGED <<files, lock1, lock2, view, approved, deaths>>

\* _load_reference_step1 refuses when a draft of step1 is waiting, which it checks
\* before it waits for the locks, or when step1 is gone, then or behind them.
RefuseLoad(x) ==
  /\ op[x].pc \in {"preflight", "gated", "found"}
  /\ step1 = NoText \/ (draft1 # NoDraft /\ op[x].pc # "found")
  /\ lock2' = IF lock2 = x THEN NoClient ELSE lock2
  /\ End(x)
  /\ UNCHANGED <<files, lock1, view, approved, begun, deaths>>

\* There was no draft of step1 when that was checked, as in the preflight; there may be
\* one behind the locks.
LoadStep1(x) ==
  /\ op[x].pc = "preflight" /\ step1 # NoText
  /\ EnterStep1(x, "load")
  /\ UNCHANGED <<step1, draft1, draft2, script, lock1, view, approved, begun, deaths>>

\* A migration that cut durations has closed the gate that was open before it.
ClosedByCut(x) == op[x].new = Cut /\ op[x].passed /\ Blocks

Loaded(x) ==
  /\ op[x].pc = "load"
  /\ lock2' = NoClient
  /\ IF step1 = NoText \/ ClosedByCut(x) THEN End(x) ELSE Go(x, [pc |-> "baseline", used |-> step1])
  /\ UNCHANGED <<files, lock1, view, approved, begun, deaths>>

\* _generate_and_save stops if a draft of step2 appeared.
TakeBaselines(x) ==
  /\ op[x].pc = "baseline" /\ lock2 = NoClient
  /\ IF draft2 = NoDraft THEN Go(x, [pc |-> "claim", script |-> script]) ELSE End(x)
  /\ UNCHANGED <<files, lock1, lock2, view, approved, begun, deaths>>

\* _generate_text calls the provider if the loaded step1 is still the formal one.
CallModel(x) ==
  /\ op[x].pc = "claim"
  /\ IF step1 = op[x].used THEN Go(x, [pc |-> "model2"]) ELSE End(x)
  /\ UNCHANGED <<files, lock1, lock2, view, approved, begun, deaths>>

Expanded(x) == [from |-> op[x].used, on |-> op[x].used, edit |-> 0]

\* _save_reference_step2_if_draft_unchanged and save_script; the receipt of the task keeps
\* the script it replaced and (as base) the review record.
SaveScript(x) ==
  /\ op[x].pc = "model2" /\ lock2 = NoClient
  /\ draft2 = NoDraft /\ script = op[x].script
  /\ script' = Expanded(x)
  /\ Go(x, [pc |-> "saved", base |-> review])
  /\ UNCHANGED <<step1, draft1, draft2, review, lock1, lock2, view, approved, begun, deaths>>

\* The task is settled, or was cancelled: the script is taken back if it and project.json
\* are still as the task left them.
SettleScript(x) ==
  /\ op[x].pc = "saved"
  /\ \/ UNCHANGED script
     \/ script' = IF script = Expanded(x) /\ review = op[x].base THEN op[x].script ELSE script
  /\ End(x)
  /\ UNCHANGED <<step1, draft1, draft2, review, lock1, lock2, view, approved, begun, deaths>>

\* The result has violations, or the script changed meanwhile.
FailScript(x) ==
  /\ op[x].pc = "model2"
  /\ Go(x, [pc |-> "keep"])
  /\ UNCHANGED <<files, lock1, lock2, view, approved, begun, deaths>>

\* _quarantine_reference_step2 keeps the result unless a draft appeared.
KeepScript(x) ==
  /\ op[x].pc \in {"keep", "model2"} /\ lock2 = NoClient
  /\ op[x].pc = "model2" => draft2 # NoDraft
  /\ draft2' = IF draft2 # NoDraft THEN draft2
               ELSE [on |-> op[x].used, base |-> op[x].script, bad |-> TRUE, edit |-> 0,
                     late |-> step1 # op[x].used]
  /\ End(x)
  /\ UNCHANGED <<step1, draft1, script, review, lock1, lock2, view, approved, begun, deaths>>

\* Any other edit of the script.
ChangeScript(x) ==
  /\ Begin(x) /\ script # NoScript
  /\ script' = [script EXCEPT !.edit = 1 - @]
  /\ UNCHANGED <<step1, draft1, draft2, review, lock1, lock2, op, view, approved, deaths>>

-----------------------------------------------------------------------------
(* The draft of step2 *)

OpenDraft2(x) ==
  /\ Begin(x) /\ lock2 = NoClient
  /\ \/ draft2 # NoDraft /\ draft2' = draft2
     \/ /\ draft2 = NoDraft /\ script # NoScript
        /\ draft2' = [on |-> script.on, base |-> script, bad |-> FALSE, edit |-> script.edit,
                      late |-> step1 # script.on]
  /\ view' = [view EXCEPT ![x].rev2 = Rev2(draft2'), ![x].script = script]
  /\ UNCHANGED <<step1, draft1, script, review, lock1, lock2, op, approved, deaths>>

PatchDraft2(x, accept) ==
  /\ Begin(x) /\ lock2 = NoClient
  /\ draft2 # NoDraft /\ view[x].rev2 = Rev2(draft2)
  /\ accept => view[x].script = script
  /\ draft2' = [draft2 EXCEPT !.edit = 1 - @, !.base = IF accept THEN script ELSE @]
  /\ view' = [view EXCEPT ![x].rev2 = Rev2(draft2'), ![x].script = script]
  /\ UNCHANGED <<step1, draft1, script, review, lock1, lock2, op, approved, deaths>>

DiscardDraft2(x) ==
  /\ Begin(x) /\ lock2 = NoClient
  /\ draft2 # NoDraft /\ view[x].rev2 = Rev2(draft2)
  /\ draft2' = NoDraft
  /\ UNCHANGED <<step1, draft1, script, review, lock1, lock2, op, view, approved, deaths>>

\* promote holds the draft from the gate to the script; a closed gate refuses it.
StartPromote2(x) ==
  /\ Begin(x) /\ lock2 = NoClient
  /\ draft2 # NoDraft /\ view[x].rev2 = Rev2(draft2) /\ ~Blocks
  /\ lock2' = x
  /\ Go(x, [pc |-> "gated", gate |-> step1])
  /\ UNCHANGED <<files, lock1, view, approved, deaths>>

FindStep1(x) ==
  /\ op[x].pc = "gated" /\ draft1 = NoDraft
  /\ Go(x, [pc |-> "found"])
  /\ UNCHANGED <<files, lock1, lock2, view, approved, begun, deaths>>

ReloadStep1(x) ==
  /\ op[x].pc = "found" /\ step1 # NoText
  /\ EnterStep1(x, "reload")
  /\ UNCHANGED <<step1, draft1, draft2, script, lock1, view, approved, begun, deaths>>

Reloaded(x) ==
  /\ op[x].pc = "reload"
  /\ IF step1 = NoText \/ ClosedByCut(x)
     THEN lock2' = NoClient /\ End(x)
     ELSE Go(x, [pc |-> "merge", used |-> step1]) /\ UNCHANGED lock2
  /\ UNCHANGED <<files, lock1, view, approved, begun, deaths>>

\* The merge finds violations and the report is renewed, or the script changed meanwhile.
RejectDraft2(x) ==
  /\ op[x].pc = "merge"
  /\ \/ draft2' = [draft2 EXCEPT !.bad = TRUE]
     \/ draft2.base # script /\ draft2' = draft2
  /\ lock2' = NoClient /\ End(x)
  /\ UNCHANGED <<step1, draft1, script, review, lock1, view, approved, begun, deaths>>

CommitDraft2(x) ==
  /\ op[x].pc = "merge" /\ draft2.base = script
  /\ script' = [from |-> op[x].used, on |-> draft2.on, edit |-> draft2.edit]
  /\ Go(x, [pc |-> "clear2"])
  /\ UNCHANGED <<step1, draft1, draft2, review, lock1, lock2, view, approved, begun, deaths>>

ClearDraft2(x) ==
  /\ op[x].pc = "clear2"
  /\ draft2' = NoDraft
  /\ lock2' = NoClient /\ End(x)
  /\ UNCHANGED <<step1, draft1, script, review, lock1, view, approved, begun, deaths>>

-----------------------------------------------------------------------------
(* The process of a client dies, or its task is cancelled at an await *)

Vanish(x) ==
  /\ op[x].pc # "rest" /\ deaths < MaxDeaths
  /\ deaths' = deaths + 1
  /\ lock1' = IF lock1 = x THEN NoClient ELSE lock1
  /\ lock2' = IF lock2 = x THEN NoClient ELSE lock2
  /\ End(x)
  /\ UNCHANGED <<files, view, approved, begun>>

\* A new episode, a reviewed step1, one reviewed in the old shape, and an episode
\* whose script is older than the gate.
ReviewInit ==
  /\ \/ step1 = NoText /\ review = NoText /\ script = NoScript
     \/ step1 = Old /\ review = Old /\ script = NoScript
     \/ step1 = Old /\ review = NoText /\ script = [from |-> NoText, on |-> Old, edit |-> 0]
     \/ /\ step1 \in Texts /\ review = step1
        /\ script = [from |-> step1, on |-> step1, edit |-> 0]
  /\ draft1 = NoDraft /\ draft2 = NoDraft
  /\ lock1 = NoClient /\ lock2 = NoClient
  /\ op = [x \in Clients |-> Rest]
  /\ view = [x \in Clients |-> [rev1 |-> NoDraft, rev2 |-> NoDraft, step1 |-> NoText, script |-> NoScript]]
  /\ approved = IF review = NoText THEN {} ELSE {review}
  /\ begun = 0 /\ deaths = 0

ReviewNext ==
  \E x \in Clients :
    \/ GetState(x) \/ ShowState(x) \/ WriteMigrated(x)
    \/ \E c \in Texts, based \in BOOLEAN : SaveContent(x, c, based)
    \/ StartConfirm(x) \/ EnterConfirm(x) \/ ConfirmContent(x) \/ RecordReview(x) \/ DeleteStep1(x)
    \/ OpenDraft1(x) \/ DiscardDraft1(x) \/ StartPromote1(x) \/ RejectDraft1(x)
    \/ \E c \in Texts, accept \in BOOLEAN : PatchDraft1(x, c, accept)
    \/ CommitDraft1(x) \/ ConflictDraft1(x) \/ ClearDraft1(x)
    \/ StartStep1(x) \/ Step1Stale(x) \/ CommitStep1(x) \/ ConflictStep1(x)
    \/ \E c \in Texts : QuarantineStep1(x, c) \/ AdmitStep1(x, c)
    \/ SettleStep1(x) \/ CompensateStep1(x)
    \/ Preflight(x) \/ RefuseLoad(x) \/ LoadStep1(x) \/ Loaded(x) \/ TakeBaselines(x) \/ CallModel(x)
    \/ SaveScript(x) \/ SettleScript(x) \/ FailScript(x) \/ KeepScript(x) \/ ChangeScript(x)
    \/ OpenDraft2(x) \/ DiscardDraft2(x) \/ StartPromote2(x)
    \/ \E accept \in BOOLEAN : PatchDraft2(x, accept)
    \/ FindStep1(x) \/ ReloadStep1(x) \/ Reloaded(x) \/ RejectDraft2(x) \/ CommitDraft2(x) \/ ClearDraft2(x)
    \/ Vanish(x)

ReviewSpec == ReviewInit /\ [][ReviewNext]_reviewVars

-----------------------------------------------------------------------------
(* Properties *)

\* Types; a draft lock is held exactly by the client whose operation needs it, and the
\* draft that is judged or merged under it is there.
ReviewTypeOK ==
  /\ step1 \in Fingerprints /\ review \in Fingerprints /\ approved \subseteq Contents
  /\ draft1 \in Drafts1 \cup {NoDraft} /\ draft2 \in Drafts2 \cup {NoDraft} /\ script \in Scripts
  /\ lock1 \in Clients \cup {NoClient} /\ lock2 \in Clients \cup {NoClient}
  /\ op \in [Clients -> Operations]
  /\ \A x \in Clients :
       /\ (lock1 = x) <=> (op[x].pc \in {"judge", "clear1", "commit1"})
       /\ (lock2 = x) <=> (op[x].pc \in InStep1 \cup {"gated", "found", "merge", "clear2"})
       /\ (op[x].pc \in {"judge", "clear1"} => draft1 # NoDraft) /\ (op[x].pc \in {"merge", "clear2"} => draft2 # NoDraft)
  /\ begun \in 0..MaxOps /\ deaths \in 0..MaxDeaths

\* A promoted draft never replaces a step1 that its author did not start from or
\* declare merged (_commit_reference_step1): not after a conflict of a generation,
\* a patch that accepts a revision, a renewed report, an undo or a death.
NothingOverwritten ==
  [][\A x \in Clients : op[x].pc = "judge" /\ op'[x].pc = "clear1" => step1 \in draft1.merged]_reviewVars

\* What a migration without warnings does to a reviewed step1 is not a change of it.
Same(c, d) == c = d \/ (c = Old /\ d = Tidy)

\* A step2 draft is promoted on the step1 its gate was asked about, although gate,
\* configuration and load are awaited one after the other (DraftWorkflow.promote).
PromoteIsGated == \A x \in Clients : op[x].pc = "merge" =>
  \/ Same(op[x].gate, op[x].used)
  \/ op[x].gate = Old /\ op[x].used = Cut /\ ~op[x].passed

\* Durations that a migration cut are never let through before somebody confirmed
\* them, whichever reader migrates and wherever it dies (migrate_step1_draft_in_place).
CutNeedsConfirm == step1 = Cut /\ ~Blocks => Cut \in approved

\* A draft of step2 written while its step1 was formal does not outlive that step1
\* (write_formal_step1_locked): it falls with it, returns with it, or the file is gone.
Draft2FallsWithStep1 ==
  draft2 # NoDraft /\ ~draft2.late => step1 = NoText \/ Same(draft2.on, step1) \/ (draft2.on = Old /\ step1 = Cut)

\* The paid expansion of step1 starts only from content that passed the gate
\* (generate_episode_script).
ExpandsGated == \A x \in Clients : op[x].pc = "model2" => Same(op[x].gate, op[x].used)
=============================================================================
