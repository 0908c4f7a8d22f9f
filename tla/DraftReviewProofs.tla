------------------------- MODULE DraftReviewProofs -------------------------
(***************************************************************************)
(* Proofs of what DraftReview promises, for any number of clients,         *)
(* contents, operations and deaths.                                        *)
(*                                                                         *)
(* Two things carry the argument.  What the undo of a generation would     *)
(* bring back is as sound as what is there (FilesSound), so no receipt has *)
(* to be followed through the files.  And a step1 of the old shape cannot  *)
(* come back once a migration has cut it: either it is formal or one       *)
(* receipt holds it, and until then nobody holds the cut one (OldOnce).    *)
(***************************************************************************)
EXTENDS DraftReview, TLAPS

\* What an operation holds where it needs it.
Carries(x) ==
  /\ op[x].pc = "migrate" => op[x].then \in {"show", "confirm", "load", "reload"} /\ op[x].new \in {Tidy, Cut}
  /\ op[x].pc = "record" => op[x].new \in Contents
  /\ op[x].pc = "commit1" => op[x].new \in Texts
  /\ op[x].pc \in {"baseline", "claim", "model2", "saved", "keep"} => op[x].used \in Contents
  /\ op[x].pc = "landed" => op[x].before \in Files
  /\ op[x].pc \in {"gated", "found", "reload"} \/ (op[x].pc = "migrate" /\ op[x].then = "reload") => draft2 # NoDraft
Typed == ReviewTypeOK /\ \A x \in Clients : Carries(x)

\* A draft of step2 against a step1: it expands it, was late, or there is none.
Falls(s, d) ==
  d # NoDraft /\ ~d.late => s = NoText \/ Same(d.on, s) \/ (d.on = Old /\ s = Cut)

\* Cut durations in a step1 or in its draft.
CutIn(s, d) == s = Cut \/ (d # NoDraft /\ d.text = Cut)

Sound(s, d1, d2) ==
  /\ d1 # NoDraft => d1.base \in d1.merged
  /\ Falls(s, d2)
  /\ CutIn(s, d1) => review # NoText

Landed(x) == op[x].pc = "landed"

\* The files, and those an undo would restore, account for what they were based on.
FilesSound ==
  /\ Sound(step1, draft1, draft2)
  /\ \A x \in Clients : Landed(x) => Sound(op[x].before[1], op[x].before[2], op[x].before[3])

\* Whoever holds the old step1 for an undo, and whoever holds the cut one.
HoldsOld(x) == Landed(x) /\ op[x].before[1] = Old
HoldsCut(x) ==
  \/ op[x].pc = "record" /\ op[x].new = Cut
  \/ Landed(x) /\ CutIn(op[x].before[1], op[x].before[2])

\* The old step1 is in one place, and never beside a cut one.
OldOnce ==
  /\ \A x, y \in Clients : HoldsOld(x) /\ HoldsOld(y) => x = y
  /\ step1 = Old => \A x \in Clients : ~HoldsOld(x)
  /\ step1 = Old \/ (\E x \in Clients : HoldsOld(x)) =>
       ~CutIn(step1, draft1) /\ \A x \in Clients : ~HoldsCut(x)

\* The review record: the cut content is in it only if it was confirmed, and a
\* migration that cut leaves a record behind.
RecordSound ==
  /\ review = Cut => Cut \in approved
  /\ \A x \in Clients : op[x].pc = "migrate" /\ op[x].new = Cut => review # NoText

\* A promotion that migrated: the gate it found open is closed, and stays closed.
CutShuts(x) ==
  op[x].new = Cut /\ op[x].passed => review \notin {Cut, NoText} /\ \A y \in Clients : ~HoldsCut(y)

\* The content of a promotion from its gate to its merge.
Follows(x) ==
  /\ op[x].pc = "rest" => op[x].new = NoText
  /\ op[x].pc = "migrate" => step1 = Old /\ op[x].new \in {Tidy, Cut}
  /\ op[x].pc \in {"gated", "found"} => step1 \in {op[x].gate, NoText} /\ op[x].new = NoText
  /\ op[x].pc = "migrate" /\ op[x].then = "reload" => op[x].gate = Old /\ CutShuts(x)
  /\ op[x].pc = "reload" =>
       \/ op[x].new = NoText /\ step1 = op[x].gate
       \/ op[x].new \in {Tidy, Cut} /\ step1 = op[x].new /\ op[x].gate = Old /\ CutShuts(x)
GateFollowed == PromoteIsGated /\ \A x \in Clients : Follows(x)

Kept == FilesSound /\ OldOnce /\ RecordSound /\ GateFollowed
ReviewInv == Typed /\ Kept
-----------------------------------------------------------------------------
(* Type correctness                                                        *)

\* What entering the section of step1 does: passed is what the gate said, and a step1 of
\* the old shape is left to be migrated with its record already written.
LEMMA Entered ==
  ASSUME NEW x \in Clients, NEW next, EnterStep1(x, next)
  PROVE  /\ lock2 \in {NoClient, x} /\ Step1Free /\ lock2' = x
         /\ \E p \in BOOLEAN :
              /\ p = ~Blocks
              /\ \/ /\ step1 = Old
                    /\ \E m \in {Tidy, Cut} :
                         /\ Go(x, [pc |-> "migrate", then |-> next, new |-> m, passed |-> p])
                         /\ review' = Marked(m)
                 \/ step1 # Old /\ Go(x, [pc |-> next, passed |-> p]) /\ review' = review
<1> DEFINE p == ~Blocks
<1>1. p \in BOOLEAN /\ p = ~Blocks
  OBVIOUS
<1>2. \/ /\ step1 = Old
         /\ \E m \in {Tidy, Cut} :
              /\ Go(x, [pc |-> "migrate", then |-> next, new |-> m, passed |-> p])
              /\ review' = Marked(m)
      \/ step1 # Old /\ Go(x, [pc |-> next, passed |-> p]) /\ review' = review
  BY Zenon DEF EnterStep1
<1> HIDE DEF p
<1> QED BY <1>1, <1>2, Zenon DEF EnterStep1

\* Entering keeps the types, whoever enters and for what.
LEMMA EnterType ==
  ASSUME Typed, NEW x \in Clients, NEW next \in {"show", "confirm", "load", "reload"},
         EnterStep1(x, next), op[x].pc \in {"rest", "look", "confirming", "preflight", "found"},
         next = "reload" => op[x].pc = "found",
         UNCHANGED <<step1, draft1, draft2, script, lock1, approved, deaths>>, begun' \in 0..MaxOps
  PROVE  Typed'
<1>1. PICK p \in BOOLEAN :
        \/ /\ step1 = Old
           /\ \E m \in {Tidy, Cut} :
                /\ Go(x, [pc |-> "migrate", then |-> next, new |-> m, passed |-> p])
                /\ review' = Marked(m)
        \/ step1 # Old /\ Go(x, [pc |-> next, passed |-> p]) /\ review' = review
  BY Entered
<1> USE TextsAssumption DEF Typed, Carries, ReviewTypeOK, Operations, InStep1, Fingerprints, Contents, Go, Rest
<1>2. lock2 \in {NoClient, x} /\ lock2' = x
  BY DEF EnterStep1
<1>3. CASE step1 # Old
  <2>1. Go(x, [pc |-> next, passed |-> p]) /\ review' = review
    BY <1>1, <1>3
  <2> QED BY <1>2, <2>1
<1>4. CASE step1 = Old
  <2>1. PICK m \in {Tidy, Cut} :
          Go(x, [pc |-> "migrate", then |-> next, new |-> m, passed |-> p]) /\ review' = Marked(m)
    BY <1>1, <1>4
  <2>2. review' \in Fingerprints
    BY <2>1 DEF Marked
  <2> QED BY <1>2, <2>1, <2>2
<1> QED BY <1>3, <1>4

LEMMA RestType == Rest \in Operations /\ Rest.pc = "rest" /\ Rest.new = NoText
BY DEF Rest, Operations, Fingerprints, Contents, Scripts

\* Every step of every client keeps the types.
LEMMA TypeStep ==
  ASSUME Typed, [ReviewNext]_reviewVars
  PROVE  Typed'
<1>0. CASE UNCHANGED reviewVars
  BY <1>0 DEF reviewVars, Typed, Carries, ReviewTypeOK
<1> USE TextsAssumption, BoundsAssumption
    DEF Typed, Carries, ReviewTypeOK, InStep1, Fingerprints, Contents, Begin, Step1Free, files
<1>1. ASSUME NEW x \in Clients, ShowState(x) PROVE Typed'
  BY <1>1, RestType DEF ShowState, End
<1>2. ASSUME NEW x \in Clients, WriteMigrated(x) PROVE Typed'
  BY <1>2 DEF WriteMigrated, Go, Rest, Operations
<1>3. ASSUME NEW x \in Clients, NEW c \in Texts, NEW based \in BOOLEAN, SaveContent(x, c, based) PROVE Typed'
  BY <1>3 DEF SaveContent, WriteStep1, Go, Rest, Operations
<1>4. ASSUME NEW x \in Clients, StartConfirm(x) PROVE Typed'
  BY <1>4 DEF StartConfirm, Go, Rest, Operations
<1>5. ASSUME NEW x \in Clients, ConfirmContent(x) PROVE Typed'
  <2>1. CASE End(x)
    BY <1>5, <2>1, RestType DEF ConfirmContent, End
  <2>2. CASE ~End(x)
    BY <1>5, <2>2 DEF ConfirmContent, Go, Rest, Operations
  <2> QED BY <2>1, <2>2
<1>6. ASSUME NEW x \in Clients, RecordReview(x) PROVE Typed'
  BY <1>6 DEF RecordReview, Go, Rest, Operations
<1>7. ASSUME NEW x \in Clients, DeleteStep1(x) PROVE Typed'
  BY <1>7 DEF DeleteStep1
<1>8. ASSUME NEW x \in Clients, OpenDraft1(x) PROVE Typed'
  <2>1. draft1' \in Drafts1 \cup {NoDraft}
    <3>1. CASE draft1 = NoDraft
      <4>1. step1 \in Contents /\ draft1' = [text |-> step1, base |-> step1, bad |-> FALSE, merged |-> {step1}]
        BY <1>8, <3>1 DEF OpenDraft1
      <4> QED BY <4>1 DEF Drafts1
    <3>2. CASE draft1 # NoDraft
      BY <1>8, <3>2 DEF OpenDraft1
    <3> QED BY <3>1, <3>2
  <2> QED BY <1>8, <2>1 DEF OpenDraft1
<1>9. ASSUME NEW x \in Clients, DiscardDraft1(x) PROVE Typed'
  BY <1>9 DEF DiscardDraft1
<1>10. ASSUME NEW x \in Clients, StartPromote1(x) PROVE Typed'
  BY <1>10 DEF StartPromote1, Go, Rest, Operations
<1>11. ASSUME NEW x \in Clients, RejectDraft1(x) PROVE Typed'
  <2>1. draft1' \in Drafts1
    BY <1>11 DEF RejectDraft1, Drafts1
  <2> QED BY <1>11, <2>1, RestType DEF RejectDraft1, End
<1>12. ASSUME NEW x \in Clients, NEW c \in Texts, NEW accept \in BOOLEAN, PatchDraft1(x, c, accept) PROVE Typed'
  <2>1. draft1' \in Drafts1
    BY <1>12, ZenonT(60) DEF PatchDraft1, Drafts1
  <2> QED BY <1>12, <2>1 DEF PatchDraft1
<1>13. ASSUME NEW x \in Clients, CommitDraft1(x) PROVE Typed'
  BY <1>13 DEF CommitDraft1, WriteStep1, Drafts1, Go, Rest, Operations
<1>14. ASSUME NEW x \in Clients, ConflictDraft1(x) PROVE Typed'
  BY <1>14, RestType DEF ConflictDraft1, End
<1>15. ASSUME NEW x \in Clients, ClearDraft1(x) PROVE Typed'
  BY <1>15, RestType DEF ClearDraft1, End
<1>16. ASSUME NEW x \in Clients, StartStep1(x) PROVE Typed'
  BY <1>16 DEF StartStep1, Rev1, Drafts1, Go, Rest, Operations
<1>17. ASSUME NEW x \in Clients, Step1Stale(x) PROVE Typed'
  BY <1>17, RestType DEF Step1Stale, End
<1>18. ASSUME NEW x \in Clients, CommitStep1(x) PROVE Typed'
  BY <1>18 DEF CommitStep1, WriteStep1, Files, Go, Rest, Operations
<1>19. ASSUME NEW x \in Clients, ConflictStep1(x) PROVE Typed'
  BY <1>19, RestType DEF ConflictStep1, Generated, Drafts1, Operations, End
<1>20. ASSUME NEW x \in Clients, NEW c \in Texts, QuarantineStep1(x, c) PROVE Typed'
  BY <1>20, RestType DEF QuarantineStep1, Generated, Drafts1, Operations, End
<1>21. ASSUME NEW x \in Clients, NEW c \in Texts, AdmitStep1(x, c) PROVE Typed'
  BY <1>21 DEF AdmitStep1, Go, Rest, Operations
<1>22. ASSUME NEW x \in Clients, SettleStep1(x) PROVE Typed'
  BY <1>22, RestType DEF SettleStep1, End
<1>23. ASSUME NEW x \in Clients, CompensateStep1(x) PROVE Typed'
  BY <1>23, RestType DEF CompensateStep1, Files, End
<1>24. ASSUME NEW x \in Clients, Preflight(x) PROVE Typed'
  BY <1>24 DEF Preflight, Go, Rest, Operations
<1>25. ASSUME NEW x \in Clients, RefuseLoad(x) PROVE Typed'
  BY <1>25, RestType DEF RefuseLoad, End
<1>26. ASSUME NEW x \in Clients, Loaded(x) PROVE Typed'
  <2>1. CASE End(x)
    BY <1>26, <2>1, RestType DEF Loaded, End
  <2>2. CASE ~End(x)
    BY <1>26, <2>2 DEF Loaded, Go, Rest, Operations
  <2> QED BY <2>1, <2>2
<1>27. ASSUME NEW x \in Clients, TakeBaselines(x) PROVE Typed'
  <2>1. CASE End(x)
    BY <1>27, <2>1, RestType DEF TakeBaselines, End
  <2>2. CASE ~End(x)
    BY <1>27, <2>2 DEF TakeBaselines, Go, Rest, Operations
  <2> QED BY <2>1, <2>2
<1>28. ASSUME NEW x \in Clients, CallModel(x) PROVE Typed'
  <2>1. CASE End(x)
    BY <1>28, <2>1, RestType DEF CallModel, End
  <2>2. CASE ~End(x)
    BY <1>28, <2>2 DEF CallModel, Go, Rest, Operations
  <2> QED BY <2>1, <2>2
<1>29. ASSUME NEW x \in Clients, SaveScript(x) PROVE Typed'
  BY <1>29 DEF SaveScript, Expanded, Scripts, Go, Rest, Operations
<1>30. ASSUME NEW x \in Clients, SettleScript(x) PROVE Typed'
  BY <1>30, RestType DEF SettleScript, Operations, End
<1>31. ASSUME NEW x \in Clients, FailScript(x) PROVE Typed'
  BY <1>31 DEF FailScript, Go, Rest, Operations
<1>32. ASSUME NEW x \in Clients, KeepScript(x) PROVE Typed'
  BY <1>32, RestType DEF KeepScript, Drafts2, Operations, End
<1>33. ASSUME NEW x \in Clients, ChangeScript(x) PROVE Typed'
  BY <1>33 DEF ChangeScript, Scripts
<1>34. ASSUME NEW x \in Clients, OpenDraft2(x) PROVE Typed'
  <2>1. draft2' \in Drafts2 \cup {NoDraft}
    <3>1. CASE draft2 = NoDraft
      <4>1. PICK late \in BOOLEAN :
              draft2' = [on |-> script.on, base |-> script, bad |-> FALSE, edit |-> script.edit, late |-> late]
        BY <1>34, <3>1 DEF OpenDraft2
      <4>2. script.on \in Contents /\ script.edit \in {0, 1}
        BY <1>34, <3>1 DEF OpenDraft2, Scripts
      <4> QED BY <4>1, <4>2 DEF Drafts2
    <3>2. CASE draft2 # NoDraft
      BY <1>34, <3>2 DEF OpenDraft2
    <3> QED BY <3>1, <3>2
  <2> QED BY <1>34, <2>1 DEF OpenDraft2
<1>35. ASSUME NEW x \in Clients, DiscardDraft2(x) PROVE Typed'
  BY <1>35 DEF DiscardDraft2
<1>36. ASSUME NEW x \in Clients, StartPromote2(x) PROVE Typed'
  BY <1>36 DEF StartPromote2, Go, Rest, Operations
<1>37. ASSUME NEW x \in Clients, NEW accept \in BOOLEAN, PatchDraft2(x, accept) PROVE Typed'
  <2>1. draft2' \in Drafts2
    <3>1. 1 - draft2.edit \in {0, 1}
      BY <1>37 DEF PatchDraft2, Drafts2
    <3> QED BY <1>37, <3>1 DEF PatchDraft2, Drafts2
  <2> QED BY <1>37, <2>1 DEF PatchDraft2
<1>38. ASSUME NEW x \in Clients, Reloaded(x) PROVE Typed'
  <2>1. CASE step1 = NoText \/ ClosedByCut(x)
    BY <1>38, <2>1, RestType DEF Reloaded, End
  <2>2. CASE ~(step1 = NoText \/ ClosedByCut(x))
    BY <1>38, <2>2 DEF Reloaded, Go, Rest, Operations
  <2> QED BY <2>1, <2>2
<1>39. ASSUME NEW x \in Clients, RejectDraft2(x) PROVE Typed'
  <2>1. draft2' \in Drafts2
    BY <1>39 DEF RejectDraft2, Drafts2
  <2> QED BY <1>39, <2>1, RestType DEF RejectDraft2, End
<1>40. ASSUME NEW x \in Clients, CommitDraft2(x) PROVE Typed'
  BY <1>40 DEF CommitDraft2, Drafts2, Scripts, Go, Rest, Operations
<1>41. ASSUME NEW x \in Clients, ClearDraft2(x) PROVE Typed'
  BY <1>41, RestType DEF ClearDraft2, End
<1>42. ASSUME NEW x \in Clients, Vanish(x) PROVE Typed'
  BY <1>42, RestType DEF Vanish, End
<1>43. ASSUME NEW x \in Clients, GetState(x) PROVE Typed'
  BY <1>43, EnterType DEF GetState
<1>44. ASSUME NEW x \in Clients, EnterConfirm(x) PROVE Typed'
  BY <1>44, EnterType DEF EnterConfirm
<1>45. ASSUME NEW x \in Clients, LoadStep1(x) PROVE Typed'
  BY <1>45, EnterType DEF LoadStep1
<1>46. ASSUME NEW x \in Clients, ReloadStep1(x) PROVE Typed'
  BY <1>46, EnterType DEF ReloadStep1
<1>47. ASSUME NEW x \in Clients, FindStep1(x) PROVE Typed'
  BY <1>47 DEF FindStep1, Go, Rest, Operations
<1> HIDE DEF Typed, Carries, ReviewTypeOK, InStep1, Fingerprints, Contents, Begin, Step1Free, files
<1> QED BY <1>0, <1>1, <1>2, <1>3, <1>4, <1>5, <1>6, <1>7, <1>8, <1>9, <1>10, <1>11, <1>12, <1>13, <1>14, <1>15, <1>16, <1>17, <1>18, <1>19, <1>20, <1>21, <1>22, <1>23, <1>24, <1>25, <1>26, <1>27, <1>28, <1>29, <1>30, <1>31, <1>32, <1>33, <1>34, <1>35, <1>36, <1>37, <1>38, <1>39, <1>40, <1>41, <1>42, <1>43, <1>44, <1>45, <1>46, <1>47 DEF ReviewNext

-----------------------------------------------------------------------------
(* Steps that leave step1, the review record and every receipt alone       *)

\* Where an operation holds something the invariants speak about.
Held == {"landed", "record", "gated", "found", "migrate", "reload", "merge"}

\* Such a step: a draft it writes is sound, and holds cut durations only if they were
\* there before; a draft that is being judged is not promoted by it.
Calm(x) ==
  /\ UNCHANGED <<step1, review, approved>>
  /\ draft1' # NoDraft =>
       draft1'.base \in draft1'.merged /\ (draft1'.text = Cut => CutIn(step1, draft1))
  /\ Falls(step1, draft2')
  /\ \A y \in Clients : y # x => op'[y] = op[y]
  /\ op'[x].pc \notin Held /\ (op'[x].pc = "rest" => op'[x].new = NoText)
  /\ op[x].pc = "judge" => op'[x].pc = "rest"

\* A calm step keeps all the invariants.
LEMMA CalmKeeps ==
  ASSUME ReviewInv, NEW x \in Clients, Calm(x)
  PROVE  Kept'
<1> USE DEF ReviewInv, Kept, Calm, Held, Landed
<1>1. FilesSound'
  BY DEF FilesSound, Sound, CutIn, Falls
<1>2. OldOnce'
  BY DEF OldOnce, HoldsOld, HoldsCut, CutIn
<1>3. RecordSound'
  BY DEF RecordSound
<1>4. GateFollowed'
  BY DEF GateFollowed, Follows, CutShuts, HoldsCut, PromoteIsGated, CutIn
<1> QED BY <1>1, <1>2, <1>3, <1>4

\* The operations whose steps are calm.
LEMMA CalmSteps ==
  ASSUME ReviewInv, NEW x \in Clients
  PROVE  /\ ShowState(x) => Calm(x)
         /\ StartConfirm(x) => Calm(x)
         /\ OpenDraft1(x) => Calm(x)
         /\ DiscardDraft1(x) => Calm(x)
         /\ StartPromote1(x) => Calm(x)
         /\ RejectDraft1(x) => Calm(x)
         /\ \A c \in Texts : \A accept \in BOOLEAN : PatchDraft1(x, c, accept) => Calm(x)
         /\ ConflictDraft1(x) => Calm(x)
         /\ ClearDraft1(x) => Calm(x)
         /\ StartStep1(x) => Calm(x)
         /\ Step1Stale(x) => Calm(x)
         /\ ConflictStep1(x) => Calm(x)
         /\ \A c \in Texts : QuarantineStep1(x, c) => Calm(x)
         /\ \A c \in Texts : AdmitStep1(x, c) => Calm(x)
         /\ SettleStep1(x) => Calm(x)
         /\ Preflight(x) => Calm(x)
         /\ RefuseLoad(x) => Calm(x)
         /\ Loaded(x) => Calm(x)
         /\ TakeBaselines(x) => Calm(x)
         /\ CallModel(x) => Calm(x)
         /\ SaveScript(x) => Calm(x)
         /\ SettleScript(x) => Calm(x)
         /\ FailScript(x) => Calm(x)
         /\ KeepScript(x) => Calm(x)
         /\ ChangeScript(x) => Calm(x)
         /\ OpenDraft2(x) => Calm(x)
         /\ DiscardDraft2(x) => Calm(x)
         /\ \A accept \in BOOLEAN : PatchDraft2(x, accept) => Calm(x)
         /\ RejectDraft2(x) => Calm(x)
         /\ CommitDraft2(x) => Calm(x)
         /\ ClearDraft2(x) => Calm(x)
         /\ Vanish(x) => Calm(x)
<1>0. (op[x].pc = "rest" => op[x].new = NoText) /\ (op[x].pc = "commit1" => op[x].new \in Texts)
  BY DEF ReviewInv, Kept, GateFollowed, Follows, Typed, Carries
<1> USE TextsAssumption, RestType, <1>0
    DEF ReviewInv, Kept, Typed, ReviewTypeOK, FilesSound, Sound, Falls, Same, CutIn, Held, Calm, Begin, files
<1>1. ASSUME ShowState(x) PROVE Calm(x)
  BY <1>1 DEF ShowState, End
<1>2. ASSUME StartConfirm(x) PROVE Calm(x)
  BY <1>2 DEF StartConfirm, Go, Rest
<1>3. ASSUME OpenDraft1(x) PROVE Calm(x)
  BY <1>3 DEF OpenDraft1
<1>4. ASSUME DiscardDraft1(x) PROVE Calm(x)
  BY <1>4 DEF DiscardDraft1
<1>5. ASSUME StartPromote1(x) PROVE Calm(x)
  BY <1>5 DEF StartPromote1, Go, Rest
<1>6. ASSUME RejectDraft1(x) PROVE Calm(x)
  BY <1>6 DEF RejectDraft1, Drafts1, End
<1>7. ASSUME NEW c \in Texts, NEW accept \in BOOLEAN, PatchDraft1(x, c, accept) PROVE Calm(x)
  <2>1. draft1' # NoDraft => draft1'.text = c
    BY <1>7 DEF PatchDraft1, Drafts1
  <2>2. draft1'.base \in draft1'.merged
    BY <1>7 DEF PatchDraft1, Drafts1
  <2> QED BY <1>7, <2>1, <2>2 DEF PatchDraft1
<1>8. ASSUME ConflictDraft1(x) PROVE Calm(x)
  BY <1>8 DEF ConflictDraft1, End
<1>9. ASSUME ClearDraft1(x) PROVE Calm(x)
  BY <1>9 DEF ClearDraft1, End
<1>10. ASSUME StartStep1(x) PROVE Calm(x)
  BY <1>10 DEF StartStep1, Go, Rest
<1>11. ASSUME Step1Stale(x) PROVE Calm(x)
  BY <1>11 DEF Step1Stale, End
<1>12. ASSUME ConflictStep1(x) PROVE Calm(x)
  BY <1>12 DEF ConflictStep1, Generated, End
<1>13. ASSUME NEW c \in Texts, QuarantineStep1(x, c) PROVE Calm(x)
  BY <1>13 DEF QuarantineStep1, Generated, End
<1>14. ASSUME NEW c \in Texts, AdmitStep1(x, c) PROVE Calm(x)
  BY <1>14 DEF AdmitStep1, Go, Rest
<1>15. ASSUME SettleStep1(x) PROVE Calm(x)
  BY <1>15 DEF SettleStep1, End
<1>16. ASSUME Preflight(x) PROVE Calm(x)
  BY <1>16 DEF Preflight, Go, Rest
<1>17. ASSUME RefuseLoad(x) PROVE Calm(x)
  BY <1>17 DEF RefuseLoad, End
<1>18. ASSUME Loaded(x) PROVE Calm(x)
  BY <1>18 DEF Loaded, Go, Rest, End
<1>19. ASSUME TakeBaselines(x) PROVE Calm(x)
  BY <1>19 DEF TakeBaselines, Go, Rest, End
<1>20. ASSUME CallModel(x) PROVE Calm(x)
  BY <1>20 DEF CallModel, Go, Rest, End
<1>21. ASSUME SaveScript(x) PROVE Calm(x)
  BY <1>21 DEF SaveScript, Go, Rest
<1>22. ASSUME SettleScript(x) PROVE Calm(x)
  BY <1>22 DEF SettleScript, End
<1>23. ASSUME FailScript(x) PROVE Calm(x)
  BY <1>23 DEF FailScript, Go, Rest
<1>24. ASSUME KeepScript(x) PROVE Calm(x)
  <2>1. CASE draft2 = NoDraft
    <3>1. PICK late \in BOOLEAN :
            /\ late = (step1 # op[x].used)
            /\ draft2' = [on |-> op[x].used, base |-> op[x].script, bad |-> TRUE, edit |-> 0, late |-> late]
      BY <1>24, <2>1 DEF KeepScript
    <3>2. Falls(step1, draft2')
      BY <3>1
    <3>3. UNCHANGED <<step1, draft1, review, approved>> /\ op' = [op EXCEPT ![x] = Rest]
      BY <1>24 DEF KeepScript, End
    <3> QED BY <3>2, <3>3
  <2>2. CASE draft2 # NoDraft
    BY <1>24, <2>2 DEF KeepScript, End
  <2> QED BY <2>1, <2>2
<1>25. ASSUME ChangeScript(x) PROVE Calm(x)
  BY <1>25 DEF ChangeScript
<1>26. ASSUME OpenDraft2(x) PROVE Calm(x)
  <2>1. CASE draft2 = NoDraft
    <3>1. PICK late \in BOOLEAN :
            /\ late = (step1 # script.on)
            /\ draft2' = [on |-> script.on, base |-> script, bad |-> FALSE, edit |-> script.edit, late |-> late]
      BY <1>26, <2>1 DEF OpenDraft2
    <3> QED BY <1>26, <3>1 DEF OpenDraft2
  <2>2. CASE draft2 # NoDraft
    BY <1>26, <2>2 DEF OpenDraft2
  <2> QED BY <2>1, <2>2
<1>27. ASSUME DiscardDraft2(x) PROVE Calm(x)
  BY <1>27 DEF DiscardDraft2
<1>28. ASSUME NEW accept \in BOOLEAN, PatchDraft2(x, accept) PROVE Calm(x)
  BY <1>28 DEF PatchDraft2, Drafts2
<1>29. ASSUME RejectDraft2(x) PROVE Calm(x)
  BY <1>29 DEF RejectDraft2, Drafts2, End
<1>30. ASSUME CommitDraft2(x) PROVE Calm(x)
  BY <1>30 DEF CommitDraft2, Go, Rest
<1>31. ASSUME ClearDraft2(x) PROVE Calm(x)
  BY <1>31 DEF ClearDraft2, End
<1>32. ASSUME Vanish(x) PROVE Calm(x)
  BY <1>32 DEF Vanish, End
<1> HIDE DEF ReviewInv, Kept, Typed, ReviewTypeOK, FilesSound, Sound, Falls, Same, CutIn, Held, Calm, Begin, files
<1> QED BY <1>1, <1>2, <1>3, <1>4, <1>5, <1>6, <1>7, <1>8, <1>9, <1>10, <1>11, <1>12, <1>13, <1>14, <1>15, <1>16, <1>17, <1>18, <1>19, <1>20, <1>21, <1>22, <1>23, <1>24, <1>25, <1>26, <1>27, <1>28, <1>29, <1>30, <1>31, <1>32
-----------------------------------------------------------------------------
(* Steps that write step1, the review record or a receipt                  *)

\* A save writes under the lock of the draft of step2: no section and no promotion is open.
LEMMA SaveKept ==
  ASSUME ReviewInv, NEW x \in Clients, NEW c \in Texts, NEW based, SaveContent(x, c, based)
  PROVE  Kept'
<1> USE TextsAssumption DEF ReviewInv, Kept, SaveContent, WriteStep1, Begin, Step1Free, Go, Rest, Landed
<1>1. FilesSound'
  BY DEF FilesSound, Sound, CutIn, Falls, Typed
<1>2. OldOnce'
  BY DEF OldOnce, HoldsOld, HoldsCut, CutIn, Typed
<1>3. RecordSound'
  BY DEF RecordSound, Typed
<1>4. GateFollowed'
  BY DEF GateFollowed, Follows, CutShuts, HoldsCut, PromoteIsGated, CutIn, Typed, ReviewTypeOK, InStep1, Typed
<1> QED BY <1>1, <1>2, <1>3, <1>4

\* A confirmation records what a migration cut only where nobody relies on the closed gate.
LEMMA RecordKept ==
  ASSUME ReviewInv, NEW x \in Clients, RecordReview(x)
  PROVE  Kept'
<1> USE TextsAssumption DEF ReviewInv, Kept, RecordReview, Go, Rest, Landed
<1>1. FilesSound'
  BY DEF FilesSound, Sound, CutIn, Falls, Typed, Carries, Contents
<1>2. OldOnce'
  BY DEF OldOnce, HoldsOld, HoldsCut, CutIn, Typed
<1>3. RecordSound'
  BY DEF RecordSound, Typed, Carries, Contents
<1>4. GateFollowed'
  BY DEF GateFollowed, Follows, CutShuts, HoldsCut, PromoteIsGated, CutIn, Typed, ReviewTypeOK, InStep1, Carries, Contents
<1> QED BY <1>1, <1>2, <1>3, <1>4

\* Removing step1 disturbs no section, and a promotion finds it gone.
LEMMA DeleteKept ==
  ASSUME ReviewInv, NEW x \in Clients, DeleteStep1(x)
  PROVE  Kept'
<1> USE TextsAssumption DEF ReviewInv, Kept, DeleteStep1, Begin, Step1Free, Landed
<1>1. FilesSound'
  BY DEF FilesSound, Sound, CutIn, Falls, Typed
<1>2. OldOnce'
  BY DEF OldOnce, HoldsOld, HoldsCut, CutIn, Typed
<1>3. RecordSound'
  BY DEF RecordSound, Typed
<1>4. GateFollowed'
  BY DEF GateFollowed, Follows, CutShuts, HoldsCut, PromoteIsGated, CutIn, Typed, ReviewTypeOK, InStep1, Typed
<1> QED BY <1>1, <1>2, <1>3, <1>4

\* A migrated step1 replaces the old one inside a section.
LEMMA MigratedKept ==
  ASSUME ReviewInv, NEW x \in Clients, WriteMigrated(x)
  PROVE  Kept'
<1> USE TextsAssumption DEF ReviewInv, Kept, WriteMigrated, Typed, Carries, Go, Rest, Landed
<1>1. FilesSound'
  BY DEF FilesSound, Sound, CutIn, Falls, Same, RecordSound, GateFollowed, Follows
<1>2. OldOnce'
  BY DEF OldOnce, HoldsOld, HoldsCut, CutIn, GateFollowed, Follows
<1>3. RecordSound'
  BY DEF RecordSound, GateFollowed, Follows
<1>4. GateFollowed'
  BY DEF GateFollowed, Follows, CutShuts, HoldsCut, PromoteIsGated, CutIn, Typed, ReviewTypeOK, InStep1, RecordSound
<1> QED BY <1>1, <1>2, <1>3, <1>4

\* The formal step1 takes what its draft holds.
LEMMA PromoteKept ==
  ASSUME ReviewInv, NEW x \in Clients, CommitDraft1(x)
  PROVE  Kept'
<1> USE TextsAssumption DEF ReviewInv, Kept, CommitDraft1, WriteStep1, Step1Free, Go, Rest, Landed
<1>1. FilesSound'
  BY DEF FilesSound, Sound, CutIn, Falls, Typed, ReviewTypeOK
<1>2. OldOnce'
  BY DEF OldOnce, HoldsOld, HoldsCut, CutIn, Typed, ReviewTypeOK
<1>3. RecordSound'
  BY DEF RecordSound, Typed
<1>4. GateFollowed'
  BY DEF GateFollowed, Follows, CutShuts, HoldsCut, PromoteIsGated, CutIn, Typed, ReviewTypeOK, InStep1, Typed
<1> QED BY <1>1, <1>2, <1>3, <1>4

\* A promotion of step2 starts at the content its gate saw.
LEMMA StartKept ==
  ASSUME ReviewInv, NEW x \in Clients, StartPromote2(x)
  PROVE  Kept'
<1> USE TextsAssumption DEF ReviewInv, Kept, StartPromote2, Begin, files, Go, Rest, Landed
<1>1. FilesSound'
  BY DEF FilesSound, Sound, CutIn, Falls, Typed
<1>2. OldOnce'
  BY DEF OldOnce, HoldsOld, HoldsCut, CutIn, Typed
<1>3. RecordSound'
  BY DEF RecordSound, Typed
<1>4. GateFollowed'
  BY DEF GateFollowed, Follows, CutShuts, HoldsCut, PromoteIsGated, CutIn, Typed, ReviewTypeOK, InStep1, Typed
<1> QED BY <1>1, <1>2, <1>3, <1>4

\* The check for a draft of step1 changes nothing a promotion is followed by.
LEMMA FindKept ==
  ASSUME ReviewInv, NEW x \in Clients, FindStep1(x)
  PROVE  Kept'
<1> USE TextsAssumption DEF ReviewInv, Kept, FindStep1, files, Go, Rest, Landed
<1>1. FilesSound'
  BY DEF FilesSound, Sound, CutIn, Falls, Typed
<1>2. OldOnce'
  BY DEF OldOnce, HoldsOld, HoldsCut, CutIn, Typed
<1>3. RecordSound'
  BY DEF RecordSound, Typed
<1>4. GateFollowed'
  BY DEF GateFollowed, Follows, CutShuts, HoldsCut, PromoteIsGated, CutIn, Typed, ReviewTypeOK, InStep1
<1> QED BY <1>1, <1>2, <1>3, <1>4

\* Between its read of step1 and its record, a confirmation holds what it read.
LEMMA ConfirmKept ==
  ASSUME ReviewInv, NEW x \in Clients, ConfirmContent(x)
  PROVE  Kept'
<1>1. CASE step1 = NoText
  <2> Calm(x)
    BY <1>1, RestType DEF ConfirmContent, End, Calm, Held, files, ReviewInv, Typed, ReviewTypeOK, Kept, FilesSound, Sound, CutIn
  <2> QED BY CalmKeeps
<1>2. CASE step1 # NoText
  <2>0. /\ UNCHANGED <<files, approved>> /\ op[x].pc = "confirm"
        /\ \A y \in Clients : y # x => op'[y] = op[y]
        /\ op'[x].pc = "record" /\ op'[x].new = step1
    BY <1>2 DEF ConfirmContent, Go, Rest, ReviewInv, Typed, ReviewTypeOK
  <2> USE <1>2, <2>0, TextsAssumption DEF ReviewInv, Kept, files, Landed
  <2>1. FilesSound'
    BY DEF FilesSound, Sound, CutIn, Falls
  <2>2. OldOnce'
    BY DEF OldOnce, HoldsOld, HoldsCut, CutIn
  <2>3. RecordSound'
    BY DEF RecordSound
  <2>4. GateFollowed'
    BY DEF GateFollowed, Follows, CutShuts, HoldsCut, PromoteIsGated, CutIn, Typed, ReviewTypeOK, InStep1
  <2> QED BY <2>1, <2>2, <2>3, <2>4
<1> QED BY <1>1, <1>2

\* A promotion that read a step1 whose gate was closed by cut durations stops here.
LEMMA ReloadKept ==
  ASSUME ReviewInv, NEW x \in Clients, Reloaded(x)
  PROVE  Kept'
<1>1. CASE step1 = NoText \/ ClosedByCut(x)
  <2> Calm(x)
    BY <1>1, RestType DEF Reloaded, End, Calm, Held, files, ReviewInv, Typed, ReviewTypeOK, Kept, FilesSound, Sound, CutIn
  <2> QED BY CalmKeeps
<1>2. CASE ~(step1 = NoText \/ ClosedByCut(x))
  <2>1. /\ UNCHANGED <<files, approved>> /\ op[x].pc = "reload"
        /\ \A y \in Clients : y # x => op'[y] = op[y]
        /\ op'[x].pc = "merge" /\ op'[x].used = step1
        /\ op'[x].gate = op[x].gate /\ op'[x].passed = op[x].passed
    BY <1>2 DEF Reloaded, Go, Rest, ReviewInv, Typed, ReviewTypeOK, Operations
  <2>2. Same(op[x].gate, step1) \/ (op[x].gate = Old /\ step1 = Cut /\ ~op[x].passed)
    BY <1>2, TextsAssumption
    DEF Reloaded, ClosedByCut, Blocks, Same, ReviewInv, Kept, GateFollowed, Follows, CutShuts
  <2> USE <1>2, <2>1, TextsAssumption DEF ReviewInv, Kept, files, Landed, Typed, ReviewTypeOK, Operations
  <2>3. FilesSound'
    BY DEF FilesSound, Sound, CutIn, Falls
  <2>4. OldOnce'
    BY DEF OldOnce, HoldsOld, HoldsCut, CutIn
  <2>5. RecordSound'
    BY DEF RecordSound
  <2>6. GateFollowed'
    BY <2>2 DEF GateFollowed, Follows, CutShuts, HoldsCut, PromoteIsGated, CutIn
  <2> QED BY <2>3, <2>4, <2>5, <2>6
<1> QED BY <1>1, <1>2

\* A generated step1 lands, and its receipt takes over what the files held.
LEMMA CommitKept ==
  ASSUME ReviewInv, NEW x \in Clients, CommitStep1(x)
  PROVE  Kept'
<1> USE TextsAssumption DEF ReviewInv, Kept
<1>1. /\ step1' = op[x].new /\ step1' \in Texts /\ draft1' = NoDraft /\ UNCHANGED <<review, approved>>
      /\ draft2' = NoDraft \/ (draft2' = draft2 /\ step1' = step1)
      /\ \A y \in Clients : y # x => op'[y] = op[y]
      /\ op'[x].pc = "landed" /\ op'[x].before = <<step1, draft1, draft2>>
      /\ lock2 = NoClient /\ op[x].pc = "commit1"
  BY DEF CommitStep1, WriteStep1, Typed, Carries, Go, Rest, ReviewTypeOK
<1> USE <1>1 DEF Landed
<1>2. FilesSound'
  BY DEF FilesSound, Sound, CutIn, Falls
<1>3. OldOnce'
  BY DEF OldOnce, HoldsOld, HoldsCut, CutIn
<1>4. RecordSound'
  BY DEF RecordSound
<1>5. GateFollowed'
  BY DEF GateFollowed, Follows, CutShuts, HoldsCut, PromoteIsGated, CutIn, Typed, ReviewTypeOK, InStep1
<1> QED BY <1>2, <1>3, <1>4, <1>5

\* An undo brings back what its receipt held, which is sound whatever happened since.
LEMMA CompensateKept ==
  ASSUME ReviewInv, NEW x \in Clients, CompensateStep1(x)
  PROVE  Kept'
<1> USE TextsAssumption, RestType DEF ReviewInv, Kept
<1>1. /\ \/ step1' = op[x].before[1] /\ draft1' = op[x].before[2] /\ draft2' = op[x].before[3]
         \/ UNCHANGED <<step1, draft1, draft2>>
      /\ UNCHANGED <<review, approved>>
      /\ \A y \in Clients : y # x => op'[y] = op[y]
      /\ op'[x] = Rest
      /\ lock2 = NoClient /\ op[x].pc = "landed"
  BY DEF CompensateStep1, End, Typed, ReviewTypeOK
<1> USE <1>1 DEF Landed
<1>2. FilesSound'
  BY DEF FilesSound, Sound, CutIn, Falls
<1>3. OldOnce'
  BY DEF OldOnce, HoldsOld, HoldsCut, CutIn
<1>4. RecordSound'
  BY DEF RecordSound
<1>5. GateFollowed'
  BY DEF GateFollowed, Follows, CutShuts, HoldsCut, PromoteIsGated, CutIn, Typed, ReviewTypeOK, InStep1
<1> QED BY <1>2, <1>3, <1>4, <1>5

\* Entering the section of step1: the record that a cut leaves closes the gate it found open,
\* and while step1 is the old one nobody holds a cut one to confirm.
LEMMA EnterKept ==
  ASSUME ReviewInv, NEW x \in Clients, NEW next \in {"show", "confirm", "load", "reload"},
         EnterStep1(x, next), op[x].pc \in {"rest", "look", "confirming", "preflight", "found"},
         next = "reload" => op[x].pc = "found" /\ step1 # NoText,
         UNCHANGED <<step1, draft1, draft2, approved>>
  PROVE  Kept'
<1>1. PICK p \in BOOLEAN :
        /\ p = ~Blocks
        /\ \/ /\ step1 = Old
              /\ \E m \in {Tidy, Cut} :
                   /\ Go(x, [pc |-> "migrate", then |-> next, new |-> m, passed |-> p])
                   /\ review' = Marked(m)
           \/ step1 # Old /\ Go(x, [pc |-> next, passed |-> p]) /\ review' = review
  BY Entered
<1>2. Step1Free /\ lock2 \in {NoClient, x}
  BY DEF EnterStep1
<1>3. CASE step1 # Old
  <2>1. /\ \A y \in Clients : y # x => op'[y] = op[y]
        /\ op'[x].pc = next /\ op'[x].new = op[x].new /\ op'[x].gate = op[x].gate
        /\ UNCHANGED <<step1, review, draft1, draft2, approved>>
    BY <1>1, <1>3 DEF Go, Rest, ReviewInv, Typed, ReviewTypeOK, Operations
  <2> USE <1>2, <1>3, <2>1, TextsAssumption
      DEF ReviewInv, Kept, Landed, Typed, ReviewTypeOK, Operations, Step1Free, InStep1
  <2>2. FilesSound'
    BY DEF FilesSound, Sound, CutIn, Falls
  <2>3. OldOnce'
    BY DEF OldOnce, HoldsOld, HoldsCut, CutIn
  <2>4. RecordSound'
    BY DEF RecordSound
  <2>5. GateFollowed'
    BY DEF GateFollowed, Follows, CutShuts, HoldsCut, PromoteIsGated, CutIn
  <2> QED BY <2>2, <2>3, <2>4, <2>5
<1>4. CASE step1 = Old
  <2>1. PICK m \in {Tidy, Cut} :
          Go(x, [pc |-> "migrate", then |-> next, new |-> m, passed |-> p]) /\ review' = Marked(m)
    BY <1>1, <1>4
  <2>2. /\ \A y \in Clients : y # x => op'[y] = op[y]
        /\ op'[x].pc = "migrate" /\ op'[x].then = next /\ op'[x].new = m
        /\ op'[x].passed = p /\ op'[x].gate = op[x].gate
        /\ UNCHANGED <<step1, draft1, draft2, approved>>
    BY <2>1 DEF Go, Rest, ReviewInv, Typed, ReviewTypeOK, Operations
  <2>3. /\ review # NoText => review' # NoText
        /\ review' = Cut => review = Cut
        /\ m = Cut => review' # NoText
        /\ m = Cut /\ p => review' \notin {Cut, NoText}
    BY <1>1, <1>4, <2>1, TextsAssumption DEF Marked, Blocks
  <2> USE <1>2, <1>4, <2>2, <2>3, TextsAssumption
      DEF ReviewInv, Kept, Landed, Typed, ReviewTypeOK, Operations, Step1Free, InStep1
  <2>4. FilesSound'
    BY DEF FilesSound, Sound, CutIn, Falls
  <2>5. OldOnce'
    BY DEF OldOnce, HoldsOld, HoldsCut, CutIn
  <2>6. RecordSound'
    BY DEF RecordSound
  <2>7. GateFollowed'
    BY DEF GateFollowed, Follows, CutShuts, HoldsCut, PromoteIsGated, CutIn, OldOnce
  <2> QED BY <2>4, <2>5, <2>6, <2>7
<1> QED BY <1>3, <1>4
-----------------------------------------------------------------------------
(* The inductive invariant                                                 *)

LEMMA InitInv == ReviewInit => ReviewInv
<1> SUFFICES ASSUME ReviewInit PROVE ReviewInv
  OBVIOUS
<1> USE TextsAssumption, BoundsAssumption, RestType DEF ReviewInit
<1>1. script \in Scripts
  BY DEF Scripts, Fingerprints, Contents
<1>2. Typed
  BY <1>1 DEF Typed, Carries, ReviewTypeOK, Fingerprints, Contents, InStep1
<1>3. Kept
  BY DEF Kept, FilesSound, Sound, Falls, CutIn, OldOnce, HoldsOld, HoldsCut, Landed, RecordSound,
         GateFollowed, PromoteIsGated, Follows
<1> QED BY <1>2, <1>3 DEF ReviewInv

\* The steps of one client that are not calm.
Writes(x) ==
  \/ GetState(x) \/ EnterConfirm(x) \/ LoadStep1(x) \/ ReloadStep1(x)
  \/ WriteMigrated(x) \/ ConfirmContent(x) \/ RecordReview(x) \/ DeleteStep1(x)
  \/ \E c \in Texts, based \in BOOLEAN : SaveContent(x, c, based)
  \/ CommitDraft1(x) \/ CommitStep1(x) \/ CompensateStep1(x) \/ StartPromote2(x) \/ FindStep1(x) \/ Reloaded(x)

LEMMA CalmOrWrites ==
  ASSUME ReviewInv, ReviewNext
  PROVE  \E x \in Clients : Calm(x) \/ Writes(x)
BY CalmSteps DEF ReviewNext, Writes

LEMMA WritesKeep ==
  ASSUME ReviewInv, NEW x \in Clients, Writes(x)
  PROVE  Kept'
<1>1. CASE GetState(x)
  BY <1>1, EnterKept DEF GetState, Begin
<1>2. CASE EnterConfirm(x)
  BY <1>2, EnterKept DEF EnterConfirm
<1>3. CASE LoadStep1(x)
  BY <1>3, EnterKept DEF LoadStep1
<1>4. CASE ReloadStep1(x)
  BY <1>4, EnterKept DEF ReloadStep1
<1>5. CASE FindStep1(x)
  BY <1>5, FindKept
<1> QED BY <1>1, <1>2, <1>3, <1>4, <1>5, SaveKept, RecordKept, DeleteKept, MigratedKept, PromoteKept, StartKept,
           ConfirmKept, ReloadKept, CommitKept, CompensateKept DEF Writes

LEMMA StepInv == ReviewInv /\ [ReviewNext]_reviewVars => ReviewInv'
<1> SUFFICES ASSUME ReviewInv, [ReviewNext]_reviewVars PROVE ReviewInv'
  OBVIOUS
<1>1. Typed'
  BY TypeStep DEF ReviewInv
<1>2. CASE UNCHANGED reviewVars
  BY <1>2 DEF reviewVars, ReviewInv, Kept, Typed, Carries, ReviewTypeOK, FilesSound, Sound, OldOnce, HoldsOld,
              HoldsCut, Landed, RecordSound, GateFollowed, PromoteIsGated, Follows, CutShuts
<1>3. CASE ReviewNext
  BY <1>1, <1>3, CalmOrWrites, CalmKeeps, WritesKeep DEF ReviewInv
<1> QED BY <1>2, <1>3

LEMMA Inductive == ReviewSpec => []ReviewInv
BY InitInv, StepInv, PTL DEF ReviewSpec

-----------------------------------------------------------------------------
(* The theorems                                                            *)

\* Types, and the draft locks: a lock is held exactly by the client whose operation needs it
\* and the draft it judges or merges is there (file_lock around promote and generate_step1).
THEOREM ReviewTypes == ReviewSpec => []ReviewTypeOK
<1>1. ReviewInv => ReviewTypeOK
  BY DEF ReviewInv, Typed
<1> QED BY <1>1, Inductive, PTL

\* A step2 draft is promoted on the step1 its gate was asked about, although the gate, the
\* configuration and the load are awaited one after the other (DraftWorkflow.promote).
THEOREM PromoteGated == ReviewSpec => []PromoteIsGated
<1>1. ReviewInv => PromoteIsGated
  BY DEF ReviewInv, Kept, GateFollowed
<1> QED BY <1>1, Inductive, PTL

\* Durations that a migration cut are never let through before somebody confirmed them,
\* whichever reader migrates and wherever it dies (migrate_step1_draft_in_place).
THEOREM CutConfirmed == ReviewSpec => []CutNeedsConfirm
<1>1. ReviewInv => CutNeedsConfirm
  BY TextsAssumption DEF ReviewInv, Kept, FilesSound, Sound, CutIn, RecordSound, CutNeedsConfirm, Blocks
<1> QED BY <1>1, Inductive, PTL

\* A draft of step2 written on the formal step1 does not outlive it, through saves, promotions,
\* generations, undos and deaths (write_formal_step1_locked).
THEOREM Draft2Falls == ReviewSpec => []Draft2FallsWithStep1
<1>1. ReviewInv => Draft2FallsWithStep1
  BY DEF ReviewInv, Kept, FilesSound, Sound, Falls, Draft2FallsWithStep1
<1> QED BY <1>1, Inductive, PTL

\* Only the promotion itself goes from the judge to the cleared draft.
LEMMA OnlyCommit ==
  ASSUME ReviewInv, ReviewNext, NEW x \in Clients, op[x].pc = "judge", op'[x].pc = "clear1"
  PROVE  CommitDraft1(x)
<1>1. PICK y \in Clients : Calm(y) \/ Writes(y)
  BY CalmOrWrites
<1>2. op'[x] # op[x]
  OBVIOUS
<1>3. ~Calm(y)
  BY <1>2 DEF Calm
<1>4. ASSUME NEW next, EnterStep1(y, next), op[y].pc # "judge" PROVE FALSE
  <2>1. PICK f : Go(y, f)
    BY <1>4, Entered
  <2> QED BY <1>2, <1>4, <2>1 DEF Go, ReviewInv, Typed, ReviewTypeOK
<1>5. ~(GetState(y) \/ EnterConfirm(y) \/ LoadStep1(y) \/ ReloadStep1(y))
  BY <1>4 DEF GetState, EnterConfirm, LoadStep1, ReloadStep1, Begin
<1>6. y = x
  BY <1>1, <1>2, <1>3, <1>5
  DEF Writes, WriteMigrated, ConfirmContent, RecordReview, DeleteStep1, SaveContent, CommitDraft1, CommitStep1,
      CompensateStep1, StartPromote2, FindStep1, Reloaded, Go, End, ReviewInv, Typed, ReviewTypeOK
<1> QED BY <1>1, <1>3, <1>5, <1>6
        DEF Writes, WriteMigrated, ConfirmContent, RecordReview, DeleteStep1, SaveContent, CommitStep1,
            CompensateStep1, StartPromote2, FindStep1, Reloaded, Begin

\* A promoted draft never replaces a step1 that its author did not start from or declare merged
\* (_commit_reference_step1).
THEOREM NothingLost == ReviewSpec => NothingOverwritten
<1> DEFINE A == \A x \in Clients : op[x].pc = "judge" /\ op'[x].pc = "clear1" => step1 \in draft1.merged
<1>1. ReviewInv /\ [ReviewNext]_reviewVars => [A]_reviewVars
  <2> SUFFICES ASSUME ReviewInv, ReviewNext, NEW x \in Clients, op[x].pc = "judge", op'[x].pc = "clear1"
               PROVE  step1 \in draft1.merged
    OBVIOUS
  <2>1. CommitDraft1(x)
    BY OnlyCommit
  <2>2. draft1 # NoDraft
    BY DEF ReviewInv, Typed, ReviewTypeOK
  <2> QED BY <2>1, <2>2 DEF CommitDraft1, ReviewInv, Kept, FilesSound, Sound
<1> QED BY <1>1, Inductive, PTL DEF ReviewSpec, NothingOverwritten
=============================================================================
