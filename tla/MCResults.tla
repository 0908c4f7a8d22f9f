----------------------------- MODULE MCResults -----------------------------
(***************************************************************************)
(* Instances of the two models of what a generated result leaves behind:   *)
(* the versions of the media with their manifest, and the ledger of video  *)
(* calls with the worker lease.  They share no variable; part is the one   *)
(* that moves, the other stays at an initial state.                        *)
(***************************************************************************)
EXTENDS MCArtifactCommit, MCVideoLedger

VARIABLE part

resultVars == <<part, artifactVars, ledgerVars>>

ResultInit ==
  /\ part \in {"media", "ledger"}
  /\ ArtifactInit /\ LedgerInit
  /\ part = "ledger" => /\ \A t \in {paid, restore, edit} : th[t].stage = "idle"
                        /\ \A r \in Resources : res[r].formal = NoBytes

ResultNext ==
  \/ part = "media" /\ ArtifactNext /\ UNCHANGED <<part, ledgerVars>>
  \/ part = "ledger" /\ LedgerNext /\ UNCHANGED <<part, artifactVars>>

ResultSpec == ResultInit /\ [][ResultNext]_resultVars

\* Type invariant of the two models, with what each states beside the types.
ResultTypeOK == ArtifactTypeOK /\ LedgerTypeOK
=============================================================================
