--------------------------- MODULE FormalSelection ---------------------------
(***************************************************************************)
(* What the formal-media writers promise about one resource: a history of  *)
(* versions that is only ever appended to, and a selection, which is a     *)
(* version of the history, its bytes in the canonical file and the claim   *)
(* of the Artifact Manifest.  The selection moves in one step ("the formal *)
(* file, version pointer, and Manifest registration therefore become one   *)
(* guarded transition", lib/video_artifact_commit.py) and a claim is the   *)
(* evidence recorded with the selected version, or there is none.          *)
(***************************************************************************)
EXTENDS Naturals, Sequences

CONSTANTS Resources, Records, NoBytes, NoClaim

VARIABLES
  history,    \* history[r]: the records of versions.json, [bytes, basis, prev]
  selection   \* selection[r]: [version, bytes, claim]

absVars == <<history, selection>>

Unselected(s) == s.version = 0 /\ s.claim = NoClaim

\* The selection names a recorded version, holds its bytes and claims no more than it.
Proven(s, h) ==
  /\ s.version \in 1..Len(h)
  /\ s.bytes = h[s.version].bytes
  /\ s.claim \in {NoClaim, h[s.version].basis}

\* A formal file of unknown origin may be there from the start.
AbsInit ==
  /\ history = [r \in Resources |-> <<>>]
  /\ \A r \in Resources : Unselected(selection[r])

\* The history of r is extended by at most two records: an untracked file and a version.
Extended(r) ==
  LET n == Len(history[r])
      m == Len(history'[r])
  IN /\ m \in n..(n + 2)
     /\ \A i \in 1..m : history'[r][i] \in Records
     /\ \A i \in 1..n : history'[r][i] = history[r][i]

\* One transition: records are appended, and the selection of r stays, moves to a
\* recorded version with its evidence, or is dropped.
Transition(r) ==
  /\ Extended(r)
  /\ \A q \in Resources \ {r} : history'[q] = history[q] /\ selection'[q] = selection[q]
  /\ \/ selection'[r] = selection[r]
     \/ Proven(selection'[r], history'[r])
     \/ Unselected(selection'[r]) /\ selection'[r].bytes = NoBytes

AbsNext == \E r \in Resources : Transition(r)
AbsSpec == AbsInit /\ [][AbsNext]_absVars
=============================================================================
