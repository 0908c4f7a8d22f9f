--------------------------- MODULE MCDraftReview ---------------------------
(* Two clients of one episode, interchangeable, and two contents they may write. *)
EXTENDS DraftReview, TLC

CONSTANTS web, agent, first, second

ReviewSymmetry == Permutations({web, agent}) \cup Permutations({first, second})
=============================================================================
