--------------------------- MODULE MCVideoLedger ---------------------------
(***************************************************************************)
(* Two server processes, interchangeable, and one video task whose lease   *)
(* may expire at any moment.                                               *)
(***************************************************************************)
EXTENDS VideoLedger, TLC

CONSTANTS p1, p2, v1

ProcSymmetry == Permutations(Procs)
=============================================================================
