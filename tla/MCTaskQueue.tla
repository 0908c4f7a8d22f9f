---------------------------- MODULE MCTaskQueue ----------------------------
(***************************************************************************)
(* Instances of TaskQueue.  TaskQueue.cfg has two tasks that compete for   *)
(* one resource, one of them a video task with all its execution columns,  *)
(* and two interchangeable cancel requests that race.                      *)
(* TaskQueueCascade.cfg gives each of three tasks its own resource, so     *)
(* that chains of three are active together, and drops the execution       *)
(* columns (no provider, no video task).                                   *)
(***************************************************************************)
EXTENDS TaskQueue, TLC

CONSTANTS t1, t2, t3, t4, k1, k2, k3, c, d

MCKeyOf == [t \in Tasks |-> CASE t = t1 -> k1 [] t = t2 -> k2 [] t = t3 -> k1 [] t = t4 -> k3]
MCProjectOf == [t \in Tasks |-> "prj"]
MCMediaOf == [t \in Tasks |-> IF t = t1 THEN "video" ELSE "image"]
CancellerSymmetry == Permutations(Cancellers)
MCImageOnly == [t \in Tasks |-> "image"]
=============================================================================
