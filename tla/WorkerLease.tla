---------------------------- MODULE WorkerLease ----------------------------
(***************************************************************************)
(* The row of worker_lease by which the server processes of a deployment   *)
(* agree on the one whose GenerationWorker claims tasks, and the main loop *)
(* of that worker as far as the lease is concerned                         *)
(* (GenerationWorker._run_loop, TaskRepository.acquire_or_renew_lease).    *)
(*                                                                         *)
(* Time is abstract: a live lease may expire at any moment its holder has  *)
(* not renewed it (a scan, a claim, a blocked event loop and the wait for  *)
(* running executors in stop() all take longer than the ten seconds of the *)
(* lease), and a process that noticed the loss stays "short" of three      *)
(* lifetimes until it becomes "long".                                      *)
(***************************************************************************)
CONSTANTS Procs,    \* the server processes
          NoProc,   \* no lease row
          Ghost     \* the owner id of a worker that died: no later worker has it

ASSUME OwnersDiffer == NoProc \notin Procs /\ Ghost \notin Procs /\ NoProc # Ghost

VARIABLES lease,    \* the row: its owner and whether lease_until lies in the future
          loop,     \* where _run_loop of a process is
          owns,     \* _owns_lease, what the process believes
          lost,     \* _lease_lost_monotonic: "no", or how long ago against 3 x ttl
          handled   \* _orphan_handled_once

leaseVars == <<lease, loop, owns, lost, handled>>

LoopStates == {"off", "renew", "scan", "sweep", "claim", "stopping"}

LeaseTypeOK ==
  /\ lease \in [owner : Procs \cup {NoProc, Ghost}, live : BOOLEAN]
  /\ loop \in [Procs -> LoopStates]
  /\ owns \in [Procs -> BOOLEAN]
  /\ lost \in [Procs -> {"no", "short", "long"}]
  /\ handled \in [Procs -> BOOLEAN]

LeaseInit ==
  /\ lease = [owner |-> NoProc, live |-> FALSE]
  /\ loop = [p \in Procs |-> "off"]
  /\ owns = [p \in Procs |-> FALSE]
  /\ lost = [p \in Procs |-> "no"]
  /\ handled = [p \in Procs |-> FALSE]

\* start(): the event loop creates the task that runs _run_loop.
StartLoop(p) ==
  /\ loop[p] = "off"
  /\ loop' = [loop EXCEPT ![p] = "renew"]
  /\ UNCHANGED <<lease, owns, lost, handled>>

\* The fast path updates a row that is ours or expired, the slow path inserts
\* one where there is none; any other row makes the insert fail.
Obtains(p) == lease.owner \in {p, NoProc} \/ ~lease.live

\* One head of the loop: acquire or renew, note when the lease was first seen
\* lost, and on getting it back forget the scan only after a long absence.
Renew(p) ==
  LET got == Obtains(p)
      again == got /\ lost[p] = "long"
  IN /\ loop[p] = "renew"
     /\ lease' = IF got THEN [owner |-> p, live |-> TRUE] ELSE lease
     /\ owns' = [owns EXCEPT ![p] = got]
     /\ lost' = [lost EXCEPT ![p] = IF got THEN "no"
                                    ELSE IF owns[p] /\ lost[p] = "no" THEN "short" ELSE @]
     /\ handled' = [handled EXCEPT ![p] = @ /\ ~again]
     /\ loop' = [loop EXCEPT ![p] = IF ~got THEN "renew"
                                    ELSE IF handled'[p] THEN "claim" ELSE "scan"]

LostForLong(p) ==
  /\ lost[p] = "short"
  /\ lost' = [lost EXCEPT ![p] = "long"]
  /\ UNCHANGED <<lease, loop, owns, handled>>

\* lease_until passes.
Expire ==
  /\ lease.live
  /\ lease' = [lease EXCEPT !.live = FALSE]
  /\ UNCHANGED <<loop, owns, lost, handled>>

\* The scan read its list (loop "sweep" works it off) and is done.
LoopTo(p, from, to) ==
  /\ loop[p] = from
  /\ loop' = [loop EXCEPT ![p] = to]
  /\ UNCHANGED <<lease, owns, lost>>

\* stop(): the loop leaves at its head and waits for the running executors.
StopLoop(p) ==
  /\ LoopTo(p, "renew", "stopping")
  /\ UNCHANGED handled

\* Mutant: the delete names the lease but not its owner.
ReleasesAny(p) == TRUE

\* release_lease deletes the row only where owner_id is ours.
Releases(p) == lease.owner = p

\* The finally clause of _run_loop; the process ends, the next one starts afresh.
LeaveLoop(p) ==
  /\ loop[p] = "stopping"
  /\ loop' = [loop EXCEPT ![p] = "off"]
  /\ lease' = IF owns[p] /\ Releases(p) THEN [owner |-> NoProc, live |-> FALSE] ELSE lease
  /\ owns' = [owns EXCEPT ![p] = FALSE]
  /\ lost' = [lost EXCEPT ![p] = "no"]
  /\ handled' = [handled EXCEPT ![p] = FALSE]

\* The process dies; the next one of this host is a worker with a new owner id.
DieLoop(p) ==
  /\ loop[p] # "off"
  /\ loop' = [loop EXCEPT ![p] = "off"]
  /\ lease' = IF lease.owner = p THEN [lease EXCEPT !.owner = Ghost] ELSE lease
  /\ owns' = [owns EXCEPT ![p] = FALSE]
  /\ lost' = [lost EXCEPT ![p] = "no"]
  /\ handled' = [handled EXCEPT ![p] = FALSE]

\* A lease that has not expired passes to another owner only when its holder
\* gives it up: no renewal, and no process that stops late believing it still
\* holds the lease, takes it away (acquire_or_renew_lease, release_lease).
NoTheft ==
  [][lease.live /\ lease.owner \in Procs /\ lease'.owner # lease.owner
       => loop'[lease.owner] = "off"]_leaseVars
=============================================================================
