---------------------------- MODULE AgentSession ----------------------------
(***************************************************************************)
(* server/agent_runtime/session_manager.py: the registry of managed        *)
(* sessions, the requests that send messages to them, the inbox processor  *)
(* of each one, and eviction (idle timer, capacity, patrol, shutdown).     *)
(* The process is one event loop: a step is what runs between two awaits,  *)
(* and a database call takes effect when its caller resumes.               *)
(* An actor (SessionActor) is abstracted to the turn it drives and the     *)
(* commands queued behind it.                                              *)
(***************************************************************************)
EXTENDS Naturals, Sequences, SequencesExt, FiniteSets

CONSTANTS Sessions,       \* persisted sessions
          Requests,       \* send_message calls
          Keys,           \* client_keys, each used for one session only
          Calls,          \* who may ask for what: <<session, key>> of each request
          Insts,          \* ManagedSession objects, numbered in the order they are made
          MaxConcurrent,  \* agent_max_concurrent_sessions
          MaxFaults,      \* bound on failures, timeouts, delays of the patrol, interrupts and restarts
          Nobody

ASSUME AgentAssumption ==
  /\ Calls \subseteq [Requests -> Sessions \X Keys]
  /\ \A c \in Calls : \A p, q \in Requests : c[p][2] = c[q][2] => c[p][1] = c[q][1]
  /\ MaxConcurrent \in Nat \ {0} /\ MaxFaults \in Nat
  /\ Insts \subseteq Nat \ {0} /\ 1 \in Insts
  /\ Nobody \notin Requests /\ Nobody \notin Insts /\ "disconnect" \notin Requests

VARIABLES call,          \* the member of Calls that is made
          row,           \* agent_sessions.status
          log,           \* the user entry of each client_key: the request that wrote it
          registry,      \* self.sessions
          disconnecting, \* self._disconnecting
          lockOf,        \* self._connect_locks: a lock is named for the request that made it
          holder,        \* who holds each lock
          req,           \* the calls
          inst,          \* the ManagedSession objects
          ev,            \* _evict_one, per session
          intr,          \* interrupt_session, per session
          closing,       \* shutdown_gracefully has begun
          faults,        \* how many of them have happened
          delivered,     \* history: how often the SDK accepted a key
          overlapped,    \* history: sessions whose eviction ended during a connect
          cut            \* history: sessions of which a disconnect cut off a turn or the processor,
                         \* or whose status could not be written

agentVars == <<call, row, log, registry, disconnecting, lockOf, holder, req, inst, ev, intr, closing,
               faults, delivered, overlapped, cut>>

SessionOf(r) == call[r][1]
KeyOf(r) == call[r][2]
Statuses == {"idle", "running", "completed", "interrupted", "error", "closed"}
Quiet == {"idle", "interrupted", "error", "completed"}
InCall == {"connect", "wait", "cap", "evict", "build", "start", "check", "append", "send",
           "sent", "failed", "undo", "unmark"}
Connecting == {"wait", "cap", "evict", "build", "start"}
Answers == {"delivered", "repeated", "busy", "rejected", "error", "left", "lost"}
NoCall == [pc |-> "new", meta |-> "idle", inst |-> Nobody, lock |-> Nobody, victim |-> Nobody]
NoEvict == [at |-> "none", inst |-> Nobody]
NoInterrupt == [at |-> "none", inst |-> Nobody]
Answered == [at |-> "done", inst |-> Nobody]
Blank == [of |-> Nobody, status |-> "idle", actor |-> "off", turn |-> Nobody, queue |-> <<>>,
          inbox |-> <<>>, proc |-> "off", writes |-> "idle", flag |-> FALSE, timer |-> FALSE,
          resumedBusy |-> FALSE]

\* Type invariant; a lock is held by a request that is inside get_or_connect,
\* and an eviction is recorded in _disconnecting as long as it runs.
AgentTypeOK ==
  /\ row \in [Sessions -> Statuses]
  /\ log \in [Keys -> Requests \cup {Nobody}]
  /\ registry \in [Sessions -> Insts \cup {Nobody}]
  /\ \A i \in Insts : inst[i].status \in Statuses /\ inst[i].actor \in {"off", "starting", "up", "gone", "failed", "cancelled"}
  /\ \A r \in Requests : req[r].pc \in InCall \cup Answers \cup {"new"}
  /\ \A s \in Sessions : s \in disconnecting <=> ev[s].at # "none"
  /\ \A r \in Requests : holder[r] # Nobody => req[holder[r]].pc \in {"cap", "evict", "build", "start"}

\* A session that has completed a turn and waits for its idle timer.
Resident(s) == [Blank EXCEPT !.of = s, !.status = "completed", !.actor = "up", !.proc = "idle", !.timer = TRUE]

\* The process has just started, or one session is resident.
AgentInit ==
  /\ call \in Calls
  /\ row \in [Sessions -> {"completed"}]
  /\ log = [k \in Keys |-> Nobody]
  /\ disconnecting = {}
  /\ lockOf = [s \in Sessions |-> Nobody] /\ holder = [r \in Requests |-> Nobody]
  /\ req = [r \in Requests |-> NoCall]
  /\ \/ registry = [s \in Sessions |-> Nobody] /\ inst = [i \in Insts |-> Blank]
     \/ \E r \in Requests :
          /\ registry = [s \in Sessions |-> IF s = SessionOf(r) THEN 1 ELSE Nobody]
          /\ inst = [i \in Insts |-> IF i = 1 THEN Resident(SessionOf(r)) ELSE Blank]
  /\ ev = [s \in Sessions |-> NoEvict]
  /\ intr = [s \in Sessions |-> NoInterrupt]
  /\ closing = FALSE /\ faults = 0
  /\ delivered = [k \in Keys |-> 0] /\ overlapped = {} /\ cut = {}

\* The call is at pc; an answered one keeps nothing else.
Put(r, pc) == IF pc \in Answers THEN [NoCall EXCEPT !.pc = pc] ELSE [req[r] EXCEPT !.pc = pc]
Goto(r, pc) == req' = [req EXCEPT ![r] = Put(r, pc)]
At(r, pc) == req[r].pc = pc
Usable(s) == registry[s] # Nobody /\ s \notin disconnecting

\* Mutant: a call that fails keeps the lock.
KeepsLock(r) == holder' = holder

\* The lock of get_or_connect is released.
Release(r) == holder' = [holder EXCEPT ![req[r].lock] = Nobody]
\* A turn, a command, an end of a turn that will be processed, or one that is.
Busy(i) ==
  \/ inst[i].turn # Nobody \/ inst[i].queue # <<>>
  \/ inst[i].inbox # <<>> /\ inst[i].proc # "done"
  \/ inst[i].proc \in {"final", "term"}
Live(i) == inst[i].actor \in {"starting", "up"}

Fault == faults < MaxFaults /\ faults' = faults + 1
callVars == <<row, log, delivered>>
hostVars == <<call, intr, closing, overlapped, cut>>
\* What is in the queue of an actor that goes is answered with an error.
FailQueued(i) ==
  req' = [r \in Requests |-> IF r \in ToSet(inst[i].queue) THEN [req[r] EXCEPT !.pc = "failed"] ELSE req[r]]

Gone(i, how, notice) ==
  inst' = [inst EXCEPT ![i].actor = how, ![i].turn = Nobody, ![i].queue = <<>>, ![i].inbox = @ \o notice]

-----------------------------------------------------------------------------
(* _evict_one *)

\* Up to its first await, for the sessions S: the timer is cancelled and a
\* disconnect queued; timers are those that fired.
StartEvict(S, timers) ==
  LET doomed == {registry[s] : s \in S}
  IN /\ disconnecting' = disconnecting \cup S
     /\ ev' = [s \in Sessions |-> IF s \in S THEN [at |-> "disconnect", inst |-> registry[s]] ELSE ev[s]]
     /\ inst' = [i \in Insts |->
                   [inst[i] EXCEPT !.timer = @ /\ i \notin doomed \cup timers,
                                   !.queue = IF i \in doomed /\ Live(i) THEN Append(@, "disconnect") ELSE @]]

\* Mutant: the disconnect is sent and not waited for.
NotAwaited(i) == TRUE

\* send_disconnect awaits the command and then the actor task.
HasLeft(i) == ~ Live(i)

\* send_disconnect returns once the actor has gone.
Disconnected(s) ==
  LET i == ev[s].inst
  IN /\ ev[s].at = "disconnect" /\ HasLeft(i)
     /\ inst' = [inst EXCEPT ![i].status = "closed", ![i].inbox = Append(@, "none")]
     /\ ev' = [ev EXCEPT ![s].at = "drain"]
     /\ UNCHANGED <<callVars, hostVars, registry, disconnecting, lockOf, holder, req>>

\* It times out and the actor is cancelled.
DisconnectTimesOut(s) ==
  LET i == ev[s].inst
  IN /\ ev[s].at \in {"disconnect", "stuck"}
     /\ inst' = [inst EXCEPT ![i].status = "interrupted",
                             ![i].actor = IF @ = "starting" THEN "cancelled" ELSE IF @ = "up" THEN "gone" ELSE @,
                             ![i].turn = Nobody, ![i].queue = <<>>,
                             ![i].inbox = @ \o (IF inst[i].actor = "up" THEN <<"exit", "none">> ELSE <<"none">>)]
     /\ FailQueued(i)
     /\ ev' = [ev EXCEPT ![s].at = "drain"]
     /\ UNCHANGED <<callVars, hostVars, registry, disconnecting, lockOf, holder>>

\* Mutant: eviction leaves the row as it is.
SettlesNothing(i) == FALSE

\* The statuses _evict_one persists.
PersistsStatus(i) == inst[i].status \in {"running", "interrupted", "error"}

\* The processor is done: a row that says running is settled, unless it cannot be
\* written, which is suppressed; the finally clause drops whatever is registered
\* and the lock.
Evicted(s, saved) ==
  LET i == ev[s].inst
      st == IF inst[i].status = "running" THEN "interrupted" ELSE inst[i].status
  IN /\ ev[s].at \in {"drain", "killed"}
     /\ inst[i].proc \in {"off", "done"}
     /\ inst' = [inst EXCEPT ![i].status = st]
     /\ row' = IF saved /\ PersistsStatus(i) THEN [row EXCEPT ![s] = st] ELSE row
     /\ cut' = IF saved THEN cut ELSE cut \cup {s}
     /\ registry' = [registry EXCEPT ![s] = Nobody]
     /\ lockOf' = [lockOf EXCEPT ![s] = Nobody]
     /\ disconnecting' = disconnecting \ {s}
     /\ ev' = [ev EXCEPT ![s] = NoEvict]
     /\ req' = [r \in Requests |-> IF At(r, "evict") /\ req[r].victim = s THEN [req[r] EXCEPT !.pc = "build"] ELSE req[r]]
     /\ overlapped' = IF registry[s] # i \/ \E r \in Requests : SessionOf(r) = s /\ req[r].pc \in Connecting
                        THEN overlapped \cup {s} ELSE overlapped
     /\ UNCHANGED <<call, log, delivered, intr, closing, holder>>

\* _cleanup_idle: the timer acts on the session registered when it fires.
TimerFires(i) ==
  LET s == inst[i].of
      due == Usable(s) /\ inst[registry[s]].status \in Quiet
  IN /\ inst[i].timer /\ ~ closing
     /\ StartEvict(IF due THEN {s} ELSE {}, {i})
     /\ UNCHANGED <<callVars, hostVars, registry, lockOf, holder, req>>

\* _patrol_once evicts what has been inactive for long, whatever its timer did.  It
\* walks over a copy of the registry: an instance i whose status and age it reads
\* may be gone while it waited for another, and it evicts what is registered then.
PatrolFinds(s, i) ==
  /\ ~ closing /\ Usable(s)
  /\ inst[i].of = s /\ inst[i].status # "running" /\ ~ Busy(i)
  /\ \A r \in Requests : req[r].inst # i
  /\ StartEvict({s}, {})
  /\ UNCHANGED <<callVars, hostVars, registry, lockOf, holder, req>>

Patrol(s) == \E i \in Insts : i = registry[s] /\ PatrolFinds(s, i)
PatrolIsLate(s) == \E i \in Insts : i # registry[s] /\ PatrolFinds(s, i)

\* shutdown_gracefully evicts every session, the running ones too.
Shutdown ==
  /\ ~ closing
  /\ \A r \in Requests : req[r].pc \notin InCall
  /\ closing' = TRUE
  /\ StartEvict({s \in Sessions : Usable(s)}, {})
  /\ UNCHANGED <<call, callVars, intr, overlapped, cut, registry, lockOf, holder, req>>

\* The process stops or dies, and _interrupt_stale_running_sessions runs at
\* the next start.
Restart ==
  /\ row' = [s \in Sessions |-> IF row[s] = "running" THEN "interrupted" ELSE row[s]]
  /\ registry' = [s \in Sessions |-> Nobody]
  /\ disconnecting' = {} /\ ev' = [s \in Sessions |-> NoEvict]
  /\ lockOf' = [s \in Sessions |-> Nobody] /\ holder' = [r \in Requests |-> Nobody]
  /\ req' = [r \in Requests |-> IF req[r].pc \in InCall THEN Put(r, "lost") ELSE req[r]]
  /\ inst' = [i \in Insts |-> IF inst[i].actor = "off" THEN inst[i] ELSE [Blank EXCEPT !.actor = "gone", !.proc = "done"]]
  /\ intr' = [s \in Sessions |-> IF intr[s].at = "none" THEN NoInterrupt ELSE Answered]
  /\ closing' = FALSE /\ overlapped' = {} /\ cut' = {}
  /\ UNCHANGED <<call, log, delivered>>
-----------------------------------------------------------------------------
(* The actor of an instance *)

actorOthers == <<call, row, log, registry, disconnecting, lockOf, holder, ev, intr, closing, overlapped>>

\* An actor whose start() has returned to its caller, which takes no I/O while
\* whatever the actor does takes some: the processor is there.
Serving(i) == inst[i].actor = "up" /\ inst[i].proc # "off"

\* The client connects, or fails to.
ActorStarts(i) ==
  /\ inst[i].actor = "starting"
  /\ inst' = [inst EXCEPT ![i].actor = "up"]
  /\ UNCHANGED <<actorOthers, delivered, cut, req>>

StartFails(i) ==
  /\ inst[i].actor = "starting"
  /\ Gone(i, "failed", <<>>)
  /\ FailQueued(i)
  /\ UNCHANGED <<actorOthers, delivered, cut>>

HasQuery(i) == Serving(i) /\ inst[i].turn = Nobody /\ inst[i].queue # <<>> /\ Head(inst[i].queue) # "disconnect"

\* The next query is accepted by the SDK, or the SDK raises.
ActorQuery(i) ==
  LET r == Head(inst[i].queue)
  IN /\ HasQuery(i)
     /\ inst' = [inst EXCEPT ![i].turn = r, ![i].queue = Tail(@)]
     /\ Goto(r, "delivered")
     /\ delivered' = [delivered EXCEPT ![KeyOf(r)] = @ + 1]
     /\ UNCHANGED <<actorOthers, cut>>

QueryFails(i) ==
  /\ HasQuery(i)
  /\ Gone(i, "gone", <<"crash">>)
  /\ FailQueued(i)
  /\ UNCHANGED <<actorOthers, delivered, cut>>

\* A disconnect is served at the head of the queue, or behind the one query
\* that waits for the end of the turn; the turn is cut off.
ActorDisconnects(i) ==
  LET q == inst[i].queue
      n == IF inst[i].turn # Nobody /\ Len(q) > 1 THEN 2 ELSE 1
  IN /\ Serving(i) /\ Len(q) >= n
     /\ "disconnect" \in {q[1], q[n]}
     /\ Gone(i, "gone", <<"exit">>)
     /\ FailQueued(i)
     /\ cut' = IF inst[i].turn # Nobody THEN cut \cup {inst[i].of} ELSE cut
     /\ UNCHANGED <<actorOthers, delivered>>

\* The result message: its status is resolved, with the interrupt flag, in the
\* callback of the actor, and it is handed to the inbox.
ActorResult(i) ==
  /\ Serving(i) /\ inst[i].turn # Nobody
  /\ \E st \in {"completed", IF inst[i].flag THEN "interrupted" ELSE "error"} :
       inst' = [inst EXCEPT ![i].turn = Nobody, ![i].inbox = Append(@, st)]
  /\ UNCHANGED <<actorOthers, delivered, cut, req>>

\* The stream raises in the middle of a turn; a command that was already taken
\* from the queue is never answered.
ActorDies(i) ==
  LET q == inst[i].queue
  IN /\ Serving(i) /\ inst[i].turn # Nobody
     /\ Gone(i, "gone", <<"crash">>)
     /\ \E k \in 0..IF Len(q) < 2 THEN Len(q) ELSE 2 :
          LET kept == IF k = 0 THEN ToSet(q) ELSE ToSet(RemoveAt(q, k))
          IN /\ req' = [r \in Requests |-> IF r \in kept THEN [req[r] EXCEPT !.pc = "failed"] ELSE req[r]]
             /\ ev' = IF "disconnect" \in ToSet(q) \ kept THEN [ev EXCEPT ![inst[i].of].at = "stuck"] ELSE ev
     /\ UNCHANGED <<row, log, registry, disconnecting, lockOf, holder, hostVars, delivered>>
-----------------------------------------------------------------------------
(* _process_inbox *)

ProcDone(m) == [m EXCEPT !.inbox = <<>>, !.writes = "idle", !.flag = FALSE, !.proc = "done"]

procOthers == <<log, delivered, registry, disconnecting, lockOf, holder, req, ev, hostVars>>

\* Mutant: the status stays what it was when a turn ends.
KeepsStatus(i, st) == inst[i].status

\* The status in memory once a result or the end of the actor is processed.
NewStatus(i, st) == st

\* A result is finalized, the end of the actor settles the session, and the
\* sentinel of _evict_one ends the processor.
ProcTake(i) ==
  LET m == Head(inst[i].inbox)
      st == IF m = "crash" THEN "error" ELSE m
  IN /\ inst[i].proc = "idle" /\ inst[i].inbox # <<>>
     /\ inst' = IF m \in {"exit", "none"}
                  THEN [inst EXCEPT ![i] = ProcDone(@)]
                  ELSE [inst EXCEPT ![i].inbox = Tail(@), ![i].status = NewStatus(i, st), ![i].writes = st,
                                    ![i].proc = IF m = "crash" THEN "term" ELSE "final"]
     /\ UNCHANGED <<procOthers, row>>

\* The row is written after the usage, the interrupt flag cleared and a timer set
\* on whatever is registered then.
ProcWrite(i) ==
  /\ inst[i].proc \in {"final", "term"}
  /\ row' = [row EXCEPT ![inst[i].of] = inst[i].writes]
  /\ inst' = [j \in Insts |->
                LET m == [inst[j] EXCEPT !.timer = @ \/ j = registry[inst[i].of]]
                IN IF j # i THEN m
                   ELSE IF m.proc = "term" THEN ProcDone(m)
                   ELSE [m EXCEPT !.flag = FALSE, !.writes = "idle", !.proc = "idle"]]
  /\ UNCHANGED procOthers

\* The row cannot be written: a result is turned into an error, and the second
\* failure is suppressed.  The processor ends, whether its actor lives or not.
ProcWriteFails(i) ==
  /\ inst[i].proc \in {"final", "term"}
  /\ inst' = IF inst[i].proc = "term"
               THEN [inst EXCEPT ![i] = ProcDone(@)]
               ELSE [inst EXCEPT ![i].status = "error", ![i].writes = "error", ![i].proc = "term"]
  /\ cut' = cut \cup {inst[i].of}
  /\ UNCHANGED <<call, row, log, delivered, registry, disconnecting, lockOf, holder, req, ev, intr, closing, overlapped>>

\* _evict_one gives the processor five seconds and then cancels it.
ProcCancelled(s) ==
  LET i == ev[s].inst
  IN /\ ev[s].at = "drain" /\ inst[i].proc \notin {"off", "done"}
     /\ inst' = IF inst[i].status = "running"
                  THEN [inst EXCEPT ![i].status = "interrupted", ![i].writes = "interrupted", ![i].proc = "term"]
                  ELSE [inst EXCEPT ![i] = ProcDone(@)]
     /\ ev' = [ev EXCEPT ![s].at = "killed"]
     /\ cut' = cut \cup {s}
     /\ UNCHANGED <<call, row, log, delivered, registry, disconnecting, lockOf, holder, req, intr, closing, overlapped>>
-----------------------------------------------------------------------------
(* interrupt_session *)

interruptOthers == <<call, log, delivered, registry, disconnecting, lockOf, holder, req, ev, closing, overlapped, cut>>

\* A managed session that runs is told, and its actor answers or has yet to; a
\* row that says running without one is to be rewritten.
Interrupt(s) ==
  LET m == registry[s]
      told == m # Nobody /\ inst[m].status = "running"
      stale == m = Nobody /\ row[s] = "running"
  IN /\ intr[s].at = "none"
     /\ \/ stale /\ intr' = [intr EXCEPT ![s] = [at |-> "write", inst |-> Nobody]]
        \/ told /\ intr' = [intr EXCEPT ![s] = [at |-> "told", inst |-> m]]
        \/ ~ stale /\ (told => Live(m)) /\ intr' = [intr EXCEPT ![s] = Answered]
     /\ inst' = IF told THEN [inst EXCEPT ![m].flag = TRUE] ELSE inst
     /\ UNCHANGED <<interruptOthers, row>>

\* send_interrupt is answered with an error by an actor that has gone.
InterruptFails(s) ==
  LET m == intr[s].inst
  IN /\ intr[s].at = "told" /\ inst[m].actor \in {"gone", "failed", "cancelled"}
     /\ inst' = [inst EXCEPT ![m].status = "error"]
     /\ intr' = [intr EXCEPT ![s] = Answered]
     /\ UNCHANGED <<interruptOthers, row>>

InterruptWrite(s) ==
  /\ intr[s].at = "write"
  /\ row' = [row EXCEPT ![s] = "interrupted"]
  /\ intr' = [intr EXCEPT ![s] = Answered]
  /\ UNCHANGED <<interruptOthers, inst>>
-----------------------------------------------------------------------------
(* send_message and get_or_connect *)

\* send_or_create reads the row and passes it on.
Begin(r) ==
  /\ At(r, "new") /\ ~ closing
  /\ req' = [req EXCEPT ![r].pc = "connect", ![r].meta = row[SessionOf(r)]]
  /\ UNCHANGED <<callVars, hostVars, registry, disconnecting, lockOf, holder, inst, ev>>

\* A registered session is used at once; otherwise its lock is looked up, and a
\* lock that is free is taken without waiting.
Connect(r) ==
  LET s == SessionOf(r)
      l == IF lockOf[s] = Nobody THEN r ELSE lockOf[s]
  IN /\ At(r, "connect")
     /\ IF Usable(s)
          THEN req' = [req EXCEPT ![r].pc = "check", ![r].inst = registry[s]] /\ UNCHANGED <<lockOf, holder>>
          ELSE /\ lockOf' = [lockOf EXCEPT ![s] = l]
               /\ req' = [req EXCEPT ![r].pc = IF holder[l] = Nobody THEN "cap" ELSE "wait", ![r].lock = l]
               /\ holder' = IF holder[l] = Nobody THEN [holder EXCEPT ![l] = r] ELSE holder
     /\ UNCHANGED <<callVars, hostVars, registry, disconnecting, inst, ev>>

\* The lock is acquired and the registry looked up again.
Acquire(r) ==
  LET s == SessionOf(r)
  IN /\ At(r, "wait") /\ holder[req[r].lock] = Nobody
     /\ IF Usable(s)
          THEN req' = [req EXCEPT ![r].pc = "check", ![r].inst = registry[s]] /\ UNCHANGED holder
          ELSE Goto(r, "cap") /\ holder' = [holder EXCEPT ![req[r].lock] = r]
     /\ UNCHANGED <<callVars, hostVars, registry, disconnecting, lockOf, inst, ev>>

\* _ensure_capacity: a slot is free, a quiet session is evicted, or the call is
\* refused.
EnsureCapacity(r) ==
  LET active == {s \in Sessions : Usable(s)}
      evictable == {s \in active : inst[registry[s]].status # "running"}
  IN /\ At(r, "cap")
     /\ \/ /\ Cardinality(active) < MaxConcurrent
           /\ Goto(r, "build")
           /\ UNCHANGED <<disconnecting, ev, inst, holder>>
        \/ /\ Cardinality(active) >= MaxConcurrent
           /\ \E v \in evictable :
                StartEvict({v}, {}) /\ req' = [req EXCEPT ![r].pc = "evict", ![r].victim = v]
           /\ UNCHANGED holder
        \/ /\ Cardinality(active) >= MaxConcurrent /\ evictable = {}
           /\ Goto(r, "rejected") /\ Release(r)
           /\ UNCHANGED <<disconnecting, ev, inst>>
     /\ UNCHANGED <<callVars, hostVars, registry, lockOf>>

\* resumed_status: a completed session is resumed as idle.
ResumedStatus(meta) == IF meta = "completed" THEN "idle" ELSE meta

\* The options are built and the session is registered with the status the
\* caller read; or they cannot be built.
Build(r) ==
  LET s == SessionOf(r)
  IN /\ At(r, "build")
     /\ \E i \in Insts :
          /\ inst[i].actor = "off" /\ \A j \in Insts : j < i => inst[j].actor # "off"
          /\ inst' = [inst EXCEPT ![i] = [Blank EXCEPT !.of = s, !.status = ResumedStatus(req[r].meta), !.actor = "starting",
                                                      !.resumedBusy = req[r].meta = "running"]]
          /\ req' = [req EXCEPT ![r].pc = "start", ![r].inst = i]
          /\ registry' = [registry EXCEPT ![s] = i]
     /\ UNCHANGED <<callVars, hostVars, disconnecting, lockOf, holder, ev>>

BuildFails(r) ==
  /\ At(r, "build")
  /\ Goto(r, "rejected") /\ Release(r)
  /\ UNCHANGED <<callVars, hostVars, registry, disconnecting, lockOf, inst, ev>>

\* actor.start() returns: the processor is spawned, or the session taken back.
Started(r) ==
  LET i == req[r].inst
      up == inst[i].actor = "up"
  IN /\ At(r, "start") /\ inst[i].actor # "starting"
     /\ Release(r)
     /\ inst' = [inst EXCEPT ![i].proc = IF up THEN "idle" ELSE @]
     /\ registry' = IF inst[i].actor = "failed" THEN [registry EXCEPT ![SessionOf(r)] = Nobody] ELSE registry
     /\ Goto(r, IF up THEN "check" ELSE "rejected")
     /\ UNCHANGED <<callVars, hostVars, disconnecting, lockOf, ev>>

registryVars == <<registry, disconnecting, lockOf, holder, ev>>
sendOthers == <<hostVars, registryVars>>
\* The answer to a call that failed: the entry it has written is gone, or left.
Failure(r) == IF log'[KeyOf(r)] = r THEN "left" ELSE "error"

\* find_by_client_key: the retry of an accepted message is acknowledged.  Then
\* the timer is cancelled, and a session that runs refuses the message.
Admit(r) ==
  LET i == req[r].inst
      repeated == log[KeyOf(r)] # Nobody
  IN /\ At(r, "check")
     /\ Goto(r, CASE repeated -> "repeated"
                  [] ~ repeated /\ inst[i].status = "running" -> "busy"
                  [] OTHER -> "append")
     /\ inst' = IF repeated THEN inst ELSE [inst EXCEPT ![i].timer = FALSE]
     /\ UNCHANGED <<sendOthers, callVars>>

\* Mutant: the entry is written whatever the log holds.
TakesAnyKey(k) == TRUE

\* The unique constraint on (session, client_key).
KeyIsFree(k) == log[k] = Nobody

AppendUserEntry(r) ==
  /\ At(r, "append")
  /\ IF KeyIsFree(KeyOf(r))
       THEN log' = [log EXCEPT ![KeyOf(r)] = r] /\ Goto(r, "send")
       ELSE Goto(r, "repeated") /\ UNCHANGED log
  /\ UNCHANGED <<sendOthers, row, delivered, inst>>

\* The insert raises, whether it was committed or not.
AppendRaises(r) ==
  /\ At(r, "append")
  /\ \E e \in {r, Nobody} : log' = IF KeyIsFree(KeyOf(r)) THEN [log EXCEPT ![KeyOf(r)] = e] ELSE log
  /\ Goto(r, Failure(r))
  /\ UNCHANGED <<sendOthers, row, delivered, inst>>

\* The row says running; send_query, which an actor that is gone answers at once.
Send(r) ==
  LET i == req[r].inst
  IN /\ At(r, "send")
     /\ row' = [row EXCEPT ![SessionOf(r)] = "running"]
     /\ inst' = [inst EXCEPT ![i].status = "running", ![i].resumedBusy = FALSE,
                             ![i].queue = IF Live(i) THEN Append(@, r) ELSE @]
     /\ Goto(r, IF Live(i) THEN "sent" ELSE "failed")
     /\ UNCHANGED <<sendOthers, log, delivered>>

\* update_status("running") stands before the try: when it raises, committed or
\* not, nothing is undone.
SendRaises(r) ==
  LET s == SessionOf(r)
  IN /\ At(r, "send")
     /\ \/ UNCHANGED <<row, cut>>
        \/ row' = [row EXCEPT ![s] = "running"] /\ cut' = cut \cup {s}
     /\ UNCHANGED <<log, delivered, inst, call, intr, closing, overlapped, registryVars>>
     /\ Goto(r, Failure(r))

\* The query was not accepted: the status, the entry and the row are undone.
SendFailed(r) ==
  /\ At(r, "failed")
  /\ inst' = [inst EXCEPT ![req[r].inst].status = "error"]
  /\ Goto(r, "undo")
  /\ UNCHANGED <<sendOthers, callVars>>

\* delete_entry removes the entry this call has written.
DeleteEntry(r) ==
  /\ At(r, "undo")
  /\ log' = [log EXCEPT ![KeyOf(r)] = Nobody]
  /\ Goto(r, "unmark")
  /\ UNCHANGED <<sendOthers, row, delivered, inst>>

\* It fails, which is logged.
DeleteFails(r) ==
  /\ At(r, "undo")
  /\ Goto(r, "unmark")
  /\ UNCHANGED <<sendOthers, callVars, inst>>

MarkError(r) ==
  /\ At(r, "unmark")
  /\ row' = [row EXCEPT ![SessionOf(r)] = "error"]
  /\ UNCHANGED <<sendOthers, log, delivered, inst>>
  /\ Goto(r, Failure(r))

\* The row cannot be written, which is logged.
MarkFails(r) ==
  /\ At(r, "unmark")
  /\ cut' = cut \cup {SessionOf(r)}
  /\ UNCHANGED <<callVars, inst, call, intr, closing, overlapped, registryVars>>
  /\ Goto(r, Failure(r))
-----------------------------------------------------------------------------
AgentStep ==
  \/ \E s \in Sessions :
       \/ Disconnected(s) \/ Evicted(s, TRUE) \/ Patrol(s)
       \/ InterruptWrite(s) \/ InterruptFails(s)
  \/ \E i \in Insts :
       \/ TimerFires(i) \/ ActorStarts(i) \/ ActorQuery(i) \/ ActorDisconnects(i) \/ ActorResult(i)
       \/ ProcTake(i) \/ ProcWrite(i)
  \/ \E r \in Requests :
       \/ Begin(r) \/ Connect(r) \/ Acquire(r) \/ EnsureCapacity(r) \/ Build(r) \/ Started(r)
       \/ Admit(r) \/ AppendUserEntry(r) \/ Send(r)
       \/ SendFailed(r) \/ DeleteEntry(r) \/ MarkError(r)
  \/ Shutdown

AgentFault ==
  \/ \E s \in Sessions : DisconnectTimesOut(s) \/ ProcCancelled(s) \/ Interrupt(s) \/ Evicted(s, FALSE) \/ PatrolIsLate(s)
  \/ \E i \in Insts : StartFails(i) \/ QueryFails(i) \/ ActorDies(i) \/ ProcWriteFails(i)
  \/ \E r \in Requests :
       BuildFails(r) \/ AppendRaises(r) \/ SendRaises(r) \/ DeleteFails(r) \/ MarkFails(r)
  \/ Restart

AgentNext == (AgentStep /\ UNCHANGED faults) \/ (AgentFault /\ Fault)

AgentSpec == AgentInit /\ [][AgentNext]_agentVars
-----------------------------------------------------------------------------
(* What must hold *)

Sending(r) == req[r].pc \in {"send", "sent", "failed", "undo", "unmark"}

\* However often a message is retried, at the same time or after a failure, the SDK
\* accepts it at most once; and its entry, which answers every later retry, means
\* that it was accepted, or that the call that wrote it is in progress, or that
\* the process died under that call, or that the call has answered with an error
\* and left it: the insert or the status before the try (line 1107) raised, or the
\* delete that undoes it did (lines 1121-1124).
DeliveredOnce ==
  \A k \in Keys :
    /\ delivered[k] <= 1
    /\ delivered[k] = 1 => log[k] # Nobody
    /\ log[k] # Nobody =>
         \/ delivered[k] = 1 \/ Sending(log[k])
         \/ At(log[k], "lost") \/ At(log[k], "left")

\* A registered session that refuses messages because it runs has a turn, or an
\* end of a turn to process, or a call; or it was resumed from a row that was
\* read while an earlier instance was running; or its processor has ended under a
\* living actor, because a row could not be written (lines 893-902), and what the
\* actor hands over is not read any more.
BusyHasCause ==
  \A s \in Sessions :
    Usable(s) /\ inst[registry[s]].status = "running" =>
      \/ Busy(registry[s])
      \/ inst[registry[s]].resumedBusy
      \/ inst[registry[s]].proc = "done" /\ s \in cut
      \/ \E r \in Requests : Sending(r) /\ SessionOf(r) = s

\* A row that says running is that of a session at work, unless a disconnect
\* cut off the turn, or the processing of its end, and left the status closed, or
\* the status could not be written.
RunningRowHasCause ==
  \A s \in Sessions :
    row[s] = "running" =>
      \/ \E i \in Insts : inst[i].of = s /\ Busy(i)
      \/ \E r \in Requests : Sending(r) /\ SessionOf(r) = s
      \/ s \in cut
      \/ ev[s].at # "none"

\* An actor that lives is reachable through the registry, or its session is
\* being evicted, unless an eviction of its session ended while a call was connecting it.
LeakHasCause ==
  \A i \in Insts :
    Live(i) => \/ registry[inst[i].of] = i
               \/ inst[i].of \in disconnecting
               \/ inst[i].of \in overlapped
=============================================================================
