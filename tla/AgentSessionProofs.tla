------------------------- MODULE AgentSessionProofs -------------------------
(***************************************************************************)
(* Theorems about AgentSession: that a message is delivered at most once,  *)
(* that a busy session, a running row and a live actor outside the         *)
(* registry each have a cause.                                             *)
(***************************************************************************)
EXTENDS AgentSession, TLAPS

(***************************************************************************)
(* The inductive invariant, one conjunct for each part of the program.     *)
(***************************************************************************)

ProcEnds == {"exit", "none"}
TurnResults == {"completed", "interrupted", "error", "crash"}
Holding == {"cap", "evict", "build", "start"}
\* The pcs at which a call refers to an instance, and those at which it owns the entry.
Using == {"start", "check", "append", "send", "sent", "failed"}
Owning == {"send", "sent", "failed", "undo"}

InstType ==
  [of : Sessions \cup {Nobody}, status : Statuses,
   actor : {"off", "starting", "up", "gone", "failed", "cancelled"},
   turn : Requests \cup {Nobody}, queue : Seq(Requests \cup {"disconnect"}),
   inbox : Seq(ProcEnds \cup TurnResults), proc : {"off", "idle", "final", "term", "done"},
   writes : {"idle", "completed", "interrupted", "error"},
   flag : BOOLEAN, timer : BOOLEAN, resumedBusy : BOOLEAN]

ReqType ==
  [pc : InCall \cup Answers \cup {"new"}, meta : Statuses, inst : Insts \cup {Nobody},
   lock : Requests \cup {Nobody}, victim : Sessions \cup {Nobody}]

EvType == [at : {"none", "disconnect", "stuck", "drain", "killed"}, inst : Insts \cup {Nobody}]

HostTyped ==
  /\ call \in Calls
  /\ row \in [Sessions -> Statuses]
  /\ log \in [Keys -> Requests \cup {Nobody}]
  /\ delivered \in [Keys -> Nat]
  /\ disconnecting \subseteq Sessions
  /\ lockOf \in [Sessions -> Requests \cup {Nobody}]
  /\ holder \in [Requests -> Requests \cup {Nobody}]

AgentTyped ==
  /\ HostTyped
  /\ registry \in [Sessions -> Insts \cup {Nobody}]
  /\ req \in [Requests -> ReqType]
  /\ inst \in [Insts -> InstType]
  /\ ev \in [Sessions -> EvType]

\* Whatever names an instance names one of the right session.
NamesOK ==
  /\ \A i \in Insts : inst[i].actor = "off" => inst[i] = Blank
  /\ \A i \in Insts :
       inst[i].of \in Sessions \/ (~ inst[i].timer /\ ~ Live(i) /\ inst[i].proc \in {"off", "done"})
  /\ \A s \in Sessions :
       registry[s] # Nobody => inst[registry[s]].of = s /\ inst[registry[s]].actor # "off"
  /\ \A s \in Sessions : s \in disconnecting <=> ev[s].at # "none"
  /\ \A s \in Sessions :
       ev[s].at # "none" =>
         ev[s].inst \in Insts /\ inst[ev[s].inst].of = s /\ inst[ev[s].inst].actor # "off"
  /\ \A r \in Requests :
       req[r].pc \in Using =>
         req[r].inst \in Insts /\ inst[req[r].inst].of = SessionOf(r) /\ inst[req[r].inst].actor # "off"
  /\ \A r \in Requests : req[r].pc = "start" => inst[req[r].inst].proc = "off"
  /\ \A r, q \in Requests :
       req[r].pc = "start" /\ req[q].pc = "start" /\ req[r].inst = req[q].inst => r = q

\* The queue of an actor: a query is in one place, and a disconnect is awaited.
ActorQueueOK ==
  /\ \A i \in Insts : ~ Live(i) => inst[i].queue = <<>>
  /\ \A i \in Insts : inst[i].actor # "up" => inst[i].turn = Nobody
  /\ \A i \in Insts : \A k \in 1..Len(inst[i].queue) :
       LET r == inst[i].queue[k]
       IN IF r = "disconnect"
            THEN ev[inst[i].of].at = "disconnect" /\ ev[inst[i].of].inst = i
            ELSE req[r].pc = "sent" /\ req[r].inst = i
  /\ \A i \in Insts : \A k, n \in 1..Len(inst[i].queue) :
       inst[i].queue[k] = inst[i].queue[n] /\ inst[i].queue[k] # "disconnect" => k = n

\* Nobody finds instance i.
Hidden(i) == inst[i].of \in Sessions /\ registry[inst[i].of] = i => inst[i].of \in disconnecting

\* Once an actor has ended nothing but its end comes, and then nobody finds it.
InboxOK ==
  /\ \A i \in Insts : \A k \in 1..Len(inst[i].inbox) :
       inst[i].inbox[k] \in ProcEnds \cup {"crash"} =>
         /\ ~ Live(i)
         /\ \A n \in 1..Len(inst[i].inbox) : k < n => inst[i].inbox[n] \in ProcEnds
  /\ \A i \in Insts : \A k \in 1..Len(inst[i].inbox) : inst[i].inbox[k] \in ProcEnds => Hidden(i)
  /\ \A i \in Insts :
       inst[i].proc = "term" =>
         inst[i].of \in cut \/ (~ Live(i) /\ (inst[i].inbox = <<>> \/ Hidden(i)))
  /\ \A i \in Insts : inst[i].proc = "done" /\ Live(i) => inst[i].of \in cut

\* A lock has one holder; while no eviction ends in between, the lock of a
\* session is the one its requests wait for.
LockOK ==
  /\ \A r \in Requests :
       /\ req[r].pc \in Connecting => req[r].lock \in Requests
       /\ req[r].pc \in Holding => holder[req[r].lock] = r
  /\ \A l \in Requests :
       holder[l] # Nobody => req[holder[l]].pc \in Holding /\ req[holder[l]].lock = l
  /\ \A r \in Requests :
       SessionOf(r) \notin overlapped =>
         /\ req[r].pc \in Connecting => req[r].lock = lockOf[SessionOf(r)]
         /\ req[r].pc \in {"cap", "evict", "build"} => ~ Usable(SessionOf(r))
         /\ req[r].pc = "start" => registry[SessionOf(r)] = req[r].inst

\* An actor that lives is registered, or evicted, or registered during an eviction.
LeakOK ==
  /\ \A s \in Sessions : ev[s].at \in {"drain", "killed"} => ~ Live(ev[s].inst)
  /\ \A i \in Insts :
       Live(i) =>
         LET s == inst[i].of
         IN \/ registry[s] = i
            \/ s \in disconnecting /\ (ev[s].inst = i \/ registry[s] # ev[s].inst)
            \/ s \in overlapped

\* A call that owns the entry of its key has not delivered it.
KeyLogOK ==
  /\ \A r \in Requests : req[r].pc \in Owning => log[KeyOf(r)] = r /\ delivered[KeyOf(r)] = 0
  /\ \A k \in Keys :
       log[k] # Nobody =>
         /\ KeyOf(log[k]) = k
         /\ req[log[k]].pc \in Owning \cup {"unmark", "left", "lost", "delivered"}
         /\ req[log[k]].pc = "delivered" => delivered[k] = 1
  /\ \A k \in Keys : delivered[k] \in {0, 1} /\ (delivered[k] = 1 => log[k] # Nobody)

\* Instance i runs for a reason.
Caused(i) ==
  \/ inst[i].turn # Nobody \/ inst[i].queue # <<>> \/ inst[i].resumedBusy
  \/ inst[i].inbox # <<>> /\ inst[i].proc # "done"
  \/ inst[i].proc = "done" /\ inst[i].of \in cut
  \/ \E r \in Requests : req[r].pc \in {"sent", "failed"} /\ req[r].inst = i

BusyOK ==
  \A s \in Sessions : Usable(s) /\ inst[registry[s]].status = "running" => Caused(registry[s])

\* Call r has made the row say running, and is not done.
Wrote(r) == req[r].pc \in {"sent", "failed", "undo", "unmark"}

\* Instance i works for its session: a turn, a result to come or a row to write.
Works(i) ==
  \/ inst[i].turn # Nobody
  \/ inst[i].proc # "done" /\ \E k \in 1..Len(inst[i].inbox) : inst[i].inbox[k] \in TurnResults
  \/ inst[i].proc \in {"final", "term"}

\* The eviction of s will write the row.
Settles(s) == ev[s].at \in {"drain", "killed"} /\ PersistsStatus(ev[s].inst)

RowCaused(s) ==
  \/ \E i \in Insts : inst[i].of = s /\ Works(i)
  \/ \E r \in Requests : Wrote(r) /\ SessionOf(r) = s
  \/ s \in cut
  \/ Settles(s)

RowOK ==
  /\ \A i \in Insts : inst[i].proc \in {"final", "term"} => inst[i].writes # "idle"
  /\ \A s \in Sessions : row[s] = "running" => RowCaused(s)

SessionInv == AgentTyped /\ NamesOK /\ ActorQueueOK /\ InboxOK /\ LockOK /\ LeakOK /\ KeyLogOK /\ BusyOK /\ RowOK

(***************************************************************************)
(* What a step may leave alone: for each conjunct, the changes it does not *)
(* notice.                                                                 *)
(***************************************************************************)

LEMMA CallTypes ==
  ASSUME HostTyped, NEW r \in Requests
  PROVE  SessionOf(r) \in Sessions /\ KeyOf(r) \in Keys
BY AgentAssumption DEF HostTyped, SessionOf, KeyOf

LEMMA OwnEvict ==
  ASSUME NamesOK, HostTyped, call' = call,
         \A i \in Insts :
           /\ inst'[i].of = inst[i].of
           /\ inst'[i].actor = "off" => inst'[i] = inst[i]
           /\ inst'[i].actor \in {"starting", "up"} => inst[i].actor \in {"starting", "up"}
           /\ inst'[i].timer => inst[i].timer \/ inst[i].of \in Sessions
           /\ inst'[i].proc \in {"off", "done"} \/ inst[i].proc \notin {"off", "done"} \/ inst[i].of \in Sessions
           /\ inst[i].proc = "off" => inst'[i].proc = "off",
         \A s \in Sessions :
           /\ registry'[s] = registry[s] \/ registry'[s] = Nobody
           /\ s \in disconnecting' <=> ev'[s].at # "none"
           /\ ev'[s].at # "none" =>
                 \/ ev[s].at # "none" /\ ev'[s].inst = ev[s].inst
                 \/ registry[s] # Nobody /\ ev'[s].inst = registry[s],
         \A r \in Requests :
           /\ req'[r].pc \in Using => req[r].pc \in Using /\ req'[r].inst = req[r].inst
           /\ req'[r].pc = "start" => req[r].pc = "start",
         registry \in [Sessions -> Insts \cup {Nobody}]
  PROVE  NamesOK'
<1>1. \A i \in Insts : inst'[i].actor = "off" => inst'[i] = Blank
  BY DEF NamesOK
<1>2. \A i \in Insts :
        inst'[i].of \in Sessions \/ (~ inst'[i].timer /\ ~ Live(i)' /\ inst'[i].proc \in {"off", "done"})
  BY DEF NamesOK, Live
<1>3. \A s \in Sessions :
        registry'[s] # Nobody => inst'[registry'[s]].of = s /\ inst'[registry'[s]].actor # "off"
  BY DEF NamesOK
<1>4. \A s \in Sessions : s \in disconnecting' <=> ev'[s].at # "none"
  OBVIOUS
<1>5. \A s \in Sessions :
        ev'[s].at # "none" =>
          ev'[s].inst \in Insts /\ inst'[ev'[s].inst].of = s /\ inst'[ev'[s].inst].actor # "off"
  BY DEF NamesOK
<1>6. \A r \in Requests :
        req'[r].pc \in Using =>
          req'[r].inst \in Insts /\ inst'[req'[r].inst].of = SessionOf(r)' /\ inst'[req'[r].inst].actor # "off"
  <2>1. \A r \in Requests : SessionOf(r)' = SessionOf(r)
    BY DEF SessionOf
  <2> QED
    BY <2>1 DEF NamesOK
<1>7. \A r \in Requests : req'[r].pc = "start" => inst'[req'[r].inst].proc = "off"
  BY DEF NamesOK, Using
<1>8. \A r, q \in Requests :
        req'[r].pc = "start" /\ req'[q].pc = "start" /\ req'[r].inst = req'[q].inst => r = q
  BY DEF NamesOK, Using
<1> QED
  BY <1>1, <1>2, <1>3, <1>4, <1>5, <1>6, <1>7, <1>8 DEF NamesOK

LEMMA OwnFrame ==
  ASSUME NamesOK, HostTyped, call' = call,
         \A i \in Insts :
           /\ inst'[i].of = inst[i].of
           /\ inst'[i].actor = "off" => inst'[i] = inst[i]
           /\ inst'[i].actor \in {"starting", "up"} => inst[i].actor \in {"starting", "up"}
           /\ inst'[i].timer => inst[i].timer \/ inst[i].of \in Sessions
           /\ inst'[i].proc \in {"off", "done"} \/ inst[i].proc \notin {"off", "done"} \/ inst[i].of \in Sessions
           /\ inst[i].proc = "off" => inst'[i].proc = "off",
         \A s \in Sessions :
           /\ registry'[s] = registry[s] \/ registry'[s] = Nobody
           /\ s \in disconnecting' <=> ev'[s].at # "none"
           /\ ev'[s].at # "none" => ev[s].at # "none" /\ ev'[s].inst = ev[s].inst,
         \A r \in Requests :
           /\ req'[r].pc \in Using => req[r].pc \in Using /\ req'[r].inst = req[r].inst
           /\ req'[r].pc = "start" => req[r].pc = "start",
         registry \in [Sessions -> Insts \cup {Nobody}]
  PROVE  NamesOK'
<1>1. \A s \in Sessions :
        ev'[s].at # "none" =>
                 \/ ev[s].at # "none" /\ ev'[s].inst = ev[s].inst
                 \/ registry[s] # Nobody /\ ev'[s].inst = registry[s]
  OBVIOUS
<1> QED
  BY <1>1, OwnEvict

LEMMA QueueFrame ==
  ASSUME ActorQueueOK,
         \A i \in Insts :
           /\ inst'[i].queue = inst[i].queue
           /\ inst[i].queue # <<>> => inst'[i].of = inst[i].of
           /\ inst'[i].turn = inst[i].turn \/ inst'[i].turn = Nobody
           /\ inst[i].actor \in {"starting", "up"} => inst'[i].actor \in {"starting", "up"}
           /\ inst[i].actor = "up" => inst'[i].actor = "up",
         \A r \in Requests : req[r].pc = "sent" => req'[r].pc = "sent" /\ req'[r].inst = req[r].inst,
         \A i \in Insts :
           inst[i].queue # <<>> /\ ev[inst[i].of].at = "disconnect" => ev'[inst[i].of] = ev[inst[i].of],
         \A i \in Insts : inst[i].queue \in Seq(Requests \cup {"disconnect"})
  PROVE  ActorQueueOK'
<1>1. \A i \in Insts : ~ Live(i)' => inst'[i].queue = <<>>
  BY DEF ActorQueueOK, Live
<1>2. \A i \in Insts : inst'[i].actor # "up" => inst'[i].turn = Nobody
  BY DEF ActorQueueOK
<1>3. ASSUME NEW i \in Insts, NEW k \in 1..Len(inst'[i].queue)
      PROVE  LET r == inst'[i].queue[k]
             IN IF r = "disconnect"
                  THEN ev'[inst'[i].of].at = "disconnect" /\ ev'[inst'[i].of].inst = i
                  ELSE req'[r].pc = "sent" /\ req'[r].inst = i
  <2>1. inst'[i].queue = inst[i].queue /\ k \in 1..Len(inst[i].queue)
    OBVIOUS
  <2>2. inst[i].queue # <<>>
    BY <2>1
  <2>3. inst[i].queue[k] \in Requests \cup {"disconnect"}
    BY <2>1
  <2>4. LET r == inst[i].queue[k]
        IN IF r = "disconnect"
             THEN ev[inst[i].of].at = "disconnect" /\ ev[inst[i].of].inst = i
             ELSE req[r].pc = "sent" /\ req[r].inst = i
    BY <2>1 DEF ActorQueueOK
  <2> QED
    BY <2>1, <2>2, <2>3, <2>4
<1>4. \A i \in Insts : \A k, n \in 1..Len(inst'[i].queue) :
        inst'[i].queue[k] = inst'[i].queue[n] /\ inst'[i].queue[k] # "disconnect" => k = n
  BY DEF ActorQueueOK
<1> QED
  BY <1>1, <1>2, <1>3, <1>4 DEF ActorQueueOK

LEMMA InboxFrame ==
  ASSUME InboxOK, cut \subseteq cut',
         \A i \in Insts :
           /\ inst'[i].inbox = inst[i].inbox
           /\ inst'[i].proc \in {"term", "done"} => inst[i].proc = inst'[i].proc /\ inst'[i].of = inst[i].of
           /\ inst[i].inbox # <<>> => inst'[i].of = inst[i].of
           /\ inst'[i].actor \in {"starting", "up"} /\ (inst[i].inbox # <<>> \/ inst'[i].proc \in {"term", "done"}) =>
                inst[i].actor \in {"starting", "up"}
           /\ inst[i].inbox # <<>> /\ inst[i].of \in Sessions =>
                /\ registry'[inst[i].of] = i => registry[inst[i].of] = i
                /\ registry'[inst[i].of] = i /\ inst[i].of \in disconnecting => inst[i].of \in disconnecting'
  PROVE  InboxOK'
<1>1. ASSUME NEW i \in Insts, inst[i].inbox # <<>>, Hidden(i)
      PROVE  Hidden(i)'
  BY <1>1 DEF Hidden
<1>2. ASSUME NEW i \in Insts, NEW k \in 1..Len(inst'[i].inbox), inst'[i].inbox[k] \in ProcEnds \cup {"crash"}
      PROVE  /\ ~ Live(i)'
             /\ \A n \in 1..Len(inst'[i].inbox) : k < n => inst'[i].inbox[n] \in ProcEnds
             /\ inst'[i].inbox[k] \in ProcEnds => Hidden(i)'
  <2>1. k \in 1..Len(inst[i].inbox) /\ inst[i].inbox[k] \in ProcEnds \cup {"crash"} /\ inst[i].inbox # <<>>
    BY <1>2
  <2>2. /\ ~ Live(i)
        /\ \A n \in 1..Len(inst[i].inbox) : k < n => inst[i].inbox[n] \in ProcEnds
        /\ inst[i].inbox[k] \in ProcEnds => Hidden(i)
    BY <2>1 DEF InboxOK
  <2> QED
    BY <1>1, <2>1, <2>2 DEF Live
<1>3. ASSUME NEW i \in Insts, inst'[i].proc = "term"
      PROVE  inst'[i].of \in cut' \/ (~ Live(i)' /\ (inst'[i].inbox = <<>> \/ Hidden(i)'))
  <2>1. inst[i].of \in cut \/ (~ Live(i) /\ (inst[i].inbox = <<>> \/ Hidden(i)))
    BY <1>3 DEF InboxOK
  <2> QED
    BY <1>1, <1>3, <2>1 DEF Live
<1>4. ASSUME NEW i \in Insts, inst'[i].proc = "done", Live(i)'
      PROVE  inst'[i].of \in cut'
  BY <1>4 DEF InboxOK, Live
<1> QED
  BY <1>2, <1>3, <1>4 DEF InboxOK

LEMMA LockFrame ==
  ASSUME LockOK, HostTyped, call' = call, holder' = holder, lockOf' = lockOf, overlapped \subseteq overlapped',
         registry' = registry, disconnecting \subseteq disconnecting',
         \A r \in Requests :
           /\ req'[r].pc \in Connecting => req[r].pc \in Connecting
           /\ req[r].pc \in Connecting =>
                /\ req'[r].pc = req[r].pc \/ {req[r].pc, req'[r].pc} \subseteq {"cap", "evict", "build"}
                /\ req'[r].lock = req[r].lock /\ req'[r].inst = req[r].inst
  PROVE  LockOK'
<1>1. \A r \in Requests : SessionOf(r)' = SessionOf(r)
  BY DEF SessionOf
<1>2. \A r \in Requests :
        /\ req'[r].pc \in Connecting => req'[r].lock \in Requests
        /\ req'[r].pc \in Holding => holder'[req'[r].lock] = r
  BY DEF LockOK, Connecting, Holding
<1>3. \A l \in Requests : holder'[l] # Nobody => req'[holder'[l]].pc \in Holding /\ req'[holder'[l]].lock = l
  BY DEF LockOK, Connecting, Holding, HostTyped
<1>4. \A s : Usable(s)' => Usable(s)
  BY DEF Usable
<1>5. ASSUME NEW r \in Requests, SessionOf(r)' \notin overlapped'
      PROVE  /\ req'[r].pc \in Connecting => req'[r].lock = lockOf'[SessionOf(r)']
             /\ req'[r].pc \in {"cap", "evict", "build"} => ~ Usable(SessionOf(r))'
             /\ req'[r].pc = "start" => registry'[SessionOf(r)'] = req'[r].inst
  <2>1. SessionOf(r) \notin overlapped
    BY <1>1, <1>5
  <2>2. /\ req[r].pc \in Connecting => req[r].lock = lockOf[SessionOf(r)]
        /\ req[r].pc \in {"cap", "evict", "build"} => ~ Usable(SessionOf(r))
        /\ req[r].pc = "start" => registry[SessionOf(r)] = req[r].inst
    BY <2>1 DEF LockOK
  <2>3. ~ Usable(SessionOf(r)) => ~ Usable(SessionOf(r))'
    BY <1>1 DEF Usable
  <2> QED
    BY <1>1, <2>2, <2>3 DEF Connecting
<1> QED
  BY <1>2, <1>3, <1>5 DEF LockOK

LEMMA LeakFrame ==
  ASSUME LeakOK, NamesOK, registry' = registry, disconnecting \subseteq disconnecting', overlapped \subseteq overlapped',
         registry \in [Sessions -> Insts \cup {Nobody}],
         \A i \in Insts :
           inst'[i].actor \in {"starting", "up"} =>
             inst[i].actor \in {"starting", "up"} /\ inst'[i].of = inst[i].of /\ inst[i].of \in Sessions,
         \A s \in Sessions :
           /\ s \in disconnecting => ev'[s].inst = ev[s].inst
           /\ s \notin disconnecting /\ s \in disconnecting' => ev'[s].inst = registry[s]
           /\ ev'[s].at \in {"drain", "killed"} =>
                ev'[s].inst = ev[s].inst /\ (ev[s].at \in {"drain", "killed"} \/ ~ Live(ev[s].inst)')
                /\ ev[s].inst \in Insts
  PROVE  LeakOK'
<1>1. ASSUME NEW s \in Sessions, ev'[s].at \in {"drain", "killed"}
      PROVE  ~ Live(ev[s].inst)'
  <2>1. PICK i \in Insts : ev[s].inst = i /\ ev'[s].inst = i
    BY <1>1
  <2>2. ~ Live(i)'
    BY <1>1, <2>1 DEF LeakOK, Live
  <2> QED
    BY <2>1, <2>2 DEF Live
<1>2. ASSUME NEW i \in Insts, Live(i)', NEW s, s = inst'[i].of
      PROVE  \/ registry'[s] = i
             \/ s \in disconnecting' /\ (ev'[s].inst = i \/ registry'[s] # ev'[s].inst)
             \/ s \in overlapped'
  <2>1. Live(i) /\ s = inst[i].of /\ s \in Sessions
    BY <1>2 DEF Live
  <2>2. \/ registry[s] = i
        \/ s \in disconnecting /\ (ev[s].inst = i \/ registry[s] # ev[s].inst)
        \/ s \in overlapped
    BY <2>1 DEF LeakOK
  <2> QED
    BY <2>1, <2>2
<1> QED
  BY <1>1, <1>2 DEF LeakOK

LEMMA EntryFrame ==
  ASSUME KeyLogOK, HostTyped, call' = call, log' = log, delivered' = delivered,
         \A r \in Requests :
           /\ req'[r].pc \in Owning => req[r].pc \in Owning
           /\ req[r].pc \in Owning => req'[r].pc \in Owning \cup {"unmark", "left", "lost"}
           /\ req[r].pc = "unmark" /\ log[KeyOf(r)] = r => req'[r].pc \in {"unmark", "left", "lost"}
           /\ req[r].pc \in {"left", "lost", "delivered"} => req'[r].pc = req[r].pc
  PROVE  KeyLogOK'
<1>1. \A r \in Requests : KeyOf(r)' = KeyOf(r)
  BY DEF KeyOf
<1>2. \A r \in Requests : req'[r].pc \in Owning => log'[KeyOf(r)'] = r /\ delivered'[KeyOf(r)'] = 0
  BY <1>1 DEF KeyLogOK
<1>3. ASSUME NEW k \in Keys, log'[k] # Nobody
      PROVE  /\ KeyOf(log[k])' = k
             /\ req'[log'[k]].pc \in Owning \cup {"unmark", "left", "lost", "delivered"}
             /\ req'[log'[k]].pc = "delivered" => delivered'[k] = 1
  <2>1. PICK r \in Requests : log[k] = r /\ log'[k] = r
    BY <1>3 DEF HostTyped
  <2>2. /\ KeyOf(r) = k /\ req[r].pc \in Owning \cup {"unmark", "left", "lost", "delivered"}
        /\ req[r].pc = "delivered" => delivered[k] = 1
    BY <1>3, <2>1 DEF KeyLogOK
  <2>3. KeyOf(log[k])' = KeyOf(r)
    BY <2>1 DEF KeyOf
  <2> QED
    BY <2>1, <2>2, <2>3 DEF Owning
<1>4. \A k \in Keys : delivered'[k] \in {0, 1} /\ (delivered'[k] = 1 => log'[k] # Nobody)
  BY DEF KeyLogOK
<1> QED
  BY <1>2, <1>3, <1>4 DEF KeyLogOK

LEMMA BusyFrame ==
  ASSUME BusyOK,
         \A s \in Sessions : Usable(s)' => Usable(s) /\ registry'[s] = registry[s],
         registry \in [Sessions -> Insts \cup {Nobody}],
         \A s \in Sessions : \A i \in Insts :
           Usable(s)' /\ registry[s] = i /\ inst'[i].status = "running" =>
             Caused(i)' \/ (inst[i].status = "running" /\ (Caused(i) => Caused(i)'))
  PROVE  BusyOK'
<1> SUFFICES ASSUME NEW s \in Sessions, Usable(s)', inst'[registry'[s]].status = "running"
             PROVE  Caused(registry[s])'
  BY DEF BusyOK
<1>1. PICK i \in Insts : registry[s] = i /\ registry'[s] = i
  BY DEF Usable
<1>2. Usable(s) /\ inst'[i].status = "running"
  BY <1>1
<1>3. inst[i].status = "running" => Caused(i)
  BY <1>1, <1>2 DEF BusyOK
<1>4. Caused(i)'
  BY <1>1, <1>2, <1>3
<1> QED
  BY <1>1, <1>4 DEF Caused

\* Nothing an instance or a call does for a reason is taken from it.
LEMMA CausedFrame ==
  ASSUME NEW i,
         /\ inst'[i].turn = inst[i].turn
         /\ inst[i].queue # <<>> => inst'[i].queue # <<>>
         /\ inst[i].inbox # <<>> => inst'[i].inbox # <<>>
         /\ inst'[i].proc = "done" <=> inst[i].proc = "done"
         /\ inst[i].of \in cut => inst'[i].of \in cut'
         /\ inst'[i].resumedBusy = inst[i].resumedBusy,
         \A r \in Requests :
           req[r].pc \in {"sent", "failed"} => req'[r].pc \in {"sent", "failed"} /\ req'[r].inst = req[r].inst
  PROVE  Caused(i) => Caused(i)'
BY DEF Caused

LEMMA RowFrame ==
  ASSUME RowOK,
         \A i \in Insts : inst'[i].proc \in {"final", "term"} => inst'[i].writes # "idle",
         \A s \in Sessions : row'[s] = "running" =>
           RowCaused(s)' \/ (row[s] = "running" /\ (RowCaused(s) => RowCaused(s)'))
  PROVE  RowOK'
BY DEF RowOK

LEMMA RowCausedFrame ==
  ASSUME NEW s \in Sessions, call' = call,
         \A i \in Insts : inst[i].of = s /\ Works(i) => (inst'[i].of = s /\ Works(i)') \/ s \in cut',
         \A r \in Requests : Wrote(r) => Wrote(r)',
         s \in cut => s \in cut',
         Settles(s) => RowCaused(s)'
  PROVE  RowCaused(s) => RowCaused(s)'
<1>1. \A r \in Requests : SessionOf(r)' = SessionOf(r)
  BY DEF SessionOf
<1>2. CASE \E i \in Insts : inst[i].of = s /\ Works(i)
  BY <1>2 DEF RowCaused
<1>3. CASE \E r \in Requests : Wrote(r) /\ SessionOf(r) = s
  BY <1>1, <1>3 DEF RowCaused
<1>4. CASE s \in cut
  BY <1>4 DEF RowCaused
<1>5. CASE Settles(s)
  BY <1>5
<1> QED
  BY <1>2, <1>3, <1>4, <1>5 DEF RowCaused

\* Instance i ends: its queue is emptied, the calls in it hear of it or wait on.
LEMMA QueueGone ==
  ASSUME ActorQueueOK, NEW i \in Insts,
         \A j \in Insts : j # i => inst'[j] = inst[j],
         inst'[i].queue = <<>>, inst'[i].turn = Nobody,
         \A r \in Requests :
           req[r].pc = "sent" /\ req[r].inst # i => req'[r].pc = "sent" /\ req'[r].inst = req[r].inst,
         \A s : ev[s].at = "disconnect" /\ ev[s].inst # i => ev'[s] = ev[s],
         \A j \in Insts : inst[j].queue \in Seq(Requests \cup {"disconnect"})
  PROVE  ActorQueueOK'
<1>1. \A j \in Insts : ~ Live(j)' => inst'[j].queue = <<>>
  BY DEF ActorQueueOK, Live
<1>2. \A j \in Insts : inst'[j].actor # "up" => inst'[j].turn = Nobody
  BY DEF ActorQueueOK
<1>3. ASSUME NEW j \in Insts, NEW k \in 1..Len(inst'[j].queue)
      PROVE  LET r == inst'[j].queue[k]
             IN IF r = "disconnect"
                  THEN ev'[inst'[j].of].at = "disconnect" /\ ev'[inst'[j].of].inst = j
                  ELSE req'[r].pc = "sent" /\ req'[r].inst = j
  <2>1. j # i
    BY <1>3
  <2>2. inst'[j].queue = inst[j].queue /\ k \in 1..Len(inst[j].queue) /\ inst'[j].of = inst[j].of
    BY <2>1
  <2>3. inst[j].queue[k] \in Requests \cup {"disconnect"}
    BY <2>2
  <2>4. LET r == inst[j].queue[k]
        IN IF r = "disconnect"
             THEN ev[inst[j].of].at = "disconnect" /\ ev[inst[j].of].inst = j
             ELSE req[r].pc = "sent" /\ req[r].inst = j
    BY <2>2 DEF ActorQueueOK
  <2> QED
    BY <2>1, <2>2, <2>3, <2>4
<1>4. \A j \in Insts : \A k, n \in 1..Len(inst'[j].queue) :
        inst'[j].queue[k] = inst'[j].queue[n] /\ inst'[j].queue[k] # "disconnect" => k = n
  BY DEF ActorQueueOK
<1> QED
  BY <1>1, <1>2, <1>3, <1>4 DEF ActorQueueOK

LEMMA GotoFacts ==
  ASSUME NEW r \in Requests, NEW pc \in InCall \cup Answers \cup {"new"}, Goto(r, pc),
         req \in [Requests -> ReqType]
  PROVE  /\ req' \in [Requests -> ReqType]
         /\ req'[r].pc = pc
         /\ \A q \in Requests : q # r => req'[q] = req[q]
         /\ pc \notin Answers => req'[r].inst = req[r].inst /\ req'[r].lock = req[r].lock
<1>1. NoCall \in ReqType
  BY DEF NoCall, ReqType, Statuses
<1>2. Put(r, pc) \in ReqType /\ Put(r, pc).pc = pc
  BY <1>1 DEF Put, ReqType, NoCall
<1>3. req' = [req EXCEPT ![r] = Put(r, pc)]
  BY DEF Goto
<1>4. pc \notin Answers => Put(r, pc).inst = req[r].inst /\ Put(r, pc).lock = req[r].lock
  BY DEF Put, ReqType
<1> QED
  BY <1>2, <1>3, <1>4

LEMMA BlankTyped == Blank \in InstType /\ \A s \in Sessions : Resident(s) \in InstType
<1>1. <<>> \in Seq(Requests \cup {"disconnect"}) /\ <<>> \in Seq(ProcEnds \cup TurnResults)
  OBVIOUS
<1>2. Blank \in InstType
  BY <1>1 DEF Blank, InstType, Statuses
<1>3. ASSUME NEW s \in Sessions, NEW x \in InstType
      PROVE  [x EXCEPT !.of = s, !.status = "completed", !.actor = "up", !.proc = "idle", !.timer = TRUE] \in InstType
  BY DEF InstType, Statuses
<1>4. \A s \in Sessions : Resident(s) \in InstType
  BY <1>2, <1>3 DEF Resident
<1> QED
  BY <1>2, <1>4

LEMMA Initially == AgentInit => SessionInv
<1> SUFFICES ASSUME AgentInit PROVE SessionInv
  OBVIOUS
<1>1. /\ req = [r \in Requests |-> NoCall] /\ ev = [s \in Sessions |-> NoEvict]
      /\ disconnecting = {} /\ overlapped = {} /\ cut = {}
      /\ log = [k \in Keys |-> Nobody] /\ delivered = [k \in Keys |-> 0]
      /\ row \in [Sessions -> {"completed"}]
      /\ lockOf = [s \in Sessions |-> Nobody] /\ holder = [r \in Requests |-> Nobody]
      /\ call \in Calls
  BY DEF AgentInit
<1>2. HostTyped
  BY <1>1 DEF HostTyped, Statuses
<1>3. Blank \in InstType /\ \A s \in Sessions : Resident(s) \in InstType
  BY BlankTyped
<1>4. req \in [Requests -> ReqType] /\ ev \in [Sessions -> EvType]
  BY <1>1 DEF NoCall, ReqType, Statuses, NoEvict, EvType
<1>5. 1 \in Insts /\ Nobody \notin Insts /\ Nobody \notin Requests
  BY AgentAssumption
<1>6. /\ registry \in [Sessions -> Insts \cup {Nobody}]
      /\ inst \in [Insts -> InstType]
      /\ \A i \in Insts : inst[i] = Blank \/ (inst[i].of \in Sessions /\ inst[i] = Resident(inst[i].of))
      /\ \A s \in Sessions : registry[s] # Nobody => inst[registry[s]] = Resident(s) /\ registry[s] \in Insts
      /\ \A i \in Insts : inst[i] # Blank => inst[i].of \in Sessions /\ registry[inst[i].of] = i
  <2>1. CASE registry = [s \in Sessions |-> Nobody] /\ inst = [i \in Insts |-> Blank]
    BY <1>3, <2>1
  <2>2. ASSUME NEW r \in Requests,
               registry = [s \in Sessions |-> IF s = SessionOf(r) THEN 1 ELSE Nobody],
               inst = [i \in Insts |-> IF i = 1 THEN Resident(SessionOf(r)) ELSE Blank]
        PROVE  <1>6
    <3>1. SessionOf(r) \in Sessions /\ Resident(SessionOf(r)).of = SessionOf(r)
      BY <1>2, CallTypes DEF Resident, Blank
    <3> QED
      BY <1>3, <1>5, <2>2, <3>1
  <2> QED
    BY <2>1, <2>2 DEF AgentInit
<1>7. AgentTyped
  BY <1>2, <1>4, <1>6 DEF AgentTyped
<1>8. /\ Blank.actor = "off" /\ Blank.timer = FALSE /\ Blank.proc = "off" /\ Blank.queue = <<>>
      /\ Blank.inbox = <<>> /\ Blank.turn = Nobody /\ Blank.status = "idle"
      /\ \A s \in Sessions :
           /\ Resident(s).of = s /\ Resident(s).actor = "up" /\ Resident(s).proc = "idle"
           /\ Resident(s).queue = <<>> /\ Resident(s).inbox = <<>> /\ Resident(s).turn = Nobody
           /\ Resident(s).status = "completed"
  BY DEF Blank, Resident
<1>9. /\ \A r \in Requests : req[r].pc = "new"
      /\ \A s \in Sessions : ev[s].at = "none"
  BY <1>1 DEF NoCall, NoEvict
<1>10. /\ \A i \in Insts : inst[i].queue = <<>> /\ inst[i].inbox = <<>> /\ inst[i].turn = Nobody
       /\ \A i \in Insts : inst[i].proc \in {"off", "idle"} /\ inst[i].status # "running"
       /\ \A i \in Insts : Live(i) => inst[i].of \in Sessions /\ registry[inst[i].of] = i
  BY <1>6, <1>8 DEF Live
<1>11. NamesOK
  BY <1>1, <1>6, <1>8, <1>9 DEF NamesOK, Live, Using
<1>12. ActorQueueOK
  BY <1>10 DEF ActorQueueOK
<1>13. InboxOK
  BY <1>10 DEF InboxOK
<1>14. LockOK
  BY <1>1, <1>9 DEF LockOK, Connecting, Holding
<1>15. LeakOK
  BY <1>9, <1>10 DEF LeakOK
<1>16. KeyLogOK
  BY <1>1, <1>9 DEF KeyLogOK, Owning
<1>17. BusyOK
  BY <1>6, <1>8 DEF BusyOK, Usable
<1>18. RowOK
  BY <1>1, <1>10 DEF RowOK
<1> QED
  BY <1>7, <1>11, <1>12, <1>13, <1>14, <1>15, <1>16, <1>17, <1>18 DEF SessionInv

LEMMA InstStep ==
  ASSUME NEW i \in Insts, NEW x \in InstType, inst \in [Insts -> InstType], inst' = [inst EXCEPT ![i] = x]
  PROVE  inst' \in [Insts -> InstType] /\ inst'[i] = x /\ \A j \in Insts : j # i => inst'[j] = inst[j]
OBVIOUS

\* A step of the calls alone.
LEMMA CallFrame ==
  ASSUME SessionInv, UNCHANGED <<call, inst, registry, disconnecting, ev, overlapped>>, cut \subseteq cut',
         \A q \in Requests :
           /\ req[q].pc = "sent" => req'[q].pc = "sent" /\ req'[q].inst = req[q].inst
           /\ req[q].pc = "failed" => req'[q].pc = "failed" /\ req'[q].inst = req[q].inst
           /\ req'[q].pc \in Using =>
                req'[q].inst \in Insts /\ inst[req'[q].inst].of = SessionOf(q) /\ inst[req'[q].inst].actor # "off"
           /\ req'[q].pc = "start" => req[q].pc = "start" /\ req'[q].inst = req[q].inst
  PROVE  NamesOK' /\ ActorQueueOK' /\ InboxOK' /\ LeakOK' /\ BusyOK'
<1>1. AgentTyped /\ NamesOK /\ ActorQueueOK /\ InboxOK /\ LeakOK /\ BusyOK
  BY DEF SessionInv
<1>2. NamesOK'
  <2>1. \A q \in Requests : SessionOf(q)' = SessionOf(q)
    BY DEF SessionOf
  <2> QED
    BY <1>1, <2>1 DEF NamesOK, Live
<1>3. ActorQueueOK'
  BY <1>1, QueueFrame DEF AgentTyped, InstType
<1>4. InboxOK'
  BY <1>1, InboxFrame
<1>5. LeakOK'
  BY <1>1 DEF LeakOK, Live
<1>6. BusyOK'
  <2>1. \A i \in Insts : Caused(i) => Caused(i)'
    BY CausedFrame
  <2>2. \A s \in Sessions : Usable(s)' => Usable(s)
    BY DEF Usable
  <2> QED
    BY <1>1, <2>1, <2>2, BusyFrame DEF AgentTyped
<1> QED
  BY <1>2, <1>3, <1>4, <1>5, <1>6

\* A step that leaves the instances, the evictions and the rows that say running.
LEMMA RowKept ==
  ASSUME RowOK, UNCHANGED <<call, inst, ev>>, cut \subseteq cut',
         \A s \in Sessions : row'[s] = "running" => row[s] = "running" \/ RowCaused(s)',
         \A r \in Requests : Wrote(r) => Wrote(r)' \/ row'[SessionOf(r)] # "running"
  PROVE  RowOK'
<1>1. ASSUME NEW s \in Sessions, row'[s] = "running", RowCaused(s)
      PROVE  RowCaused(s)'
  <2>1. \A i \in Insts : inst[i].of = s /\ Works(i) => (inst'[i].of = s /\ Works(i)')
    BY DEF Works
  <2>2. \A r \in Requests : SessionOf(r)' = SessionOf(r)
    BY DEF SessionOf
  <2>3. Settles(s) => Settles(s)'
    BY DEF Settles, PersistsStatus
  <2>4. \A r \in Requests : Wrote(r) /\ SessionOf(r) = s => Wrote(r)'
    BY <1>1
  <2> QED
    BY <1>1, <2>1, <2>2, <2>3, <2>4 DEF RowCaused
<1> QED
  BY <1>1, RowFrame DEF RowOK

-----------------------------------------------------------------------------
(* send_message and get_or_connect *)

LEMMA BeginInv == ASSUME SessionInv, NEW r \in Requests, Begin(r) PROVE SessionInv'
<1>1. AgentTyped /\ NamesOK /\ LockOK /\ KeyLogOK /\ RowOK
  BY DEF SessionInv
<1>2. /\ req[r].pc = "new"
      /\ req' = [req EXCEPT ![r].pc = "connect", ![r].meta = row[SessionOf(r)]]
      /\ UNCHANGED <<row, log, delivered, call, overlapped, cut, registry, disconnecting, lockOf, holder, inst, ev>>
  BY DEF Begin, At, callVars, hostVars
<1>3. /\ req' \in [Requests -> ReqType]
      /\ req'[r].pc = "connect" /\ \A q \in Requests : q # r => req'[q] = req[q]
  <2>1. row[SessionOf(r)] \in Statuses
    BY <1>1, CallTypes DEF AgentTyped, HostTyped
  <2>2. [req[r] EXCEPT !.pc = "connect", !.meta = row[SessionOf(r)]] \in ReqType
    BY <1>1, <2>1 DEF AgentTyped, ReqType, InCall
  <2>3. req' = [req EXCEPT ![r] = [req[r] EXCEPT !.pc = "connect", !.meta = row[SessionOf(r)]]]
    BY <1>2
  <2> QED
    BY <1>1, <2>2, <2>3 DEF AgentTyped, ReqType
<1>4. AgentTyped'
  BY <1>1, <1>2, <1>3 DEF AgentTyped, HostTyped
<1>5. NamesOK' /\ ActorQueueOK' /\ InboxOK' /\ LeakOK' /\ BusyOK'
  BY <1>1, <1>2, <1>3, CallFrame DEF Using, NamesOK
<1>6. LockOK'
  BY <1>1, <1>2, <1>3, LockFrame DEF Connecting, AgentTyped
<1>7. KeyLogOK'
  BY <1>1, <1>2, <1>3, EntryFrame DEF Owning, AgentTyped
<1>8. RowOK'
  BY <1>1, <1>2, <1>3, RowKept DEF Wrote
<1> QED
  BY <1>4, <1>5, <1>6, <1>7, <1>8 DEF SessionInv

LEMMA ConnectInv == ASSUME SessionInv, NEW r \in Requests, Connect(r) PROVE SessionInv'
<1> DEFINE s == SessionOf(r)
           l == IF lockOf[s] = Nobody THEN r ELSE lockOf[s]
<1>1. AgentTyped /\ NamesOK /\ LockOK /\ KeyLogOK /\ RowOK
  BY DEF SessionInv
<1>2. /\ req[r].pc = "connect"
      /\ IF Usable(s)
          THEN req' = [req EXCEPT ![r].pc = "check", ![r].inst = registry[s]] /\ UNCHANGED <<lockOf, holder>>
          ELSE /\ lockOf' = [lockOf EXCEPT ![s] = l]
               /\ req' = [req EXCEPT ![r].pc = IF holder[l] = Nobody THEN "cap" ELSE "wait", ![r].lock = l]
               /\ holder' = IF holder[l] = Nobody THEN [holder EXCEPT ![l] = r] ELSE holder
      /\ UNCHANGED <<row, log, delivered, call, overlapped, cut, registry, disconnecting, inst, ev>>
  BY DEF Connect, At, callVars, hostVars
<1>3. s \in Sessions /\ l \in Requests /\ Nobody \notin Requests /\ Nobody \notin Insts
  BY <1>1, CallTypes, AgentAssumption DEF AgentTyped, HostTyped
<1>4. CASE Usable(s)
  <2>1. registry[s] \in Insts /\ inst[registry[s]].of = s /\ inst[registry[s]].actor # "off"
    BY <1>1, <1>3, <1>4 DEF Usable, NamesOK, AgentTyped
  <2>2. /\ req' \in [Requests -> ReqType]
        /\ req'[r].pc = "check" /\ req'[r].inst = registry[s] /\ \A q \in Requests : q # r => req'[q] = req[q]
    <3>1. [req[r] EXCEPT !.pc = "check", !.inst = registry[s]] \in ReqType
      BY <1>1, <2>1 DEF AgentTyped, ReqType, InCall
    <3>2. req' = [req EXCEPT ![r] = [req[r] EXCEPT !.pc = "check", !.inst = registry[s]]]
      BY <1>2, <1>4
    <3> QED
      BY <1>1, <3>1, <3>2 DEF AgentTyped, ReqType
  <2>3. UNCHANGED <<lockOf, holder>>
    BY <1>2, <1>4
  <2>4. AgentTyped'
    BY <1>1, <1>2, <2>2, <2>3 DEF AgentTyped, HostTyped
  <2>5. NamesOK' /\ ActorQueueOK' /\ InboxOK' /\ LeakOK' /\ BusyOK'
    BY <1>1, <1>2, <2>1, <2>2, CallFrame DEF Using, NamesOK
  <2>6. LockOK'
    BY <1>1, <1>2, <2>2, <2>3, LockFrame DEF Connecting, AgentTyped
  <2>7. KeyLogOK'
    BY <1>1, <1>2, <2>2, EntryFrame DEF Owning, AgentTyped
  <2>8. RowOK'
    BY <1>1, <1>2, <2>2, RowKept DEF Wrote
  <2> QED
    BY <2>4, <2>5, <2>6, <2>7, <2>8 DEF SessionInv
<1>5. CASE ~ Usable(s)
  <2>1. PICK p : p = (IF holder[l] = Nobody THEN "cap" ELSE "wait")
    OBVIOUS
  <2>2. /\ lockOf' = [lockOf EXCEPT ![s] = l]
        /\ holder' = IF holder[l] = Nobody THEN [holder EXCEPT ![l] = r] ELSE holder
        /\ req' = [req EXCEPT ![r] = [req[r] EXCEPT !.pc = p, !.lock = l]]
    BY <1>2, <1>5, <2>1
  <2>3. PICK m \in Requests : m = l
    BY <1>3
  <2>4. /\ req' \in [Requests -> ReqType]
        /\ req'[r].pc = p /\ req'[r].lock = m /\ \A q \in Requests : q # r => req'[q] = req[q]
    <3>1. [req[r] EXCEPT !.pc = p, !.lock = m] \in ReqType
      BY <1>1, <2>1, ZenonT(60) DEF AgentTyped, ReqType, InCall
    <3> QED
      BY <1>1, <2>2, <2>3, <3>1 DEF AgentTyped, ReqType
  <2>5. /\ lockOf' = [lockOf EXCEPT ![s] = m] /\ (lockOf[s] # Nobody => m = lockOf[s])
        /\ holder' = IF holder[m] = Nobody THEN [holder EXCEPT ![m] = r] ELSE holder
        /\ (p = "cap" /\ holder[m] = Nobody) \/ (p = "wait" /\ holder[m] # Nobody)
    BY <2>1, <2>2, <2>3
  <2>6. AgentTyped'
    BY <1>1, <1>2, <1>3, <2>4, <2>5 DEF AgentTyped, HostTyped
  <2>7. NamesOK' /\ ActorQueueOK' /\ InboxOK' /\ LeakOK' /\ BusyOK'
    BY <1>1, <1>2, <2>4, <2>5, CallFrame DEF Using, NamesOK
  <2>8. LockOK'
    <3> HIDE DEF l
    <3>1. \A q \in Requests :
            /\ req'[q].pc \in Connecting => req'[q].lock \in Requests
            /\ req'[q].pc \in Holding => holder'[req'[q].lock] = q
      BY <1>1, <1>2, <1>3, <2>4, <2>5 DEF LockOK, Connecting, Holding, AgentTyped, HostTyped
    <3>2. \A x \in Requests : holder'[x] # Nobody => req'[holder'[x]].pc \in Holding /\ req'[holder'[x]].lock = x
      BY <1>1, <1>2, <1>3, <2>4, <2>5 DEF LockOK, Holding, AgentTyped, HostTyped
    <3>3. \A q \in Requests : SessionOf(q)' = SessionOf(q) /\ SessionOf(q) \in Sessions
      BY <1>1, <1>2, CallTypes DEF SessionOf, AgentTyped
    <3>4. \A x : Usable(x)' <=> Usable(x)
      BY <1>2 DEF Usable
    <3>5. \A q \in Requests :
           SessionOf(q)' \notin overlapped' =>
             /\ req'[q].pc \in Connecting => req'[q].lock = lockOf'[SessionOf(q)']
             /\ req'[q].pc \in {"cap", "evict", "build"} => ~ Usable(SessionOf(q))'
             /\ req'[q].pc = "start" => registry'[SessionOf(q)'] = req'[q].inst
      <4>1. SUFFICES ASSUME NEW q \in Requests, SessionOf(q) \notin overlapped
                     PROVE  /\ req'[q].pc \in Connecting => req'[q].lock = lockOf'[SessionOf(q)]
                            /\ req'[q].pc \in {"cap", "evict", "build"} => ~ Usable(SessionOf(q))
                            /\ req'[q].pc = "start" => registry[SessionOf(q)] = req'[q].inst
        BY <1>2, <3>3 DEF Usable
      <4>2. CASE q = r
        BY <1>1, <1>3, <1>5, <2>4, <2>5, <4>2 DEF AgentTyped, HostTyped
      <4>3. CASE q # r
        <5>1. /\ req[q].pc \in Connecting => req[q].lock = lockOf[SessionOf(q)] /\ req[q].lock \in Requests
              /\ req[q].pc \in {"cap", "evict", "build"} => ~ Usable(SessionOf(q))
              /\ req[q].pc = "start" => registry[SessionOf(q)] = req[q].inst
          BY <1>1, <4>1 DEF LockOK
        <5> QED
          BY <1>1, <1>3, <2>4, <2>5, <3>3, <4>3, <5>1 DEF AgentTyped, HostTyped
      <4> QED
        BY <4>2, <4>3
    <3> QED
      BY <3>1, <3>2, <3>5 DEF LockOK
  <2>9. KeyLogOK'
    BY <1>1, <1>2, <2>4, <2>5, EntryFrame DEF Owning, AgentTyped
  <2>10. RowOK'
    BY <1>1, <1>2, <2>4, <2>5, RowKept DEF Wrote
  <2> QED
    BY <2>6, <2>7, <2>8, <2>9, <2>10 DEF SessionInv
<1> QED
  BY <1>4, <1>5

LEMMA AcquireInv == ASSUME SessionInv, NEW r \in Requests, Acquire(r) PROVE SessionInv'
<1> DEFINE s == SessionOf(r)
<1>1. AgentTyped /\ NamesOK /\ LockOK /\ KeyLogOK /\ RowOK
  BY DEF SessionInv
<1>2. /\ req[r].pc = "wait" /\ holder[req[r].lock] = Nobody
      /\ IF Usable(s)
          THEN req' = [req EXCEPT ![r].pc = "check", ![r].inst = registry[s]] /\ UNCHANGED holder
          ELSE Goto(r, "cap") /\ holder' = [holder EXCEPT ![req[r].lock] = r]
      /\ UNCHANGED <<row, log, delivered, call, overlapped, cut, registry, disconnecting, inst, ev, lockOf>>
  BY DEF Acquire, At, callVars, hostVars
<1>3. s \in Sessions /\ Nobody \notin Requests /\ Nobody \notin Insts
  BY <1>1, CallTypes, AgentAssumption DEF AgentTyped, HostTyped
<1>4. CASE Usable(s)
  <2>1. registry[s] \in Insts /\ inst[registry[s]].of = s /\ inst[registry[s]].actor # "off"
    BY <1>1, <1>3, <1>4 DEF Usable, NamesOK, AgentTyped
  <2>2. /\ req' \in [Requests -> ReqType]
        /\ req'[r].pc = "check" /\ req'[r].inst = registry[s] /\ \A q \in Requests : q # r => req'[q] = req[q]
    <3>1. [req[r] EXCEPT !.pc = "check", !.inst = registry[s]] \in ReqType
      BY <1>1, <2>1 DEF AgentTyped, ReqType, InCall
    <3>2. req' = [req EXCEPT ![r] = [req[r] EXCEPT !.pc = "check", !.inst = registry[s]]]
      BY <1>2, <1>4
    <3> QED
      BY <1>1, <3>1, <3>2 DEF AgentTyped, ReqType
  <2>3. UNCHANGED holder
    BY <1>2, <1>4
  <2>4. AgentTyped'
    BY <1>1, <1>2, <2>2, <2>3 DEF AgentTyped, HostTyped
  <2>5. NamesOK' /\ ActorQueueOK' /\ InboxOK' /\ LeakOK' /\ BusyOK'
    BY <1>1, <1>2, <2>1, <2>2, CallFrame DEF Using, NamesOK
  <2>6. LockOK'
    <3>1. \A q \in Requests : SessionOf(q)' = SessionOf(q)
      BY <1>2 DEF SessionOf
    <3>2. \A x : Usable(x)' <=> Usable(x)
      BY <1>2 DEF Usable
    <3>3. \A q \in Requests :
            /\ req'[q].pc \in Connecting => req'[q].lock \in Requests
            /\ req'[q].pc \in Holding => holder'[req'[q].lock] = q
      BY <1>1, <2>2, <2>3 DEF LockOK, Connecting, Holding
    <3>4. \A x \in Requests : holder'[x] # Nobody => req'[holder'[x]].pc \in Holding /\ req'[holder'[x]].lock = x
      BY <1>1, <1>2, <2>2, <2>3 DEF LockOK, Holding, AgentTyped, HostTyped
    <3>5. ASSUME NEW q \in Requests, SessionOf(q)' \notin overlapped'
          PROVE  /\ req'[q].pc \in Connecting => req'[q].lock = lockOf'[SessionOf(q)']
                 /\ req'[q].pc \in {"cap", "evict", "build"} => ~ Usable(SessionOf(q))'
                 /\ req'[q].pc = "start" => registry'[SessionOf(q)'] = req'[q].inst
      <4>1. /\ req[q].pc \in Connecting => req[q].lock = lockOf[SessionOf(q)]
            /\ req[q].pc \in {"cap", "evict", "build"} => ~ Usable(SessionOf(q))
            /\ req[q].pc = "start" => registry[SessionOf(q)] = req[q].inst
        BY <1>1, <1>2, <3>1, <3>5 DEF LockOK
      <4>2. ~ Usable(SessionOf(q)) => ~ Usable(SessionOf(q))'
        BY <1>2, <3>1 DEF Usable
      <4> QED
        BY <1>2, <2>2, <3>1, <4>1, <4>2 DEF Connecting
    <3> QED
      BY <3>3, <3>4, <3>5 DEF LockOK
  <2>7. KeyLogOK'
    BY <1>1, <1>2, <2>2, EntryFrame DEF Owning, AgentTyped
  <2>8. RowOK'
    BY <1>1, <1>2, <2>2, RowKept DEF Wrote
  <2> QED
    BY <2>4, <2>5, <2>6, <2>7, <2>8 DEF SessionInv
<1>5. CASE ~ Usable(s)
  <2>1. Goto(r, "cap") /\ holder' = [holder EXCEPT ![req[r].lock] = r]
    BY <1>2, <1>5
  <2>2. PICK m \in Requests : m = req[r].lock
    BY <1>1, <1>2 DEF LockOK, Connecting
  <2>3. /\ req' \in [Requests -> ReqType]
        /\ req'[r].pc = "cap" /\ req'[r].lock = m /\ \A q \in Requests : q # r => req'[q] = req[q]
    BY <1>1, <2>1, <2>2, GotoFacts DEF InCall, Answers, AgentTyped
  <2>4. holder' = [holder EXCEPT ![m] = r] /\ holder[m] = Nobody
    BY <1>2, <2>1, <2>2
  <2>5. AgentTyped'
    BY <1>1, <1>2, <2>3, <2>4 DEF AgentTyped, HostTyped
  <2>6. NamesOK' /\ ActorQueueOK' /\ InboxOK' /\ LeakOK' /\ BusyOK'
    BY <1>1, <1>2, <2>3, CallFrame DEF Using, NamesOK
  <2>7. LockOK'
    <3>1. \A q \in Requests :
            /\ req'[q].pc \in Connecting => req'[q].lock \in Requests
            /\ req'[q].pc \in Holding => holder'[req'[q].lock] = q
      BY <1>1, <1>2, <1>3, <2>2, <2>3, <2>4 DEF LockOK, Connecting, Holding, AgentTyped, HostTyped
    <3>2. \A x \in Requests : holder'[x] # Nobody => req'[holder'[x]].pc \in Holding /\ req'[holder'[x]].lock = x
      BY <1>1, <1>2, <1>3, <2>3, <2>4 DEF LockOK, Holding, AgentTyped, HostTyped
    <3>3. \A q \in Requests : SessionOf(q)' = SessionOf(q)
      BY <1>2 DEF SessionOf
    <3>4. ASSUME NEW q \in Requests, SessionOf(q)' \notin overlapped'
          PROVE  /\ req'[q].pc \in Connecting => req'[q].lock = lockOf'[SessionOf(q)']
                 /\ req'[q].pc \in {"cap", "evict", "build"} => ~ Usable(SessionOf(q))'
                 /\ req'[q].pc = "start" => registry'[SessionOf(q)'] = req'[q].inst
      <4>1. /\ req[q].pc \in Connecting => req[q].lock = lockOf[SessionOf(q)]
            /\ req[q].pc \in {"cap", "evict", "build"} => ~ Usable(SessionOf(q))
            /\ req[q].pc = "start" => registry[SessionOf(q)] = req[q].inst
        BY <1>1, <1>2, <3>3, <3>4 DEF LockOK
      <4>2. ~ Usable(SessionOf(q)) => ~ Usable(SessionOf(q))'
        BY <1>2, <3>3 DEF Usable
      <4> QED
        BY <1>2, <1>5, <2>2, <2>3, <3>3, <4>1, <4>2 DEF Connecting
    <3> QED
      BY <3>1, <3>2, <3>4 DEF LockOK
  <2>8. KeyLogOK'
    BY <1>1, <1>2, <2>3, EntryFrame DEF Owning, AgentTyped
  <2>9. RowOK'
    BY <1>1, <1>2, <2>3, RowKept DEF Wrote
  <2> QED
    BY <2>5, <2>6, <2>7, <2>8, <2>9 DEF SessionInv
<1> QED
  BY <1>4, <1>5

\* While no eviction of their session ended, one request at a time connects it.
LEMMA OneHolder ==
  ASSUME LockOK, NEW r \in Requests, NEW q \in Requests, req[r].pc \in Holding, req[q].pc \in Holding,
         SessionOf(r) = SessionOf(q), SessionOf(r) \notin overlapped
  PROVE  r = q
BY DEF LockOK, Holding, Connecting

\* The lock of r is released.
LEMMA LockReleased ==
  ASSUME LockOK, AgentTyped, NEW r \in Requests, req[r].pc \in Holding, req'[r].pc \notin Connecting, Release(r),
         call' = call, lockOf' = lockOf, overlapped' = overlapped,
         \A q \in Requests : q # r => req'[q] = req[q],
         \A s \in Sessions : Usable(s)' => Usable(s),
         \A s \in Sessions : s = SessionOf(r) \/ registry'[s] = registry[s]
  PROVE  LockOK'
<1>1. PICK m \in Requests : m = req[r].lock
  BY DEF LockOK, Holding, Connecting
<1>2. holder' = [holder EXCEPT ![m] = Nobody] /\ holder[m] = r /\ Nobody \notin Requests
  BY <1>1, AgentAssumption DEF Release, LockOK
<1>3. \A q \in Requests :
        /\ req'[q].pc \in Connecting => req'[q].lock \in Requests
        /\ req'[q].pc \in Holding => holder'[req'[q].lock] = q
  BY <1>2 DEF LockOK, Connecting, Holding, AgentTyped, HostTyped
<1>4. \A x \in Requests : holder'[x] # Nobody => req'[holder'[x]].pc \in Holding /\ req'[holder'[x]].lock = x
  BY <1>1, <1>2 DEF LockOK, Holding, AgentTyped, HostTyped
<1>5. \A q \in Requests : SessionOf(q)' = SessionOf(q) /\ SessionOf(q) \in Sessions
  BY CallTypes DEF SessionOf, AgentTyped
<1>6. ASSUME NEW q \in Requests, SessionOf(q)' \notin overlapped'
      PROVE  /\ req'[q].pc \in Connecting => req'[q].lock = lockOf'[SessionOf(q)']
             /\ req'[q].pc \in {"cap", "evict", "build"} => ~ Usable(SessionOf(q))'
             /\ req'[q].pc = "start" => registry'[SessionOf(q)'] = req'[q].inst
  <2>1. /\ req[q].pc \in Connecting => req[q].lock = lockOf[SessionOf(q)]
        /\ req[q].pc \in {"cap", "evict", "build"} => ~ Usable(SessionOf(q))
        /\ req[q].pc = "start" => registry[SessionOf(q)] = req[q].inst
    BY <1>5, <1>6 DEF LockOK
  <2>2. CASE q = r
    BY <2>2 DEF Connecting
  <2>3. CASE q # r
    <3>1. req'[q] = req[q]
      BY <2>3
    <3>2. ~ Usable(SessionOf(q)) => ~ Usable(SessionOf(q))'
      <4>1. PICK s \in Sessions : s = SessionOf(q) /\ s = SessionOf(q)'
        BY <1>5
      <4> QED
        BY <4>1 DEF Usable
    <3>3. req[q].pc = "start" => SessionOf(q) # SessionOf(r)
      BY <1>5, <1>6, <2>3, OneHolder DEF Holding
    <3> QED
      BY <1>5, <2>1, <3>1, <3>2, <3>3
  <2> QED
    BY <2>2, <2>3
<1> QED
  BY <1>3, <1>4, <1>6 DEF LockOK

LEMMA BuildFailsInv == ASSUME SessionInv, NEW r \in Requests, BuildFails(r) PROVE SessionInv'
<1>1. AgentTyped /\ NamesOK /\ LockOK /\ KeyLogOK /\ RowOK
  BY DEF SessionInv
<1>2. /\ req[r].pc = "build" /\ Goto(r, "rejected") /\ Release(r)
      /\ UNCHANGED <<row, log, delivered, call, overlapped, cut, registry, disconnecting, inst, ev, lockOf>>
  BY DEF BuildFails, At, callVars, hostVars
<1>3. /\ req' \in [Requests -> ReqType]
      /\ req'[r].pc = "rejected" /\ \A q \in Requests : q # r => req'[q] = req[q]
  BY <1>1, <1>2, GotoFacts DEF Answers, AgentTyped
<1>4. AgentTyped'
  BY <1>1, <1>2, <1>3 DEF AgentTyped, HostTyped, Release
<1>5. NamesOK' /\ ActorQueueOK' /\ InboxOK' /\ LeakOK' /\ BusyOK'
  BY <1>1, <1>2, <1>3, CallFrame DEF Using, NamesOK
<1>6. LockOK'
  <2>1. \A s \in Sessions : Usable(s)' => Usable(s)
    BY <1>2 DEF Usable
  <2> QED
    BY <1>1, <1>2, <1>3, <2>1, LockReleased DEF Holding, Connecting
<1>7. KeyLogOK'
  BY <1>1, <1>2, <1>3, EntryFrame DEF Owning, AgentTyped
<1>8. RowOK'
  BY <1>1, <1>2, <1>3, RowKept DEF Wrote
<1> QED
  BY <1>4, <1>5, <1>6, <1>7, <1>8 DEF SessionInv

\* What a call answers that failed.
LEMMA FailureFacts ==
  ASSUME NEW r \in Requests, Goto(r, Failure(r)), req \in [Requests -> ReqType]
  PROVE  /\ req' \in [Requests -> ReqType]
         /\ req'[r].pc \in {"left", "error"} /\ (log'[KeyOf(r)] = r => req'[r].pc = "left")
         /\ \A q \in Requests : q # r => req'[q] = req[q]
<1>1. PICK pc \in {"left", "error"} : pc = Failure(r) /\ (log'[KeyOf(r)] = r => pc = "left")
  BY DEF Failure
<1> QED
  BY <1>1, GotoFacts DEF Answers

LEMMA AppendUserEntryInv == ASSUME SessionInv, NEW r \in Requests, AppendUserEntry(r) PROVE SessionInv'
<1>1. AgentTyped /\ NamesOK /\ LockOK /\ KeyLogOK /\ RowOK
  BY DEF SessionInv
<1>2. /\ req[r].pc = "append"
      /\ IF log[KeyOf(r)] = Nobody
           THEN log' = [log EXCEPT ![KeyOf(r)] = r] /\ Goto(r, "send")
           ELSE Goto(r, "repeated") /\ UNCHANGED log
      /\ UNCHANGED <<row, delivered, call, overlapped, cut, registry, disconnecting, inst, ev, lockOf, holder>>
  BY DEF AppendUserEntry, KeyIsFree, At, sendOthers, hostVars, registryVars
<1>3. PICK k \in Keys : k = KeyOf(r)
  BY <1>1, CallTypes DEF AgentTyped
<1>4. /\ req' \in [Requests -> ReqType]
      /\ \A q \in Requests : q # r => req'[q] = req[q]
      /\ \/ log[k] = Nobody /\ req'[r].pc = "send" /\ req'[r].inst = req[r].inst /\ log' = [log EXCEPT ![k] = r]
         \/ log[k] # Nobody /\ req'[r].pc = "repeated" /\ log' = log
  <2>1. CASE log[k] = Nobody
    <3>1. Goto(r, "send") /\ log' = [log EXCEPT ![k] = r]
      BY <1>2, <1>3, <2>1
    <3> QED
      BY <1>1, <2>1, <3>1, GotoFacts DEF Answers, InCall, AgentTyped
  <2>2. CASE log[k] # Nobody
    <3>1. Goto(r, "repeated") /\ log' = log
      BY <1>2, <1>3, <2>2
    <3> QED
      BY <1>1, <2>2, <3>1, GotoFacts DEF Answers, AgentTyped
  <2> QED
    BY <2>1, <2>2
<1>5. AgentTyped'
  BY <1>1, <1>2, <1>4 DEF AgentTyped, HostTyped
<1>6. NamesOK' /\ ActorQueueOK' /\ InboxOK' /\ LeakOK' /\ BusyOK'
  BY <1>1, <1>2, <1>4, CallFrame DEF Using, NamesOK
<1>7. LockOK'
  BY <1>1, <1>2, <1>4, LockFrame DEF Connecting, AgentTyped
<1>8. KeyLogOK'
  <2>1. Nobody \notin Requests
    BY AgentAssumption
  <2>2. \A q \in Requests : KeyOf(q)' = KeyOf(q) /\ KeyOf(q) \in Keys
    BY <1>1, <1>2, CallTypes DEF KeyOf, AgentTyped
  <2>3. CASE log[k] # Nobody
    <3>1. log' = log /\ req'[r].pc = "repeated"
      BY <1>4, <2>3
    <3> QED
      BY <1>1, <1>2, <1>4, <3>1, EntryFrame DEF Owning, AgentTyped
  <2>4. CASE log[k] = Nobody
    <3>1. req'[r].pc = "send" /\ log' = [log EXCEPT ![k] = r] /\ log \in [Keys -> Requests \cup {Nobody}]
      BY <1>1, <1>4, <2>4 DEF AgentTyped, HostTyped
    <3>2. \A q \in Requests : req'[q].pc \in Owning => log'[KeyOf(q)] = q /\ delivered[KeyOf(q)] = 0
      BY <1>1, <1>3, <1>4, <2>1, <2>2, <2>4, <3>1 DEF KeyLogOK
    <3>3. ASSUME NEW x \in Keys, log'[x] # Nobody
          PROVE  /\ KeyOf(log'[x]) = x
                 /\ req'[log'[x]].pc \in Owning \cup {"unmark", "left", "lost", "delivered"}
                 /\ req'[log'[x]].pc = "delivered" => delivered[x] = 1
      <4>1. CASE x = k
        BY <1>3, <3>1, <4>1 DEF Owning
      <4>2. CASE x # k
        <5>1. log'[x] = log[x] /\ log[x] # r
          BY <1>1, <1>2, <1>3, <3>1, <3>3, <4>2 DEF KeyLogOK, Owning
        <5> QED
          BY <1>1, <1>4, <3>1, <3>3, <5>1 DEF KeyLogOK
      <4> QED
        BY <4>1, <4>2
    <3>4. \A x \in Keys : delivered[x] \in {0, 1} /\ (delivered[x] = 1 => log'[x] # Nobody)
      BY <1>1, <2>1, <3>1 DEF KeyLogOK
    <3>5. \A x \in Keys : log'[x] # Nobody => KeyOf(log[x])' = KeyOf(log'[x])
      BY <1>2 DEF KeyOf
    <3> QED
      BY <1>2, <2>2, <3>2, <3>3, <3>4, <3>5 DEF KeyLogOK
  <2> QED
    BY <2>3, <2>4
<1>9. RowOK'
  BY <1>1, <1>2, <1>4, RowKept DEF Wrote
<1> QED
  BY <1>5, <1>6, <1>7, <1>8, <1>9 DEF SessionInv

LEMMA AppendRaisesInv == ASSUME SessionInv, NEW r \in Requests, AppendRaises(r) PROVE SessionInv'
<1>1. AgentTyped /\ NamesOK /\ LockOK /\ KeyLogOK /\ RowOK
  BY DEF SessionInv
<1>2. /\ req[r].pc = "append" /\ Goto(r, Failure(r))
      /\ \E e \in {r, Nobody} : log' = IF log[KeyOf(r)] = Nobody THEN [log EXCEPT ![KeyOf(r)] = e] ELSE log
      /\ UNCHANGED <<row, delivered, call, overlapped, cut, registry, disconnecting, inst, ev, lockOf, holder>>
  BY DEF AppendRaises, KeyIsFree, At, sendOthers, hostVars, registryVars
<1>3. PICK k \in Keys : k = KeyOf(r)
  BY <1>1, CallTypes DEF AgentTyped
<1>a. Nobody \notin Requests /\ log \in [Keys -> Requests \cup {Nobody}]
  BY <1>1, AgentAssumption DEF AgentTyped, HostTyped
<1>4. /\ req' \in [Requests -> ReqType]
      /\ \A q \in Requests : q # r => req'[q] = req[q]
      /\ req'[r].pc \in {"left", "error"} /\ (log'[k] = r => req'[r].pc = "left")
      /\ log' = log \/ (log[k] = Nobody /\ log' = [log EXCEPT ![k] = r])
  <2>1. log' = log \/ (log[k] = Nobody /\ log' = [log EXCEPT ![k] = r])
    BY <1>2, <1>3, <1>a
  <2> QED
    BY <1>1, <1>2, <1>3, <2>1, FailureFacts DEF AgentTyped
<1>5. AgentTyped'
  BY <1>1, <1>2, <1>a, <1>4 DEF AgentTyped, HostTyped
<1>6. NamesOK' /\ ActorQueueOK' /\ InboxOK' /\ LeakOK' /\ BusyOK'
  BY <1>1, <1>2, <1>4, CallFrame DEF Using, NamesOK
<1>7. LockOK'
  BY <1>1, <1>2, <1>4, LockFrame DEF Connecting, AgentTyped
<1>8. KeyLogOK'
  <2>1. CASE log' = log
    BY <1>1, <1>2, <1>4, <2>1, EntryFrame DEF Owning, AgentTyped
  <2>2. CASE log[k] = Nobody /\ log' = [log EXCEPT ![k] = r]
    <3>1. \A q \in Requests : KeyOf(q)' = KeyOf(q) /\ KeyOf(q) \in Keys
      BY <1>1, <1>2, CallTypes DEF KeyOf, AgentTyped
    <3>2. \A q \in Requests : req'[q].pc \in Owning => log'[KeyOf(q)] = q /\ delivered[KeyOf(q)] = 0
      BY <1>1, <1>4, <1>a, <2>2, <3>1 DEF KeyLogOK, Owning
    <3>3. ASSUME NEW x \in Keys, log'[x] # Nobody
          PROVE  /\ KeyOf(log'[x]) = x
                 /\ req'[log'[x]].pc \in Owning \cup {"unmark", "left", "lost", "delivered"}
                 /\ req'[log'[x]].pc = "delivered" => delivered[x] = 1
      <4>1. CASE x = k
        BY <1>3, <1>4, <1>a, <2>2, <4>1
      <4>2. CASE x # k
        <5>1. log'[x] = log[x] /\ log[x] # r
          BY <1>1, <1>2, <1>3, <1>a, <2>2, <3>3, <4>2 DEF KeyLogOK
        <5> QED
          BY <1>1, <1>4, <1>a, <3>3, <5>1 DEF KeyLogOK
      <4> QED
        BY <4>1, <4>2
    <3>4. \A x \in Keys : delivered[x] \in {0, 1} /\ (delivered[x] = 1 => log'[x] # Nobody)
      BY <1>1, <1>a, <2>2 DEF KeyLogOK
    <3>5. \A x \in Keys : KeyOf(log[x])' = KeyOf(log'[x])
      BY <1>2 DEF KeyOf
    <3> QED
      BY <1>2, <3>1, <3>2, <3>3, <3>4, <3>5 DEF KeyLogOK
  <2> QED
    BY <1>4, <2>1, <2>2
<1>9. RowOK'
  BY <1>1, <1>2, <1>4, RowKept DEF Wrote
<1> QED
  BY <1>5, <1>6, <1>7, <1>8, <1>9 DEF SessionInv

LEMMA DeleteEntryInv == ASSUME SessionInv, NEW r \in Requests, DeleteEntry(r) PROVE SessionInv'
<1>1. AgentTyped /\ NamesOK /\ LockOK /\ KeyLogOK /\ RowOK
  BY DEF SessionInv
<1>2. /\ req[r].pc = "undo" /\ Goto(r, "unmark") /\ log' = [log EXCEPT ![KeyOf(r)] = Nobody]
      /\ UNCHANGED <<row, delivered, call, overlapped, cut, registry, disconnecting, inst, ev, lockOf, holder>>
  BY DEF DeleteEntry, At, sendOthers, hostVars, registryVars
<1>3. PICK k \in Keys : k = KeyOf(r)
  BY <1>1, CallTypes DEF AgentTyped
<1>4. /\ req' \in [Requests -> ReqType]
      /\ \A q \in Requests : q # r => req'[q] = req[q]
      /\ req'[r].pc = "unmark" /\ log' = [log EXCEPT ![k] = Nobody]
  BY <1>1, <1>2, <1>3, GotoFacts DEF InCall, Answers, AgentTyped
<1>5. AgentTyped'
  BY <1>1, <1>2, <1>4 DEF AgentTyped, HostTyped
<1>6. NamesOK' /\ ActorQueueOK' /\ InboxOK' /\ LeakOK' /\ BusyOK'
  BY <1>1, <1>2, <1>4, CallFrame DEF Using, NamesOK
<1>7. LockOK'
  BY <1>1, <1>2, <1>4, LockFrame DEF Connecting, AgentTyped
<1>8. KeyLogOK'
  <2>1. Nobody \notin Requests /\ log \in [Keys -> Requests \cup {Nobody}]
    BY <1>1, AgentAssumption DEF AgentTyped, HostTyped
  <2>2. \A q \in Requests : KeyOf(q)' = KeyOf(q) /\ KeyOf(q) \in Keys
    BY <1>1, <1>2, CallTypes DEF KeyOf, AgentTyped
  <2>3. log[k] = r /\ delivered[k] = 0
    BY <1>1, <1>2, <1>3 DEF KeyLogOK, Owning
  <2>4. \A q \in Requests : req'[q].pc \in Owning => log'[KeyOf(q)] = q /\ delivered[KeyOf(q)] = 0
    BY <1>1, <1>4, <2>1, <2>2, <2>3 DEF KeyLogOK, Owning
  <2>5. ASSUME NEW x \in Keys, log'[x] # Nobody
        PROVE  /\ KeyOf(log'[x]) = x
               /\ req'[log'[x]].pc \in Owning \cup {"unmark", "left", "lost", "delivered"}
               /\ req'[log'[x]].pc = "delivered" => delivered[x] = 1
    <3>1. x # k /\ log'[x] = log[x]
      BY <1>4, <2>1, <2>5
    <3>2. log[x] # r
      BY <1>1, <1>3, <2>5, <3>1 DEF KeyLogOK
    <3> QED
      BY <1>1, <1>4, <2>1, <2>5, <3>1, <3>2 DEF KeyLogOK
  <2>6. \A x \in Keys : delivered[x] \in {0, 1} /\ (delivered[x] = 1 => log'[x] # Nobody)
    BY <1>1, <1>4, <2>1, <2>3 DEF KeyLogOK
  <2>7. \A x \in Keys : KeyOf(log[x])' = KeyOf(log'[x])
    BY <1>2 DEF KeyOf
  <2> QED
    BY <1>2, <2>2, <2>4, <2>5, <2>6, <2>7 DEF KeyLogOK
<1>9. RowOK'
  BY <1>1, <1>2, <1>4, RowKept DEF Wrote
<1> QED
  BY <1>5, <1>6, <1>7, <1>8, <1>9 DEF SessionInv

LEMMA DeleteFailsInv == ASSUME SessionInv, NEW r \in Requests, DeleteFails(r) PROVE SessionInv'
<1>1. AgentTyped /\ NamesOK /\ LockOK /\ KeyLogOK /\ RowOK
  BY DEF SessionInv
<1>2. /\ req[r].pc = "undo" /\ Goto(r, "unmark")
      /\ UNCHANGED <<row, log, delivered, call, overlapped, cut, registry, disconnecting, inst, ev, lockOf, holder>>
  BY DEF DeleteFails, At, sendOthers, hostVars, callVars, registryVars
<1>4. /\ req' \in [Requests -> ReqType]
      /\ \A q \in Requests : q # r => req'[q] = req[q]
      /\ req'[r].pc = "unmark"
  BY <1>1, <1>2, GotoFacts DEF InCall, Answers, AgentTyped
<1>5. AgentTyped'
  BY <1>1, <1>2, <1>4 DEF AgentTyped, HostTyped
<1>6. NamesOK' /\ ActorQueueOK' /\ InboxOK' /\ LeakOK' /\ BusyOK'
  BY <1>1, <1>2, <1>4, CallFrame DEF Using, NamesOK
<1>7. LockOK'
  BY <1>1, <1>2, <1>4, LockFrame DEF Connecting, AgentTyped
<1>8. KeyLogOK'
  BY <1>1, <1>2, <1>4, EntryFrame DEF Owning, AgentTyped
<1>9. RowOK'
  BY <1>1, <1>2, <1>4, RowKept DEF Wrote
<1> QED
  BY <1>5, <1>6, <1>7, <1>8, <1>9 DEF SessionInv

LEMMA MarkErrorInv == ASSUME SessionInv, NEW r \in Requests, MarkError(r) PROVE SessionInv'
<1>1. AgentTyped /\ NamesOK /\ LockOK /\ KeyLogOK /\ RowOK
  BY DEF SessionInv
<1>2. /\ req[r].pc = "unmark" /\ Goto(r, Failure(r)) /\ row' = [row EXCEPT ![SessionOf(r)] = "error"]
      /\ UNCHANGED <<log, delivered, call, overlapped, cut, registry, disconnecting, inst, ev, lockOf, holder>>
  BY DEF MarkError, At, sendOthers, hostVars, registryVars
<1>3. SessionOf(r) \in Sessions
  BY <1>1, CallTypes DEF AgentTyped
<1>4. /\ req' \in [Requests -> ReqType]
      /\ \A q \in Requests : q # r => req'[q] = req[q]
      /\ req'[r].pc \in {"left", "error"} /\ (log[KeyOf(r)] = r => req'[r].pc = "left")
  BY <1>1, <1>2, FailureFacts DEF AgentTyped
<1>5. AgentTyped'
  BY <1>1, <1>2, <1>4 DEF AgentTyped, HostTyped, Statuses
<1>6. NamesOK' /\ ActorQueueOK' /\ InboxOK' /\ LeakOK' /\ BusyOK'
  BY <1>1, <1>2, <1>4, CallFrame DEF Using, NamesOK
<1>7. LockOK'
  BY <1>1, <1>2, <1>4, LockFrame DEF Connecting, AgentTyped
<1>8. KeyLogOK'
  BY <1>1, <1>2, <1>4, EntryFrame DEF Owning, AgentTyped
<1>9. RowOK'
  <2>1. row'[SessionOf(r)] # "running" /\ \A s \in Sessions : row'[s] = "running" => row[s] = "running"
    BY <1>1, <1>2, <1>3 DEF AgentTyped, HostTyped
  <2>2. \A q \in Requests : Wrote(q) => Wrote(q)' \/ row'[SessionOf(q)] # "running"
    BY <1>4, <2>1 DEF Wrote
  <2> QED
    BY <1>1, <1>2, <2>1, <2>2, RowKept
<1> QED
  BY <1>5, <1>6, <1>7, <1>8, <1>9 DEF SessionInv

LEMMA MarkFailsInv == ASSUME SessionInv, NEW r \in Requests, MarkFails(r) PROVE SessionInv'
<1>1. AgentTyped /\ NamesOK /\ LockOK /\ KeyLogOK /\ RowOK
  BY DEF SessionInv
<1>2. /\ req[r].pc = "unmark" /\ Goto(r, Failure(r)) /\ cut' = cut \cup {SessionOf(r)}
      /\ UNCHANGED <<row, log, delivered, call, overlapped, registry, disconnecting, inst, ev, lockOf, holder>>
  BY DEF MarkFails, At, callVars, registryVars
<1>4. /\ req' \in [Requests -> ReqType]
      /\ \A q \in Requests : q # r => req'[q] = req[q]
      /\ req'[r].pc \in {"left", "error"} /\ (log[KeyOf(r)] = r => req'[r].pc = "left")
  BY <1>1, <1>2, FailureFacts DEF AgentTyped
<1>5. AgentTyped'
  BY <1>1, <1>2, <1>4 DEF AgentTyped, HostTyped
<1>6. NamesOK' /\ ActorQueueOK' /\ InboxOK' /\ LeakOK' /\ BusyOK'
  BY <1>1, <1>2, <1>4, CallFrame DEF Using, NamesOK
<1>7. LockOK'
  BY <1>1, <1>2, <1>4, LockFrame DEF Connecting, AgentTyped
<1>8. KeyLogOK'
  BY <1>1, <1>2, <1>4, EntryFrame DEF Owning, AgentTyped
<1>9. RowOK'
  <2>1. ASSUME NEW x \in Sessions PROVE RowCaused(x) => RowCaused(x)'
    <3>1. \A q \in Requests : SessionOf(q)' = SessionOf(q)
      BY <1>2 DEF SessionOf
    <3>2. \A q \in Requests : Wrote(q) /\ SessionOf(q) = x => Wrote(q)' \/ x \in cut'
      BY <1>2, <1>4 DEF Wrote
    <3>3. (Settles(x) => Settles(x)') /\ \A j \in Insts : Works(j) => Works(j)'
      BY <1>2 DEF Settles, PersistsStatus, Works
    <3> QED
      BY <1>2, <3>1, <3>2, <3>3 DEF RowCaused
  <2> QED
    BY <1>1, <1>2, <2>1, RowFrame DEF RowOK
<1> QED
  BY <1>5, <1>6, <1>7, <1>8, <1>9 DEF SessionInv

LEMMA LiveOf == ASSUME NamesOK PROVE \A i \in Insts : Live(i) => inst[i].of \in Sessions
BY DEF NamesOK

LEMMA EvictedOf ==
  ASSUME NamesOK
  PROVE  /\ \A s \in Sessions : s \in disconnecting <=> ev[s].at # "none"
         /\ \A s \in Sessions :
              ev[s].at # "none" => ev[s].inst \in Insts /\ inst[ev[s].inst].of = s /\ inst[ev[s].inst].actor # "off"
BY DEF NamesOK

LEMMA AdmitInv == ASSUME SessionInv, NEW r \in Requests, Admit(r) PROVE SessionInv'
<1> DEFINE repeated == log[KeyOf(r)] # Nobody
           p == CASE repeated -> "repeated"
                  [] ~ repeated /\ inst[req[r].inst].status = "running" -> "busy"
                  [] OTHER -> "append"
<1>1. AgentTyped /\ NamesOK /\ ActorQueueOK /\ InboxOK /\ LeakOK /\ LockOK /\ KeyLogOK /\ BusyOK /\ RowOK
  BY DEF SessionInv
<1>2. /\ req[r].pc = "check" /\ Goto(r, p)
      /\ inst' = IF repeated THEN inst ELSE [inst EXCEPT ![req[r].inst].timer = FALSE]
      /\ UNCHANGED <<row, log, delivered, call, overlapped, cut, registry, disconnecting, ev, lockOf, holder>>
  BY DEF Admit, At, sendOthers, hostVars, registryVars, callVars
<1> HIDE DEF repeated, p
<1>a. UNCHANGED <<row, log, delivered, call, overlapped, cut, registry, disconnecting, ev, lockOf, holder>>
  BY <1>2
<1>3. PICK i \in Insts : i = req[r].inst /\ inst[i].of = SessionOf(r) /\ inst[i].actor # "off"
  BY <1>1, <1>2 DEF NamesOK, Using
<1>4. p \in {"repeated", "busy", "append"}
  BY DEF p
<1>5. /\ req' \in [Requests -> ReqType]
      /\ \A q \in Requests : q # r => req'[q] = req[q]
      /\ req'[r].pc \in {"repeated", "busy", "append"}
      /\ req'[r].pc = "append" => req'[r].inst = i
  BY <1>1, <1>2, <1>3, <1>4, GotoFacts DEF Answers, InCall, AgentTyped
<1>6. /\ inst' \in [Insts -> InstType]
      /\ \A j \in Insts :
           /\ inst'[j].of = inst[j].of /\ inst'[j].actor = inst[j].actor /\ inst'[j].turn = inst[j].turn
           /\ inst'[j].queue = inst[j].queue /\ inst'[j].inbox = inst[j].inbox /\ inst'[j].proc = inst[j].proc
           /\ inst'[j].status = inst[j].status /\ inst'[j].writes = inst[j].writes
           /\ inst'[j].resumedBusy = inst[j].resumedBusy
           /\ inst'[j].timer => inst[j].timer
           /\ inst[j].actor = "off" => inst'[j] = inst[j]
  <2>1. CASE repeated
    BY <1>1, <1>2, <2>1 DEF AgentTyped
  <2>2. CASE ~ repeated
    <3>1. inst' = [inst EXCEPT ![i] = [inst[i] EXCEPT !.timer = FALSE]]
      BY <1>2, <1>3, <2>2
    <3>2. [inst[i] EXCEPT !.timer = FALSE] \in InstType
      <4>1. ASSUME NEW x \in InstType PROVE [x EXCEPT !.timer = FALSE] \in InstType
        BY DEF InstType
      <4> QED
        BY <1>1, <4>1 DEF AgentTyped
    <3>3. /\ inst' \in [Insts -> InstType] /\ inst'[i] = [inst[i] EXCEPT !.timer = FALSE]
          /\ \A j \in Insts : j # i => inst'[j] = inst[j]
      BY <1>1, <3>1, <3>2, InstStep DEF AgentTyped
    <3>4. \A j \in Insts : inst[j] \in InstType
      BY <1>1 DEF AgentTyped
    <3> QED
      BY <1>3, <3>3, <3>4 DEF InstType
  <2> QED
    BY <2>1, <2>2
<1>7. AgentTyped'
  BY <1>1, <1>2, <1>5, <1>6 DEF AgentTyped, HostTyped
<1>8. NamesOK'
  <2>1. \A q \in Requests : 
          /\ req'[q].pc \in Using => req[q].pc \in Using /\ req'[q].inst = req[q].inst
          /\ req'[q].pc = "start" => req[q].pc = "start"
    BY <1>2, <1>3, <1>5 DEF Using
  <2>2. \A s \in Sessions : s \in disconnecting <=> ev[s].at # "none"
    BY <1>1 DEF NamesOK
  <2> QED
    BY <1>1, <1>a, <1>6, <2>1, <2>2, OwnFrame DEF AgentTyped
<1>9. ActorQueueOK'
  BY <1>1, <1>2, <1>5, <1>6, QueueFrame DEF AgentTyped, InstType
<1>10. InboxOK'
  BY <1>1, <1>2, <1>5, <1>6, InboxFrame
<1>11. LockOK'
  BY <1>1, <1>2, <1>5, LockFrame DEF Connecting, AgentTyped
<1>12. LeakOK'
  BY <1>1, <1>a, <1>6, LeakFrame, LiveOf, EvictedOf DEF AgentTyped, Live
<1>13. KeyLogOK'
  BY <1>1, <1>2, <1>5, EntryFrame DEF Owning, AgentTyped
<1>14. BusyOK'
  <2>1. \A j \in Insts : Caused(j) => Caused(j)'
    BY <1>2, <1>5, <1>6, CausedFrame
  <2>2. \A s \in Sessions : Usable(s)' => Usable(s)
    BY <1>2 DEF Usable
  <2> QED
    BY <1>1, <1>2, <1>6, <2>1, <2>2, BusyFrame DEF AgentTyped
<1>15. RowOK'
  <2>1. ASSUME NEW s \in Sessions PROVE RowCaused(s) => RowCaused(s)'
    <3>1. \A j \in Insts : Works(j) => Works(j)'
      BY <1>6 DEF Works
    <3>2. \A q \in Requests : Wrote(q) => Wrote(q)'
      BY <1>2, <1>5 DEF Wrote
    <3>3. Settles(s) => RowCaused(s)'
      BY <1>1, <1>2, <1>6 DEF Settles, RowCaused, PersistsStatus, NamesOK
    <3> QED
      BY <1>2, <1>6, <3>1, <3>2, <3>3, RowCausedFrame
  <2> QED
    BY <1>1, <1>2, <1>6, <2>1, RowFrame DEF RowOK
<1> QED
  BY <1>7, <1>8, <1>9, <1>10, <1>11, <1>12, <1>13, <1>14, <1>15 DEF SessionInv

LEMMA SendFailedInv == ASSUME SessionInv, NEW r \in Requests, SendFailed(r) PROVE SessionInv'
<1>1. AgentTyped /\ NamesOK /\ ActorQueueOK /\ InboxOK /\ LeakOK /\ LockOK /\ KeyLogOK /\ BusyOK /\ RowOK
  BY DEF SessionInv
<1>2. /\ req[r].pc = "failed" /\ Goto(r, "undo")
      /\ inst' = [inst EXCEPT ![req[r].inst].status = "error"]
      /\ UNCHANGED <<row, log, delivered, call, overlapped, cut, registry, disconnecting, ev, lockOf, holder>>
  BY DEF SendFailed, At, sendOthers, hostVars, registryVars, callVars
<1>3. PICK i \in Insts : i = req[r].inst /\ inst[i].of = SessionOf(r) /\ inst[i].actor # "off"
  BY <1>1, <1>2 DEF NamesOK, Using
<1>4. /\ req' \in [Requests -> ReqType]
      /\ \A q \in Requests : q # r => req'[q] = req[q]
      /\ req'[r].pc = "undo"
  BY <1>1, <1>2, GotoFacts DEF Answers, InCall, AgentTyped
<1>5. /\ inst' \in [Insts -> InstType]
      /\ \A j \in Insts :
           /\ inst'[j].of = inst[j].of /\ inst'[j].actor = inst[j].actor /\ inst'[j].turn = inst[j].turn
           /\ inst'[j].queue = inst[j].queue /\ inst'[j].inbox = inst[j].inbox /\ inst'[j].proc = inst[j].proc
           /\ inst'[j].writes = inst[j].writes /\ inst'[j].timer = inst[j].timer
           /\ inst'[j].resumedBusy = inst[j].resumedBusy
           /\ j # i => inst'[j] = inst[j]
      /\ inst'[i].status = "error"
  <2>1. inst' = [inst EXCEPT ![i] = [inst[i] EXCEPT !.status = "error"]]
    BY <1>2, <1>3
  <2>2. [inst[i] EXCEPT !.status = "error"] \in InstType
    <3>1. ASSUME NEW x \in InstType PROVE [x EXCEPT !.status = "error"] \in InstType
      BY DEF InstType, Statuses
    <3> QED
      BY <1>1, <3>1 DEF AgentTyped
  <2>3. /\ inst' \in [Insts -> InstType] /\ inst'[i] = [inst[i] EXCEPT !.status = "error"]
        /\ \A j \in Insts : j # i => inst'[j] = inst[j]
    BY <1>1, <2>1, <2>2, InstStep DEF AgentTyped
  <2> QED
    BY <1>1, <2>3 DEF AgentTyped, InstType
<1>6. AgentTyped'
  BY <1>1, <1>2, <1>4, <1>5 DEF AgentTyped, HostTyped
<1>7. NamesOK'
  BY <1>1, <1>2, <1>3, <1>4, <1>5, OwnFrame, SMTT(30) DEF Using, NamesOK, AgentTyped
<1>8. ActorQueueOK'
  BY <1>1, <1>2, <1>4, <1>5, QueueFrame DEF AgentTyped, InstType
<1>9. InboxOK'
  BY <1>1, <1>2, <1>5, InboxFrame
<1>10. LockOK'
  BY <1>1, <1>2, <1>4, LockFrame DEF Connecting, AgentTyped
<1>11. LeakOK'
  BY <1>1, <1>2, <1>5 DEF LeakOK, Live, NamesOK
<1>12. KeyLogOK'
  BY <1>1, <1>2, <1>4, EntryFrame DEF Owning, AgentTyped
<1>13. BusyOK'
  <2>1. \A j \in Insts : j # i => (Caused(j) => Caused(j)')
    BY <1>2, <1>3, <1>4, <1>5 DEF Caused
  <2>2. \A s \in Sessions : Usable(s)' => Usable(s)
    BY <1>2 DEF Usable
  <2> QED
    BY <1>1, <1>2, <1>5, <2>1, <2>2, BusyFrame DEF AgentTyped
<1>14. RowOK'
  <2>1. ASSUME NEW s \in Sessions PROVE RowCaused(s) => RowCaused(s)'
    <3>1. \A j \in Insts : Works(j) => Works(j)'
      BY <1>5 DEF Works
    <3>2. \A q \in Requests : Wrote(q) => Wrote(q)'
      BY <1>2, <1>4 DEF Wrote
    <3>3. Settles(s) => Settles(s)'
      BY <1>1, <1>2, <1>5 DEF Settles, PersistsStatus, NamesOK
    <3> QED
      BY <1>2, <1>5, <3>1, <3>2, <3>3, RowCausedFrame DEF RowCaused
  <2> QED
    BY <1>1, <1>2, <1>5, <2>1, RowFrame DEF RowOK
<1> QED
  BY <1>6, <1>7, <1>8, <1>9, <1>10, <1>11, <1>12, <1>13, <1>14 DEF SessionInv

LEMMA SendRaisesInv == ASSUME SessionInv, NEW r \in Requests, SendRaises(r) PROVE SessionInv'
<1>1. AgentTyped /\ NamesOK /\ LockOK /\ KeyLogOK /\ RowOK
  BY DEF SessionInv
<1>2. /\ req[r].pc = "send" /\ Goto(r, Failure(r))
      /\ \/ UNCHANGED <<row, cut>>
         \/ row' = [row EXCEPT ![SessionOf(r)] = "running"] /\ cut' = cut \cup {SessionOf(r)}
      /\ UNCHANGED <<log, delivered, call, overlapped, registry, disconnecting, inst, ev, lockOf, holder>>
  BY DEF SendRaises, At, registryVars
<1>3. SessionOf(r) \in Sessions /\ cut \subseteq cut' /\ log[KeyOf(r)] = r
  BY <1>1, <1>2, CallTypes DEF AgentTyped, KeyLogOK, Owning
<1>4. /\ req' \in [Requests -> ReqType]
      /\ \A q \in Requests : q # r => req'[q] = req[q]
      /\ req'[r].pc = "left"
  BY <1>1, <1>2, <1>3, FailureFacts DEF AgentTyped
<1>5. AgentTyped'
  BY <1>1, <1>2, <1>4 DEF AgentTyped, HostTyped, Statuses
<1>6. NamesOK' /\ ActorQueueOK' /\ InboxOK' /\ LeakOK' /\ BusyOK'
  BY <1>1, <1>2, <1>3, <1>4, CallFrame DEF Using, NamesOK
<1>7. LockOK'
  BY <1>1, <1>2, <1>4, LockFrame DEF Connecting, AgentTyped
<1>8. KeyLogOK'
  BY <1>1, <1>2, <1>4, EntryFrame DEF Owning, AgentTyped
<1>9. RowOK'
  <2>1. \A s \in Sessions : row'[s] = "running" => row[s] = "running" \/ RowCaused(s)'
    BY <1>1, <1>2, <1>3 DEF RowCaused, AgentTyped, HostTyped
  <2>2. \A q \in Requests : Wrote(q) => Wrote(q)'
    BY <1>2, <1>4 DEF Wrote
  <2> QED
    BY <1>1, <1>2, <1>3, <2>1, <2>2, RowKept
<1> QED
  BY <1>5, <1>6, <1>7, <1>8, <1>9 DEF SessionInv

LEMMA SendInv == ASSUME SessionInv, NEW r \in Requests, Send(r) PROVE SessionInv'
<1>1. AgentTyped /\ NamesOK /\ ActorQueueOK /\ InboxOK /\ LeakOK /\ LockOK /\ KeyLogOK /\ BusyOK /\ RowOK
  BY DEF SessionInv
<1>2. PICK i \in Insts : i = req[r].inst /\ inst[i].of = SessionOf(r) /\ inst[i].actor # "off"
  BY <1>1 DEF NamesOK, Using, Send, At
<1>3. /\ req[r].pc = "send" /\ Goto(r, IF Live(i) THEN "sent" ELSE "failed")
      /\ inst' = [inst EXCEPT ![i].status = "running", ![i].resumedBusy = FALSE,
                              ![i].queue = IF Live(i) THEN Append(@, r) ELSE @]
      /\ row' = [row EXCEPT ![SessionOf(r)] = "running"]
  BY <1>2 DEF Send, At
<1>a. UNCHANGED <<log, delivered, call, overlapped, cut, registry, disconnecting, ev, lockOf, holder>>
  BY DEF Send, sendOthers, hostVars, registryVars
<1>4. /\ req' \in [Requests -> ReqType]
      /\ \A q \in Requests : q # r => req'[q] = req[q]
      /\ req'[r].pc = (IF Live(i) THEN "sent" ELSE "failed") /\ req'[r].inst = i
  <2>1. PICK p \in {"sent", "failed"} : p = (IF Live(i) THEN "sent" ELSE "failed")
    OBVIOUS
  <2>2. Goto(r, p)
    BY <1>3, <2>1
  <2> QED
    BY <1>1, <1>2, <2>1, <2>2, GotoFacts DEF Answers, InCall, AgentTyped
<1>5. PICK q0 \in Seq(Requests \cup {"disconnect"}) :
        q0 = IF Live(i) THEN Append(inst[i].queue, r) ELSE inst[i].queue
  <2>1. inst[i] \in InstType
    BY <1>1 DEF AgentTyped
  <2>2. inst[i].queue \in Seq(Requests \cup {"disconnect"})
    BY <2>1 DEF InstType
  <2>3. Append(inst[i].queue, r) \in Seq(Requests \cup {"disconnect"})
    BY <2>2
  <2>4. (IF Live(i) THEN Append(inst[i].queue, r) ELSE inst[i].queue) \in Seq(Requests \cup {"disconnect"})
    BY <2>2, <2>3
  <2> QED
    BY <2>4
<1>6. /\ inst' \in [Insts -> InstType]
      /\ \A j \in Insts :
           /\ inst'[j].of = inst[j].of /\ inst'[j].actor = inst[j].actor /\ inst'[j].turn = inst[j].turn
           /\ inst'[j].inbox = inst[j].inbox /\ inst'[j].proc = inst[j].proc
           /\ inst'[j].writes = inst[j].writes /\ inst'[j].timer = inst[j].timer
           /\ j # i => inst'[j] = inst[j]
      /\ inst'[i].status = "running" /\ inst'[i].queue = q0
  <2>1. inst' = [inst EXCEPT ![i] = [inst[i] EXCEPT !.status = "running", !.resumedBusy = FALSE, !.queue = q0]]
    <3>1. inst' = [inst EXCEPT ![i] = [inst[i] EXCEPT !.status = "running", !.resumedBusy = FALSE,
                     !.queue = IF Live(i) THEN Append(@, r) ELSE @]]
      BY <1>3
    <3> QED
      BY <1>5, <3>1
  <2>2. ASSUME NEW x \in InstType
        PROVE  LET y == [x EXCEPT !.status = "running", !.resumedBusy = FALSE, !.queue = q0]
               IN /\ y \in InstType
                  /\ y.of = x.of /\ y.actor = x.actor /\ y.turn = x.turn /\ y.inbox = x.inbox /\ y.proc = x.proc
                  /\ y.writes = x.writes /\ y.timer = x.timer /\ y.status = "running" /\ y.queue = q0
    BY DEF InstType, Statuses
  <2>3. inst[i] \in InstType
    BY <1>1 DEF AgentTyped
  <2>4. PICK y \in InstType :
          /\ y = [inst[i] EXCEPT !.status = "running", !.resumedBusy = FALSE, !.queue = q0]
          /\ y.of = inst[i].of /\ y.actor = inst[i].actor /\ y.turn = inst[i].turn /\ y.inbox = inst[i].inbox
          /\ y.proc = inst[i].proc /\ y.writes = inst[i].writes /\ y.timer = inst[i].timer
          /\ y.status = "running" /\ y.queue = q0
    BY <2>2, <2>3
  <2>5. /\ inst' \in [Insts -> InstType] /\ inst'[i] = y
        /\ \A j \in Insts : j # i => inst'[j] = inst[j]
    BY <1>1, <2>1, <2>4, InstStep DEF AgentTyped
  <2> QED
    BY <2>4, <2>5
<1>b. SessionOf(r) \in Sessions /\ \A q \in Requests : SessionOf(q)' = SessionOf(q)
  BY <1>1, <1>a, CallTypes DEF AgentTyped, SessionOf
<1>c. \A s \in Sessions : s \in disconnecting <=> ev[s].at # "none"
  BY <1>1, EvictedOf
<1>7. AgentTyped'
  <2>1. row' \in [Sessions -> Statuses]
    BY <1>1, <1>3 DEF AgentTyped, HostTyped, Statuses
  <2> QED
    BY <1>1, <1>a, <1>4, <1>6, <2>1 DEF AgentTyped, HostTyped
<1>8. NamesOK'
  <2>1. \A q \in Requests : 
          /\ req'[q].pc \in Using => req[q].pc \in Using /\ req'[q].inst = req[q].inst
          /\ req'[q].pc = "start" => req[q].pc = "start"
    BY <1>2, <1>3, <1>4 DEF Using
  <2> QED
    BY <1>1, <1>a, <1>2, <1>6, <1>c, <2>1, OwnFrame DEF AgentTyped
<1>9. ActorQueueOK'
  <2>1. \A j \in Insts : inst[j].queue \in Seq(Requests \cup {"disconnect"})
    BY <1>1 DEF AgentTyped, InstType
  <2>2. "disconnect" \notin Requests
    BY AgentAssumption
  <2>3. \A j \in Insts : ~ Live(j)' => inst'[j].queue = <<>>
    BY <1>1, <1>5, <1>6 DEF ActorQueueOK, Live
  <2>4. \A j \in Insts : inst'[j].actor # "up" => inst'[j].turn = Nobody
    BY <1>1, <1>6 DEF ActorQueueOK
  <2>5. ASSUME NEW j \in Insts, NEW k \in 1..Len(inst[j].queue)
        PROVE  IF inst[j].queue[k] = "disconnect"
                 THEN ev[inst[j].of].at = "disconnect" /\ ev[inst[j].of].inst = j
                 ELSE req'[inst[j].queue[k]].pc = "sent" /\ req'[inst[j].queue[k]].inst = j /\ inst[j].queue[k] # r
    <3>1. inst[j].queue[k] \in Requests \cup {"disconnect"}
      BY <2>1
    <3>2. IF inst[j].queue[k] = "disconnect"
            THEN ev[inst[j].of].at = "disconnect" /\ ev[inst[j].of].inst = j
            ELSE req[inst[j].queue[k]].pc = "sent" /\ req[inst[j].queue[k]].inst = j
      BY <1>1 DEF ActorQueueOK
    <3> QED
      BY <1>3, <1>4, <3>1, <3>2
  <2>6. \A j \in Insts : \A k \in 1..Len(inst'[j].queue) :
          \/ k \in 1..Len(inst[j].queue) /\ inst'[j].queue[k] = inst[j].queue[k]
          \/ j = i /\ Live(i) /\ k = Len(inst[i].queue) + 1 /\ inst'[j].queue[k] = r
    <3>1. CASE Live(i)
      <4>1. PICK q1 \in Seq(Requests \cup {"disconnect"}) : q1 = inst[i].queue
        BY <2>1
      <4>2. inst'[i].queue = Append(q1, r)
        BY <1>5, <1>6, <3>1, <4>1
      <4>3. \A k \in 1..Len(inst'[i].queue) :
              \/ k \in 1..Len(q1) /\ inst'[i].queue[k] = q1[k]
              \/ k = Len(q1) + 1 /\ inst'[i].queue[k] = r
        BY <4>2
      <4> QED
        BY <1>6, <3>1, <4>1, <4>3
    <3>2. CASE ~ Live(i)
      BY <1>5, <1>6, <2>1, <3>2
    <3> QED
      BY <3>1, <3>2
  <2>7. ASSUME NEW j \in Insts, NEW k \in 1..Len(inst'[j].queue)
        PROVE  LET x == inst'[j].queue[k]
               IN IF x = "disconnect"
                    THEN ev'[inst'[j].of].at = "disconnect" /\ ev'[inst'[j].of].inst = j
                    ELSE req'[x].pc = "sent" /\ req'[x].inst = j
    <3>1. CASE k \in 1..Len(inst[j].queue) /\ inst'[j].queue[k] = inst[j].queue[k]
      BY <1>a, <1>6, <2>5, <3>1
    <3>2. CASE j = i /\ Live(i) /\ inst'[j].queue[k] = r
      BY <1>4, <2>2, <3>2
    <3> QED
      BY <2>6, <3>1, <3>2
  <2>8. ASSUME NEW j \in Insts, NEW k \in 1..Len(inst'[j].queue), NEW n \in 1..Len(inst'[j].queue),
               inst'[j].queue[k] = inst'[j].queue[n], inst'[j].queue[k] # "disconnect"
        PROVE  k = n
    <3>1. \A m \in 1..Len(inst[j].queue) : inst[j].queue[m] # r
      BY <2>2, <2>5
    <3>2. CASE k \in 1..Len(inst[j].queue) /\ n \in 1..Len(inst[j].queue)
      <4>1. inst'[j].queue[k] = inst[j].queue[k] /\ inst'[j].queue[n] = inst[j].queue[n]
        BY <2>1, <2>6, <3>2, SMTT(30)
      <4>2. inst[j].queue[k] = inst[j].queue[n] /\ inst[j].queue[k] # "disconnect"
        BY <2>8, <4>1
      <4>3. \A x, y \in 1..Len(inst[j].queue) :
              inst[j].queue[x] = inst[j].queue[y] /\ inst[j].queue[x] # "disconnect" => x = y
        BY <1>1 DEF ActorQueueOK
      <4> QED
        BY <3>2, <4>2, <4>3
    <3>3. CASE ~ (k \in 1..Len(inst[j].queue) /\ n \in 1..Len(inst[j].queue))
      BY <2>1, <2>6, <2>8, <3>1, <3>3
    <3> QED
      BY <3>2, <3>3
  <2> QED
    BY <2>3, <2>4, <2>7, <2>8 DEF ActorQueueOK
<1>10. InboxOK'
  BY <1>1, <1>a, <1>6, InboxFrame
<1>11. LockOK'
  BY <1>1, <1>a, <1>3, <1>4, LockFrame DEF Connecting, AgentTyped
<1>12. LeakOK'
  BY <1>1, <1>a, <1>6, LeakFrame, LiveOf, EvictedOf DEF AgentTyped, Live
<1>13. KeyLogOK'
  BY <1>1, <1>a, <1>3, <1>4, EntryFrame DEF Owning, AgentTyped
<1>14. BusyOK'
  <2>1. \A j \in Insts : j # i => (Caused(j) => Caused(j)')
    BY <1>a, <1>3, <1>4, <1>6 DEF Caused
  <2>2. Caused(i)'
    BY <1>4 DEF Caused
  <2>3. \A s \in Sessions : Usable(s)' => Usable(s)
    BY <1>a DEF Usable
  <2> QED
    BY <1>1, <1>a, <1>6, <2>1, <2>2, <2>3, BusyFrame DEF AgentTyped
<1>15. RowOK'
  <2>1. ASSUME NEW s \in Sessions PROVE RowCaused(s) => RowCaused(s)'
    <3>1. \A j \in Insts : Works(j) => Works(j)'
      BY <1>6 DEF Works
    <3>2. \A q \in Requests : Wrote(q) => Wrote(q)'
      BY <1>3, <1>4 DEF Wrote
    <3>3. Settles(s) => Settles(s)'
      BY <1>1, <1>a, <1>6 DEF Settles, PersistsStatus, NamesOK
    <3> QED
      BY <1>a, <1>6, <3>1, <3>2, <3>3, RowCausedFrame DEF RowCaused
  <2>2. Wrote(r)'
    BY <1>4 DEF Wrote
  <2>3. ASSUME NEW s \in Sessions, row'[s] = "running"
        PROVE  RowCaused(s)'
    <3>1. CASE s = SessionOf(r)
      BY <1>b, <2>2, <3>1 DEF RowCaused
    <3>2. CASE s # SessionOf(r)
      BY <1>1, <1>3, <2>1, <2>3, <3>2 DEF RowOK, AgentTyped, HostTyped
    <3> QED
      BY <3>1, <3>2
  <2> QED
    BY <1>1, <1>6, <2>3, RowFrame DEF RowOK
<1> QED
  BY <1>7, <1>8, <1>9, <1>10, <1>11, <1>12, <1>13, <1>14, <1>15 DEF SessionInv

-----------------------------------------------------------------------------
(* Eviction up to its first await *)

LEMMA StartEvictFacts ==
  ASSUME SessionInv, NEW S \in SUBSET Sessions, NEW timers, \A s \in S : Usable(s), StartEvict(S, timers)
  PROVE  /\ disconnecting' = disconnecting \cup S
         /\ ev' \in [Sessions -> EvType]
         /\ \A s \in S : ev'[s].at = "disconnect" /\ ev'[s].inst = registry[s]
         /\ \A s \in Sessions : s \notin S => ev'[s] = ev[s]
         /\ inst' \in [Insts -> InstType]
         /\ \A j \in Insts :
              /\ inst'[j].of = inst[j].of /\ inst'[j].actor = inst[j].actor /\ inst'[j].turn = inst[j].turn
              /\ inst'[j].inbox = inst[j].inbox /\ inst'[j].proc = inst[j].proc /\ inst'[j].status = inst[j].status
              /\ inst'[j].writes = inst[j].writes /\ inst'[j].resumedBusy = inst[j].resumedBusy
              /\ inst'[j].timer => inst[j].timer
              /\ inst[j].actor = "off" => inst'[j] = inst[j]
              /\ inst'[j].queue = IF (\E s \in S : registry[s] = j) /\ Live(j)
                                    THEN Append(inst[j].queue, "disconnect") ELSE inst[j].queue
<1> DEFINE doomed == {registry[s] : s \in S}
           t(j) == inst[j].timer /\ j \notin doomed \cup timers
           q(j) == IF j \in doomed /\ Live(j) THEN Append(inst[j].queue, "disconnect") ELSE inst[j].queue
<1>1. AgentTyped /\ NamesOK
  BY DEF SessionInv
<1>2. /\ disconnecting' = disconnecting \cup S
      /\ ev' = [s \in Sessions |-> IF s \in S THEN [at |-> "disconnect", inst |-> registry[s]] ELSE ev[s]]
      /\ inst' = [j \in Insts |-> [inst[j] EXCEPT !.timer = t(j), !.queue = q(j)]]
  BY DEF StartEvict
<1>3. ev' \in [Sessions -> EvType]
  BY <1>1, <1>2 DEF AgentTyped, EvType
<1>4. ASSUME NEW j \in Insts
      PROVE  /\ t(j) \in BOOLEAN /\ q(j) \in Seq(Requests \cup {"disconnect"}) /\ inst[j] \in InstType
             /\ t(j) => inst[j].timer
             /\ q(j) = IF (\E s \in S : registry[s] = j) /\ Live(j)
                         THEN Append(inst[j].queue, "disconnect") ELSE inst[j].queue
  <2>1. inst[j] \in InstType
    BY <1>1 DEF AgentTyped
  <2>2. inst[j].queue \in Seq(Requests \cup {"disconnect"}) /\ inst[j].timer \in BOOLEAN
    BY <2>1 DEF InstType
  <2>3. Append(inst[j].queue, "disconnect") \in Seq(Requests \cup {"disconnect"})
    BY <2>2
  <2>4. q(j) \in Seq(Requests \cup {"disconnect"})
    BY <2>2, <2>3
  <2> QED
    BY <2>1, <2>2, <2>4
<1>6. ASSUME NEW j \in Insts, inst[j].actor = "off"
      PROVE  t(j) = FALSE /\ q(j) = <<>> /\ inst[j] = Blank
  <2>1. inst[j] = Blank
    BY <1>1, <1>6 DEF NamesOK
  <2>2. ~ Live(j)
    BY <1>6 DEF Live
  <2> QED
    BY <2>1, <2>2 DEF Blank
<1>7. [Blank EXCEPT !.timer = FALSE, !.queue = <<>>] = Blank
  <2>1. ASSUME NEW x \in InstType, x.timer = FALSE, x.queue = <<>>
        PROVE  [x EXCEPT !.timer = FALSE, !.queue = <<>>] = x
    BY <2>1 DEF InstType
  <2>2. Blank.timer = FALSE /\ Blank.queue = <<>>
    BY DEF Blank
  <2> QED
    BY <2>1, <2>2, BlankTyped
<1> HIDE DEF t, q
<1>8. ASSUME NEW j \in Insts
      PROVE  /\ inst'[j] \in InstType
             /\ inst'[j].of = inst[j].of /\ inst'[j].actor = inst[j].actor /\ inst'[j].turn = inst[j].turn
             /\ inst'[j].inbox = inst[j].inbox /\ inst'[j].proc = inst[j].proc /\ inst'[j].status = inst[j].status
             /\ inst'[j].writes = inst[j].writes /\ inst'[j].resumedBusy = inst[j].resumedBusy
             /\ inst'[j].timer = t(j) /\ inst'[j].queue = q(j)
             /\ inst[j].actor = "off" => inst'[j] = inst[j]
  <2>1. inst'[j] = [inst[j] EXCEPT !.timer = t(j), !.queue = q(j)]
    BY <1>2
  <2>2. inst[j].actor = "off" => inst'[j] = inst[j]
    BY <1>6, <1>7, <2>1
  <2>3. PICK x \in InstType : x = inst[j]
    BY <1>4
  <2>4. PICK a \in BOOLEAN : a = t(j)
    BY <1>4
  <2>5. PICK b \in Seq(Requests \cup {"disconnect"}) : b = q(j)
    BY <1>4
  <2>6. inst'[j] = [x EXCEPT !.timer = a, !.queue = b]
    BY <2>1, <2>3, <2>4, <2>5
  <2>7. PICK y : y = inst'[j]
    OBVIOUS
  <2>8. y = [x EXCEPT !.timer = a, !.queue = b]
    BY <2>6, <2>7
  <2>9. /\ y \in InstType
        /\ y.of = x.of /\ y.actor = x.actor /\ y.turn = x.turn /\ y.inbox = x.inbox /\ y.proc = x.proc
        /\ y.status = x.status /\ y.writes = x.writes /\ y.resumedBusy = x.resumedBusy
        /\ y.timer = a /\ y.queue = b
    BY <2>8 DEF InstType
  <2> QED
    BY <2>2, <2>3, <2>4, <2>5, <2>7, <2>9
<1>9. inst' \in [Insts -> InstType]
  BY <1>2, <1>8
<1> QED
  BY <1>2, <1>3, <1>4, <1>8, <1>9, ZenonT(60)

LEMMA EvictBegins ==
  ASSUME SessionInv, NEW S \in SUBSET Sessions, NEW timers, \A s \in S : Usable(s), StartEvict(S, timers),
         UNCHANGED <<call, registry, row, cut, overlapped>>,
         \A r \in Requests :
           /\ req[r].pc \in Using => req'[r] = req[r]
           /\ req'[r].pc \in Using => req[r].pc \in Using
           /\ req'[r].pc = "start" => req[r].pc = "start"
           /\ Wrote(r) => Wrote(r)'
  PROVE  NamesOK' /\ ActorQueueOK' /\ InboxOK' /\ LeakOK' /\ BusyOK' /\ RowOK'
<1>1. AgentTyped /\ NamesOK /\ ActorQueueOK /\ InboxOK /\ LeakOK /\ BusyOK /\ RowOK
  BY DEF SessionInv
<1>2. /\ disconnecting' = disconnecting \cup S
      /\ \A s \in S : ev'[s].at = "disconnect" /\ ev'[s].inst = registry[s]
      /\ \A s \in Sessions : s \notin S => ev'[s] = ev[s]
      /\ \A j \in Insts :
           /\ inst'[j].of = inst[j].of /\ inst'[j].actor = inst[j].actor /\ inst'[j].turn = inst[j].turn
           /\ inst'[j].inbox = inst[j].inbox /\ inst'[j].proc = inst[j].proc /\ inst'[j].status = inst[j].status
           /\ inst'[j].writes = inst[j].writes /\ inst'[j].resumedBusy = inst[j].resumedBusy
           /\ inst'[j].timer => inst[j].timer
           /\ inst[j].actor = "off" => inst'[j] = inst[j]
           /\ inst'[j].queue = IF (\E s \in S : registry[s] = j) /\ Live(j)
                                 THEN Append(inst[j].queue, "disconnect") ELSE inst[j].queue
  BY StartEvictFacts
<1>3. \A s \in S : s \notin disconnecting /\ ev[s].at = "none" /\ registry[s] # Nobody /\ registry[s] \in Insts
  BY <1>1 DEF Usable, NamesOK, AgentTyped
<1>4. NamesOK'
  <2>1. \A s \in Sessions :
          /\ s \in disconnecting' <=> ev'[s].at # "none"
          /\ ev'[s].at # "none" =>
                 \/ ev[s].at # "none" /\ ev'[s].inst = ev[s].inst
                 \/ registry[s] # Nobody /\ ev'[s].inst = registry[s]
    <3>1. \A s \in S : s \in disconnecting' /\ ev'[s].at # "none" /\ registry[s] # Nobody /\ ev'[s].inst = registry[s]
      BY <1>2, <1>3
    <3>2. \A s \in Sessions : s \notin S => ev'[s] = ev[s] /\ (s \in disconnecting' <=> ev[s].at # "none")
      BY <1>1, <1>2, EvictedOf
    <3> QED
      BY <3>1, <3>2
  <2> QED
    BY <1>1, <1>2, <2>1, OwnEvict DEF AgentTyped
<1>5. ActorQueueOK'
  <2>1. \A j \in Insts : inst[j].queue \in Seq(Requests \cup {"disconnect"})
    BY <1>1 DEF AgentTyped, InstType
  <2>2. "disconnect" \notin Requests
    BY AgentAssumption
  <2>3. \A j \in Insts : ~ Live(j)' => inst'[j].queue = <<>>
    BY <1>1, <1>2 DEF ActorQueueOK, Live
  <2>4. \A j \in Insts : inst'[j].actor # "up" => inst'[j].turn = Nobody
    BY <1>1, <1>2 DEF ActorQueueOK
  <2>5. \A j \in Insts : \A k \in 1..Len(inst'[j].queue) :
          \/ k \in 1..Len(inst[j].queue) /\ inst'[j].queue[k] = inst[j].queue[k]
          \/ (\E s \in S : registry[s] = j) /\ k = Len(inst[j].queue) + 1 /\ inst'[j].queue[k] = "disconnect"
    <3> SUFFICES ASSUME NEW j \in Insts
                 PROVE  \A k \in 1..Len(inst'[j].queue) :
                          \/ k \in 1..Len(inst[j].queue) /\ inst'[j].queue[k] = inst[j].queue[k]
                          \/ (\E s \in S : registry[s] = j) /\ k = Len(inst[j].queue) + 1
                             /\ inst'[j].queue[k] = "disconnect"
      OBVIOUS
    <3>1. PICK q1 \in Seq(Requests \cup {"disconnect"}) : q1 = inst[j].queue
      BY <2>1
    <3>2. CASE (\E s \in S : registry[s] = j) /\ Live(j)
      <4>1. inst'[j].queue = Append(q1, "disconnect")
        BY <1>2, <3>1, <3>2
      <4>2. \A k \in 1..Len(inst'[j].queue) :
              \/ k \in 1..Len(q1) /\ inst'[j].queue[k] = q1[k]
              \/ k = Len(q1) + 1 /\ inst'[j].queue[k] = "disconnect"
        BY <4>1
      <4> QED
        BY <3>1, <3>2, <4>2
    <3>3. CASE ~ ((\E s \in S : registry[s] = j) /\ Live(j))
      <4>1. inst'[j].queue = inst[j].queue
        BY <1>2, <3>3
      <4> QED
        BY <4>1
    <3> QED
      BY <3>2, <3>3
  <2>6. ASSUME NEW j \in Insts, NEW k \in 1..Len(inst'[j].queue)
        PROVE  LET x == inst'[j].queue[k]
               IN IF x = "disconnect"
                    THEN ev'[inst'[j].of].at = "disconnect" /\ ev'[inst'[j].of].inst = j
                    ELSE req'[x].pc = "sent" /\ req'[x].inst = j
    <3>1. CASE k \in 1..Len(inst[j].queue) /\ inst'[j].queue[k] = inst[j].queue[k]
      <4>1. IF inst[j].queue[k] = "disconnect"
              THEN ev[inst[j].of].at = "disconnect" /\ ev[inst[j].of].inst = j
              ELSE req[inst[j].queue[k]].pc = "sent" /\ req[inst[j].queue[k]].inst = j
        BY <1>1, <3>1 DEF ActorQueueOK
      <4>2. inst[j].queue # <<>>
        BY <3>1
      <4>3. inst[j].of \in Sessions
        BY <1>1, <4>2, LiveOf DEF ActorQueueOK
      <4>4. inst[j].queue[k] \in Requests \cup {"disconnect"}
        BY <2>1, <3>1
      <4>5. CASE inst[j].queue[k] = "disconnect"
        <5>1. inst[j].of \notin S
          BY <1>3, <4>1, <4>5
        <5> QED
          BY <1>2, <3>1, <4>1, <4>3, <4>5, <5>1
      <4>6. CASE inst[j].queue[k] # "disconnect"
        BY <3>1, <4>1, <4>4, <4>6 DEF Using
      <4> QED
        BY <4>5, <4>6
    <3>2. CASE (\E s \in S : registry[s] = j) /\ inst'[j].queue[k] = "disconnect"
      <4>1. PICK s \in S : registry[s] = j
        BY <3>2
      <4>2. inst[j].of = s
        BY <1>1, <1>3, <4>1 DEF NamesOK
      <4> QED
        BY <1>2, <3>2, <4>1, <4>2
    <3> QED
      BY <2>5, <3>1, <3>2
  <2>7. ASSUME NEW j \in Insts, NEW k \in 1..Len(inst'[j].queue), NEW n \in 1..Len(inst'[j].queue),
               inst'[j].queue[k] = inst'[j].queue[n], inst'[j].queue[k] # "disconnect"
        PROVE  k = n
    <3>1. k \in 1..Len(inst[j].queue) /\ n \in 1..Len(inst[j].queue)
      BY <2>5, <2>7
    <3>2. inst[j].queue[k] = inst[j].queue[n] /\ inst[j].queue[k] # "disconnect"
      BY <2>5, <2>7
    <3>3. \A x, y \in 1..Len(inst[j].queue) :
            inst[j].queue[x] = inst[j].queue[y] /\ inst[j].queue[x] # "disconnect" => x = y
      BY <1>1 DEF ActorQueueOK
    <3> QED
      BY <3>1, <3>2, <3>3
  <2> QED
    BY <2>3, <2>4, <2>6, <2>7 DEF ActorQueueOK
<1>6. InboxOK'
  BY <1>1, <1>2, InboxFrame
<1>7. LeakOK'
  BY <1>1, <1>2, <1>3, LeakFrame, LiveOf, EvictedOf DEF AgentTyped, Live
<1>8. \A j \in Insts : inst[j].queue # <<>> => inst'[j].queue # <<>>
  <2>1. \A j \in Insts : inst[j].queue \in Seq(Requests \cup {"disconnect"})
    BY <1>1 DEF AgentTyped, InstType
  <2>2. ASSUME NEW b \in Seq(Requests \cup {"disconnect"}) PROVE Append(b, "disconnect") # <<>>
    OBVIOUS
  <2>3. ASSUME NEW j \in Insts, inst[j].queue # <<>>
        PROVE  inst'[j].queue # <<>>
    <3>1. inst'[j].queue = Append(inst[j].queue, "disconnect") \/ inst'[j].queue = inst[j].queue
      BY <1>2
    <3>2. Append(inst[j].queue, "disconnect") # <<>>
      BY <2>1, <2>2
    <3> QED
      BY <2>3, <3>1, <3>2
  <2> QED
    BY <2>3
<1>9. BusyOK'
  <2>1. \A j \in Insts : Caused(j) => Caused(j)'
    BY <1>2, <1>8, CausedFrame DEF Using
  <2>2. \A s \in Sessions : Usable(s)' => Usable(s)
    BY <1>2 DEF Usable
  <2> QED
    BY <1>1, <1>2, <2>1, <2>2, BusyFrame DEF AgentTyped
<1>10. RowOK'
  <2>1. ASSUME NEW s \in Sessions PROVE RowCaused(s) => RowCaused(s)'
    <3>1. \A j \in Insts : Works(j) => Works(j)'
      BY <1>2 DEF Works
    <3>2. Settles(s) => Settles(s)'
      BY <1>1, <1>2, <1>3 DEF Settles, PersistsStatus, NamesOK
    <3> QED
      BY <1>2, <3>1, <3>2, RowCausedFrame DEF RowCaused
  <2> QED
    BY <1>1, <1>2, <2>1, RowFrame DEF RowOK
<1> QED
  BY <1>4, <1>5, <1>6, <1>7, <1>9, <1>10

LEMMA TimerFiresInv == ASSUME SessionInv, NEW i \in Insts, TimerFires(i) PROVE SessionInv'
<1>1. AgentTyped /\ NamesOK /\ LockOK /\ KeyLogOK
  BY DEF SessionInv
<1>2. PICK S \in SUBSET Sessions : (\A s \in S : Usable(s)) /\ StartEvict(S, {i})
  <2>1. inst[i].of \in Sessions
    BY <1>1 DEF TimerFires, NamesOK
  <2> QED
    BY <2>1 DEF TimerFires
<1>3. UNCHANGED <<row, log, delivered, call, overlapped, cut, registry, lockOf, holder, req>>
  BY DEF TimerFires, callVars, hostVars
<1>4. disconnecting' = disconnecting \cup S /\ ev' \in [Sessions -> EvType] /\ inst' \in [Insts -> InstType]
  BY <1>2, StartEvictFacts
<1>5. AgentTyped'
  BY <1>1, <1>3, <1>4 DEF AgentTyped, HostTyped
<1>6. NamesOK' /\ ActorQueueOK' /\ InboxOK' /\ LeakOK' /\ BusyOK' /\ RowOK'
  BY <1>2, <1>3, EvictBegins DEF Wrote
<1>7. LockOK'
  BY <1>1, <1>3, <1>4, LockFrame DEF AgentTyped
<1>8. KeyLogOK'
  BY <1>1, <1>3, EntryFrame DEF AgentTyped
<1> QED
  BY <1>5, <1>6, <1>7, <1>8 DEF SessionInv

LEMMA PatrolFindsInv ==
  ASSUME SessionInv, NEW s \in Sessions, NEW i \in Insts, PatrolFinds(s, i) PROVE SessionInv'
<1>1. AgentTyped /\ NamesOK /\ LockOK /\ KeyLogOK
  BY DEF SessionInv
<1>2. PICK S \in SUBSET Sessions : (\A x \in S : Usable(x)) /\ StartEvict(S, {})
  BY DEF PatrolFinds
<1>3. UNCHANGED <<row, log, delivered, call, overlapped, cut, registry, lockOf, holder, req>>
  BY DEF PatrolFinds, callVars, hostVars
<1>4. disconnecting' = disconnecting \cup S /\ ev' \in [Sessions -> EvType] /\ inst' \in [Insts -> InstType]
  BY <1>2, StartEvictFacts
<1>5. AgentTyped'
  BY <1>1, <1>3, <1>4 DEF AgentTyped, HostTyped
<1>6. NamesOK' /\ ActorQueueOK' /\ InboxOK' /\ LeakOK' /\ BusyOK' /\ RowOK'
  BY <1>2, <1>3, EvictBegins DEF Wrote
<1>7. LockOK'
  BY <1>1, <1>3, <1>4, LockFrame DEF AgentTyped
<1>8. KeyLogOK'
  BY <1>1, <1>3, EntryFrame DEF AgentTyped
<1> QED
  BY <1>5, <1>6, <1>7, <1>8 DEF SessionInv

LEMMA ShutdownInv == ASSUME SessionInv, Shutdown PROVE SessionInv'
<1>1. AgentTyped /\ NamesOK /\ LockOK /\ KeyLogOK
  BY DEF SessionInv
<1>2. PICK S \in SUBSET Sessions : (\A x \in S : Usable(x)) /\ StartEvict(S, {})
  BY DEF Shutdown
<1>3. UNCHANGED <<row, log, delivered, call, overlapped, cut, registry, lockOf, holder, req>>
  BY DEF Shutdown, callVars
<1>4. disconnecting' = disconnecting \cup S /\ ev' \in [Sessions -> EvType] /\ inst' \in [Insts -> InstType]
  BY <1>2, StartEvictFacts
<1>5. AgentTyped'
  BY <1>1, <1>3, <1>4 DEF AgentTyped, HostTyped
<1>6. NamesOK' /\ ActorQueueOK' /\ InboxOK' /\ LeakOK' /\ BusyOK' /\ RowOK'
  BY <1>2, <1>3, EvictBegins DEF Wrote
<1>7. LockOK'
  BY <1>1, <1>3, <1>4, LockFrame DEF AgentTyped
<1>8. KeyLogOK'
  BY <1>1, <1>3, EntryFrame DEF AgentTyped
<1> QED
  BY <1>5, <1>6, <1>7, <1>8 DEF SessionInv

LEMMA EnsureCapacityInv == ASSUME SessionInv, NEW r \in Requests, EnsureCapacity(r) PROVE SessionInv'
<1>1. AgentTyped /\ NamesOK /\ LockOK /\ KeyLogOK /\ RowOK
  BY DEF SessionInv
<1>2. req[r].pc = "cap" /\ UNCHANGED <<row, log, delivered, call, overlapped, cut, registry, lockOf>>
  BY DEF EnsureCapacity, At, callVars, hostVars
<1>3. \/ Goto(r, "build") /\ UNCHANGED <<disconnecting, ev, inst, holder>>
      \/ /\ \E v \in Sessions :
              Usable(v) /\ StartEvict({v}, {}) /\ req' = [req EXCEPT ![r].pc = "evict", ![r].victim = v]
         /\ UNCHANGED holder
      \/ Goto(r, "rejected") /\ Release(r) /\ UNCHANGED <<disconnecting, ev, inst>>
  BY DEF EnsureCapacity
<1>4. CASE Goto(r, "build") /\ UNCHANGED <<disconnecting, ev, inst, holder>>
  <2>1. /\ req' \in [Requests -> ReqType]
        /\ req'[r].pc = "build" /\ req'[r].lock = req[r].lock /\ req'[r].inst = req[r].inst
        /\ \A q \in Requests : q # r => req'[q] = req[q]
    BY <1>1, <1>4, GotoFacts DEF Answers, InCall, AgentTyped
  <2>2. AgentTyped'
    BY <1>1, <1>2, <1>4, <2>1 DEF AgentTyped, HostTyped
  <2>3. NamesOK' /\ ActorQueueOK' /\ InboxOK' /\ LeakOK' /\ BusyOK'
    BY <1>1, <1>2, <1>4, <2>1, CallFrame DEF Using, NamesOK
  <2>4. LockOK'
    BY <1>1, <1>2, <1>4, <2>1, LockFrame DEF Connecting, AgentTyped
  <2>5. KeyLogOK'
    BY <1>1, <1>2, <2>1, EntryFrame DEF Owning, AgentTyped
  <2>6. RowOK'
    BY <1>1, <1>2, <1>4, <2>1, RowKept DEF Wrote
  <2> QED
    BY <2>2, <2>3, <2>4, <2>5, <2>6 DEF SessionInv
<1>5. ASSUME NEW v \in Sessions, Usable(v), StartEvict({v}, {}),
             req' = [req EXCEPT ![r].pc = "evict", ![r].victim = v], UNCHANGED holder
      PROVE  SessionInv'
  <2>1. /\ req' \in [Requests -> ReqType]
        /\ req'[r].pc = "evict" /\ req'[r].lock = req[r].lock /\ req'[r].inst = req[r].inst
        /\ \A q \in Requests : q # r => req'[q] = req[q]
    <3>1. ASSUME NEW x \in ReqType, NEW y, y = [x EXCEPT !.pc = "evict", !.victim = v]
          PROVE  y \in ReqType /\ y.pc = "evict" /\ y.lock = x.lock /\ y.inst = x.inst
      BY <3>1 DEF ReqType, InCall
    <3>2. req' = [req EXCEPT ![r] = [req[r] EXCEPT !.pc = "evict", !.victim = v]]
      BY <1>5
    <3> QED
      BY <1>1, <3>1, <3>2 DEF AgentTyped
  <2>2. disconnecting' = disconnecting \cup {v} /\ ev' \in [Sessions -> EvType] /\ inst' \in [Insts -> InstType]
    BY <1>5, StartEvictFacts
  <2>3. AgentTyped'
    BY <1>1, <1>2, <1>5, <2>1, <2>2 DEF AgentTyped, HostTyped
  <2>4. NamesOK' /\ ActorQueueOK' /\ InboxOK' /\ LeakOK' /\ BusyOK' /\ RowOK'
    <3>1. \A q \in Requests :
            /\ req[q].pc \in Using => req'[q] = req[q]
            /\ req'[q].pc \in Using => req[q].pc \in Using
            /\ req'[q].pc = "start" => req[q].pc = "start"
            /\ Wrote(q) => Wrote(q)'
      BY <1>2, <2>1 DEF Using, Wrote
    <3> QED
      BY <1>2, <1>5, <3>1, EvictBegins
  <2>5. LockOK'
    BY <1>1, <1>2, <1>5, <2>1, <2>2, LockFrame DEF Connecting, AgentTyped
  <2>6. KeyLogOK'
    BY <1>1, <1>2, <2>1, EntryFrame DEF Owning, AgentTyped
  <2> QED
    BY <2>3, <2>4, <2>5, <2>6 DEF SessionInv
<1>6. CASE Goto(r, "rejected") /\ Release(r) /\ UNCHANGED <<disconnecting, ev, inst>>
  <2>1. /\ req' \in [Requests -> ReqType]
        /\ req'[r].pc = "rejected" /\ \A q \in Requests : q # r => req'[q] = req[q]
    BY <1>1, <1>6, GotoFacts DEF Answers, AgentTyped
  <2>2. AgentTyped'
    BY <1>1, <1>2, <1>6, <2>1 DEF AgentTyped, HostTyped, Release
  <2>3. NamesOK' /\ ActorQueueOK' /\ InboxOK' /\ LeakOK' /\ BusyOK'
    BY <1>1, <1>2, <1>6, <2>1, CallFrame DEF Using, NamesOK
  <2>4. LockOK'
    <3>1. \A s \in Sessions : Usable(s)' => Usable(s)
      BY <1>2, <1>6 DEF Usable
    <3> QED
      BY <1>1, <1>2, <1>6, <2>1, <3>1, LockReleased DEF Holding, Connecting
  <2>5. KeyLogOK'
    BY <1>1, <1>2, <2>1, EntryFrame DEF Owning, AgentTyped
  <2>6. RowOK'
    BY <1>1, <1>2, <1>6, <2>1, RowKept DEF Wrote
  <2> QED
    BY <2>2, <2>3, <2>4, <2>5, <2>6 DEF SessionInv
<1> QED
  BY <1>3, <1>4, <1>5, <1>6

-----------------------------------------------------------------------------
(* A session is built and started *)

LEMMA BuildInv == ASSUME SessionInv, NEW r \in Requests, Build(r) PROVE SessionInv'
<1>1. AgentTyped /\ NamesOK /\ ActorQueueOK /\ InboxOK /\ LeakOK /\ LockOK /\ KeyLogOK /\ BusyOK /\ RowOK
  BY DEF SessionInv
<1>2. PICK i \in Insts :
        /\ inst[i].actor = "off"
        /\ inst' = [inst EXCEPT ![i] = [Blank EXCEPT !.of = SessionOf(r), !.status = ResumedStatus(req[r].meta),
                                                    !.actor = "starting", !.resumedBusy = req[r].meta = "running"]]
        /\ req' = [req EXCEPT ![r].pc = "start", ![r].inst = i]
        /\ registry' = [registry EXCEPT ![SessionOf(r)] = i]
  BY DEF Build
<1>a. req[r].pc = "build" /\ UNCHANGED <<row, log, delivered, call, overlapped, cut, disconnecting, ev, lockOf, holder>>
  BY DEF Build, At, callVars, hostVars
<1>3. PICK s \in Sessions : s = SessionOf(r)
  BY <1>1, CallTypes DEF AgentTyped
<1>4. /\ req' \in [Requests -> ReqType]
      /\ req'[r].pc = "start" /\ req'[r].inst = i /\ req'[r].lock = req[r].lock
      /\ \A q \in Requests : q # r => req'[q] = req[q]
  <2>1. ASSUME NEW x \in ReqType, NEW y, y = [x EXCEPT !.pc = "start", !.inst = i]
        PROVE  y \in ReqType /\ y.pc = "start" /\ y.lock = x.lock /\ y.inst = i
    BY <2>1 DEF ReqType, InCall
  <2>2. req' = [req EXCEPT ![r] = [req[r] EXCEPT !.pc = "start", !.inst = i]]
    BY <1>2
  <2> QED
    BY <1>1, <2>1, <2>2 DEF AgentTyped
<1>5. /\ inst' \in [Insts -> InstType]
      /\ inst'[i].of = s /\ inst'[i].actor = "starting" /\ inst'[i].turn = Nobody /\ inst'[i].queue = <<>>
      /\ inst'[i].inbox = <<>> /\ inst'[i].proc = "off" /\ inst'[i].timer = FALSE
      /\ inst'[i].status = "running" => inst'[i].resumedBusy
      /\ \A j \in Insts : j # i => inst'[j] = inst[j]
  <2>1. PICK b \in BOOLEAN : b = (req[r].meta = "running")
    OBVIOUS
  <2>2. PICK t \in Statuses : t = ResumedStatus(req[r].meta) /\ (t = "running" => b = TRUE)
    <3>1. req[r].meta \in Statuses
      BY <1>1 DEF AgentTyped, ReqType
    <3> QED
      BY <2>1, <3>1 DEF ResumedStatus, Statuses
  <2>3. PICK y : y = [Blank EXCEPT !.of = s, !.status = t, !.actor = "starting", !.resumedBusy = b]
    OBVIOUS
  <2>4. inst' = [inst EXCEPT ![i] = y]
    BY <1>2, <1>3, <2>1, <2>2, <2>3
  <2>5. PICK x \in InstType : x = Blank
    BY BlankTyped
  <2>6. x.turn = Nobody /\ x.queue = <<>> /\ x.inbox = <<>> /\ x.proc = "off" /\ x.timer = FALSE
    BY <2>5 DEF Blank
  <2>7. y = [x EXCEPT !.of = s, !.status = t, !.actor = "starting", !.resumedBusy = b]
    BY <2>3, <2>5
  <2>8. /\ y \in InstType
        /\ y.of = s /\ y.actor = "starting" /\ y.turn = x.turn /\ y.queue = x.queue /\ y.inbox = x.inbox
        /\ y.proc = x.proc /\ y.timer = x.timer /\ y.status = t /\ y.resumedBusy = b
    BY <2>7 DEF InstType, Statuses
  <2>9. inst' \in [Insts -> InstType] /\ inst'[i] = y /\ \A j \in Insts : j # i => inst'[j] = inst[j]
    BY <1>1, <2>4, <2>8, InstStep DEF AgentTyped
  <2> QED
    BY <2>2, <2>6, <2>8, <2>9
<1>6. /\ inst[i].turn = Nobody /\ inst[i].queue = <<>> /\ inst[i].inbox = <<>> /\ inst[i].proc = "off"
      /\ ~ Live(i)
  BY <1>1, <1>2 DEF NamesOK, Blank, Live
<1>7. /\ registry' = [registry EXCEPT ![s] = i] /\ registry \in [Sessions -> Insts \cup {Nobody}]
      /\ \A x \in Sessions : registry[x] # i /\ (ev[x].at # "none" => ev[x].inst # i)
      /\ \A q \in Requests : req[q].pc \in Using => req[q].inst # i
  <2>1. Nobody \notin Insts
    BY AgentAssumption
  <2> QED
    BY <1>1, <1>2, <1>3, <2>1 DEF NamesOK, AgentTyped
<1>8. \A q \in Requests : SessionOf(q)' = SessionOf(q) /\ SessionOf(q) \in Sessions
  BY <1>1, <1>a, CallTypes DEF SessionOf, AgentTyped
<1>9. AgentTyped'
  BY <1>1, <1>a, <1>4, <1>5, <1>7 DEF AgentTyped, HostTyped
<1>10. NamesOK'
  <2>1. \A j \in Insts : inst'[j].actor = "off" => inst'[j] = Blank
    BY <1>1, <1>5 DEF NamesOK
  <2>2. \A j \in Insts :
          inst'[j].of \in Sessions \/ (~ inst'[j].timer /\ ~ Live(j)' /\ inst'[j].proc \in {"off", "done"})
    BY <1>1, <1>5 DEF NamesOK, Live
  <2>3. \A x \in Sessions :
          registry'[x] # Nobody => inst'[registry'[x]].of = x /\ inst'[registry'[x]].actor # "off"
    BY <1>1, <1>5, <1>7 DEF NamesOK
  <2>4. \A x \in Sessions : x \in disconnecting' <=> ev'[x].at # "none"
    BY <1>1, <1>a, EvictedOf
  <2>5. \A x \in Sessions :
          ev'[x].at # "none" =>
            ev'[x].inst \in Insts /\ inst'[ev'[x].inst].of = x /\ inst'[ev'[x].inst].actor # "off"
    BY <1>1, <1>a, <1>5, <1>7, EvictedOf
  <2>6. ASSUME NEW q \in Requests, req'[q].pc \in Using
        PROVE  req'[q].inst \in Insts /\ inst'[req'[q].inst].of = SessionOf(q) /\ inst'[req'[q].inst].actor # "off"
    <3>1. CASE q = r
      BY <1>3, <1>4, <1>5, <3>1
    <3>2. CASE q # r
      BY <1>1, <1>4, <1>5, <1>7, <2>6, <3>2 DEF NamesOK
    <3> QED
      BY <3>1, <3>2
  <2>7. \A q \in Requests : req'[q].pc = "start" => inst'[req'[q].inst].proc = "off"
    BY <1>1, <1>4, <1>5, <1>7 DEF NamesOK, Using
  <2>8. \A p, q \in Requests :
          req'[p].pc = "start" /\ req'[q].pc = "start" /\ req'[p].inst = req'[q].inst => p = q
    BY <1>1, <1>4, <1>7 DEF NamesOK, Using
  <2> QED
    BY <1>8, <2>1, <2>2, <2>3, <2>4, <2>5, <2>6, <2>7, <2>8 DEF NamesOK
<1>11. ActorQueueOK'
  <2>1. \A j \in Insts : inst[j].queue \in Seq(Requests \cup {"disconnect"})
    BY <1>1 DEF AgentTyped, InstType
  <2>2. \A q \in Requests : req[q].pc = "sent" => req'[q].pc = "sent" /\ req'[q].inst = req[q].inst
    BY <1>a, <1>4
  <2> QED
    BY <1>1, <1>2, <1>a, <1>5, <1>6, <2>1, <2>2, QueueFrame
<1>12. InboxOK'
  <2>1. ASSUME NEW j \in Insts, inst[j].inbox # <<>>, inst[j].of \in Sessions
        PROVE  registry'[inst[j].of] = j => registry[inst[j].of] = j
    BY <1>6, <1>7, <2>1
  <2> QED
    BY <1>1, <1>a, <1>5, <1>6, <2>1, InboxFrame
<1>13. LockOK'
  <2>1. \A q \in Requests :
          /\ req'[q].pc \in Connecting => req'[q].lock \in Requests
          /\ req'[q].pc \in Holding => holder'[req'[q].lock] = q
    BY <1>1, <1>a, <1>4 DEF LockOK, Connecting, Holding
  <2>2. \A x \in Requests : holder'[x] # Nobody => req'[holder'[x]].pc \in Holding /\ req'[holder'[x]].lock = x
    BY <1>1, <1>a, <1>4 DEF LockOK, Holding, AgentTyped, HostTyped
  <2>3. ASSUME NEW q \in Requests, SessionOf(q)' \notin overlapped'
        PROVE  /\ req'[q].pc \in Connecting => req'[q].lock = lockOf'[SessionOf(q)']
               /\ req'[q].pc \in {"cap", "evict", "build"} => ~ Usable(SessionOf(q))'
               /\ req'[q].pc = "start" => registry'[SessionOf(q)'] = req'[q].inst
    <3>1. PICK x \in Sessions : x = SessionOf(q) /\ x = SessionOf(q)' /\ x \notin overlapped
      BY <1>a, <1>8, <2>3
    <3>2. /\ req[q].pc \in Connecting => req[q].lock = lockOf[x]
          /\ req[q].pc \in {"cap", "evict", "build"} => ~ Usable(x)
          /\ req[q].pc = "start" => registry[x] = req[q].inst
      <4>1. /\ req[q].pc \in Connecting => req[q].lock = lockOf[SessionOf(q)]
            /\ req[q].pc \in {"cap", "evict", "build"} => ~ Usable(SessionOf(q))
            /\ req[q].pc = "start" => registry[SessionOf(q)] = req[q].inst
        BY <1>1, <1>a, <1>8, <2>3 DEF LockOK
      <4> QED
        BY <3>1, <4>1 DEF Usable
    <3>3. CASE q = r
      BY <1>3, <1>a, <1>4, <1>7, <3>1, <3>2, <3>3 DEF Connecting
    <3>4. CASE q # r
      <4>1. req'[q] = req[q]
        BY <1>4, <3>4
      <4>2. req[q].pc \in Holding => x # s
        BY <1>1, <1>3, <1>a, <3>1, <3>4, OneHolder DEF Holding
      <4>3. x # s => registry'[x] = registry[x]
        BY <1>7
      <4>4. req[q].pc \in {"cap", "evict", "build"} => ~ Usable(x)'
        BY <1>a, <3>2, <4>2, <4>3 DEF Usable, Holding
      <4>5. Usable(SessionOf(q))' <=> Usable(x)'
        BY <3>1 DEF Usable
      <4> QED
        BY <1>a, <3>1, <3>2, <4>1, <4>2, <4>3, <4>4, <4>5 DEF Holding
    <3> QED
      BY <3>3, <3>4
  <2> QED
    BY <2>1, <2>2, <2>3 DEF LockOK
<1>14. LeakOK'
  <2>1. ASSUME NEW x \in Sessions, ev'[x].at \in {"drain", "killed"}
        PROVE  ~ Live(ev[x].inst)'
    <3>1. PICK j \in Insts : j = ev[x].inst /\ j = ev'[x].inst /\ j # i
      BY <1>1, <1>a, <1>7, <2>1, EvictedOf
    <3>2. ~ Live(j)'
      BY <1>1, <1>a, <1>5, <2>1, <3>1 DEF LeakOK, Live
    <3> QED
      BY <3>1, <3>2 DEF Live
  <2>2. ASSUME NEW j \in Insts, Live(j)', NEW x, x = inst'[j].of
        PROVE  \/ registry'[x] = j
               \/ x \in disconnecting' /\ (ev'[x].inst = j \/ registry'[x] # ev'[x].inst)
               \/ x \in overlapped'
    <3>1. CASE j = i
      BY <1>5, <1>7, <2>2, <3>1
    <3>2. CASE j # i
      <4>1. Live(j) /\ x = inst[j].of /\ x \in Sessions
        BY <1>1, <1>5, <2>2, <3>2, LiveOf DEF Live
      <4>2. \/ registry[x] = j
            \/ x \in disconnecting /\ (ev[x].inst = j \/ registry[x] # ev[x].inst)
            \/ x \in overlapped
        BY <1>1, <4>1 DEF LeakOK
      <4>3. CASE x # s
        BY <1>a, <1>7, <4>1, <4>2, <4>3
      <4>4. CASE x = s /\ x \notin overlapped
        <5>1. ~ Usable(s)
          BY <1>1, <1>3, <1>a, <4>4 DEF LockOK
        <5>2. s \in disconnecting
          BY <4>2, <4>4, <5>1, AgentAssumption DEF Usable
        <5>3. registry'[s] = i /\ ev[s].inst # i
          BY <1>1, <1>7, <5>2, EvictedOf
        <5> QED
          BY <1>a, <4>4, <5>2, <5>3
      <4> QED
        BY <1>a, <4>3, <4>4
    <3> QED
      BY <3>1, <3>2
  <2> QED
    BY <1>a, <2>1, <2>2 DEF LeakOK
<1>15. KeyLogOK'
  BY <1>1, <1>a, <1>4, EntryFrame DEF Owning, AgentTyped
<1>16. BusyOK'
  <2>1. ASSUME NEW x \in Sessions, Usable(x)', inst'[registry'[x]].status = "running"
        PROVE  Caused(registry[x])'
    <3>1. CASE x = s
      <4>1. registry'[x] = i
        BY <1>7, <3>1
      <4> QED
        BY <1>5, <2>1, <4>1 DEF Caused
    <3>2. CASE x # s
      <4>1. PICK j \in Insts : registry[x] = j /\ registry'[x] = j /\ j # i
        BY <1>7, <2>1, <3>2 DEF Usable
      <4>2. Usable(x) /\ inst[j].status = "running"
        BY <1>a, <1>5, <2>1, <4>1 DEF Usable
      <4>3. Caused(j)
        BY <1>1, <4>1, <4>2 DEF BusyOK
      <4>4. Caused(j)'
        BY <1>a, <1>4, <1>5, <4>1, <4>3, CausedFrame
      <4> QED
        BY <4>1, <4>4 DEF Caused
    <3> QED
      BY <3>1, <3>2
  <2> QED
    BY <2>1 DEF BusyOK
<1>17. RowOK'
  <2>1. ASSUME NEW x \in Sessions PROVE RowCaused(x) => RowCaused(x)'
    <3>1. \A j \in Insts : inst[j].of = x /\ Works(j) => inst'[j].of = x /\ Works(j)'
      BY <1>5, <1>6 DEF Works
    <3>2. \A q \in Requests : Wrote(q) => Wrote(q)'
      BY <1>a, <1>4 DEF Wrote
    <3>3. Settles(x) => Settles(x)'
      <4>1. ASSUME Settles(x) PROVE ev[x].inst \in Insts /\ ev[x].inst # i
        BY <1>1, <1>7, <4>1, EvictedOf DEF Settles
      <4> QED
        BY <1>a, <1>5, <4>1 DEF Settles, PersistsStatus
    <3> QED
      BY <1>a, <3>1, <3>2, <3>3, RowCausedFrame DEF RowCaused
  <2> QED
    BY <1>1, <1>a, <1>5, <2>1, RowFrame DEF RowOK
<1> QED
  BY <1>9, <1>10, <1>11, <1>12, <1>13, <1>14, <1>15, <1>16, <1>17 DEF SessionInv

LEMMA StartedInv == ASSUME SessionInv, NEW r \in Requests, Started(r) PROVE SessionInv'
<1>1. AgentTyped /\ NamesOK /\ ActorQueueOK /\ InboxOK /\ LeakOK /\ LockOK /\ KeyLogOK /\ BusyOK /\ RowOK
  BY DEF SessionInv
<1>2. PICK i \in Insts :
        /\ i = req[r].inst /\ inst[i].of = SessionOf(r)
        /\ inst[i].actor # "off" /\ inst[i].proc = "off" /\ inst[i].actor # "starting"
  BY <1>1 DEF NamesOK, Using, Started, At
<1>3. PICK s \in Sessions : s = SessionOf(r)
  BY <1>1, CallTypes DEF AgentTyped
<1>a. /\ req[r].pc = "start" /\ Release(r)
      /\ UNCHANGED <<row, log, delivered, call, overlapped, cut, disconnecting, ev, lockOf>>
  BY DEF Started, At, callVars, hostVars
<1>4. registry' = IF inst[i].actor = "failed" THEN [registry EXCEPT ![s] = Nobody] ELSE registry
  BY <1>2, <1>3 DEF Started
<1>5. /\ req' \in [Requests -> ReqType]
      /\ req'[r].pc \in {"check", "rejected"}
      /\ req'[r].pc = "check" => req'[r].inst = i
      /\ \A q \in Requests : q # r => req'[q] = req[q]
  <2>1. PICK p \in {"check", "rejected"} : p = IF inst[i].actor = "up" THEN "check" ELSE "rejected"
    OBVIOUS
  <2>2. Goto(r, p)
    BY <1>2, <2>1 DEF Started
  <2> QED
    BY <1>1, <1>2, <2>1, <2>2, GotoFacts DEF Answers, InCall, AgentTyped
<1>6. /\ inst' \in [Insts -> InstType]
      /\ \A j \in Insts :
           /\ inst'[j].of = inst[j].of /\ inst'[j].actor = inst[j].actor /\ inst'[j].turn = inst[j].turn
           /\ inst'[j].queue = inst[j].queue /\ inst'[j].inbox = inst[j].inbox
           /\ inst'[j].status = inst[j].status /\ inst'[j].writes = inst[j].writes
           /\ inst'[j].resumedBusy = inst[j].resumedBusy /\ inst'[j].timer = inst[j].timer
           /\ j # i => inst'[j] = inst[j]
      /\ inst'[i].proc = IF inst[i].actor = "up" THEN "idle" ELSE "off"
  <2>1. PICK p \in {"idle", "off"} : p = IF inst[i].actor = "up" THEN "idle" ELSE "off"
    OBVIOUS
  <2>2. PICK x \in InstType : x = inst[i]
    BY <1>1 DEF AgentTyped
  <2>3. PICK y : y = [x EXCEPT !.proc = p]
    OBVIOUS
  <2>4. inst' = [inst EXCEPT ![i] = y]
    <3>1. inst' = [inst EXCEPT ![i] = [inst[i] EXCEPT !.proc = IF inst[i].actor = "up" THEN "idle" ELSE @]]
      BY <1>2 DEF Started
    <3> QED
      BY <1>2, <2>1, <2>2, <2>3, <3>1
  <2>5. /\ y \in InstType
        /\ y.of = x.of /\ y.actor = x.actor /\ y.turn = x.turn /\ y.queue = x.queue /\ y.inbox = x.inbox
        /\ y.status = x.status /\ y.writes = x.writes /\ y.resumedBusy = x.resumedBusy /\ y.timer = x.timer
        /\ y.proc = p
    BY <2>3 DEF InstType
  <2>6. inst' \in [Insts -> InstType] /\ inst'[i] = y /\ \A j \in Insts : j # i => inst'[j] = inst[j]
    BY <1>1, <2>4, <2>5, InstStep DEF AgentTyped
  <2> QED
    BY <2>1, <2>2, <2>5, <2>6
<1>7. /\ registry \in [Sessions -> Insts \cup {Nobody}] /\ Nobody \notin Insts
      /\ \A x \in Sessions : registry'[x] = registry[x] \/ registry'[x] = Nobody
      /\ \A x \in Sessions : x # s => registry'[x] = registry[x]
  BY <1>1, <1>4, AgentAssumption DEF AgentTyped
<1>8. \A q \in Requests : SessionOf(q)' = SessionOf(q) /\ SessionOf(q) \in Sessions
  BY <1>1, <1>a, CallTypes DEF SessionOf, AgentTyped
<1>b. \A x \in Sessions : Usable(x)' => Usable(x) /\ registry'[x] = registry[x]
  BY <1>a, <1>7 DEF Usable
<1>9. AgentTyped'
  BY <1>1, <1>a, <1>4, <1>5, <1>6, <1>7 DEF AgentTyped, HostTyped, Release
<1>10. NamesOK'
  <2>1. \A j \in Insts : inst'[j].actor = "off" => inst'[j] = Blank
    BY <1>1, <1>2, <1>6 DEF NamesOK
  <2>2. \A j \in Insts :
          inst'[j].of \in Sessions \/ (~ inst'[j].timer /\ ~ Live(j)' /\ inst'[j].proc \in {"off", "done"})
    BY <1>1, <1>2, <1>6, <1>8 DEF NamesOK, Live
  <2>3. \A x \in Sessions :
          registry'[x] # Nobody => inst'[registry'[x]].of = x /\ inst'[registry'[x]].actor # "off"
    BY <1>1, <1>6, <1>7 DEF NamesOK
  <2>4. \A x \in Sessions : x \in disconnecting' <=> ev'[x].at # "none"
    BY <1>1, <1>a, EvictedOf
  <2>5. \A x \in Sessions :
          ev'[x].at # "none" =>
            ev'[x].inst \in Insts /\ inst'[ev'[x].inst].of = x /\ inst'[ev'[x].inst].actor # "off"
    BY <1>1, <1>a, <1>6, EvictedOf
  <2>6. ASSUME NEW q \in Requests, req'[q].pc \in Using
        PROVE  req'[q].inst \in Insts /\ inst'[req'[q].inst].of = SessionOf(q) /\ inst'[req'[q].inst].actor # "off"
    <3>1. CASE q = r
      BY <1>2, <1>5, <1>6, <2>6, <3>1 DEF Using
    <3>2. CASE q # r
      BY <1>1, <1>5, <1>6, <2>6, <3>2 DEF NamesOK
    <3> QED
      BY <3>1, <3>2
  <2>7. ASSUME NEW q \in Requests, req'[q].pc = "start"
        PROVE  inst'[req'[q].inst].proc = "off"
    <3>1. q # r /\ req'[q] = req[q] /\ req[q].inst # i
      BY <1>1, <1>2, <1>a, <1>5, <2>7 DEF NamesOK
    <3> QED
      BY <1>1, <1>6, <2>7, <3>1 DEF NamesOK, Using
  <2>8. \A p, q \in Requests :
          req'[p].pc = "start" /\ req'[q].pc = "start" /\ req'[p].inst = req'[q].inst => p = q
    BY <1>1, <1>5 DEF NamesOK
  <2> QED
    BY <1>8, <2>1, <2>2, <2>3, <2>4, <2>5, <2>6, <2>7, <2>8 DEF NamesOK
<1>11. ActorQueueOK'
  <2>1. \A j \in Insts : inst[j].queue \in Seq(Requests \cup {"disconnect"})
    BY <1>1 DEF AgentTyped, InstType
  <2>2. \A q \in Requests : req[q].pc = "sent" => req'[q].pc = "sent" /\ req'[q].inst = req[q].inst
    BY <1>a, <1>5
  <2> QED
    BY <1>1, <1>a, <1>6, <2>1, <2>2, QueueFrame
<1>12. InboxOK'
  <2>1. ASSUME NEW j \in Insts, inst[j].inbox # <<>>, inst[j].of \in Sessions
        PROVE  registry'[inst[j].of] = j => registry[inst[j].of] = j
    BY <1>7, <2>1
  <2> QED
    BY <1>1, <1>a, <1>6, <2>1, InboxFrame
<1>13. LockOK'
  BY <1>1, <1>3, <1>a, <1>5, <1>7, <1>b, LockReleased DEF Holding, Connecting
<1>14. LeakOK'
  <2>1. ASSUME NEW x \in Sessions, ev'[x].at \in {"drain", "killed"}
        PROVE  ~ Live(ev[x].inst)'
    <3>1. PICK j \in Insts : j = ev[x].inst /\ j = ev'[x].inst
      BY <1>1, <1>a, <2>1, EvictedOf
    <3>2. ~ Live(j)'
      BY <1>1, <1>a, <1>6, <2>1, <3>1 DEF LeakOK, Live
    <3> QED
      BY <3>1, <3>2 DEF Live
  <2>2. ASSUME NEW j \in Insts, Live(j)', NEW x, x = inst'[j].of
        PROVE  \/ registry'[x] = j
               \/ x \in disconnecting' /\ (ev'[x].inst = j \/ registry'[x] # ev'[x].inst)
               \/ x \in overlapped'
    <3>1. Live(j) /\ x = inst[j].of /\ x \in Sessions
      BY <1>1, <1>6, <2>2, LiveOf DEF Live
    <3>2. \/ registry[x] = j
          \/ x \in disconnecting /\ (ev[x].inst = j \/ registry[x] # ev[x].inst)
          \/ x \in overlapped
      BY <1>1, <3>1 DEF LeakOK
    <3>3. CASE registry'[x] = registry[x]
      BY <1>a, <3>2, <3>3
    <3>4. CASE registry'[x] # registry[x]
      <4>1. x = s /\ inst[i].actor = "failed" /\ registry'[x] = Nobody
        BY <1>4, <1>7, <3>1, <3>4
      <4>2. i # j
        BY <3>1, <4>1 DEF Live
      <4>3. s \notin overlapped => registry[s] = i
        BY <1>1, <1>2, <1>3, <1>a DEF LockOK
      <4>4. s \in disconnecting => ev[s].inst \in Insts
        BY <1>1, EvictedOf
      <4> QED
        BY <1>a, <1>7, <3>2, <4>1, <4>2, <4>3, <4>4
    <3> QED
      BY <3>3, <3>4
  <2> QED
    BY <1>a, <2>1, <2>2 DEF LeakOK
<1>15. KeyLogOK'
  BY <1>1, <1>a, <1>5, EntryFrame DEF Owning, AgentTyped
<1>16. BusyOK'
  <2>1. \A j \in Insts : Caused(j) => Caused(j)'
    BY <1>2, <1>a, <1>5, <1>6, CausedFrame
  <2> QED
    BY <1>1, <1>b, <1>6, <1>7, <2>1, BusyFrame
<1>17. RowOK'
  <2>1. ASSUME NEW x \in Sessions PROVE RowCaused(x) => RowCaused(x)'
    <3>1. \A j \in Insts : Works(j) => Works(j)'
      BY <1>2, <1>6 DEF Works
    <3>2. \A q \in Requests : Wrote(q) => Wrote(q)'
      BY <1>a, <1>5 DEF Wrote
    <3>3. Settles(x) => Settles(x)'
      BY <1>1, <1>a, <1>6, EvictedOf DEF Settles, PersistsStatus
    <3> QED
      BY <1>a, <1>6, <3>1, <3>2, <3>3, RowCausedFrame DEF RowCaused
  <2>2. \A j \in Insts : inst'[j].proc \in {"final", "term"} => inst'[j].writes # "idle"
    BY <1>1, <1>6 DEF RowOK
  <2> QED
    BY <1>1, <1>a, <2>1, <2>2, RowFrame DEF RowOK
<1> QED
  BY <1>9, <1>10, <1>11, <1>12, <1>13, <1>14, <1>15, <1>16, <1>17 DEF SessionInv

-----------------------------------------------------------------------------
(* The end of an actor *)

\* What is in the queue of an instance: calls that wait there, and a disconnect
\* that its eviction waits for.
LEMMA QueuedFacts ==
  ASSUME ActorQueueOK, AgentTyped, NEW i \in Insts
  PROVE  /\ \A r \in Requests : r \in ToSet(inst[i].queue) => req[r].pc = "sent" /\ req[r].inst = i
         /\ "disconnect" \in ToSet(inst[i].queue) => ev[inst[i].of].at = "disconnect" /\ ev[inst[i].of].inst = i
         /\ ToSet(inst[i].queue) \subseteq Requests \cup {"disconnect"}
         /\ inst[i].queue # <<>> => ToSet(inst[i].queue) # {}
<1>1. inst[i] \in InstType /\ "disconnect" \notin Requests
  BY AgentAssumption DEF AgentTyped
<1>2. PICK q \in Seq(Requests \cup {"disconnect"}) : q = inst[i].queue
  BY <1>1 DEF InstType
<1>3. ASSUME NEW x \in ToSet(q)
      PROVE  /\ x \in Requests \cup {"disconnect"}
             /\ IF x = "disconnect"
                  THEN ev[inst[i].of].at = "disconnect" /\ ev[inst[i].of].inst = i
                  ELSE req[x].pc = "sent" /\ req[x].inst = i
  <2>1. PICK k \in 1..Len(q) : q[k] = x
    BY <1>3 DEF ToSet
  <2> QED
    BY <1>2, <2>1 DEF ActorQueueOK
<1>4. q # <<>> => ToSet(q) # {}
  <2>1. ASSUME q # <<>> PROVE q[1] \in ToSet(q)
    BY <2>1 DEF ToSet
  <2> QED
    BY <2>1
<1> QED
  BY <1>1, <1>2, <1>3, <1>4

\* The calls of a set that wait in the queue hear that it failed.
LEMMA FailFacts ==
  ASSUME AgentTyped, ActorQueueOK, NEW i \in Insts, NEW kept, kept \subseteq ToSet(inst[i].queue),
         req' = [r \in Requests |-> req'[r]],
         \A r \in Requests : req'[r] = IF r \in kept THEN [req[r] EXCEPT !.pc = "failed"] ELSE req[r]
  PROVE  /\ req' \in [Requests -> ReqType]
         /\ \A r \in Requests :
              \/ req'[r] = req[r] /\ r \notin kept
              \/ req[r].pc = "sent" /\ req[r].inst = i /\ req'[r].pc = "failed" /\ req'[r].inst = i
<1>1. ASSUME NEW r \in Requests
      PROVE  /\ req'[r] \in ReqType
             /\ \/ req'[r] = req[r] /\ r \notin kept
                \/ req[r].pc = "sent" /\ req[r].inst = i /\ req'[r].pc = "failed" /\ req'[r].inst = i
  <2>1. req[r] \in ReqType
    BY DEF AgentTyped
  <2>2. CASE r \in kept
    <3>1. req[r].pc = "sent" /\ req[r].inst = i
      BY <2>2, QueuedFacts
    <3>2. PICK y : y = [req[r] EXCEPT !.pc = "failed"]
      OBVIOUS
    <3>3. y \in ReqType /\ y.pc = "failed" /\ y.inst = req[r].inst
      BY <2>1, <3>2 DEF ReqType, InCall
    <3> QED
      BY <2>2, <3>1, <3>2, <3>3
  <2>3. CASE r \notin kept
    BY <2>1, <2>3
  <2> QED
    BY <2>2, <2>3
<1> QED
  BY <1>1

\* An instance is told of what ends it; nothing was told of an end while it lived.
LEMMA InboxAppended ==
  ASSUME InboxOK, AgentTyped, NEW i \in Insts, NEW notice \in Seq(ProcEnds \cup TurnResults),
         UNCHANGED <<registry, disconnecting>>, cut \subseteq cut',
         \A j \in Insts : j # i => inst'[j] = inst[j],
         inst'[i].inbox = inst[i].inbox \o notice, inst'[i].of = inst[i].of, inst'[i].proc = inst[i].proc,
         \/ (\A k \in 1..Len(notice) : notice[k] \in ProcEnds) /\ inst[i].of \in disconnecting /\ ~ Live(i)'
         \/ /\ (\A k \in 1..Len(notice) : notice[k] \notin ProcEnds) /\ Live(i)
            /\ (\A k \in 1..Len(notice) : notice[k] # "crash") \/ (Len(notice) <= 1 /\ ~ Live(i)')
  PROVE  InboxOK'
<1>1. ASSUME NEW j \in Insts, j # i
      PROVE  (Live(j)' <=> Live(j)) /\ (Hidden(j)' <=> Hidden(j)) /\ inst'[j] = inst[j]
  BY <1>1 DEF Live, Hidden
<1>2. inst[i].of \in disconnecting => Hidden(i)'
  BY DEF Hidden
<1>3. inst[i].proc = "term" => inst[i].of \in cut \/ ~ Live(i)
  BY DEF InboxOK
<1>4. ASSUME NEW j \in Insts, NEW k \in 1..Len(inst'[j].inbox), inst'[j].inbox[k] \in ProcEnds \cup {"crash"}
      PROVE  /\ ~ Live(j)'
             /\ \A n \in 1..Len(inst'[j].inbox) : k < n => inst'[j].inbox[n] \in ProcEnds
             /\ inst'[j].inbox[k] \in ProcEnds => Hidden(j)'
  <2>1. CASE j # i
    BY <1>1, <1>4, <2>1 DEF InboxOK
  <2>2. CASE j = i
    <3>1. PICK b \in Seq(ProcEnds \cup TurnResults) : b = inst[i].inbox
      BY DEF AgentTyped, InstType
    <3>2. PICK c : c = b \o notice /\ c = inst'[i].inbox
      BY <3>1
    <3>3. /\ Len(c) = Len(b) + Len(notice)
          /\ \A n \in 1..Len(c) :
               \/ n \in 1..Len(b) /\ c[n] = b[n]
               \/ n > Len(b) /\ n - Len(b) \in 1..Len(notice) /\ c[n] = notice[n - Len(b)]
      <4>1. /\ Len(b \o notice) = Len(b) + Len(notice) /\ Len(b) \in Nat /\ Len(notice) \in Nat
            /\ \A n \in 1..Len(b) + Len(notice) :
                 (b \o notice)[n] = IF n <= Len(b) THEN b[n] ELSE notice[n - Len(b)]
        OBVIOUS
      <4>2. /\ Len(c) = Len(b) + Len(notice)
            /\ \A n \in 1..Len(b) + Len(notice) : c[n] = IF n <= Len(b) THEN b[n] ELSE notice[n - Len(b)]
        BY <3>2, <4>1
      <4> QED
        BY <4>1, <4>2
    <3>4. ASSUME NEW m \in 1..Len(b), b[m] \in ProcEnds \cup {"crash"}
          PROVE  ~ Live(i) /\ \A n \in 1..Len(b) : m < n => b[n] \in ProcEnds
      BY <3>1, <3>4 DEF InboxOK
    <3>5. k \in 1..Len(c) /\ c[k] \in ProcEnds \cup {"crash"}
      BY <1>4, <2>2, <3>2
    <3>6. CASE /\ (\A m \in 1..Len(notice) : notice[m] \notin ProcEnds) /\ Live(i)
               /\ (\A m \in 1..Len(notice) : notice[m] # "crash") \/ (Len(notice) <= 1 /\ ~ Live(i)')
      <4>1. ~ (k \in 1..Len(b) /\ b[k] \in ProcEnds \cup {"crash"})
        BY <3>4, <3>6
      <4>2. k > Len(b) /\ k - Len(b) \in 1..Len(notice) /\ c[k] = notice[k - Len(b)]
        BY <3>3, <3>5, <4>1
      <4>3. c[k] = "crash" /\ c[k] \notin ProcEnds /\ Len(notice) <= 1 /\ ~ Live(i)'
        BY <3>5, <3>6, <4>2
      <4>4. Len(notice) \in Nat /\ Len(b) \in Nat
        OBVIOUS
      <4>5. ASSUME NEW n \in 1..Len(c) PROVE ~ (k < n)
        BY <3>3, <3>5, <4>2, <4>3, <4>4
      <4> QED
        BY <2>2, <3>2, <4>3, <4>5
    <3>7. CASE (\A m \in 1..Len(notice) : notice[m] \in ProcEnds) /\ inst[i].of \in disconnecting /\ ~ Live(i)'
      <4>1. ASSUME NEW n \in 1..Len(c), k < n PROVE c[n] \in ProcEnds
        <5>1. CASE n \notin 1..Len(b)
          <6>1. n - Len(b) \in 1..Len(notice) /\ c[n] = notice[n - Len(b)]
            BY <3>3, <5>1
          <6> QED
            BY <3>7, <6>1
        <5>2. CASE n \in 1..Len(b)
          <6>1. k \in 1..Len(b) /\ b[k] \in ProcEnds \cup {"crash"} /\ c[n] = b[n]
            BY <3>3, <3>5, <4>1, <5>2
          <6> QED
            BY <3>4, <4>1, <5>2, <6>1
        <5> QED
          BY <5>1, <5>2
      <4> QED
        BY <1>2, <2>2, <3>2, <3>7, <4>1
    <3> QED
      BY <3>6, <3>7
  <2> QED
    BY <2>1, <2>2
<1>5. ASSUME NEW j \in Insts, inst'[j].proc = "term"
      PROVE  inst'[j].of \in cut' \/ (~ Live(j)' /\ (inst'[j].inbox = <<>> \/ Hidden(j)'))
  <2>1. CASE j # i
    BY <1>1, <1>5, <2>1 DEF InboxOK
  <2>2. CASE j = i
    BY <1>2, <1>3, <1>5, <2>2
  <2> QED
    BY <2>1, <2>2
<1>6. ASSUME NEW j \in Insts, inst'[j].proc = "done", Live(j)'
      PROVE  inst'[j].of \in cut'
  <2>1. CASE j # i
    BY <1>1, <1>6, <2>1 DEF InboxOK
  <2>2. CASE j = i
    BY <1>6, <2>2 DEF InboxOK
  <2> QED
    BY <2>1, <2>2
<1> QED
  BY <1>4, <1>5, <1>6 DEF InboxOK

\* Instance i has ended, or an eviction goes on with one that has.
LEMMA ActorGone ==
  ASSUME SessionInv, NEW i \in Insts, NEW y \in InstType, NEW notice \in Seq(ProcEnds \cup TurnResults),
         inst' = [inst EXCEPT ![i] = y], inst[i].actor # "off",
         y.actor \in {"gone", "failed", "cancelled"}, y.of = inst[i].of, y.turn = Nobody, y.queue = <<>>,
         y.inbox = inst[i].inbox \o notice, y.proc = inst[i].proc, y.writes = inst[i].writes,
         y.timer = inst[i].timer, y.resumedBusy = inst[i].resumedBusy,
         UNCHANGED <<call, row, log, registry, disconnecting, lockOf, holder, overlapped, delivered>>,
         cut \subseteq cut',
         req' \in [Requests -> ReqType],
         \A r \in Requests :
           \/ req'[r] = req[r]
           \/ req[r].pc = "sent" /\ req[r].inst = i /\ req'[r].pc = "failed" /\ req'[r].inst = i,
         ev' \in [Sessions -> EvType],
         \A s \in Sessions :
           /\ ev'[s].at # "none" <=> ev[s].at # "none"
           /\ ev[s].at # "none" => ev'[s].inst = ev[s].inst
           /\ ev'[s] # ev[s] =>
                s = inst[i].of /\ ev[s].inst = i /\ ev[s].at \in {"disconnect", "stuck"},
         \/ (\A k \in 1..Len(notice) : notice[k] \in ProcEnds) /\ inst[i].of \in disconnecting
         \/ (\A k \in 1..Len(notice) : notice[k] \notin ProcEnds) /\ Len(notice) <= 1 /\ Live(i),
         inst[i].of \in disconnecting \/ (y.status = inst[i].status /\ (Caused(i) => Caused(i)')),
         y.status = inst[i].status \/ ev[inst[i].of].at \in {"disconnect", "stuck"},
         inst[i].turn # Nobody =>
           inst[i].of \in cut' \/ Settles(inst[i].of)' \/ \E k \in 1..Len(notice) : notice[k] \in TurnResults
  PROVE  SessionInv'
<1>1. AgentTyped /\ NamesOK /\ ActorQueueOK /\ InboxOK /\ LeakOK /\ LockOK /\ KeyLogOK /\ BusyOK /\ RowOK
  BY DEF SessionInv
<1>2. inst' \in [Insts -> InstType] /\ inst'[i] = y /\ \A j \in Insts : j # i => inst'[j] = inst[j]
  BY <1>1, InstStep DEF AgentTyped
<1>3. ~ Live(i)'
  BY <1>2 DEF Live
<1>4. AgentTyped'
  BY <1>1, <1>2 DEF AgentTyped, HostTyped
<1>5. NamesOK'
  <2>1. \A j \in Insts :
          /\ inst'[j].of = inst[j].of
          /\ inst'[j].actor = "off" => inst'[j] = inst[j]
          /\ inst'[j].actor \in {"starting", "up"} => inst[j].actor \in {"starting", "up"}
          /\ inst'[j].timer = inst[j].timer
          /\ inst'[j].proc = inst[j].proc
    BY <1>2
  <2>2. \A s \in Sessions : s \in disconnecting' <=> ev'[s].at # "none"
    BY <1>1, EvictedOf
  <2>3. \A r \in Requests :
          /\ req'[r].pc \in Using => req[r].pc \in Using /\ req'[r].inst = req[r].inst
          /\ req'[r].pc = "start" => req[r].pc = "start"
    BY DEF Using
  <2> QED
    BY <1>1, <2>1, <2>2, <2>3, OwnFrame DEF AgentTyped
<1>6. ActorQueueOK'
  <2>1. \A r \in Requests :
          req[r].pc = "sent" /\ req[r].inst # i => req'[r].pc = "sent" /\ req'[r].inst = req[r].inst
    OBVIOUS
  <2>2. \A j \in Insts : inst[j].queue \in Seq(Requests \cup {"disconnect"})
    BY <1>1 DEF AgentTyped, InstType
  <2>3. \A j \in Insts : \A k \in 1..Len(inst'[j].queue) :
          LET r == inst'[j].queue[k]
          IN IF r = "disconnect"
               THEN ev'[inst'[j].of].at = "disconnect" /\ ev'[inst'[j].of].inst = j
               ELSE req'[r].pc = "sent" /\ req'[r].inst = j
    <3>1. ASSUME NEW j \in Insts, j # i, NEW k \in 1..Len(inst[j].queue)
          PROVE  LET r == inst[j].queue[k]
                 IN IF r = "disconnect"
                      THEN ev'[inst[j].of].at = "disconnect" /\ ev'[inst[j].of].inst = j
                      ELSE req'[r].pc = "sent" /\ req'[r].inst = j
      <4>1. LET r == inst[j].queue[k]
            IN IF r = "disconnect"
                 THEN ev[inst[j].of].at = "disconnect" /\ ev[inst[j].of].inst = j
                 ELSE req[r].pc = "sent" /\ req[r].inst = j
        BY <1>1 DEF ActorQueueOK
      <4>2. inst[j].queue[k] \in Requests \cup {"disconnect"}
        BY <2>2
      <4>3. inst[j].of \in Sessions
        <5>1. inst[j].queue # <<>>
          OBVIOUS
        <5> QED
          BY <1>1, <5>1, LiveOf DEF ActorQueueOK
      <4> QED
        BY <2>1, <3>1, <4>1, <4>2, <4>3
    <3> QED
      BY <1>2, <3>1
  <2>4. \A j \in Insts : ~ Live(j)' => inst'[j].queue = <<>>
    BY <1>1, <1>2 DEF ActorQueueOK, Live
  <2>5. \A j \in Insts : inst'[j].actor # "up" => inst'[j].turn = Nobody
    BY <1>1, <1>2 DEF ActorQueueOK
  <2>6. \A j \in Insts : \A k, n \in 1..Len(inst'[j].queue) :
          inst'[j].queue[k] = inst'[j].queue[n] /\ inst'[j].queue[k] # "disconnect" => k = n
    BY <1>1, <1>2 DEF ActorQueueOK
  <2> QED
    BY <2>3, <2>4, <2>5, <2>6 DEF ActorQueueOK
<1>7. InboxOK'
  BY <1>1, <1>2, <1>3, InboxAppended
<1>8. LockOK'
  <2>1. \A r \in Requests :
          /\ req'[r].pc \in Connecting => req[r].pc \in Connecting
          /\ req[r].pc \in Connecting => req'[r] = req[r]
    BY DEF Connecting
  <2> QED
    BY <1>1, <2>1, LockFrame DEF AgentTyped
<1>9. LeakOK'
  <2>1. ASSUME NEW s \in Sessions, ev'[s].at \in {"drain", "killed"}
        PROVE  ~ Live(ev[s].inst)'
    <3>1. PICK j \in Insts : j = ev[s].inst /\ j = ev'[s].inst
      BY <1>1, <2>1, EvictedOf
    <3>2. ~ Live(j)'
      BY <1>1, <1>2, <1>3, <2>1, <3>1 DEF LeakOK, Live
    <3> QED
      BY <3>1, <3>2 DEF Live
  <2>2. ASSUME NEW j \in Insts, Live(j)', NEW x, x = inst'[j].of
        PROVE  \/ registry'[x] = j
               \/ x \in disconnecting' /\ (ev'[x].inst = j \/ registry'[x] # ev'[x].inst)
               \/ x \in overlapped'
    <3>1. j # i /\ Live(j) /\ x = inst[j].of /\ x \in Sessions
      BY <1>1, <1>2, <1>3, <2>2, LiveOf DEF Live
    <3>2. \/ registry[x] = j
          \/ x \in disconnecting /\ (ev[x].inst = j \/ registry[x] # ev[x].inst)
          \/ x \in overlapped
      BY <1>1, <3>1 DEF LeakOK
    <3>3. x \in disconnecting => ev'[x].inst = ev[x].inst
      BY <1>1, <3>1, EvictedOf
    <3> QED
      BY <3>2, <3>3
  <2> QED
    BY <2>1, <2>2 DEF LeakOK, Live
<1>10. KeyLogOK'
  <2>1. \A r \in Requests :
          /\ req'[r].pc \in Owning => req[r].pc \in Owning
          /\ req[r].pc \in Owning => req'[r].pc \in Owning
          /\ req[r].pc \in {"lost", "delivered"} => req'[r].pc = req[r].pc
    BY DEF Owning
  <2> QED
    BY <1>1, <2>1, EntryFrame DEF AgentTyped
<1>11. BusyOK'
  <2>1. \A j \in Insts : j # i => (Caused(j) => Caused(j)')
    BY <1>2 DEF Caused
  <2>2. \A s \in Sessions : Usable(s)' => Usable(s)
    BY DEF Usable
  <2>3. \A s \in Sessions : Usable(s) /\ registry[s] = i => inst[i].of = s /\ s \notin disconnecting
    BY <1>1, AgentAssumption DEF Usable, NamesOK
  <2>4. registry \in [Sessions -> Insts \cup {Nobody}]
    BY <1>1 DEF AgentTyped
  <2>5. ASSUME NEW s \in Sessions, NEW j \in Insts, Usable(s)', registry[s] = j, inst'[j].status = "running"
        PROVE  Caused(j)' \/ (inst[j].status = "running" /\ (Caused(j) => Caused(j)'))
    <3>1. CASE j # i
      BY <1>2, <2>1, <2>5, <3>1
    <3>2. CASE j = i
      BY <1>2, <2>2, <2>3, <2>5, <3>2
    <3> QED
      BY <3>1, <3>2
  <2> QED
    BY <1>1, <2>2, <2>4, <2>5, BusyFrame
<1>12. RowOK'
  <2>2. ASSUME NEW s \in Sessions PROVE Settles(s) => Settles(s)'
    <3> SUFFICES ASSUME Settles(s) PROVE Settles(s)'
      OBVIOUS
    <3>1. ev[s].at \in {"drain", "killed"} /\ PersistsStatus(ev[s].inst)
      BY DEF Settles
    <3>2. PICK j \in Insts : j = ev[s].inst /\ inst[j].of = s
      BY <1>1, <3>1, EvictedOf
    <3>3. ev'[s] = ev[s]
      BY <3>1
    <3>4. inst'[j].status = inst[j].status
      <4>1. CASE j # i
        BY <1>2, <4>1
      <4>2. CASE j = i
        BY <1>2, <3>1, <3>2, <4>2
      <4> QED
        BY <4>1, <4>2
    <3> QED
      BY <3>1, <3>2, <3>3, <3>4 DEF Settles, PersistsStatus
  <2>3. PICK b \in Seq(ProcEnds \cup TurnResults) : b = inst[i].inbox
    BY <1>1 DEF AgentTyped, InstType
  <2>4. PICK c : c = b \o notice /\ c = inst'[i].inbox
    BY <1>2, <2>3
  <2>5. /\ \A k \in 1..Len(b) : k \in 1..Len(c) /\ c[k] = b[k]
        /\ \A k \in 1..Len(notice) : Len(b) + k \in 1..Len(c) /\ c[Len(b) + k] = notice[k]
    <3>1. /\ Len(b \o notice) = Len(b) + Len(notice) /\ Len(b) \in Nat /\ Len(notice) \in Nat
          /\ \A n \in 1..Len(b) + Len(notice) :
               (b \o notice)[n] = IF n <= Len(b) THEN b[n] ELSE notice[n - Len(b)]
      OBVIOUS
    <3>2. PICK m \in Nat, n \in Nat : m = Len(b) /\ n = Len(notice)
      BY <3>1
    <3>3. /\ Len(c) = m + n
          /\ \A k \in 1..m + n : c[k] = IF k <= m THEN b[k] ELSE notice[k - m]
      BY <2>4, <3>1, <3>2
    <3>4. \A k \in 1..m : k \in 1..m + n /\ c[k] = b[k]
      BY <3>3
    <3>5. \A k \in 1..n : m + k \in 1..m + n /\ c[m + k] = notice[k]
      <4>1. ASSUME NEW k \in 1..n PROVE m + k \in 1..m + n /\ ~ (m + k <= m) /\ (m + k) - m = k
        OBVIOUS
      <4> QED
        BY <3>3, <4>1
    <3> QED
      BY <3>2, <3>3, <3>4, <3>5
  <2>6. ASSUME NEW s \in Sessions, inst[i].of = s, Works(i)
        PROVE  Works(i)' \/ s \in cut' \/ Settles(s)'
    <3>1. CASE inst[i].proc \in {"final", "term"}
      BY <1>2, <3>1 DEF Works
    <3>2. CASE inst[i].proc # "done" /\ \E k \in 1..Len(inst[i].inbox) : inst[i].inbox[k] \in TurnResults
      BY <2>3, <2>4, <2>5, <3>2, SMTT(30) DEF Works
    <3>3. CASE inst[i].turn # Nobody /\ inst[i].proc = "done"
      BY <1>1, <2>6, <3>3 DEF ActorQueueOK, InboxOK, Live
    <3>4. CASE inst[i].turn # Nobody /\ inst[i].proc # "done"
      <4>0. inst'[i].proc # "done"
        BY <1>2, <3>4
      <4>1. ASSUME NEW k \in 1..Len(notice), notice[k] \in TurnResults PROVE Works(i)'
        <5>1. PICK n \in 1..Len(c) : c[n] \in TurnResults
          BY <2>5, <4>1
        <5> QED
        BY <2>4, <4>0, <5>1 DEF Works
      <4>2. inst'[i].of = s
        BY <1>2, <2>6
      <4>3. Settles(inst[i].of)' => Settles(s)'
        BY <4>2 DEF Settles
      <4> QED
        BY <2>6, <3>4, <4>1, <4>3
    <3> QED
      BY <2>6, <3>1, <3>2, <3>3, <3>4 DEF Works
  <2>7. ASSUME NEW s \in Sessions PROVE RowCaused(s) => RowCaused(s)'
    <3>1. \A r \in Requests : (Wrote(r) => Wrote(r)') /\ SessionOf(r)' = SessionOf(r)
      BY DEF Wrote, SessionOf
    <3>2. CASE \E j \in Insts : inst[j].of = s /\ Works(j)
      <4>1. PICK j \in Insts : inst[j].of = s /\ Works(j)
        BY <3>2
      <4>2. CASE j = i
        <5>1. Works(i)' \/ s \in cut' \/ Settles(s)'
          BY <2>6, <4>1, <4>2
        <5>2. inst'[i].of = s
          BY <1>2, <4>1, <4>2
        <5> QED
          BY <5>1, <5>2 DEF RowCaused
      <4>3. CASE j # i
        <5>1. inst'[j].of = s /\ Works(j)'
          BY <1>2, <4>1, <4>3 DEF Works
        <5> QED
          BY <5>1 DEF RowCaused
      <4> QED
        BY <4>2, <4>3
    <3>3. CASE \E r \in Requests : Wrote(r) /\ SessionOf(r) = s
      BY <3>1, <3>3 DEF RowCaused
    <3>4. CASE s \in cut
      BY <3>4 DEF RowCaused
    <3>5. CASE Settles(s)
      BY <2>2, <3>5 DEF RowCaused
    <3> QED
      BY <3>2, <3>3, <3>4, <3>5 DEF RowCaused
  <2>8. \A j \in Insts : inst'[j].proc \in {"final", "term"} => inst'[j].writes # "idle"
    BY <1>1, <1>2 DEF RowOK
  <2> QED
    BY <1>1, <2>7, <2>8, RowFrame
<1> QED
  BY <1>4, <1>5, <1>6, <1>7, <1>8, <1>9, <1>10, <1>11, <1>12 DEF SessionInv

LEMMA GoneFacts ==
  ASSUME AgentTyped, NEW i \in Insts, NEW how \in {"gone", "failed"}, NEW notice \in Seq(ProcEnds \cup TurnResults),
         Gone(i, how, notice)
  PROVE  \E y \in InstType :
           /\ inst' = [inst EXCEPT ![i] = y]
           /\ y.actor = how /\ y.of = inst[i].of /\ y.turn = Nobody /\ y.queue = <<>>
           /\ y.inbox = inst[i].inbox \o notice /\ y.proc = inst[i].proc /\ y.writes = inst[i].writes
           /\ y.timer = inst[i].timer /\ y.resumedBusy = inst[i].resumedBusy /\ y.status = inst[i].status
<1>1. PICK x \in InstType : x = inst[i]
  BY DEF AgentTyped
<1>2. PICK b \in Seq(ProcEnds \cup TurnResults) : b = inst[i].inbox
  BY <1>1 DEF InstType
<1>3. PICK c \in Seq(ProcEnds \cup TurnResults) : c = b \o notice
  <2>1. b \o notice \in Seq(ProcEnds \cup TurnResults)
    OBVIOUS
  <2> QED
    BY <2>1
<1>4. PICK y : y = [x EXCEPT !.actor = how, !.turn = Nobody, !.queue = <<>>, !.inbox = c]
  OBVIOUS
<1>5. inst' = [inst EXCEPT ![i] = y]
  <2>1. inst' = [inst EXCEPT ![i] = [inst[i] EXCEPT !.actor = how, !.turn = Nobody, !.queue = <<>>, !.inbox = @ \o notice]]
    BY DEF Gone
  <2> QED
    BY <1>1, <1>2, <1>3, <1>4, <2>1
<1>6. <<>> \in Seq(Requests \cup {"disconnect"})
  OBVIOUS
<1>7. /\ y \in InstType
      /\ y.actor = how /\ y.of = x.of /\ y.turn = Nobody /\ y.queue = <<>> /\ y.inbox = c /\ y.proc = x.proc
      /\ y.writes = x.writes /\ y.timer = x.timer /\ y.resumedBusy = x.resumedBusy /\ y.status = x.status
  BY <1>4, <1>6 DEF InstType
<1> QED
  BY <1>1, <1>2, <1>3, <1>5, <1>7

LEMMA StartFailsInv == ASSUME SessionInv, NEW i \in Insts, StartFails(i) PROVE SessionInv'
<1>1. AgentTyped /\ NamesOK /\ ActorQueueOK
  BY DEF SessionInv
<1>2. /\ inst[i].actor = "starting" /\ Gone(i, "failed", <<>>) /\ FailQueued(i)
      /\ UNCHANGED <<call, row, log, registry, disconnecting, lockOf, holder, overlapped, delivered, ev, cut>>
  BY DEF StartFails, actorOthers
<1>3. PICK notice \in Seq(ProcEnds \cup TurnResults) : notice = <<>> /\ Gone(i, "failed", notice)
  <2>1. <<>> \in Seq(ProcEnds \cup TurnResults)
    OBVIOUS
  <2> QED
    BY <1>2, <2>1
<1>4. PICK y \in InstType :
           /\ inst' = [inst EXCEPT ![i] = y]
           /\ y.actor = "failed" /\ y.of = inst[i].of /\ y.turn = Nobody /\ y.queue = <<>>
           /\ y.inbox = inst[i].inbox \o notice /\ y.proc = inst[i].proc /\ y.writes = inst[i].writes
           /\ y.timer = inst[i].timer /\ y.resumedBusy = inst[i].resumedBusy /\ y.status = inst[i].status
  BY <1>1, <1>3, GoneFacts
<1>5. /\ req' \in [Requests -> ReqType]
      /\ \A r \in Requests :
           \/ req'[r] = req[r] /\ r \notin ToSet(inst[i].queue)
           \/ req[r].pc = "sent" /\ req[r].inst = i /\ req'[r].pc = "failed" /\ req'[r].inst = i
  <2>1. PICK kept : kept = ToSet(inst[i].queue)
    OBVIOUS
  <2>2. req' = [r \in Requests |-> IF r \in kept THEN [req[r] EXCEPT !.pc = "failed"] ELSE req[r]]
    BY <1>2, <2>1 DEF FailQueued
  <2>3. /\ kept \subseteq ToSet(inst[i].queue)
        /\ req' = [r \in Requests |-> req'[r]]
        /\ \A r \in Requests : req'[r] = IF r \in kept THEN [req[r] EXCEPT !.pc = "failed"] ELSE req[r]
    BY <2>1, <2>2
  <2> QED
    BY <1>1, <2>1, <2>3, FailFacts
<1>6. Live(i) /\ inst[i].turn = Nobody
  BY <1>1, <1>2 DEF Live, ActorQueueOK
<1>7. inst[i].of \in Sessions
  BY <1>1, <1>6, LiveOf
<1>8. inst[i].of \in disconnecting \/ (Caused(i) => Caused(i)')
  <2> SUFFICES ASSUME inst[i].of \notin disconnecting, Caused(i) PROVE Caused(i)'
    OBVIOUS
  <2>1. inst'[i] = y /\ y.inbox = inst[i].inbox
    <3>1. PICK b \in Seq(ProcEnds \cup TurnResults) : b = inst[i].inbox
      BY <1>1 DEF AgentTyped, InstType
    <3>2. b \o <<>> = b
      OBVIOUS
    <3> QED
      BY <1>1, <1>3, <1>4, <3>1, <3>2 DEF AgentTyped
  <2>2. CASE inst[i].queue # <<>>
    <3>1. PICK r : r \in ToSet(inst[i].queue)
      BY <1>1, <2>2, QueuedFacts
    <3>2. "disconnect" \notin ToSet(inst[i].queue)
      BY <1>1, <1>7, QueuedFacts, EvictedOf
    <3>3. r \in Requests
      BY <1>1, <3>1, <3>2, QueuedFacts
    <3>4. req'[r].pc = "failed" /\ req'[r].inst = i
      BY <1>5, <3>1, <3>3
    <3> QED
      BY <3>3, <3>4 DEF Caused
  <2>3. CASE inst[i].queue = <<>>
    BY <1>2, <1>4, <1>5, <1>6, <2>1, <2>3 DEF Caused
  <2> QED
    BY <2>2, <2>3
<1>9. ev' = ev /\ ev \in [Sessions -> EvType]
  BY <1>1, <1>2 DEF AgentTyped
<1>10. \A s \in Sessions :
         /\ ev'[s].at # "none" <=> ev[s].at # "none"
         /\ ev[s].at # "none" => ev'[s].inst = ev[s].inst
         /\ ev'[s] = ev[s]
  BY <1>9
<1>11. inst[i].actor # "off" /\ Len(notice) <= 1 /\ \A k \in 1..Len(notice) : notice[k] \notin ProcEnds
  BY <1>2, <1>3
<1> QED
  BY <1>2, <1>4, <1>5, <1>6, <1>8, <1>9, <1>10, <1>11, ActorGone, ZenonT(60)

LEMMA QueryFailsInv == ASSUME SessionInv, NEW i \in Insts, QueryFails(i) PROVE SessionInv'
<1>1. AgentTyped /\ NamesOK /\ ActorQueueOK /\ InboxOK
  BY DEF SessionInv
<1>2. /\ Live(i) /\ Gone(i, "gone", <<"crash">>) /\ FailQueued(i)
      /\ UNCHANGED <<call, row, log, registry, disconnecting, lockOf, holder, overlapped, delivered, ev, cut>>
  BY DEF QueryFails, HasQuery, Serving, Live, actorOthers
<1>3. PICK notice \in Seq(ProcEnds \cup TurnResults) : notice = <<"crash">> /\ Gone(i, "gone", notice)
  <2>1. <<"crash">> \in Seq(ProcEnds \cup TurnResults)
    BY DEF TurnResults
  <2> QED
    BY <1>2, <2>1
<1>4. PICK y \in InstType :
           /\ inst' = [inst EXCEPT ![i] = y]
           /\ y.actor = "gone" /\ y.of = inst[i].of /\ y.turn = Nobody /\ y.queue = <<>>
           /\ y.inbox = inst[i].inbox \o notice /\ y.proc = inst[i].proc /\ y.writes = inst[i].writes
           /\ y.timer = inst[i].timer /\ y.resumedBusy = inst[i].resumedBusy /\ y.status = inst[i].status
  BY <1>1, <1>3, GoneFacts
<1>5. /\ req' \in [Requests -> ReqType]
      /\ \A r \in Requests :
           \/ req'[r] = req[r]
           \/ req[r].pc = "sent" /\ req[r].inst = i /\ req'[r].pc = "failed" /\ req'[r].inst = i
  <2>1. PICK kept : kept = ToSet(inst[i].queue)
    OBVIOUS
  <2>2. req' = [r \in Requests |-> IF r \in kept THEN [req[r] EXCEPT !.pc = "failed"] ELSE req[r]]
    BY <1>2, <2>1 DEF FailQueued
  <2>3. /\ kept \subseteq ToSet(inst[i].queue)
        /\ req' = [r \in Requests |-> req'[r]]
        /\ \A r \in Requests : req'[r] = IF r \in kept THEN [req[r] EXCEPT !.pc = "failed"] ELSE req[r]
    BY <2>1, <2>2
  <2> QED
    BY <1>1, <2>1, <2>3, FailFacts
<1>6. /\ Len(notice) = 1 /\ notice[1] = "crash" /\ "crash" \notin ProcEnds /\ "crash" \in TurnResults
      /\ inst[i].inbox \o notice # <<>>
  <2>1. PICK b \in Seq(ProcEnds \cup TurnResults) : b = inst[i].inbox
    BY <1>1 DEF AgentTyped, InstType
  <2>2. b \o <<"crash">> # <<>>
    BY <2>1
  <2> QED
    BY <1>3, <2>1, <2>2 DEF ProcEnds, TurnResults
<1>7. Caused(i)'
  <2>1. inst'[i] = y
    BY <1>1, <1>4 DEF AgentTyped
  <2> QED
    BY <1>1, <1>2, <1>4, <1>6, <2>1 DEF Caused, InboxOK
<1>8. /\ \A k \in 1..Len(notice) : notice[k] \notin ProcEnds
      /\ Len(notice) <= 1
      /\ \E k \in 1..Len(notice) : notice[k] \in TurnResults
  BY <1>6
<1>9. ev' = ev /\ ev \in [Sessions -> EvType] /\ inst[i].actor # "off"
  BY <1>1, <1>2 DEF AgentTyped, Live
<1>10. \A s \in Sessions :
         /\ ev'[s].at # "none" <=> ev[s].at # "none"
         /\ ev[s].at # "none" => ev'[s].inst = ev[s].inst
         /\ ev'[s] = ev[s]
  BY <1>9
<1> QED
  BY <1>2, <1>4, <1>5, <1>7, <1>8, <1>9, <1>10, ActorGone, ZenonT(60)

LEMMA ActorDisconnectsInv == ASSUME SessionInv, NEW i \in Insts, ActorDisconnects(i) PROVE SessionInv'
<1>1. AgentTyped /\ NamesOK /\ ActorQueueOK
  BY DEF SessionInv
<1>2. /\ Live(i) /\ Gone(i, "gone", <<"exit">>) /\ FailQueued(i)
      /\ UNCHANGED <<call, row, log, registry, disconnecting, lockOf, holder, overlapped, delivered, ev>>
      /\ cut' = IF inst[i].turn # Nobody THEN cut \cup {inst[i].of} ELSE cut
  BY DEF ActorDisconnects, Serving, Live, actorOthers
<1>3. PICK notice \in Seq(ProcEnds \cup TurnResults) : notice = <<"exit">> /\ Gone(i, "gone", notice)
  <2>1. <<"exit">> \in Seq(ProcEnds \cup TurnResults)
    BY DEF ProcEnds
  <2> QED
    BY <1>2, <2>1
<1>4. PICK y \in InstType :
           /\ inst' = [inst EXCEPT ![i] = y]
           /\ y.actor = "gone" /\ y.of = inst[i].of /\ y.turn = Nobody /\ y.queue = <<>>
           /\ y.inbox = inst[i].inbox \o notice /\ y.proc = inst[i].proc /\ y.writes = inst[i].writes
           /\ y.timer = inst[i].timer /\ y.resumedBusy = inst[i].resumedBusy /\ y.status = inst[i].status
  BY <1>1, <1>3, GoneFacts
<1>5. /\ req' \in [Requests -> ReqType]
      /\ \A r \in Requests :
           \/ req'[r] = req[r]
           \/ req[r].pc = "sent" /\ req[r].inst = i /\ req'[r].pc = "failed" /\ req'[r].inst = i
  <2>1. PICK kept : kept = ToSet(inst[i].queue)
    OBVIOUS
  <2>2. req' = [r \in Requests |-> IF r \in kept THEN [req[r] EXCEPT !.pc = "failed"] ELSE req[r]]
    BY <1>2, <2>1 DEF FailQueued
  <2>3. /\ kept \subseteq ToSet(inst[i].queue)
        /\ req' = [r \in Requests |-> req'[r]]
        /\ \A r \in Requests : req'[r] = IF r \in kept THEN [req[r] EXCEPT !.pc = "failed"] ELSE req[r]
    BY <2>1, <2>2
  <2> QED
    BY <1>1, <2>1, <2>3, FailFacts
<1>6. inst[i].of \in Sessions
  BY <1>1, <1>2, LiveOf
<1>7. inst[i].of \in disconnecting
  <2>1. "disconnect" \in ToSet(inst[i].queue)
    <3>1. PICK q \in Seq(Requests \cup {"disconnect"}) : q = inst[i].queue
      BY <1>1 DEF AgentTyped, InstType
    <3>2. \E k \in 1..Len(q) : q[k] = "disconnect"
      <4>1. PICK n \in {1, 2} : Len(q) >= n /\ "disconnect" \in {q[1], q[n]}
        BY <3>1 DEF ActorDisconnects
      <4> QED
        BY <4>1
    <3> QED
      BY <3>1, <3>2 DEF ToSet
  <2> QED
    BY <1>1, <1>6, <2>1, QueuedFacts, EvictedOf
<1>8. \A k \in 1..Len(notice) : notice[k] \in ProcEnds
  BY <1>3 DEF ProcEnds
<1>9. ev' = ev /\ ev \in [Sessions -> EvType] /\ inst[i].actor # "off" /\ cut \subseteq cut'
      /\ (inst[i].turn # Nobody => inst[i].of \in cut')
  BY <1>1, <1>2 DEF AgentTyped, Live
<1>10. \A s \in Sessions :
         /\ ev'[s].at # "none" <=> ev[s].at # "none"
         /\ ev[s].at # "none" => ev'[s].inst = ev[s].inst
         /\ ev'[s] = ev[s]
  BY <1>9
<1> QED
  BY <1>2, <1>4, <1>5, <1>7, <1>8, <1>9, <1>10, ActorGone, ZenonT(60)

LEMMA ConcatFacts ==
  ASSUME NEW T, NEW a \in Seq(T), NEW b \in Seq(T)
  PROVE  /\ a \o b \in Seq(T) /\ Len(a \o b) = Len(a) + Len(b)
         /\ \A n \in 1..Len(a) + Len(b) : (a \o b)[n] = IF n <= Len(a) THEN a[n] ELSE b[n - Len(a)]
OBVIOUS

LEMMA RemovedFrom ==
  ASSUME NEW T, NEW q \in Seq(T), NEW k \in 1..Len(q)
  PROVE  ToSet(RemoveAt(q, k)) \subseteq ToSet(q)
<1>1. PICK a : a = SubSeq(q, 1, k - 1)
  OBVIOUS
<1>2. PICK b : b = SubSeq(q, k + 1, Len(q))
  OBVIOUS
<1>3. a \in Seq(T) /\ Len(a) = k - 1 /\ \A n \in 1..Len(a) : a[n] = q[n]
  BY <1>1
<1>4. b \in Seq(T) /\ Len(b) = Len(q) - k /\ \A n \in 1..Len(b) : b[n] = q[k + n]
  BY <1>2
<1>5. PICK c : c = a \o b /\ c = RemoveAt(q, k)
  BY <1>1, <1>2 DEF RemoveAt
<1>6. c \in Seq(T) /\ Len(c) = Len(a) + Len(b) /\ \A n \in 1..Len(c) : c[n] = IF n <= Len(a) THEN a[n] ELSE b[n - Len(a)]
  <2>1. a \o b \in Seq(T) /\ Len(a \o b) = Len(a) + Len(b)
        /\ \A n \in 1..Len(a) + Len(b) : (a \o b)[n] = IF n <= Len(a) THEN a[n] ELSE b[n - Len(a)]
    BY <1>3, <1>4, ConcatFacts
  <2> QED
    BY <1>5, <2>1
<1>7. ASSUME NEW n \in 1..Len(c) PROVE \E m \in 1..Len(q) : c[n] = q[m]
  <2>1. CASE n <= k - 1
    <3>1. n \in 1..Len(a) /\ n \in 1..Len(q)
      BY <1>3, <1>6, <2>1
    <3>2. c[n] = IF n <= Len(a) THEN a[n] ELSE b[n - Len(a)]
      BY <1>6
    <3>3. a[n] = q[n] /\ n <= Len(a)
      BY <1>3, <3>1
    <3>4. c[n] = q[n]
      BY <3>2, <3>3
    <3> QED
      BY <3>1, <3>4
  <2>2. CASE ~ (n <= k - 1)
    <3>1. n - Len(a) \in 1..Len(b) /\ k + (n - Len(a)) \in 1..Len(q)
      BY <1>3, <1>4, <1>6, <2>2
    <3>2. c[n] = IF n <= Len(a) THEN a[n] ELSE b[n - Len(a)]
      BY <1>6
    <3>3. ~ (n <= Len(a))
      BY <1>3, <2>2
    <3>4. c[n] = b[n - Len(a)]
      BY <3>2, <3>3
    <3>5. b[n - Len(a)] = q[k + (n - Len(a))]
      BY <1>4, <3>1
    <3> QED
      BY <3>1, <3>4, <3>5
  <2> QED
    BY <2>1, <2>2
<1>8. DOMAIN c = 1..Len(c) /\ DOMAIN q = 1..Len(q)
  BY <1>6
<1> QED
  BY <1>5, <1>7, <1>8 DEF ToSet

LEMMA ActorDiesInv == ASSUME SessionInv, NEW i \in Insts, ActorDies(i) PROVE SessionInv'
<1>1. AgentTyped /\ NamesOK /\ ActorQueueOK /\ InboxOK
  BY DEF SessionInv
<1>2. /\ Live(i) /\ Gone(i, "gone", <<"crash">>)
      /\ UNCHANGED <<call, row, log, registry, disconnecting, lockOf, holder, overlapped, delivered, cut>>
  BY DEF ActorDies, Serving, Live, hostVars
<1>3. PICK notice \in Seq(ProcEnds \cup TurnResults) : notice = <<"crash">> /\ Gone(i, "gone", notice)
  <2>1. <<"crash">> \in Seq(ProcEnds \cup TurnResults)
    BY DEF TurnResults
  <2> QED
    BY <1>2, <2>1
<1>4. PICK y \in InstType :
           /\ inst' = [inst EXCEPT ![i] = y]
           /\ y.actor = "gone" /\ y.of = inst[i].of /\ y.turn = Nobody /\ y.queue = <<>>
           /\ y.inbox = inst[i].inbox \o notice /\ y.proc = inst[i].proc /\ y.writes = inst[i].writes
           /\ y.timer = inst[i].timer /\ y.resumedBusy = inst[i].resumedBusy /\ y.status = inst[i].status
  BY <1>1, <1>3, GoneFacts
<1>5. PICK kept :
        /\ kept \subseteq ToSet(inst[i].queue)
        /\ req' = [r \in Requests |-> IF r \in kept THEN [req[r] EXCEPT !.pc = "failed"] ELSE req[r]]
        /\ ev' = IF "disconnect" \in ToSet(inst[i].queue) \ kept THEN [ev EXCEPT ![inst[i].of].at = "stuck"] ELSE ev
  <2>1. PICK q \in Seq(Requests \cup {"disconnect"}) : q = inst[i].queue
    BY <1>1 DEF AgentTyped, InstType
  <2>2. PICK k \in 0..IF Len(q) < 2 THEN Len(q) ELSE 2 :
          LET kept == IF k = 0 THEN ToSet(q) ELSE ToSet(RemoveAt(q, k))
          IN /\ req' = [r \in Requests |-> IF r \in kept THEN [req[r] EXCEPT !.pc = "failed"] ELSE req[r]]
             /\ ev' = IF "disconnect" \in ToSet(q) \ kept THEN [ev EXCEPT ![inst[i].of].at = "stuck"] ELSE ev
    BY <2>1 DEF ActorDies
  <2>3. PICK kept : kept = IF k = 0 THEN ToSet(q) ELSE ToSet(RemoveAt(q, k))
    OBVIOUS
  <2>4. kept \subseteq ToSet(q)
    <3>1. k # 0 => k \in 1..Len(q)
      OBVIOUS
    <3> QED
      BY <2>3, <3>1, RemovedFrom
  <2> QED
    BY <2>1, <2>2, <2>3, <2>4
<1>6. /\ req' \in [Requests -> ReqType]
      /\ \A r \in Requests :
           \/ req'[r] = req[r]
           \/ req[r].pc = "sent" /\ req[r].inst = i /\ req'[r].pc = "failed" /\ req'[r].inst = i
  <2>1. /\ kept \subseteq ToSet(inst[i].queue)
        /\ req' = [r \in Requests |-> req'[r]]
        /\ \A r \in Requests : req'[r] = IF r \in kept THEN [req[r] EXCEPT !.pc = "failed"] ELSE req[r]
    BY <1>5
  <2> QED
    BY <1>1, <2>1, FailFacts
<1>7. /\ Len(notice) = 1 /\ notice[1] = "crash" /\ "crash" \notin ProcEnds /\ "crash" \in TurnResults
      /\ inst[i].inbox \o notice # <<>>
  <2>1. PICK b \in Seq(ProcEnds \cup TurnResults) : b = inst[i].inbox
    BY <1>1 DEF AgentTyped, InstType
  <2>2. b \o <<"crash">> # <<>>
    BY <2>1
  <2> QED
    BY <1>3, <2>1, <2>2 DEF ProcEnds, TurnResults
<1>8. Caused(i)'
  <2>1. inst'[i] = y
    BY <1>1, <1>4 DEF AgentTyped
  <2> QED
    BY <1>1, <1>2, <1>4, <1>7, <2>1 DEF Caused, InboxOK
<1>9. /\ \A k \in 1..Len(notice) : notice[k] \notin ProcEnds
      /\ Len(notice) <= 1
      /\ \E k \in 1..Len(notice) : notice[k] \in TurnResults
      /\ inst[i].actor # "off" /\ inst[i].of \in Sessions
  BY <1>1, <1>2, <1>7, LiveOf DEF Live
<1>10. /\ ev' \in [Sessions -> EvType]
       /\ \A s \in Sessions :
           /\ ev'[s].at # "none" <=> ev[s].at # "none"
           /\ ev[s].at # "none" => ev'[s].inst = ev[s].inst
           /\ ev'[s] # ev[s] =>
                s = inst[i].of /\ ev[s].inst = i /\ ev[s].at \in {"disconnect", "stuck"}
  <2>1. CASE "disconnect" \in ToSet(inst[i].queue) \ kept
    <3>1. ev[inst[i].of].at = "disconnect" /\ ev[inst[i].of].inst = i
      BY <1>1, <2>1, QueuedFacts
    <3>2. PICK e \in EvType : e = ev[inst[i].of]
      BY <1>1, <1>9 DEF AgentTyped
    <3>3. PICK f : f = [e EXCEPT !.at = "stuck"]
      OBVIOUS
    <3>4. f \in EvType /\ f.at = "stuck" /\ f.inst = e.inst
      BY <3>3 DEF EvType
    <3>5. ev' = [ev EXCEPT ![inst[i].of] = f]
      BY <1>5, <2>1, <3>2, <3>3
    <3>6. ev \in [Sessions -> EvType]
      BY <1>1 DEF AgentTyped
    <3> QED
      BY <1>9, <3>1, <3>2, <3>4, <3>5, <3>6
  <2>2. CASE ~ ("disconnect" \in ToSet(inst[i].queue) \ kept)
    BY <1>1, <1>5, <2>2 DEF AgentTyped
  <2> QED
    BY <2>1, <2>2
<1> QED
  BY <1>2, <1>4, <1>6, <1>8, <1>9, <1>10, ActorGone

\* What DisconnectTimesOut and Disconnected do to the record of the eviction.
LEMMA EvictionDrains ==
  ASSUME AgentTyped, NamesOK, NEW s \in Sessions, DisconnectTimesOut(s) \/ Disconnected(s)
  PROVE  /\ ev[s].at \in {"disconnect", "stuck"} /\ (Disconnected(s) => ev[s].at = "disconnect")
         /\ ev' \in [Sessions -> EvType] /\ ev'[s].at = "drain" /\ ev'[s].inst = ev[s].inst
         /\ ev[s].inst \in Insts /\ inst[ev[s].inst].of = s /\ inst[ev[s].inst].actor # "off" /\ s \in disconnecting
         /\ \A x \in Sessions :
              /\ ev'[x].at # "none" <=> ev[x].at # "none"
              /\ ev[x].at # "none" => ev'[x].inst = ev[x].inst
              /\ x # s => ev'[x] = ev[x]
<1>1. PICK e \in EvType : e = ev[s]
  BY DEF AgentTyped
<1>2. PICK f : f = [e EXCEPT !.at = "drain"]
  OBVIOUS
<1>3. f \in EvType /\ f.at = "drain" /\ f.inst = e.inst
  BY <1>2 DEF EvType
<1>4. /\ ev[s].at \in {"disconnect", "stuck"} /\ (Disconnected(s) => ev[s].at = "disconnect")
      /\ ev' = [ev EXCEPT ![s].at = "drain"]
  BY ZenonT(60) DEF DisconnectTimesOut, Disconnected
<1>5. ev' = [ev EXCEPT ![s] = f] /\ ev \in [Sessions -> EvType]
  BY <1>1, <1>2, <1>4 DEF AgentTyped
<1> QED
  BY <1>1, <1>3, <1>4, <1>5, EvictedOf

LEMMA DisconnectTimesOutInv == ASSUME SessionInv, NEW s \in Sessions, DisconnectTimesOut(s) PROVE SessionInv'
<1>1. AgentTyped /\ NamesOK /\ ActorQueueOK
  BY DEF SessionInv
<1>2. ev[s].at \in {"disconnect", "stuck"}
  BY <1>1, EvictionDrains
<1>3. PICK i \in Insts : i = ev[s].inst /\ inst[i].of = s /\ inst[i].actor # "off" /\ s \in disconnecting
  BY <1>1, EvictionDrains
<1>4. /\ FailQueued(i)
      /\ UNCHANGED <<call, row, log, registry, disconnecting, lockOf, holder, overlapped, delivered, cut>>
  BY <1>3 DEF DisconnectTimesOut, callVars, hostVars
<1>5. PICK notice \in Seq(ProcEnds \cup TurnResults) :
        /\ notice = (IF inst[i].actor = "up" THEN <<"exit", "none">> ELSE <<"none">>)
        /\ \A k \in 1..Len(notice) : notice[k] \in ProcEnds
  <2>1. <<"exit", "none">> \in Seq(ProcEnds \cup TurnResults) /\ <<"none">> \in Seq(ProcEnds \cup TurnResults)
    BY DEF ProcEnds
  <2>2. /\ \A k \in 1..Len(<<"exit", "none">>) : <<"exit", "none">>[k] \in ProcEnds
        /\ \A k \in 1..Len(<<"none">>) : <<"none">>[k] \in ProcEnds
    BY DEF ProcEnds
  <2>3. CASE inst[i].actor = "up"
    BY <2>1, <2>2, <2>3
  <2>4. CASE inst[i].actor # "up"
    BY <2>1, <2>2, <2>4
  <2> QED
    BY <2>3, <2>4
<1>6. PICK a \in {"gone", "failed", "cancelled"} :
        a = IF inst[i].actor = "starting" THEN "cancelled" ELSE IF inst[i].actor = "up" THEN "gone" ELSE inst[i].actor
  <2>1. inst[i].actor \in {"off", "starting", "up", "gone", "failed", "cancelled"}
    BY <1>1 DEF AgentTyped, InstType
  <2> QED
    BY <1>3, <2>1
<1>7. PICK y \in InstType :
           /\ inst' = [inst EXCEPT ![i] = y]
           /\ y.actor = a /\ y.of = inst[i].of /\ y.turn = Nobody /\ y.queue = <<>>
           /\ y.inbox = inst[i].inbox \o notice /\ y.proc = inst[i].proc /\ y.writes = inst[i].writes
           /\ y.timer = inst[i].timer /\ y.resumedBusy = inst[i].resumedBusy /\ y.status = "interrupted"
  <2>1. PICK x \in InstType : x = inst[i]
    BY <1>1 DEF AgentTyped
  <2>2. PICK b \in Seq(ProcEnds \cup TurnResults) : b = inst[i].inbox
    BY <2>1 DEF InstType
  <2>3. PICK c \in Seq(ProcEnds \cup TurnResults) : c = b \o notice
    <3>1. b \o notice \in Seq(ProcEnds \cup TurnResults)
      OBVIOUS
    <3> QED
      BY <3>1
  <2>4. PICK y : y = [x EXCEPT !.status = "interrupted", !.actor = a, !.turn = Nobody, !.queue = <<>>, !.inbox = c]
    OBVIOUS
  <2>5. inst' = [inst EXCEPT ![i] = y]
    <3>1. inst' = [inst EXCEPT ![i] =
                     [inst[i] EXCEPT !.status = "interrupted",
                        !.actor = IF @ = "starting" THEN "cancelled" ELSE IF @ = "up" THEN "gone" ELSE @,
                        !.turn = Nobody, !.queue = <<>>,
                        !.inbox = @ \o (IF inst[i].actor = "up" THEN <<"exit", "none">> ELSE <<"none">>)]]
      BY <1>3 DEF DisconnectTimesOut
    <3> QED
      BY <1>5, <1>6, <2>1, <2>2, <2>3, <2>4, <3>1
  <2>6. <<>> \in Seq(Requests \cup {"disconnect"})
    OBVIOUS
  <2>7. /\ y \in InstType
        /\ y.actor = a /\ y.of = x.of /\ y.turn = Nobody /\ y.queue = <<>> /\ y.inbox = c /\ y.proc = x.proc
        /\ y.writes = x.writes /\ y.timer = x.timer /\ y.resumedBusy = x.resumedBusy /\ y.status = "interrupted"
    BY <2>4, <2>6 DEF InstType, Statuses
  <2> QED
    BY <2>1, <2>2, <2>3, <2>5, <2>7
<1>8. /\ req' \in [Requests -> ReqType]
      /\ \A r \in Requests :
           \/ req'[r] = req[r]
           \/ req[r].pc = "sent" /\ req[r].inst = i /\ req'[r].pc = "failed" /\ req'[r].inst = i
  <2>1. PICK kept : kept = ToSet(inst[i].queue)
    OBVIOUS
  <2>2. req' = [r \in Requests |-> IF r \in kept THEN [req[r] EXCEPT !.pc = "failed"] ELSE req[r]]
    BY <1>4, <2>1 DEF FailQueued
  <2>3. /\ kept \subseteq ToSet(inst[i].queue)
        /\ req' = [r \in Requests |-> req'[r]]
        /\ \A r \in Requests : req'[r] = IF r \in kept THEN [req[r] EXCEPT !.pc = "failed"] ELSE req[r]
    BY <2>1, <2>2
  <2> QED
    BY <1>1, <2>1, <2>3, FailFacts, SMTT(40)
<1>9. /\ ev' \in [Sessions -> EvType] /\ ev'[s].at = "drain" /\ ev'[s].inst = i
      /\ \A x \in Sessions :
           /\ ev'[x].at # "none" <=> ev[x].at # "none"
           /\ ev[x].at # "none" => ev'[x].inst = ev[x].inst
           /\ ev'[x] # ev[x] => x = inst[i].of /\ ev[x].inst = i /\ ev[x].at \in {"disconnect", "stuck"}
  BY <1>1, <1>3, EvictionDrains
<1>10. Settles(inst[i].of)'
  <2>1. inst'[i] = y
    BY <1>1, <1>7 DEF AgentTyped
  <2> QED
    BY <1>3, <1>7, <1>9, <2>1, SMTT(30) DEF Settles, PersistsStatus
<1>11. inst[i].of \in disconnecting /\ ev[inst[i].of].at \in {"disconnect", "stuck"}
  BY <1>2, <1>3
<1> QED
  BY <1>3, <1>4, <1>5, <1>6, <1>7, <1>8, <1>9, <1>10, <1>11, ActorGone, ZenonT(60)

LEMMA DisconnectedInv == ASSUME SessionInv, NEW s \in Sessions, Disconnected(s) PROVE SessionInv'
<1>1. AgentTyped /\ NamesOK /\ ActorQueueOK
  BY DEF SessionInv
<1>2. ev[s].at = "disconnect"
  BY <1>1, EvictionDrains
<1>3. PICK i \in Insts : i = ev[s].inst /\ inst[i].of = s /\ inst[i].actor # "off" /\ s \in disconnecting
  BY <1>1, EvictionDrains
<1>4. /\ ~ Live(i)
      /\ UNCHANGED <<call, row, log, registry, disconnecting, lockOf, holder, overlapped, delivered, cut, req>>
  BY <1>3 DEF Disconnected, HasLeft, callVars, hostVars
<1>5. PICK notice \in Seq(ProcEnds \cup TurnResults) : notice = <<"none">> /\ \A k \in 1..Len(notice) : notice[k] \in ProcEnds
  <2>1. <<"none">> \in Seq(ProcEnds \cup TurnResults) /\ \A k \in 1..Len(<<"none">>) : <<"none">>[k] \in ProcEnds
    BY DEF ProcEnds
  <2> QED
    BY <2>1
<1>6. /\ inst[i].queue = <<>> /\ inst[i].turn = Nobody /\ inst[i].actor \in {"gone", "failed", "cancelled"}
  BY <1>1, <1>3, <1>4 DEF ActorQueueOK, Live, AgentTyped, InstType
<1>7. PICK y \in InstType :
           /\ inst' = [inst EXCEPT ![i] = y]
           /\ y.actor = inst[i].actor /\ y.of = inst[i].of /\ y.turn = inst[i].turn /\ y.queue = inst[i].queue
           /\ y.inbox = inst[i].inbox \o notice /\ y.proc = inst[i].proc /\ y.writes = inst[i].writes
           /\ y.timer = inst[i].timer /\ y.resumedBusy = inst[i].resumedBusy
  <2>1. PICK x \in InstType : x = inst[i]
    BY <1>1 DEF AgentTyped
  <2>2. PICK b \in Seq(ProcEnds \cup TurnResults) : b = inst[i].inbox
    BY <2>1 DEF InstType
  <2>3. PICK c \in Seq(ProcEnds \cup TurnResults) : c = b \o notice /\ c = Append(b, "none")
    <3>1. b \o notice \in Seq(ProcEnds \cup TurnResults) /\ b \o <<"none">> = Append(b, "none")
      OBVIOUS
    <3> QED
      BY <1>5, <3>1
  <2>4. PICK y : y = [x EXCEPT !.status = "closed", !.inbox = c]
    OBVIOUS
  <2>5. inst' = [inst EXCEPT ![i] = y]
    <3>1. inst' = [inst EXCEPT ![i] = [inst[i] EXCEPT !.status = "closed", !.inbox = Append(@, "none")]]
      BY <1>3 DEF Disconnected
    <3> QED
      BY <2>1, <2>2, <2>3, <2>4, <3>1
  <2>6. /\ y \in InstType
        /\ y.actor = x.actor /\ y.of = x.of /\ y.turn = x.turn /\ y.queue = x.queue /\ y.inbox = c /\ y.proc = x.proc
        /\ y.writes = x.writes /\ y.timer = x.timer /\ y.resumedBusy = x.resumedBusy
    BY <2>4 DEF InstType, Statuses
  <2> QED
    BY <2>1, <2>2, <2>3, <2>5, <2>6
<1>8. /\ ev' \in [Sessions -> EvType]
      /\ \A x \in Sessions :
           /\ ev'[x].at # "none" <=> ev[x].at # "none"
           /\ ev[x].at # "none" => ev'[x].inst = ev[x].inst
           /\ ev'[x] # ev[x] => x = inst[i].of /\ ev[x].inst = i /\ ev[x].at \in {"disconnect", "stuck"}
  BY <1>1, <1>3, EvictionDrains
<1>9. req' \in [Requests -> ReqType] /\ \A r \in Requests : req'[r] = req[r]
  BY <1>1, <1>4 DEF AgentTyped
<1>10. inst[i].of \in disconnecting /\ ev[inst[i].of].at \in {"disconnect", "stuck"}
  BY <1>2, <1>3
<1> QED
  BY <1>3, <1>4, <1>5, <1>6, <1>7, <1>8, <1>9, <1>10, ActorGone

-----------------------------------------------------------------------------
(* An actor at work *)

LEMMA ActorStartsInv == ASSUME SessionInv, NEW i \in Insts, ActorStarts(i) PROVE SessionInv'
<1>1. AgentTyped /\ NamesOK /\ ActorQueueOK /\ InboxOK /\ LeakOK /\ LockOK /\ KeyLogOK /\ BusyOK /\ RowOK
  BY DEF SessionInv
<1>2. inst[i].actor = "starting" /\ inst' = [inst EXCEPT ![i].actor = "up"]
  BY DEF ActorStarts
<1>a. UNCHANGED <<row, log, delivered, call, overlapped, cut, registry, disconnecting, ev, lockOf, holder, req>>
  BY DEF ActorStarts, actorOthers
<1>3. /\ inst' \in [Insts -> InstType]
      /\ \A j \in Insts :
           /\ inst'[j].of = inst[j].of /\ inst'[j].turn = inst[j].turn /\ inst'[j].queue = inst[j].queue
           /\ inst'[j].inbox = inst[j].inbox /\ inst'[j].proc = inst[j].proc /\ inst'[j].status = inst[j].status
           /\ inst'[j].writes = inst[j].writes /\ inst'[j].resumedBusy = inst[j].resumedBusy
           /\ inst'[j].timer = inst[j].timer /\ (j # i => inst'[j] = inst[j])
      /\ inst'[i].actor = "up"
  <2>1. PICK x \in InstType : x = inst[i]
    BY <1>1 DEF AgentTyped
  <2>2. PICK y : y = [x EXCEPT !.actor = "up"]
    OBVIOUS
  <2>3. inst' = [inst EXCEPT ![i] = y]
    BY <1>2, <2>1, <2>2
  <2>4. /\ y \in InstType
        /\ y.of = x.of /\ y.turn = x.turn /\ y.queue = x.queue /\ y.inbox = x.inbox /\ y.status = x.status
        /\ y.writes = x.writes /\ y.resumedBusy = x.resumedBusy /\ y.timer = x.timer /\ y.proc = x.proc
        /\ y.actor = "up"
    BY <2>2 DEF InstType
  <2>5. inst' \in [Insts -> InstType] /\ inst'[i] = y /\ \A j \in Insts : j # i => inst'[j] = inst[j]
    BY <1>1, <2>3, <2>4, InstStep DEF AgentTyped
  <2> QED
    BY <2>1, <2>4, <2>5
<1>4. \A j \in Insts : Live(j)' <=> Live(j)
  BY <1>2, <1>3 DEF Live
<1>5. AgentTyped'
  BY <1>1, <1>a, <1>3 DEF AgentTyped, HostTyped
<1>6. NamesOK'
  BY <1>1, <1>2, <1>a, <1>3, OwnFrame DEF AgentTyped, NamesOK
<1>7. ActorQueueOK'
  <2>1. \A j \in Insts : inst[j].queue \in Seq(Requests \cup {"disconnect"})
    BY <1>1 DEF AgentTyped, InstType
  <2> QED
    BY <1>1, <1>2, <1>a, <1>3, <2>1, QueueFrame
<1>8. InboxOK'
  BY <1>1, <1>2, <1>a, <1>3, InboxFrame
<1>9. LockOK'
  BY <1>1, <1>a, LockFrame DEF AgentTyped
<1>10. LeakOK'
  <2>1. \A j \in Insts :
          inst'[j].actor \in {"starting", "up"} =>
            inst[j].actor \in {"starting", "up"} /\ inst'[j].of = inst[j].of /\ inst[j].of \in Sessions
    BY <1>1, <1>3, <1>4, LiveOf DEF Live
  <2> QED
    BY <1>1, <1>a, <2>1, LeakFrame, EvictedOf DEF AgentTyped
<1>11. KeyLogOK'
  BY <1>1, <1>a, EntryFrame DEF AgentTyped
<1>12. BusyOK'
  <2>1. \A j \in Insts : Caused(j) => Caused(j)'
    BY <1>a, <1>3, CausedFrame
  <2>2. \A s \in Sessions : Usable(s)' => Usable(s)
    BY <1>a DEF Usable
  <2> QED
    BY <1>1, <1>a, <1>3, <2>1, <2>2, BusyFrame DEF AgentTyped
<1>13. RowOK'
  <2>1. ASSUME NEW s \in Sessions PROVE RowCaused(s) => RowCaused(s)'
    <3>1. \A j \in Insts : Works(j) => Works(j)'
      BY <1>3 DEF Works
    <3>2. \A q \in Requests : Wrote(q) => Wrote(q)'
      BY <1>a DEF Wrote
    <3>3. Settles(s) => Settles(s)'
      BY <1>1, <1>a, <1>3, EvictedOf DEF Settles, PersistsStatus
    <3> QED
      BY <1>a, <1>3, <3>1, <3>2, <3>3, RowCausedFrame DEF RowCaused
  <2>2. \A j \in Insts : inst'[j].proc \in {"final", "term"} => inst'[j].writes # "idle"
    BY <1>1, <1>3 DEF RowOK
  <2> QED
    BY <1>1, <1>a, <2>1, <2>2, RowFrame
<1> QED
  BY <1>5, <1>6, <1>7, <1>8, <1>9, <1>10, <1>11, <1>12, <1>13 DEF SessionInv

LEMMA ActorResultInv == ASSUME SessionInv, NEW i \in Insts, ActorResult(i) PROVE SessionInv'
<1>1. AgentTyped /\ NamesOK /\ ActorQueueOK /\ InboxOK /\ LeakOK /\ LockOK /\ KeyLogOK /\ BusyOK /\ RowOK
  BY DEF SessionInv
<1>2. inst[i].actor = "up" /\ Live(i)
  BY DEF ActorResult, Serving, Live
<1>3. PICK st \in {"completed", "interrupted", "error"} :
        inst' = [inst EXCEPT ![i].turn = Nobody, ![i].inbox = Append(@, st)]
  BY DEF ActorResult
<1>a. UNCHANGED <<row, log, delivered, call, overlapped, cut, registry, disconnecting, ev, lockOf, holder, req>>
  BY DEF ActorResult, actorOthers
<1>4. PICK notice \in Seq(ProcEnds \cup TurnResults) :
        notice = <<st>> /\ Len(notice) = 1 /\ notice[1] = st /\ st \notin ProcEnds /\ st \in TurnResults
  <2>1. st \notin ProcEnds /\ st \in TurnResults
    BY DEF ProcEnds, TurnResults
  <2>2. <<st>> \in Seq(ProcEnds \cup TurnResults) /\ Len(<<st>>) = 1 /\ <<st>>[1] = st
    BY <2>1
  <2> QED
    BY <2>1, <2>2
<1>5. /\ inst' \in [Insts -> InstType]
      /\ \A j \in Insts :
           /\ inst'[j].of = inst[j].of /\ inst'[j].actor = inst[j].actor /\ inst'[j].queue = inst[j].queue
           /\ inst'[j].turn = inst[j].turn \/ inst'[j].turn = Nobody
           /\ inst'[j].proc = inst[j].proc /\ inst'[j].status = inst[j].status
           /\ inst'[j].writes = inst[j].writes /\ inst'[j].resumedBusy = inst[j].resumedBusy
           /\ inst'[j].timer = inst[j].timer /\ (j # i => inst'[j] = inst[j])
      /\ inst'[i].inbox = inst[i].inbox \o notice
      /\ inst'[i].inbox # <<>> /\ \E k \in 1..Len(inst'[i].inbox) : inst'[i].inbox[k] \in TurnResults
  <2>1. PICK x \in InstType : x = inst[i]
    BY <1>1 DEF AgentTyped
  <2>2. PICK b \in Seq(ProcEnds \cup TurnResults) : b = inst[i].inbox
    BY <2>1 DEF InstType
  <2>3. PICK c \in Seq(ProcEnds \cup TurnResults) :
          c = b \o notice /\ c = Append(b, st) /\ c # <<>> /\ Len(c) = Len(b) + 1 /\ c[Len(b) + 1] = st
    <3>1. st \in ProcEnds \cup TurnResults
      BY <1>4
    <3>2. /\ Append(b, st) \in Seq(ProcEnds \cup TurnResults) /\ b \o <<st>> = Append(b, st)
          /\ Append(b, st) # <<>> /\ Len(Append(b, st)) = Len(b) + 1 /\ Append(b, st)[Len(b) + 1] = st
      BY <3>1
    <3> QED
      BY <1>4, <3>2
  <2>4. PICK y : y = [x EXCEPT !.turn = Nobody, !.inbox = c]
    OBVIOUS
  <2>5. inst' = [inst EXCEPT ![i] = y]
    <3>1. inst' = [inst EXCEPT ![i] = [inst[i] EXCEPT !.turn = Nobody, !.inbox = Append(@, st)]]
      BY <1>3
    <3> QED
      BY <2>1, <2>2, <2>3, <2>4, <3>1
  <2>6. /\ y \in InstType
        /\ y.of = x.of /\ y.actor = x.actor /\ y.turn = Nobody /\ y.queue = x.queue /\ y.inbox = c
        /\ y.status = x.status /\ y.writes = x.writes /\ y.resumedBusy = x.resumedBusy /\ y.timer = x.timer
        /\ y.proc = x.proc
    BY <2>4 DEF InstType
  <2>7. inst' \in [Insts -> InstType] /\ inst'[i] = y /\ \A j \in Insts : j # i => inst'[j] = inst[j]
    BY <1>1, <2>5, <2>6, InstStep DEF AgentTyped
  <2>8. \E k \in 1..Len(c) : c[k] \in TurnResults
    <3>1. Len(b) + 1 \in 1..Len(c)
      BY <2>3
    <3> QED
      BY <1>4, <2>3, <3>1
  <2> QED
    BY <2>1, <2>2, <2>3, <2>6, <2>7, <2>8
<1>6. AgentTyped'
  BY <1>1, <1>a, <1>5 DEF AgentTyped, HostTyped
<1>7. NamesOK'
  BY <1>1, <1>2, <1>a, <1>5, OwnFrame DEF AgentTyped, NamesOK
<1>8. ActorQueueOK'
  <2>1. \A j \in Insts : inst[j].queue \in Seq(Requests \cup {"disconnect"})
    BY <1>1 DEF AgentTyped, InstType
  <2> QED
    BY <1>1, <1>a, <1>5, <2>1, QueueFrame
<1>9. InboxOK'
  <2>1. \A k \in 1..Len(notice) : notice[k] \notin ProcEnds /\ notice[k] # "crash"
    BY <1>4
  <2> QED
    BY <1>1, <1>2, <1>a, <1>5, <2>1, InboxAppended
<1>10. LockOK'
  BY <1>1, <1>a, LockFrame DEF AgentTyped
<1>11. LeakOK'
  <2>1. \A j \in Insts :
          inst'[j].actor \in {"starting", "up"} =>
            inst[j].actor \in {"starting", "up"} /\ inst'[j].of = inst[j].of /\ inst[j].of \in Sessions
    BY <1>1, <1>5, LiveOf DEF Live
  <2> QED
    BY <1>1, <1>a, <2>1, LeakFrame, EvictedOf DEF AgentTyped
<1>12. KeyLogOK'
  BY <1>1, <1>a, EntryFrame DEF AgentTyped
<1>13. BusyOK'
  <2>1. \A j \in Insts : j # i => (Caused(j) => Caused(j)')
    BY <1>a, <1>5 DEF Caused
  <2>2. Caused(i)'
    BY <1>1, <1>2, <1>a, <1>5 DEF Caused, InboxOK
  <2>3. \A s \in Sessions : Usable(s)' => Usable(s)
    BY <1>a DEF Usable
  <2> QED
    BY <1>1, <1>a, <1>5, <2>1, <2>2, <2>3, BusyFrame DEF AgentTyped
<1>14. RowOK'
  <2>1. ASSUME NEW s \in Sessions PROVE RowCaused(s) => RowCaused(s)'
    <3>1. ASSUME NEW j \in Insts, inst[j].of = s, Works(j) PROVE (inst'[j].of = s /\ Works(j)') \/ s \in cut'
      <4>1. CASE j # i
        BY <1>5, <3>1, <4>1 DEF Works
      <4>2. CASE j = i /\ inst[i].proc = "done"
        BY <1>1, <1>2, <1>a, <3>1, <4>2 DEF InboxOK
      <4>3. CASE j = i /\ inst[i].proc # "done"
        BY <1>5, <3>1, <4>3 DEF Works
      <4> QED
        BY <4>1, <4>2, <4>3
    <3>2. \A q \in Requests : Wrote(q) => Wrote(q)'
      BY <1>a DEF Wrote
    <3>3. Settles(s) => Settles(s)'
      BY <1>1, <1>a, <1>5, EvictedOf DEF Settles, PersistsStatus
    <3> QED
      BY <1>a, <1>5, <3>1, <3>2, <3>3, RowCausedFrame DEF RowCaused
  <2>2. \A j \in Insts : inst'[j].proc \in {"final", "term"} => inst'[j].writes # "idle"
    BY <1>1, <1>5 DEF RowOK
  <2> QED
    BY <1>1, <1>a, <2>1, <2>2, RowFrame
<1> QED
  BY <1>6, <1>7, <1>8, <1>9, <1>10, <1>11, <1>12, <1>13, <1>14 DEF SessionInv

LEMMA ActorQueryInv == ASSUME SessionInv, NEW i \in Insts, ActorQuery(i) PROVE SessionInv'
<1>1. AgentTyped /\ NamesOK /\ ActorQueueOK /\ InboxOK /\ LeakOK /\ LockOK /\ KeyLogOK /\ BusyOK /\ RowOK
  BY DEF SessionInv
<1>2. PICK q0 \in Seq(Requests \cup {"disconnect"}) : q0 = inst[i].queue
  BY <1>1 DEF AgentTyped, InstType
<1>3. PICK r : /\ r = q0[1] /\ q0 # <<>> /\ r # "disconnect" /\ inst[i].actor = "up"
               /\ inst' = [inst EXCEPT ![i].turn = r, ![i].queue = Tail(@)]
               /\ Goto(r, "delivered")
               /\ delivered' = [delivered EXCEPT ![KeyOf(r)] = @ + 1]
  <2>1. Head(inst[i].queue) = q0[1]
    BY <1>2 DEF ActorQuery, HasQuery
  <2> QED
    BY <1>2, <2>1 DEF ActorQuery, HasQuery, Serving
<1>a. UNCHANGED <<row, log, call, overlapped, cut, registry, disconnecting, ev, lockOf, holder>>
  BY DEF ActorQuery, actorOthers
<1>4. /\ 1 \in 1..Len(q0) /\ r \in Requests /\ req[r].pc = "sent" /\ req[r].inst = i
  <2>1. 1 \in 1..Len(q0) /\ r \in Requests
    BY <1>3
  <2>2. req[q0[1]].pc = "sent" /\ req[q0[1]].inst = i
    BY <1>1, <1>2, <1>3, <2>1 DEF ActorQueueOK
  <2> QED
    BY <1>3, <2>1, <2>2
<1>5. PICK t \in Seq(Requests \cup {"disconnect"}) :
        t = Tail(q0) /\ \A k \in 1..Len(t) : k + 1 \in 1..Len(q0) /\ t[k] = q0[k + 1]
  <2>1. /\ Tail(q0) \in Seq(Requests \cup {"disconnect"})
        /\ \A k \in 1..Len(Tail(q0)) : k + 1 \in 1..Len(q0) /\ Tail(q0)[k] = q0[k + 1]
    BY <1>3
  <2> QED
    BY <2>1
<1>6. PICK k0 \in Keys : k0 = KeyOf(r)
  BY <1>1, <1>4, CallTypes DEF AgentTyped
<1>7. /\ req' \in [Requests -> ReqType] /\ req'[r].pc = "delivered"
      /\ \A q \in Requests : q # r => req'[q] = req[q]
  BY <1>1, <1>3, <1>4, GotoFacts DEF Answers, AgentTyped
<1>8. /\ inst' \in [Insts -> InstType]
      /\ \A j \in Insts :
           /\ inst'[j].of = inst[j].of /\ inst'[j].actor = inst[j].actor /\ inst'[j].inbox = inst[j].inbox
           /\ inst'[j].proc = inst[j].proc /\ inst'[j].status = inst[j].status
           /\ inst'[j].writes = inst[j].writes /\ inst'[j].resumedBusy = inst[j].resumedBusy
           /\ inst'[j].timer = inst[j].timer /\ (j # i => inst'[j] = inst[j])
      /\ inst'[i].turn = r /\ inst'[i].queue = t
  <2>1. PICK x \in InstType : x = inst[i]
    BY <1>1 DEF AgentTyped
  <2>2. PICK y : y = [x EXCEPT !.turn = r, !.queue = t]
    OBVIOUS
  <2>3. inst' = [inst EXCEPT ![i] = y]
    <3>1. inst' = [inst EXCEPT ![i] = [inst[i] EXCEPT !.turn = r, !.queue = Tail(@)]]
      BY <1>3
    <3> QED
      BY <1>2, <1>5, <2>1, <2>2, <3>1
  <2>4. /\ y \in InstType
        /\ y.of = x.of /\ y.actor = x.actor /\ y.turn = r /\ y.queue = t /\ y.inbox = x.inbox
        /\ y.status = x.status /\ y.writes = x.writes /\ y.resumedBusy = x.resumedBusy /\ y.timer = x.timer
        /\ y.proc = x.proc
    BY <1>4, <2>2 DEF InstType
  <2>5. inst' \in [Insts -> InstType] /\ inst'[i] = y /\ \A j \in Insts : j # i => inst'[j] = inst[j]
    BY <1>1, <2>3, <2>4, InstStep DEF AgentTyped
  <2> QED
    BY <2>1, <2>4, <2>5
<1>9. /\ delivered' = [delivered EXCEPT ![k0] = @ + 1] /\ log[k0] = r /\ delivered[k0] = 0
      /\ delivered \in [Keys -> Nat] /\ log \in [Keys -> Requests \cup {Nobody}]
      /\ inst[i].of = SessionOf(r) /\ r # Nobody
  BY <1>1, <1>3, <1>4, <1>6, AgentAssumption DEF KeyLogOK, Owning, NamesOK, Using, AgentTyped, HostTyped
<1>10. AgentTyped'
  <2>1. delivered' \in [Keys -> Nat]
    BY <1>9
  <2> QED
    BY <1>1, <1>a, <1>7, <1>8, <2>1 DEF AgentTyped, HostTyped
<1>11. NamesOK'
  <2>1. \A q \in Requests :
          /\ req'[q].pc \in Using => req[q].pc \in Using /\ req'[q].inst = req[q].inst
          /\ req'[q].pc = "start" => req[q].pc = "start"
    BY <1>7 DEF Using
  <2>2. \A s \in Sessions : s \in disconnecting <=> ev[s].at # "none"
    BY <1>1, EvictedOf
  <2> QED
    BY <1>1, <1>3, <1>a, <1>8, <2>1, <2>2, OwnFrame DEF AgentTyped
<1>12. ActorQueueOK'
  <2>1. \A j \in Insts : ~ Live(j)' => inst'[j].queue = <<>>
    BY <1>1, <1>3, <1>8 DEF ActorQueueOK, Live
  <2>2. \A j \in Insts : inst'[j].actor # "up" => inst'[j].turn = Nobody
    BY <1>1, <1>3, <1>8 DEF ActorQueueOK
  <2>3. ASSUME NEW j \in Insts, NEW k \in 1..Len(inst'[j].queue)
        PROVE  LET x == inst'[j].queue[k]
               IN IF x = "disconnect"
                    THEN ev'[inst'[j].of].at = "disconnect" /\ ev'[inst'[j].of].inst = j
                    ELSE req'[x].pc = "sent" /\ req'[x].inst = j
    <3>1. CASE j # i
      <4>1. inst'[j] = inst[j] /\ inst[j].queue \in Seq(Requests \cup {"disconnect"})
        BY <1>1, <1>8, <3>1 DEF AgentTyped, InstType
      <4>2. inst[j].queue[k] \in Requests \cup {"disconnect"}
        BY <4>1
      <4>3. LET x == inst[j].queue[k]
            IN IF x = "disconnect"
                 THEN ev[inst[j].of].at = "disconnect" /\ ev[inst[j].of].inst = j
                 ELSE req[x].pc = "sent" /\ req[x].inst = j
        BY <1>1, <4>1 DEF ActorQueueOK
      <4> QED
        BY <1>a, <1>4, <1>7, <3>1, <4>1, <4>2, <4>3
    <3>2. CASE j = i
      <4>1. k \in 1..Len(t) /\ inst'[j].queue[k] = t[k]
        BY <1>8, <3>2
      <4>2. k + 1 \in 1..Len(q0) /\ t[k] = q0[k + 1] /\ k + 1 # 1
        BY <1>5, <4>1
      <4>3. LET x == q0[k + 1]
            IN IF x = "disconnect"
                 THEN ev[inst[i].of].at = "disconnect" /\ ev[inst[i].of].inst = i
                 ELSE req[x].pc = "sent" /\ req[x].inst = i
        BY <1>1, <1>2, <4>2 DEF ActorQueueOK
      <4>4. q0[k + 1] # r
        BY <1>1, <1>2, <1>3, <1>4, <4>2 DEF ActorQueueOK
      <4>5. q0[k + 1] \in Requests \cup {"disconnect"}
        BY <4>2
      <4> QED
        BY <1>a, <1>7, <1>8, <3>2, <4>1, <4>2, <4>3, <4>4, <4>5
    <3> QED
      BY <3>1, <3>2
  <2>4. ASSUME NEW j \in Insts, NEW k \in 1..Len(inst'[j].queue), NEW n \in 1..Len(inst'[j].queue),
               inst'[j].queue[k] = inst'[j].queue[n], inst'[j].queue[k] # "disconnect"
        PROVE  k = n
    <3>1. CASE j # i
      BY <1>1, <1>8, <2>4, <3>1 DEF ActorQueueOK
    <3>2. CASE j = i
      <4>1. k \in 1..Len(t) /\ n \in 1..Len(t) /\ t[k] = t[n] /\ t[k] # "disconnect"
        BY <1>8, <2>4, <3>2
      <4>2. k + 1 \in 1..Len(q0) /\ n + 1 \in 1..Len(q0) /\ q0[k + 1] = q0[n + 1] /\ q0[k + 1] # "disconnect"
        BY <1>5, <4>1
      <4>3. k + 1 = n + 1
        BY <1>1, <1>2, <4>2 DEF ActorQueueOK
      <4> QED
        BY <4>3
    <3> QED
      BY <3>1, <3>2
  <2> QED
    BY <2>1, <2>2, <2>3, <2>4 DEF ActorQueueOK
<1>13. InboxOK'
  BY <1>1, <1>a, <1>8, InboxFrame
<1>14. LockOK'
  BY <1>1, <1>a, <1>4, <1>7, LockFrame DEF AgentTyped, Connecting
<1>15. LeakOK'
  <2>1. \A j \in Insts :
          inst'[j].actor \in {"starting", "up"} =>
            inst[j].actor \in {"starting", "up"} /\ inst'[j].of = inst[j].of /\ inst[j].of \in Sessions
    BY <1>1, <1>8, LiveOf DEF Live
  <2> QED
    BY <1>1, <1>a, <2>1, LeakFrame, EvictedOf DEF AgentTyped
<1>16. KeyLogOK'
  <2>1. \A q \in Requests : KeyOf(q)' = KeyOf(q) /\ KeyOf(q) \in Keys
    BY <1>1, <1>a, CallTypes DEF KeyOf, AgentTyped
  <2>2. ASSUME NEW q \in Requests, req'[q].pc \in Owning
        PROVE  log[KeyOf(q)] = q /\ delivered'[KeyOf(q)] = 0
    <3>1. q # r /\ req[q].pc \in Owning
      BY <1>7, <2>2 DEF Owning
    <3>2. log[KeyOf(q)] = q /\ delivered[KeyOf(q)] = 0
      BY <1>1, <3>1 DEF KeyLogOK
    <3> QED
      BY <1>9, <2>1, <3>1, <3>2
  <2>3. ASSUME NEW x \in Keys, log[x] # Nobody
        PROVE  /\ KeyOf(log[x]) = x
               /\ req'[log[x]].pc \in Owning \cup {"unmark", "left", "lost", "delivered"}
               /\ req'[log[x]].pc = "delivered" => delivered'[x] = 1
    <3>1. PICK q \in Requests : q = log[x]
      BY <1>9, <2>3
    <3>2. KeyOf(q) = x /\ req[q].pc \in Owning \cup {"unmark", "left", "lost", "delivered"} /\ (req[q].pc = "delivered" => delivered[x] = 1)
      BY <1>1, <2>3, <3>1 DEF KeyLogOK
    <3>3. CASE q = r
      BY <1>6, <1>7, <1>9, <3>1, <3>2, <3>3
    <3>4. CASE q # r
      BY <1>7, <1>9, <3>1, <3>2, <3>4
    <3> QED
      BY <3>3, <3>4
  <2>4. \A x \in Keys : delivered'[x] \in {0, 1} /\ (delivered'[x] = 1 => log[x] # Nobody)
    BY <1>1, <1>9 DEF KeyLogOK
  <2>5. \A x \in Keys : KeyOf(log[x])' = KeyOf(log[x])
    BY <1>a DEF KeyOf
  <2> QED
    BY <1>a, <2>1, <2>2, <2>3, <2>4, <2>5 DEF KeyLogOK
<1>17. BusyOK'
  <2>1. \A j \in Insts : j # i => (Caused(j) => Caused(j)')
    BY <1>a, <1>4, <1>7, <1>8 DEF Caused
  <2>2. Caused(i)'
    BY <1>8, <1>9 DEF Caused
  <2>3. \A s \in Sessions : Usable(s)' => Usable(s)
    BY <1>a DEF Usable
  <2> QED
    BY <1>1, <1>a, <1>8, <2>1, <2>2, <2>3, BusyFrame DEF AgentTyped
<1>18. RowOK'
  <2>1. Works(i)'
    BY <1>8, <1>9 DEF Works
  <2>2. ASSUME NEW s \in Sessions, RowCaused(s) PROVE RowCaused(s)'
    <3>1. CASE \E j \in Insts : inst[j].of = s /\ Works(j)
      <4>1. PICK j \in Insts : inst[j].of = s /\ Works(j)
        BY <3>1
      <4>2. inst'[j].of = s /\ Works(j)'
        <5>1. CASE j = i
          BY <1>8, <2>1, <4>1, <5>1
        <5>2. CASE j # i
          BY <1>8, <4>1, <5>2 DEF Works
        <5> QED
          BY <5>1, <5>2
      <4> QED
        BY <4>2 DEF RowCaused
    <3>2. CASE \E q \in Requests : Wrote(q) /\ SessionOf(q) = s
      <4>1. PICK q \in Requests : Wrote(q) /\ SessionOf(q) = s
        BY <3>2
      <4>2. CASE q = r
        <5>1. inst'[i].of = s
          BY <1>8, <1>9, <4>1, <4>2
        <5> QED
          BY <2>1, <5>1 DEF RowCaused
      <4>3. CASE q # r
        <5>1. Wrote(q)' /\ SessionOf(q)' = s
          BY <1>a, <1>7, <4>1, <4>3 DEF Wrote, SessionOf
        <5> QED
          BY <5>1 DEF RowCaused
      <4> QED
        BY <4>2, <4>3
    <3>3. CASE s \in cut
      BY <1>a, <3>3 DEF RowCaused
    <3>4. CASE Settles(s)
      <4>1. Settles(s)'
        BY <1>1, <1>a, <1>8, <3>4, EvictedOf DEF Settles, PersistsStatus
      <4> QED
        BY <4>1 DEF RowCaused
    <3> QED
      BY <2>2, <3>1, <3>2, <3>3, <3>4 DEF RowCaused
  <2>3. \A j \in Insts : inst'[j].proc \in {"final", "term"} => inst'[j].writes # "idle"
    BY <1>1, <1>8 DEF RowOK
  <2> QED
    BY <1>1, <1>a, <2>2, <2>3, RowFrame
<1> QED
  BY <1>10, <1>11, <1>12, <1>13, <1>14, <1>15, <1>16, <1>17, <1>18 DEF SessionInv

-----------------------------------------------------------------------------
(* interrupt_session and _process_inbox *)

\* An instance is marked, with an error or the interrupt flag.
LEMMA MarkedInv ==
  ASSUME SessionInv, inst' \in [Insts -> InstType],
         UNCHANGED <<row, log, delivered, call, overlapped, cut, registry, disconnecting, ev, lockOf, holder, req>>,
         \A j \in Insts :
           /\ inst'[j].of = inst[j].of /\ inst'[j].actor = inst[j].actor /\ inst'[j].turn = inst[j].turn
           /\ inst'[j].queue = inst[j].queue /\ inst'[j].inbox = inst[j].inbox /\ inst'[j].proc = inst[j].proc
           /\ inst'[j].status = inst[j].status \/ inst'[j].status = "error"
           /\ inst'[j].writes = inst[j].writes
           /\ inst'[j].resumedBusy = inst[j].resumedBusy /\ inst'[j].timer = inst[j].timer
           /\ inst[j].actor = "off" => inst'[j] = inst[j]
  PROVE  SessionInv'
<1>1. AgentTyped /\ NamesOK /\ ActorQueueOK /\ InboxOK /\ LeakOK /\ LockOK /\ KeyLogOK /\ BusyOK /\ RowOK
  BY DEF SessionInv
<1>3. AgentTyped'
  BY <1>1 DEF AgentTyped, HostTyped
<1>4. NamesOK'
  BY <1>1, OwnFrame, EvictedOf DEF AgentTyped
<1>5. ActorQueueOK'
  BY <1>1, QueueFrame DEF AgentTyped, InstType
<1>6. InboxOK'
  BY <1>1, InboxFrame
<1>7. LockOK'
  BY <1>1, LockFrame DEF AgentTyped
<1>8. LeakOK'
  BY <1>1, LeakFrame, LiveOf, EvictedOf DEF AgentTyped, Live
<1>9. KeyLogOK'
  BY <1>1, EntryFrame DEF AgentTyped
<1>10. BusyOK'
  <2>1. \A j \in Insts : Caused(j) => Caused(j)'
    BY CausedFrame
  <2>2. \A x \in Sessions : Usable(x)' => Usable(x)
    BY DEF Usable
  <2> QED
    BY <1>1, <2>1, <2>2, BusyFrame DEF AgentTyped
<1>11. RowOK'
  <2>1. ASSUME NEW x \in Sessions PROVE RowCaused(x) => RowCaused(x)'
    <3>1. \A j \in Insts : Works(j) => Works(j)'
      BY DEF Works
    <3>2. \A q \in Requests : Wrote(q) => Wrote(q)'
      BY DEF Wrote
    <3>3. Settles(x) => Settles(x)'
      BY <1>1, EvictedOf DEF Settles, PersistsStatus
    <3> QED
      BY <3>1, <3>2, <3>3, RowCausedFrame DEF RowCaused
  <2>2. \A j \in Insts : inst'[j].proc \in {"final", "term"} => inst'[j].writes # "idle"
    BY <1>1 DEF RowOK
  <2> QED
    BY <1>1, <2>1, <2>2, RowFrame
<1> QED
  BY <1>3, <1>4, <1>5, <1>6, <1>7, <1>8, <1>9, <1>10, <1>11 DEF SessionInv

LEMMA InterruptInv == ASSUME SessionInv, NEW s \in Sessions, Interrupt(s) PROVE SessionInv'
<1>1. AgentTyped /\ NamesOK
  BY DEF SessionInv
<1>a. UNCHANGED <<row, log, delivered, call, overlapped, cut, registry, disconnecting, ev, lockOf, holder, req>>
  BY DEF Interrupt, interruptOthers
<1>2. /\ inst' \in [Insts -> InstType]
      /\ \A j \in Insts :
           /\ inst'[j].of = inst[j].of /\ inst'[j].actor = inst[j].actor /\ inst'[j].turn = inst[j].turn
           /\ inst'[j].queue = inst[j].queue /\ inst'[j].inbox = inst[j].inbox /\ inst'[j].proc = inst[j].proc
           /\ inst'[j].status = inst[j].status /\ inst'[j].writes = inst[j].writes
           /\ inst'[j].resumedBusy = inst[j].resumedBusy /\ inst'[j].timer = inst[j].timer
           /\ inst[j].actor = "off" => inst'[j] = inst[j]
  <2>1. CASE registry[s] # Nobody /\ inst[registry[s]].status = "running"
    <3>1. PICK i \in Insts : i = registry[s] /\ inst[i].actor # "off"
      BY <1>1, <2>1 DEF AgentTyped, NamesOK
    <3>2. PICK x \in InstType : x = inst[i]
      BY <1>1 DEF AgentTyped
    <3>3. PICK y : y = [x EXCEPT !.flag = TRUE]
      OBVIOUS
    <3>4. inst' = [inst EXCEPT ![i] = y]
      <4>1. inst' = [inst EXCEPT ![i] = [inst[i] EXCEPT !.flag = TRUE]]
        BY <2>1, <3>1 DEF Interrupt
      <4> QED
        BY <3>2, <3>3, <4>1
    <3>5. /\ y \in InstType
          /\ y.of = x.of /\ y.actor = x.actor /\ y.turn = x.turn /\ y.queue = x.queue /\ y.inbox = x.inbox
          /\ y.proc = x.proc /\ y.status = x.status /\ y.writes = x.writes /\ y.resumedBusy = x.resumedBusy
          /\ y.timer = x.timer
      BY <3>3 DEF InstType
    <3>6. inst' \in [Insts -> InstType] /\ inst'[i] = y /\ \A j \in Insts : j # i => inst'[j] = inst[j]
      BY <1>1, <3>4, <3>5, InstStep DEF AgentTyped
    <3> QED
      BY <3>1, <3>2, <3>5, <3>6
  <2>2. CASE ~ (registry[s] # Nobody /\ inst[registry[s]].status = "running")
    <3>1. inst' = inst
      BY <2>2 DEF Interrupt
    <3> QED
      BY <1>1, <3>1 DEF AgentTyped
  <2> QED
    BY <2>1, <2>2
<1> QED
  BY <1>a, <1>2, MarkedInv

LEMMA InterruptFailsInv == ASSUME SessionInv, NEW s \in Sessions, InterruptFails(s) PROVE SessionInv'
<1>1. AgentTyped
  BY DEF SessionInv
<1>2. PICK i : i = intr[s].inst
  OBVIOUS
<1>3. /\ inst[i].actor \in {"gone", "failed", "cancelled"} /\ inst' = [inst EXCEPT ![i].status = "error"]
      /\ UNCHANGED <<row, log, delivered, call, overlapped, cut, registry, disconnecting, ev, lockOf, holder, req>>
  BY <1>2 DEF InterruptFails, interruptOthers
<1>4. CASE i \notin Insts
  <2>1. inst' = inst
    BY <1>1, <1>3, <1>4 DEF AgentTyped
  <2> QED
    BY <1>1, <1>3, <2>1, MarkedInv DEF AgentTyped
<1>5. CASE i \in Insts
  <2>1. PICK x \in InstType : x = inst[i]
    BY <1>1, <1>5 DEF AgentTyped
  <2>2. PICK y : y = [x EXCEPT !.status = "error"]
    OBVIOUS
  <2>3. /\ y \in InstType
        /\ y.of = x.of /\ y.actor = x.actor /\ y.turn = x.turn /\ y.queue = x.queue /\ y.inbox = x.inbox
        /\ y.proc = x.proc /\ y.status = "error" /\ y.writes = x.writes /\ y.resumedBusy = x.resumedBusy
        /\ y.timer = x.timer
    BY <2>2 DEF InstType, Statuses
  <2>4. inst' = [inst EXCEPT ![i] = y]
    BY <1>3, <2>1, <2>2
  <2>5. inst' \in [Insts -> InstType] /\ inst'[i] = y /\ \A j \in Insts : j # i => inst'[j] = inst[j]
    BY <1>1, <1>5, <2>3, <2>4, InstStep DEF AgentTyped
  <2>6. \A j \in Insts :
          /\ inst'[j].of = inst[j].of /\ inst'[j].actor = inst[j].actor /\ inst'[j].turn = inst[j].turn
          /\ inst'[j].queue = inst[j].queue /\ inst'[j].inbox = inst[j].inbox /\ inst'[j].proc = inst[j].proc
          /\ inst'[j].status = inst[j].status \/ inst'[j].status = "error"
          /\ inst'[j].writes = inst[j].writes
          /\ inst'[j].resumedBusy = inst[j].resumedBusy /\ inst'[j].timer = inst[j].timer
          /\ inst[j].actor = "off" => inst'[j] = inst[j]
    BY <1>3, <2>1, <2>3, <2>5
  <2> QED
    BY <1>3, <2>5, <2>6, MarkedInv
<1> QED
  BY <1>4, <1>5

LEMMA InterruptWriteInv == ASSUME SessionInv, NEW s \in Sessions, InterruptWrite(s) PROVE SessionInv'
<1>1. AgentTyped /\ NamesOK /\ LockOK /\ KeyLogOK /\ RowOK
  BY DEF SessionInv
<1>2. row' = [row EXCEPT ![s] = "interrupted"]
  BY DEF InterruptWrite
<1>a. UNCHANGED <<log, delivered, call, overlapped, cut, registry, disconnecting, ev, lockOf, holder, req, inst>>
  BY DEF InterruptWrite, interruptOthers
<1>3. AgentTyped'
  BY <1>1, <1>2, <1>a DEF AgentTyped, HostTyped, Statuses
<1>4. NamesOK' /\ ActorQueueOK' /\ InboxOK' /\ LeakOK' /\ BusyOK'
  BY <1>1, <1>a, CallFrame DEF NamesOK
<1>5. LockOK'
  BY <1>1, <1>a, LockFrame DEF AgentTyped
<1>6. KeyLogOK'
  BY <1>1, <1>a, EntryFrame DEF AgentTyped
<1>7. RowOK'
  <2>1. \A x \in Sessions : row'[x] = "running" => row[x] = "running"
    BY <1>1, <1>2 DEF AgentTyped, HostTyped
  <2> QED
    BY <1>1, <1>a, <2>1, RowKept DEF Wrote
<1> QED
  BY <1>3, <1>4, <1>5, <1>6, <1>7 DEF SessionInv

\* The processor is done with what is in the inbox.
LEMMA DoneFacts ==
  ASSUME NEW x \in InstType, NEW y, y = ProcDone(x)
  PROVE  /\ y \in InstType
         /\ y.of = x.of /\ y.actor = x.actor /\ y.turn = x.turn /\ y.queue = x.queue /\ y.inbox = <<>>
         /\ y.proc = "done" /\ y.status = x.status /\ y.writes = "idle" /\ y.resumedBusy = x.resumedBusy
         /\ y.timer = x.timer
<1>1. <<>> \in Seq(ProcEnds \cup TurnResults)
  OBVIOUS
<1>2. y = [x EXCEPT !.inbox = <<>>, !.writes = "idle", !.flag = FALSE, !.proc = "done"]
  BY DEF ProcDone
<1> QED
  BY <1>1, <1>2 DEF InstType

\* The processor of instance i goes on with its inbox: what is taken is the head,
\* or everything once the end is processed.
LEMMA InboxTaken ==
  ASSUME InboxOK, NEW i \in Insts, UNCHANGED <<registry, disconnecting>>, cut \subseteq cut',
         \A j \in Insts :
           /\ inst'[j].of = inst[j].of /\ inst'[j].actor = inst[j].actor
           /\ j # i => inst'[j].inbox = inst[j].inbox /\ inst'[j].proc = inst[j].proc,
         \/ inst'[i].inbox = <<>>
         \/ \E d \in Nat :
              \A k \in 1..Len(inst'[i].inbox) :
                k + d \in 1..Len(inst[i].inbox) /\ inst'[i].inbox[k] = inst[i].inbox[k + d],
         inst'[i].proc = "term" => inst[i].of \in cut' \/ (~ Live(i) /\ (inst'[i].inbox = <<>> \/ Hidden(i))),
         inst'[i].proc = "done" /\ Live(i) => inst[i].of \in cut'
  PROVE  InboxOK'
<1>1. \A j \in Insts : (Live(j)' <=> Live(j)) /\ (Hidden(j)' <=> Hidden(j))
  BY DEF Live, Hidden
<1>2. ASSUME NEW j \in Insts, NEW k \in 1..Len(inst'[j].inbox), inst'[j].inbox[k] \in ProcEnds \cup {"crash"}
      PROVE  /\ ~ Live(j)'
             /\ \A n \in 1..Len(inst'[j].inbox) : k < n => inst'[j].inbox[n] \in ProcEnds
             /\ inst'[j].inbox[k] \in ProcEnds => Hidden(j)'
  <2>1. CASE j # i
    BY <1>1, <1>2, <2>1 DEF InboxOK
  <2>2. CASE j = i
    <3>0. inst'[i].inbox # <<>>
      <4>1. ASSUME inst'[i].inbox = <<>> PROVE FALSE
        <5>1. k \in 1..Len(<<>>)
          BY <2>2, <4>1
        <5> QED
          BY <5>1
      <4> QED
        BY <4>1
    <3>1. PICK d \in Nat :
              \A m \in 1..Len(inst'[i].inbox) :
                m + d \in 1..Len(inst[i].inbox) /\ inst'[i].inbox[m] = inst[i].inbox[m + d]
      BY <3>0
    <3>2. k + d \in 1..Len(inst[i].inbox) /\ inst[i].inbox[k + d] \in ProcEnds \cup {"crash"} /\ inst'[i].inbox[k] = inst[i].inbox[k + d]
      BY <1>2, <2>2, <3>1
    <3>3. /\ ~ Live(i)
          /\ \A n \in 1..Len(inst[i].inbox) : k + d < n => inst[i].inbox[n] \in ProcEnds
          /\ inst[i].inbox[k + d] \in ProcEnds => Hidden(i)
      BY <3>2 DEF InboxOK
    <3>4. ASSUME NEW n \in 1..Len(inst'[i].inbox), k < n PROVE inst'[i].inbox[n] \in ProcEnds
      <4>1. n + d \in 1..Len(inst[i].inbox) /\ inst'[i].inbox[n] = inst[i].inbox[n + d]
        BY <3>1, <3>4
      <4>2. k \in Int /\ n \in Int
        OBVIOUS
      <4>3. k + d < n + d
        BY <3>4, <4>2
      <4> QED
        BY <3>3, <4>1, <4>3
    <3> QED
      BY <1>1, <2>2, <3>2, <3>3, <3>4
  <2> QED
    BY <2>1, <2>2
<1>3. ASSUME NEW j \in Insts, inst'[j].proc = "term"
      PROVE  inst'[j].of \in cut' \/ (~ Live(j)' /\ (inst'[j].inbox = <<>> \/ Hidden(j)'))
  <2>1. CASE j # i
    BY <1>1, <1>3, <2>1 DEF InboxOK
  <2>2. CASE j = i
    BY <1>1, <1>3, <2>2
  <2> QED
    BY <2>1, <2>2
<1>4. ASSUME NEW j \in Insts, inst'[j].proc = "done", Live(j)'
      PROVE  inst'[j].of \in cut'
  <2>1. CASE j # i
    BY <1>1, <1>4, <2>1 DEF InboxOK
  <2>2. CASE j = i
    BY <1>1, <1>4, <2>2
  <2> QED
    BY <2>1, <2>2
<1> QED
  BY <1>2, <1>3, <1>4 DEF InboxOK

\* What the processor of instance i leaves alone.
LEMMA ProcFrame ==
  ASSUME SessionInv, NEW i \in Insts, inst[i].proc # "off",
         inst' \in [Insts -> InstType], ev' \in [Sessions -> EvType],
         UNCHANGED <<call, log, delivered, overlapped, registry, disconnecting, lockOf, holder, req>>,
         \A j \in Insts :
           /\ inst'[j].of = inst[j].of /\ inst'[j].actor = inst[j].actor /\ inst'[j].turn = inst[j].turn
           /\ inst'[j].queue = inst[j].queue /\ inst'[j].resumedBusy = inst[j].resumedBusy
           /\ inst'[j].timer => inst[j].timer \/ (inst[j].of \in Sessions /\ inst[j].actor # "off")
           /\ j # i => inst'[j].proc = inst[j].proc
           /\ inst[j].actor = "off" => inst'[j] = inst[j],
         inst'[i].proc # "off",
         inst'[i].proc = "done" \/ inst[i].proc # "done",
         \A s \in Sessions :
           /\ ev'[s].inst = ev[s].inst
           /\ ev'[s].at = ev[s].at \/ (ev[s].at = "drain" /\ ev'[s].at = "killed")
  PROVE  NamesOK' /\ ActorQueueOK' /\ LockOK' /\ LeakOK' /\ KeyLogOK'
<1>1. AgentTyped /\ NamesOK /\ ActorQueueOK /\ InboxOK /\ LeakOK /\ LockOK /\ KeyLogOK
  BY DEF SessionInv
<1>2. NamesOK'
  <2>1. \A s \in Sessions : (s \in disconnecting' <=> ev'[s].at # "none") /\ (ev'[s].at # "none" => ev[s].at # "none")
    BY <1>1, EvictedOf
  <2>2. \A j \in Insts :
          inst'[j].proc \in {"off", "done"} \/ inst[j].proc \notin {"off", "done"} \/ inst[j].of \in Sessions
    OBVIOUS
  <2> QED
    BY <1>1, <2>1, <2>2, OwnFrame DEF AgentTyped
<1>3. ActorQueueOK'
  <2>1. \A j \in Insts : inst[j].queue # <<>> => inst[j].of \in Sessions
    BY <1>1, LiveOf DEF ActorQueueOK
  <2>2. ASSUME NEW j \in Insts, inst[j].queue # <<>>, ev[inst[j].of].at = "disconnect"
        PROVE  ev'[inst[j].of] = ev[inst[j].of]
    <3>1. PICK s \in Sessions : s = inst[j].of
      BY <2>1, <2>2
    <3>2. ev'[s].at = ev[s].at /\ ev'[s].inst = ev[s].inst
      BY <2>2, <3>1
    <3>3. ev'[s] \in EvType /\ ev[s] \in EvType
      BY <1>1 DEF AgentTyped
    <3>4. ev'[s] = ev[s]
      BY <3>2, <3>3 DEF EvType
    <3> QED
      BY <3>1, <3>4
  <2> QED
    BY <1>1, <2>2, QueueFrame DEF AgentTyped, InstType
<1>4. LockOK'
  BY <1>1, LockFrame DEF AgentTyped
<1>5. LeakOK'
  BY <1>1, LeakFrame, LiveOf, EvictedOf DEF AgentTyped, Live, LeakOK
<1>6. KeyLogOK'
  BY <1>1, EntryFrame DEF AgentTyped
<1> QED
  BY <1>2, <1>3, <1>4, <1>5, <1>6

LEMMA ProcTakeInv == ASSUME SessionInv, NEW i \in Insts, ProcTake(i) PROVE SessionInv'
<1>1. AgentTyped /\ NamesOK /\ ActorQueueOK /\ InboxOK /\ LeakOK /\ LockOK /\ KeyLogOK /\ BusyOK /\ RowOK
  BY DEF SessionInv
<1>2. PICK b \in Seq(ProcEnds \cup TurnResults) : b = inst[i].inbox
  BY <1>1 DEF AgentTyped, InstType
<1>3. PICK m \in ProcEnds \cup TurnResults : m = b[1] /\ m = Head(inst[i].inbox)
  <2>1. b # <<>>
    BY <1>2 DEF ProcTake
  <2>2. b[1] \in ProcEnds \cup TurnResults /\ b[1] = Head(b)
    BY <2>1
  <2> QED
    BY <1>2, <2>2
<1>4. PICK st : st = (IF m = "crash" THEN "error" ELSE m)
  OBVIOUS
<1>5. /\ inst[i].proc = "idle" /\ b # <<>>
      /\ inst' = IF m \in {"exit", "none"}
                   THEN [inst EXCEPT ![i] = ProcDone(@)]
                   ELSE [inst EXCEPT ![i].inbox = Tail(@), ![i].status = st, ![i].writes = st,
                                     ![i].proc = IF m = "crash" THEN "term" ELSE "final"]
  BY <1>2, <1>3, <1>4 DEF ProcTake, NewStatus
<1>a. UNCHANGED <<row, log, delivered, call, overlapped, cut, registry, disconnecting, ev, lockOf, holder, req>>
  BY DEF ProcTake, procOthers, hostVars
<1>6. PICK x \in InstType : x = inst[i]
  BY <1>1 DEF AgentTyped
<1>7. 1 \in 1..Len(b)
  BY <1>5
<1>b. ev' \in [Sessions -> EvType] /\ \A s \in Sessions : ev'[s].inst = ev[s].inst /\ ev'[s].at = ev[s].at
  BY <1>1, <1>a DEF AgentTyped
<1>c. inst[i].actor # "off"
  BY <1>1, <1>5 DEF NamesOK, Blank
<1>8. CASE m \in ProcEnds
  <2>1. PICK y : y = ProcDone(x)
    OBVIOUS
  <2>2. inst' = [inst EXCEPT ![i] = y]
    BY <1>5, <1>6, <1>8, <2>1 DEF ProcEnds
  <2>3. /\ y \in InstType
        /\ y.of = x.of /\ y.actor = x.actor /\ y.turn = x.turn /\ y.queue = x.queue /\ y.inbox = <<>>
        /\ y.proc = "done" /\ y.status = x.status /\ y.writes = "idle" /\ y.resumedBusy = x.resumedBusy
        /\ y.timer = x.timer
    BY <1>6, <2>1, DoneFacts
  <2>4. /\ inst' \in [Insts -> InstType] /\ inst'[i] = y /\ \A j \in Insts : j # i => inst'[j] = inst[j]
    BY <1>1, <2>2, <2>3, InstStep DEF AgentTyped
  <2>5. /\ ~ Live(i) /\ Hidden(i) /\ inst[i].turn = Nobody
        /\ \A k \in 1..Len(b) : b[k] \in ProcEnds
    <3>1. /\ ~ Live(i) /\ Hidden(i)
          /\ \A n \in 1..Len(b) : 1 < n => b[n] \in ProcEnds
      BY <1>1, <1>2, <1>3, <1>7, <1>8 DEF InboxOK
    <3>2. inst[i].turn = Nobody
      BY <1>1, <3>1 DEF ActorQueueOK, Live
    <3>3. ASSUME NEW k \in 1..Len(b) PROVE b[k] \in ProcEnds
      <4>1. CASE k = 1
        BY <1>3, <1>8, <4>1
      <4>2. CASE k # 1
        BY <3>1, <4>2
      <4> QED
        BY <4>1, <4>2
    <3> QED
      BY <3>1, <3>2, <3>3
  <2>6. AgentTyped'
    BY <1>1, <1>a, <2>4 DEF AgentTyped, HostTyped
  <2>7. NamesOK' /\ ActorQueueOK' /\ LockOK' /\ LeakOK' /\ KeyLogOK'
    <3>1. \A j \in Insts :
           /\ inst'[j].of = inst[j].of /\ inst'[j].actor = inst[j].actor /\ inst'[j].turn = inst[j].turn
           /\ inst'[j].queue = inst[j].queue /\ inst'[j].resumedBusy = inst[j].resumedBusy
           /\ inst'[j].timer => inst[j].timer \/ (inst[j].of \in Sessions /\ inst[j].actor # "off")
           /\ j # i => inst'[j].proc = inst[j].proc
           /\ inst[j].actor = "off" => inst'[j] = inst[j]
      BY <1>6, <1>c, <2>3, <2>4
    <3>2. inst'[i].proc # "off" /\ inst[i].proc # "off" /\ (inst'[i].proc = "done" \/ inst[i].proc # "done")
      BY <1>5, <2>3, <2>4
    <3>3. \A s \in Sessions :
           /\ ev'[s].inst = ev[s].inst
           /\ ev'[s].at = ev[s].at \/ (ev[s].at = "drain" /\ ev'[s].at = "killed")
      BY <1>b
    <3> QED
      BY <1>a, <1>b, <3>1, <3>2, <3>3, <2>4, ProcFrame
  <2>8. InboxOK'
    BY <1>1, <1>6, <1>a, <2>3, <2>4, <2>5, InboxTaken
  <2>9. BusyOK'
    <3>1. \A j \in Insts : j # i => (Caused(j) => Caused(j)')
      BY <1>a, <2>4 DEF Caused
    <3>2. \A s \in Sessions : Usable(s)' => Usable(s)
      BY <1>a DEF Usable
    <3>3. \A s \in Sessions : Usable(s) => registry[s] # i
      BY <1>1, <2>5 DEF Usable, Hidden, NamesOK
    <3> QED
      BY <1>1, <1>a, <2>4, <3>1, <3>2, <3>3, BusyFrame DEF AgentTyped
  <2>10. RowOK'
    <3>1. ~ Works(i)
      <4>1. \A k \in 1..Len(inst[i].inbox) : inst[i].inbox[k] \notin TurnResults
        BY <1>2, <2>5 DEF ProcEnds, TurnResults
      <4> QED
        BY <1>5, <2>5, <4>1 DEF Works
    <3>2. ASSUME NEW s \in Sessions PROVE RowCaused(s) => RowCaused(s)'
      <4>1. \A j \in Insts : inst[j].of = s /\ Works(j) => inst'[j].of = s /\ Works(j)'
        BY <2>4, <3>1 DEF Works
      <4>2. \A q \in Requests : Wrote(q) => Wrote(q)'
        BY <1>a DEF Wrote
      <4>3. Settles(s) => Settles(s)'
        <5>1. \A j \in Insts : inst'[j].status = inst[j].status
          BY <1>6, <2>3, <2>4
        <5> QED
          BY <1>1, <1>a, <5>1, EvictedOf DEF Settles, PersistsStatus
      <4> QED
        BY <1>a, <4>1, <4>2, <4>3, RowCausedFrame DEF RowCaused
    <3>3. \A j \in Insts : inst'[j].proc \in {"final", "term"} => inst'[j].writes # "idle"
      BY <1>1, <2>3, <2>4 DEF RowOK
    <3> QED
      BY <1>1, <1>a, <3>2, <3>3, RowFrame
  <2> QED
    BY <2>6, <2>7, <2>8, <2>9, <2>10 DEF SessionInv
<1>9. CASE m \notin ProcEnds
  <2>1. PICK t \in Seq(ProcEnds \cup TurnResults) :
          t = Tail(b) /\ \A k \in 1..Len(t) : k + 1 \in 1..Len(b) /\ t[k] = b[k + 1]
    <3>1. /\ Tail(b) \in Seq(ProcEnds \cup TurnResults)
          /\ \A k \in 1..Len(Tail(b)) : k + 1 \in 1..Len(b) /\ Tail(b)[k] = b[k + 1]
      BY <1>5
    <3> QED
      BY <3>1
  <2>2. PICK p \in {"term", "final"} : p = (IF m = "crash" THEN "term" ELSE "final")
    OBVIOUS
  <2>3. st \in {"completed", "interrupted", "error"}
    BY <1>3, <1>4, <1>9 DEF TurnResults
  <2>4. PICK y : y = [x EXCEPT !.inbox = t, !.status = st, !.writes = st, !.proc = p]
    OBVIOUS
  <2>5. inst' = [inst EXCEPT ![i] = y]
    <3>1. inst' = [inst EXCEPT ![i] = [inst[i] EXCEPT !.inbox = Tail(@), !.status = st, !.writes = st,
                                                       !.proc = IF m = "crash" THEN "term" ELSE "final"]]
      BY <1>5, <1>9 DEF ProcEnds
    <3> QED
      BY <1>2, <1>6, <2>1, <2>2, <2>4, <3>1
  <2>6. /\ y \in InstType
        /\ y.of = x.of /\ y.actor = x.actor /\ y.turn = x.turn /\ y.queue = x.queue /\ y.inbox = t
        /\ y.proc = p /\ y.status = st /\ y.writes = st /\ y.resumedBusy = x.resumedBusy /\ y.timer = x.timer
    BY <2>3, <2>4 DEF InstType, Statuses
  <2>7. /\ inst' \in [Insts -> InstType] /\ inst'[i] = y /\ \A j \in Insts : j # i => inst'[j] = inst[j]
    BY <1>1, <2>5, <2>6, InstStep DEF AgentTyped
  <2>8. AgentTyped'
    BY <1>1, <1>a, <2>7 DEF AgentTyped, HostTyped
  <2>9. NamesOK' /\ ActorQueueOK' /\ LockOK' /\ LeakOK' /\ KeyLogOK'
    <3>1. \A j \in Insts :
           /\ inst'[j].of = inst[j].of /\ inst'[j].actor = inst[j].actor /\ inst'[j].turn = inst[j].turn
           /\ inst'[j].queue = inst[j].queue /\ inst'[j].resumedBusy = inst[j].resumedBusy
           /\ inst'[j].timer => inst[j].timer \/ (inst[j].of \in Sessions /\ inst[j].actor # "off")
           /\ j # i => inst'[j].proc = inst[j].proc
           /\ inst[j].actor = "off" => inst'[j] = inst[j]
      BY <1>6, <1>c, <2>6, <2>7
    <3>2. inst'[i].proc # "off" /\ inst[i].proc # "off" /\ (inst'[i].proc = "done" \/ inst[i].proc # "done")
      BY <1>5, <2>6, <2>7
    <3>3. \A s \in Sessions :
           /\ ev'[s].inst = ev[s].inst
           /\ ev'[s].at = ev[s].at \/ (ev[s].at = "drain" /\ ev'[s].at = "killed")
      BY <1>b
    <3> QED
      BY <1>a, <1>b, <3>1, <3>2, <3>3, <2>7, ProcFrame
  <2>10. InboxOK'
    <3>1. \A k \in 1..Len(inst'[i].inbox) :
            k + 1 \in 1..Len(inst[i].inbox) /\ inst'[i].inbox[k] = inst[i].inbox[k + 1]
      BY <1>2, <2>1, <2>6, <2>7
    <3>2. inst'[i].proc = "term" => ~ Live(i) /\ (inst'[i].inbox = <<>> \/ Hidden(i))
      <4>1. ASSUME m = "crash"
            PROVE  ~ Live(i) /\ \A k \in 1..Len(b) : 1 < k => b[k] \in ProcEnds
        BY <1>1, <1>2, <1>3, <1>7, <4>1 DEF InboxOK
      <4>2. ASSUME m = "crash", t # <<>>
            PROVE  Hidden(i)
        <5>1. 1 \in 1..Len(t)
          BY <4>2
        <5>2. 2 \in 1..Len(b)
          BY <2>1, <5>1
        <5>3. b[2] \in ProcEnds
          BY <4>1, <4>2, <5>2
        <5> QED
          BY <1>1, <1>2, <5>2, <5>3 DEF InboxOK
      <4> QED
        BY <2>2, <2>6, <2>7, <4>1, <4>2
    <3>3. \A j \in Insts : inst'[j].of = inst[j].of /\ inst'[j].actor = inst[j].actor
      BY <1>6, <2>6, <2>7
    <3> QED
      <4>1. inst'[i].proc # "done"
        BY <2>2, <2>6, <2>7
      <4>2. inst'[i].proc = "term" => inst[i].of \in cut' \/ (~ Live(i) /\ (inst'[i].inbox = <<>> \/ Hidden(i)))
        BY <3>2
      <4> QED
        BY <1>1, <1>a, <2>7, <3>1, <3>3, <4>1, <4>2, InboxTaken
  <2>11. BusyOK'
    <3>1. \A j \in Insts : j # i => (Caused(j) => Caused(j)')
      BY <1>a, <2>7 DEF Caused
    <3>2. \A s \in Sessions : Usable(s)' => Usable(s)
      BY <1>a DEF Usable
    <3>3. inst'[i].status # "running"
      BY <2>3, <2>6, <2>7
    <3> QED
      BY <1>1, <1>a, <2>7, <3>1, <3>2, <3>3, BusyFrame DEF AgentTyped
  <2>12. RowOK'
    <3>1. Works(i)' /\ inst'[i].of = inst[i].of
      BY <1>6, <2>2, <2>6, <2>7 DEF Works
    <3>2. ASSUME NEW s \in Sessions PROVE RowCaused(s) => RowCaused(s)'
      <4>1. \A j \in Insts : inst[j].of = s /\ Works(j) => inst'[j].of = s /\ Works(j)'
        BY <2>7, <3>1 DEF Works
      <4>2. \A q \in Requests : Wrote(q) => Wrote(q)'
        BY <1>a DEF Wrote
      <4>3. Settles(s) => RowCaused(s)'
        <5>1. CASE ev[s].inst = i /\ Settles(s)
          <6>1. inst'[i].of = s
            BY <1>1, <3>1, <5>1, EvictedOf DEF Settles
          <6> QED
            BY <3>1, <6>1 DEF RowCaused
        <5>2. CASE ev[s].inst # i /\ Settles(s)
          <6>1. Settles(s)'
            BY <1>1, <1>a, <2>7, <5>2, EvictedOf DEF Settles, PersistsStatus
          <6> QED
            BY <6>1 DEF RowCaused
        <5> QED
          BY <5>1, <5>2
      <4>4. s \in cut => s \in cut'
        BY <1>a
      <4> QED
        BY <1>a, <4>1, <4>2, <4>3, <4>4, RowCausedFrame
    <3>3. \A j \in Insts : inst'[j].proc \in {"final", "term"} => inst'[j].writes # "idle"
      BY <1>1, <2>3, <2>6, <2>7 DEF RowOK
    <3> QED
      BY <1>1, <1>a, <3>2, <3>3, RowFrame
  <2> QED
    BY <2>8, <2>9, <2>10, <2>11, <2>12 DEF SessionInv
<1> QED
  BY <1>8, <1>9

LEMMA TimerSet ==
  ASSUME NEW x \in InstType, NEW b \in BOOLEAN, NEW m, m = [x EXCEPT !.timer = @ \/ b]
  PROVE  /\ m \in InstType
         /\ m.of = x.of /\ m.actor = x.actor /\ m.turn = x.turn /\ m.queue = x.queue /\ m.inbox = x.inbox
         /\ m.proc = x.proc /\ m.status = x.status /\ m.writes = x.writes /\ m.resumedBusy = x.resumedBusy
         /\ m.timer => x.timer \/ b
         /\ ~ b => m = x
<1>1. PICK t \in BOOLEAN : t = (x.timer \/ b)
  OBVIOUS
<1>2. m = [x EXCEPT !.timer = t]
  BY <1>1
<1>3. x.timer \in BOOLEAN
  BY DEF InstType
<1>4. ~ b => t = x.timer
  BY <1>1, <1>3
<1> QED
  BY <1>1, <1>2, <1>4 DEF InstType

\* What ProcWrite leaves of each instance.
LEMMA WriteFacts ==
  ASSUME AgentTyped, NamesOK, NEW i \in Insts, ProcWrite(i), NEW o \in Sessions, o = inst[i].of
  PROVE  /\ inst' \in [Insts -> InstType]
         /\ \A j \in Insts :
              /\ inst'[j].of = inst[j].of /\ inst'[j].actor = inst[j].actor /\ inst'[j].turn = inst[j].turn
              /\ inst'[j].queue = inst[j].queue /\ inst'[j].resumedBusy = inst[j].resumedBusy
              /\ inst'[j].status = inst[j].status
              /\ inst'[j].timer => inst[j].timer \/ j = registry[o]
              /\ j # i => /\ inst'[j].proc = inst[j].proc /\ inst'[j].inbox = inst[j].inbox
                          /\ inst'[j].writes = inst[j].writes
              /\ j # i /\ j # registry[o] => inst'[j] = inst[j]
         /\ inst[i].proc = "final" => inst'[i].proc = "idle" /\ inst'[i].inbox = inst[i].inbox
         /\ inst[i].proc = "term" => inst'[i].proc = "done" /\ inst'[i].inbox = <<>>
         /\ inst[i].proc \in {"final", "term"}
<1>1. /\ inst[i].proc \in {"final", "term"}
      /\ inst' = [j \in Insts |->
                    LET m == [inst[j] EXCEPT !.timer = @ \/ j = registry[o]]
                    IN IF j # i THEN m
                       ELSE IF m.proc = "term" THEN ProcDone(m)
                       ELSE [m EXCEPT !.flag = FALSE, !.writes = "idle", !.proc = "idle"]]
  BY DEF ProcWrite
<1>2. ASSUME NEW j \in Insts, j # i
      PROVE  /\ inst'[j] \in InstType
             /\ inst'[j].of = inst[j].of /\ inst'[j].actor = inst[j].actor /\ inst'[j].turn = inst[j].turn
             /\ inst'[j].queue = inst[j].queue /\ inst'[j].resumedBusy = inst[j].resumedBusy
             /\ inst'[j].status = inst[j].status
             /\ inst'[j].timer => inst[j].timer \/ j = registry[o]
             /\ inst'[j].proc = inst[j].proc /\ inst'[j].inbox = inst[j].inbox
             /\ inst'[j].writes = inst[j].writes
             /\ j # registry[o] => inst'[j] = inst[j]
  <2>1. PICK x \in InstType : x = inst[j]
    BY DEF AgentTyped
  <2>2. PICK b \in BOOLEAN : b = (j = registry[o])
    OBVIOUS
  <2>3. PICK m : m = [x EXCEPT !.timer = @ \/ b]
    OBVIOUS
  <2>4. inst'[j] = m
    BY <1>1, <1>2, <2>1, <2>2, <2>3
  <2>5. /\ m \in InstType
        /\ m.of = x.of /\ m.actor = x.actor /\ m.turn = x.turn /\ m.queue = x.queue /\ m.inbox = x.inbox
        /\ m.proc = x.proc /\ m.status = x.status /\ m.writes = x.writes /\ m.resumedBusy = x.resumedBusy
        /\ m.timer => x.timer \/ b
        /\ ~ b => m = x
    BY <2>3, TimerSet
  <2> QED
    BY <2>1, <2>2, <2>4, <2>5
<1>3. /\ inst'[i] \in InstType
      /\ inst'[i].of = inst[i].of /\ inst'[i].actor = inst[i].actor /\ inst'[i].turn = inst[i].turn
      /\ inst'[i].queue = inst[i].queue /\ inst'[i].resumedBusy = inst[i].resumedBusy
      /\ inst'[i].status = inst[i].status
      /\ inst'[i].timer => inst[i].timer \/ i = registry[o]
      /\ inst[i].proc = "final" => inst'[i].proc = "idle" /\ inst'[i].inbox = inst[i].inbox
      /\ inst[i].proc = "term" => inst'[i].proc = "done" /\ inst'[i].inbox = <<>>
  <2>1. PICK x \in InstType : x = inst[i]
    BY DEF AgentTyped
  <2>2. PICK b \in BOOLEAN : b = (i = registry[o])
    OBVIOUS
  <2>3. PICK m : m = [x EXCEPT !.timer = @ \/ b]
    OBVIOUS
  <2>4. /\ m \in InstType
        /\ m.of = x.of /\ m.actor = x.actor /\ m.turn = x.turn /\ m.queue = x.queue /\ m.inbox = x.inbox
        /\ m.proc = x.proc /\ m.status = x.status /\ m.writes = x.writes /\ m.resumedBusy = x.resumedBusy
        /\ m.timer => x.timer \/ b
    BY <2>3, TimerSet
  <2>5. inst'[i] = IF m.proc = "term" THEN ProcDone(m)
                   ELSE [m EXCEPT !.flag = FALSE, !.writes = "idle", !.proc = "idle"]
    BY <1>1, <2>1, <2>2, <2>3
  <2>6. CASE x.proc = "term"
    <3>1. PICK y : y = ProcDone(m)
      OBVIOUS
    <3>2. /\ y \in InstType
          /\ y.of = m.of /\ y.actor = m.actor /\ y.turn = m.turn /\ y.queue = m.queue /\ y.inbox = <<>>
          /\ y.proc = "done" /\ y.status = m.status /\ y.resumedBusy = m.resumedBusy /\ y.timer = m.timer
      BY <2>4, <3>1, DoneFacts
    <3>3. inst'[i] = y
      BY <2>4, <2>5, <2>6, <3>1
    <3> QED
      BY <2>1, <2>2, <2>4, <2>6, <3>2, <3>3
  <2>7. CASE x.proc = "final"
    <3>1. PICK y : y = [m EXCEPT !.flag = FALSE, !.writes = "idle", !.proc = "idle"]
      OBVIOUS
    <3>2. /\ y \in InstType
          /\ y.of = m.of /\ y.actor = m.actor /\ y.turn = m.turn /\ y.queue = m.queue /\ y.inbox = m.inbox
          /\ y.proc = "idle" /\ y.status = m.status /\ y.resumedBusy = m.resumedBusy /\ y.timer = m.timer
      BY <2>4, <3>1 DEF InstType
    <3>3. inst'[i] = y
      BY <2>4, <2>5, <2>7, <3>1
    <3> QED
      BY <2>1, <2>2, <2>4, <2>7, <3>2, <3>3
  <2> QED
    BY <1>1, <2>1, <2>6, <2>7
<1>4. inst' \in [Insts -> InstType]
  <2>1. \A j \in Insts : inst'[j] \in InstType
    BY <1>2, <1>3
  <2>2. inst' = [j \in Insts |-> inst'[j]]
    BY <1>1
  <2> QED
    BY <2>1, <2>2
<1> QED
  BY <1>1, <1>2, <1>3, <1>4, ZenonT(60)

LEMMA ProcWriteInv == ASSUME SessionInv, NEW i \in Insts, ProcWrite(i) PROVE SessionInv'
<1>1. AgentTyped /\ NamesOK /\ ActorQueueOK /\ InboxOK /\ LeakOK /\ LockOK /\ KeyLogOK /\ BusyOK /\ RowOK
  BY DEF SessionInv
<1>2. inst[i].proc \in {"final", "term"}
  BY DEF ProcWrite
<1>3. PICK o \in Sessions : o = inst[i].of
  BY <1>1, <1>2 DEF NamesOK
<1>a. UNCHANGED <<log, delivered, call, overlapped, cut, registry, disconnecting, ev, lockOf, holder, req>>
  BY DEF ProcWrite, procOthers, hostVars
<1>4. /\ inst' \in [Insts -> InstType]
      /\ \A j \in Insts :
           /\ inst'[j].of = inst[j].of /\ inst'[j].actor = inst[j].actor /\ inst'[j].turn = inst[j].turn
           /\ inst'[j].queue = inst[j].queue /\ inst'[j].resumedBusy = inst[j].resumedBusy
           /\ inst'[j].status = inst[j].status
           /\ inst'[j].timer => inst[j].timer \/ j = registry[o]
           /\ j # i => /\ inst'[j].proc = inst[j].proc /\ inst'[j].inbox = inst[j].inbox
                       /\ inst'[j].writes = inst[j].writes
           /\ j # i /\ j # registry[o] => inst'[j] = inst[j]
      /\ inst[i].proc = "final" => inst'[i].proc = "idle" /\ inst'[i].inbox = inst[i].inbox
      /\ inst[i].proc = "term" => inst'[i].proc = "done" /\ inst'[i].inbox = <<>>
  BY <1>1, <1>3, WriteFacts
<1>5. row' \in [Sessions -> Statuses] /\ row'[o] # "running" /\ \A s \in Sessions : s # o => row'[s] = row[s]
  <2>1. PICK w \in {"idle", "completed", "interrupted", "error"} : w = inst[i].writes
    BY <1>1 DEF AgentTyped, InstType
  <2>2. row' = [row EXCEPT ![o] = w]
    BY <1>3, <2>1 DEF ProcWrite
  <2> QED
    BY <1>1, <2>1, <2>2 DEF AgentTyped, HostTyped, Statuses
<1>b. ev' \in [Sessions -> EvType] /\ \A s \in Sessions : ev'[s].inst = ev[s].inst /\ ev'[s].at = ev[s].at
  BY <1>1, <1>a DEF AgentTyped
<1>c. inst[i].actor # "off"
  BY <1>1, <1>2 DEF NamesOK, Blank
<1>d. \A j \in Insts : j = registry[o] => inst[j].of = o /\ inst[j].actor # "off"
  BY <1>1, AgentAssumption DEF NamesOK
<1>6. AgentTyped'
  BY <1>1, <1>a, <1>4, <1>5 DEF AgentTyped, HostTyped
<1>7. NamesOK' /\ ActorQueueOK' /\ LockOK' /\ LeakOK' /\ KeyLogOK'
  <2>1. \A j \in Insts :
         /\ inst'[j].of = inst[j].of /\ inst'[j].actor = inst[j].actor /\ inst'[j].turn = inst[j].turn
         /\ inst'[j].queue = inst[j].queue /\ inst'[j].resumedBusy = inst[j].resumedBusy
         /\ inst'[j].timer => inst[j].timer \/ (inst[j].of \in Sessions /\ inst[j].actor # "off")
         /\ j # i => inst'[j].proc = inst[j].proc
         /\ inst[j].actor = "off" => inst'[j] = inst[j]
    BY <1>4, <1>c, <1>d
  <2>2. inst'[i].proc # "off" /\ inst[i].proc # "off" /\ (inst'[i].proc = "done" \/ inst[i].proc # "done")
    BY <1>2, <1>4
  <2>3. \A s \in Sessions :
         /\ ev'[s].inst = ev[s].inst
         /\ ev'[s].at = ev[s].at \/ (ev[s].at = "drain" /\ ev'[s].at = "killed")
    BY <1>b
  <2> QED
    BY <1>a, <1>b, <1>4, <2>1, <2>2, <2>3, ProcFrame
<1>8. InboxOK'
  <2>1. \/ inst'[i].inbox = <<>>
        \/ \E d \in Nat :
             \A k \in 1..Len(inst'[i].inbox) :
               k + d \in 1..Len(inst[i].inbox) /\ inst'[i].inbox[k] = inst[i].inbox[k + d]
    <3>1. CASE inst[i].proc = "term"
      BY <1>4, <3>1
    <3>2. CASE inst[i].proc = "final"
      <4>1. PICK b \in Seq(ProcEnds \cup TurnResults) : b = inst[i].inbox
        BY <1>1 DEF AgentTyped, InstType
      <4>2. \A k \in 1..Len(b) : k + 0 \in 1..Len(b) /\ b[k] = b[k + 0]
        OBVIOUS
      <4>3. \E d \in Nat : \A k \in 1..Len(b) : k + d \in 1..Len(b) /\ b[k] = b[k + d]
        BY <4>2
      <4>4. inst'[i].inbox = b
        BY <1>4, <3>2, <4>1
      <4> QED
        BY <4>1, <4>3, <4>4
    <3> QED
      BY <1>2, <3>1, <3>2
  <2>2. inst'[i].proc # "term"
    BY <1>2, <1>4
  <2>3. \A j \in Insts :
          /\ inst'[j].of = inst[j].of /\ inst'[j].actor = inst[j].actor
          /\ j # i => inst'[j].inbox = inst[j].inbox /\ inst'[j].proc = inst[j].proc
    BY <1>4
  <2>4. inst'[i].proc = "done" /\ Live(i) => inst[i].of \in cut'
    BY <1>1, <1>2, <1>a, <1>4 DEF InboxOK
  <2> QED
    BY <1>1, <1>a, <2>1, <2>2, <2>3, <2>4, InboxTaken
<1>9. BusyOK'
  <2>1. \A s \in Sessions : Usable(s)' => Usable(s) /\ registry'[s] = registry[s]
    BY <1>a DEF Usable
  <2>2. ASSUME NEW j \in Insts, j # i PROVE Caused(j) => Caused(j)'
    BY <1>a, <1>4, <2>2 DEF Caused
  <2>3. CASE inst[i].proc = "final"
    <3>1. Caused(i) => Caused(i)'
      BY <1>a, <1>4, <2>3 DEF Caused
    <3>2. \A j \in Insts : Caused(j) => Caused(j)'
      BY <2>2, <3>1
    <3> QED
      BY <1>1, <1>4, <2>1, <3>2, BusyFrame DEF AgentTyped
  <2>4. CASE inst[i].proc = "term"
    <3>1. inst[i].of \in cut \/ (~ Live(i) /\ (inst[i].inbox = <<>> \/ Hidden(i)))
      BY <1>1, <2>4 DEF InboxOK
    <3>2. ~ Live(i) => inst[i].turn = Nobody /\ inst[i].queue = <<>>
      BY <1>1 DEF ActorQueueOK, Live
    <3>3. inst[i].of \in cut \/ (~ Live(i) /\ inst[i].inbox = <<>> /\ Caused(i)) => Caused(i)'
      BY <1>a, <1>4, <2>4, <3>2 DEF Caused
    <3>4. ASSUME NEW s \in Sessions, NEW j \in Insts, Usable(s)', registry[s] = j
          PROVE  Caused(j) => Caused(j)'
      <4>1. CASE j # i
        BY <2>2, <4>1
      <4>2. CASE j = i
        <5>1. s = o /\ s \notin disconnecting
          <6>1. registry[s] = i /\ registry[s] # Nobody /\ s \notin disconnecting
            BY <2>1, <3>4, <4>2 DEF Usable
          <6>2. inst[registry[s]].of = s
            BY <1>1, <6>1 DEF NamesOK
          <6> QED
            BY <1>3, <6>1, <6>2
        <5>2. ~ Hidden(i)
          BY <1>3, <3>4, <4>2, <5>1 DEF Hidden
        <5> QED
          BY <3>1, <3>3, <4>2, <5>2
      <4> QED
        BY <4>1, <4>2
    <3> QED
      BY <1>1, <1>4, <2>1, <3>4, BusyFrame DEF AgentTyped
  <2> QED
    BY <1>2, <2>3, <2>4
<1>10. RowOK'
  <2>1. ASSUME NEW s \in Sessions, s # o PROVE RowCaused(s) => RowCaused(s)'
    <3>1. \A j \in Insts : inst[j].of = s /\ Works(j) => inst'[j].of = s /\ Works(j)'
      BY <1>3, <1>4, <2>1 DEF Works
    <3>2. \A q \in Requests : Wrote(q) => Wrote(q)'
      BY <1>a DEF Wrote
    <3>3. Settles(s) => Settles(s)'
      BY <1>1, <1>a, <1>4, EvictedOf DEF Settles, PersistsStatus
    <3>4. Settles(s) => RowCaused(s)'
      BY <3>3 DEF RowCaused
    <3> QED
      BY <1>a, <3>1, <3>2, <3>4, RowCausedFrame
  <2>2. \A j \in Insts : inst'[j].proc \in {"final", "term"} => inst'[j].writes # "idle"
    BY <1>1, <1>2, <1>4 DEF RowOK
  <2>3. \A s \in Sessions : row'[s] = "running" =>
          RowCaused(s)' \/ (row[s] = "running" /\ (RowCaused(s) => RowCaused(s)'))
    BY <1>5, <2>1
  <2> QED
    BY <1>1, <2>2, <2>3, RowFrame
<1> QED
  BY <1>6, <1>7, <1>8, <1>9, <1>10 DEF SessionInv

LEMMA ProcWriteFailsInv == ASSUME SessionInv, NEW i \in Insts, ProcWriteFails(i) PROVE SessionInv'
<1>1. AgentTyped /\ NamesOK /\ ActorQueueOK /\ InboxOK /\ LeakOK /\ LockOK /\ KeyLogOK /\ BusyOK /\ RowOK
  BY DEF SessionInv
<1>2. /\ inst[i].proc \in {"final", "term"}
      /\ inst' = IF inst[i].proc = "term"
                   THEN [inst EXCEPT ![i] = ProcDone(inst[i])]
                   ELSE [inst EXCEPT ![i] = [inst[i] EXCEPT !.status = "error", !.writes = "error", !.proc = "term"]]
      /\ cut' = cut \cup {inst[i].of}
  BY DEF ProcWriteFails
<1>3. PICK o \in Sessions : o = inst[i].of
  BY <1>1, <1>2 DEF NamesOK
<1>a. UNCHANGED <<row, log, delivered, call, overlapped, registry, disconnecting, ev, lockOf, holder, req>>
  BY DEF ProcWriteFails
<1>4. PICK y \in InstType :
        /\ inst' = [inst EXCEPT ![i] = y]
        /\ y.of = o /\ y.actor = inst[i].actor /\ y.turn = inst[i].turn /\ y.queue = inst[i].queue
        /\ y.resumedBusy = inst[i].resumedBusy /\ y.timer = inst[i].timer
        /\ y.inbox = inst[i].inbox \/ y.inbox = <<>>
        /\ \/ y.proc = "term" /\ y.writes = "error" /\ y.status = "error"
           \/ y.proc = "done" /\ y.status = inst[i].status
  <2>1. PICK x \in InstType : x = inst[i]
    BY <1>1 DEF AgentTyped
  <2>2. CASE x.proc # "term"
    <3>1. PICK y : y = [x EXCEPT !.status = "error", !.writes = "error", !.proc = "term"]
      OBVIOUS
    <3>2. /\ y \in InstType
          /\ y.of = x.of /\ y.actor = x.actor /\ y.turn = x.turn /\ y.queue = x.queue /\ y.resumedBusy = x.resumedBusy
          /\ y.timer = x.timer /\ y.proc = "term" /\ y.writes = "error" /\ y.inbox = x.inbox
          /\ y.status = "error"
      BY <3>1 DEF InstType, Statuses
    <3>3. inst' = [inst EXCEPT ![i] = y]
      BY <1>2, <2>1, <2>2, <3>1
    <3> QED
      BY <1>3, <2>1, <3>2, <3>3
  <2>3. CASE x.proc = "term"
    <3>1. PICK y : y = ProcDone(x)
      OBVIOUS
    <3>2. /\ y \in InstType
          /\ y.of = x.of /\ y.actor = x.actor /\ y.turn = x.turn /\ y.queue = x.queue /\ y.resumedBusy = x.resumedBusy
          /\ y.timer = x.timer /\ y.proc = "done" /\ y.inbox = <<>> /\ y.status = x.status
      BY <3>1, DoneFacts
    <3>3. inst' = [inst EXCEPT ![i] = y]
      BY <1>2, <2>1, <2>3, <3>1
    <3> QED
      BY <1>3, <2>1, <3>2, <3>3
  <2> QED
    BY <2>2, <2>3
<1>5. /\ inst' \in [Insts -> InstType] /\ inst'[i] = y /\ \A j \in Insts : j # i => inst'[j] = inst[j]
  BY <1>1, <1>4, InstStep DEF AgentTyped
<1>6. o \in cut' /\ cut \subseteq cut' /\ inst[i].actor # "off" /\ inst'[i].of = o
  BY <1>1, <1>2, <1>3, <1>4, <1>5 DEF NamesOK, Blank
<1>7. AgentTyped'
  BY <1>1, <1>a, <1>5 DEF AgentTyped, HostTyped
<1>8. NamesOK' /\ ActorQueueOK' /\ LockOK' /\ LeakOK' /\ KeyLogOK'
  <2>1. \A j \in Insts :
         /\ inst'[j].of = inst[j].of /\ inst'[j].actor = inst[j].actor /\ inst'[j].turn = inst[j].turn
         /\ inst'[j].queue = inst[j].queue /\ inst'[j].resumedBusy = inst[j].resumedBusy
         /\ inst'[j].timer => inst[j].timer \/ (inst[j].of \in Sessions /\ inst[j].actor # "off")
         /\ j # i => inst'[j].proc = inst[j].proc
         /\ inst[j].actor = "off" => inst'[j] = inst[j]
    BY <1>3, <1>4, <1>5, <1>6
  <2>2. inst'[i].proc # "off" /\ inst[i].proc # "off" /\ (inst'[i].proc = "done" \/ inst[i].proc # "done")
    BY <1>2, <1>4, <1>5
  <2>3. ev' \in [Sessions -> EvType] /\ \A x \in Sessions : ev'[x].inst = ev[x].inst /\ ev'[x].at = ev[x].at
    BY <1>1, <1>a DEF AgentTyped
  <2> QED
    BY <1>a, <1>5, <2>1, <2>2, <2>3, ProcFrame
<1>9. InboxOK'
  <2>1. \/ inst'[i].inbox = <<>>
        \/ \E d \in Nat :
             \A k \in 1..Len(inst'[i].inbox) :
               k + d \in 1..Len(inst[i].inbox) /\ inst'[i].inbox[k] = inst[i].inbox[k + d]
    <3>1. CASE y.inbox = inst[i].inbox
      <4>1. PICK b \in Seq(ProcEnds \cup TurnResults) : b = inst[i].inbox
        BY <1>1 DEF AgentTyped, InstType
      <4>2. \A k \in 1..Len(b) : k + 0 \in 1..Len(b) /\ b[k] = b[k + 0]
        OBVIOUS
      <4>3. \E d \in Nat : \A k \in 1..Len(b) : k + d \in 1..Len(b) /\ b[k] = b[k + d]
        BY <4>2
      <4>4. inst'[i].inbox = b
        BY <1>5, <3>1, <4>1
      <4> QED
        BY <4>1, <4>3, <4>4
    <3>2. CASE y.inbox = <<>>
      BY <1>5, <3>2
    <3> QED
      BY <1>4, <3>1, <3>2
  <2>2. \A j \in Insts :
          /\ inst'[j].of = inst[j].of /\ inst'[j].actor = inst[j].actor
          /\ j # i => inst'[j].inbox = inst[j].inbox /\ inst'[j].proc = inst[j].proc
    BY <1>3, <1>4, <1>5
  <2> QED
    BY <1>1, <1>3, <1>6, <1>a, <2>1, <2>2, InboxTaken
<1>10. BusyOK'
  <2>1. \A x \in Sessions : Usable(x)' => Usable(x) /\ registry'[x] = registry[x]
    BY <1>a DEF Usable
  <2>2. ASSUME NEW j \in Insts, j # i PROVE Caused(j) => Caused(j)'
    BY <1>a, <1>5, <1>6, <2>2 DEF Caused
  <2>3. inst'[i].status # "running" \/ (inst'[i].status = inst[i].status /\ Caused(i)')
    BY <1>4, <1>5, <1>6 DEF Caused
  <2>4. \A x \in Sessions : \A j \in Insts :
          Usable(x)' /\ registry[x] = j /\ inst'[j].status = "running" =>
            Caused(j)' \/ (inst[j].status = "running" /\ (Caused(j) => Caused(j)'))
    BY <1>5, <2>2, <2>3
  <2> QED
    BY <1>1, <2>1, <2>4, BusyFrame DEF AgentTyped
<1>11. RowOK'
  <2>1. ASSUME NEW x \in Sessions PROVE RowCaused(x) => RowCaused(x)'
    <3>1. \A j \in Insts : inst[j].of = x /\ Works(j) => (inst'[j].of = x /\ Works(j)') \/ x \in cut'
      BY <1>3, <1>5, <1>6 DEF Works
    <3>2. \A q \in Requests : Wrote(q) => Wrote(q)'
      BY <1>a DEF Wrote
    <3>3. Settles(x) => RowCaused(x)'
      <4>1. CASE x = o
        BY <1>6, <4>1 DEF RowCaused
      <4>2. CASE x # o
        <5>1. ASSUME Settles(x) PROVE Settles(x)'
          <6>1. ev[x].inst \in Insts /\ ev[x].inst # i
            BY <1>1, <1>3, <4>2, <5>1, EvictedOf DEF Settles
          <6> QED
            BY <1>a, <1>5, <5>1, <6>1 DEF Settles, PersistsStatus
        <5> QED
          BY <5>1 DEF RowCaused
      <4> QED
        BY <4>1, <4>2
    <3>4. x \in cut => x \in cut'
      BY <1>6
    <3> QED
      BY <1>a, <3>1, <3>2, <3>3, <3>4, RowCausedFrame
  <2>2. \A j \in Insts : inst'[j].proc \in {"final", "term"} => inst'[j].writes # "idle"
    BY <1>1, <1>4, <1>5 DEF RowOK
  <2> QED
    BY <1>1, <1>a, <2>1, <2>2, RowFrame
<1> QED
  BY <1>7, <1>8, <1>9, <1>10, <1>11 DEF SessionInv

LEMMA ProcCancelledInv == ASSUME SessionInv, NEW s \in Sessions, ProcCancelled(s) PROVE SessionInv'
<1>1. AgentTyped /\ NamesOK /\ ActorQueueOK /\ InboxOK /\ LeakOK /\ LockOK /\ KeyLogOK /\ BusyOK /\ RowOK
  BY DEF SessionInv
<1>2. PICK i \in Insts : i = ev[s].inst /\ inst[i].of = s /\ inst[i].actor # "off" /\ s \in disconnecting
  <2>1. ev[s].at = "drain"
    BY DEF ProcCancelled
  <2> QED
    BY <1>1, <2>1, EvictedOf
<1>3. /\ ev[s].at = "drain" /\ inst[i].proc \notin {"off", "done"}
      /\ cut' = cut \cup {s}
      /\ inst' = IF inst[i].status = "running"
                   THEN [inst EXCEPT ![i] = [inst[i] EXCEPT !.status = "interrupted", !.writes = "interrupted", !.proc = "term"]]
                   ELSE [inst EXCEPT ![i] = ProcDone(inst[i])]
  BY <1>2 DEF ProcCancelled
<1>a. UNCHANGED <<row, log, delivered, call, overlapped, registry, disconnecting, lockOf, holder, req>>
  BY DEF ProcCancelled
<1>4. PICK y \in InstType :
        /\ inst' = [inst EXCEPT ![i] = y]
        /\ y.of = inst[i].of /\ y.actor = inst[i].actor /\ y.turn = inst[i].turn /\ y.queue = inst[i].queue
        /\ y.resumedBusy = inst[i].resumedBusy /\ y.timer = inst[i].timer
        /\ y.proc \in {"term", "done"} /\ (y.proc = "term" => y.writes # "idle")
        /\ y.inbox = inst[i].inbox \/ y.inbox = <<>>
        /\ y.status # "running"
  <2>1. PICK x \in InstType : x = inst[i]
    BY <1>1 DEF AgentTyped
  <2>2. CASE x.status = "running"
    <3>1. PICK y : y = [x EXCEPT !.status = "interrupted", !.writes = "interrupted", !.proc = "term"]
      OBVIOUS
    <3>2. /\ y \in InstType
          /\ y.of = x.of /\ y.actor = x.actor /\ y.turn = x.turn /\ y.queue = x.queue /\ y.resumedBusy = x.resumedBusy
          /\ y.timer = x.timer /\ y.proc = "term" /\ y.writes = "interrupted" /\ y.inbox = x.inbox
          /\ y.status = "interrupted"
      BY <3>1 DEF InstType, Statuses
    <3>3. inst' = [inst EXCEPT ![i] = y]
      BY <1>3, <2>1, <2>2, <3>1
    <3> QED
      BY <2>1, <3>2, <3>3
  <2>3. CASE x.status # "running"
    <3>1. PICK y : y = ProcDone(x)
      OBVIOUS
    <3>2. /\ y \in InstType
          /\ y.of = x.of /\ y.actor = x.actor /\ y.turn = x.turn /\ y.queue = x.queue /\ y.resumedBusy = x.resumedBusy
          /\ y.timer = x.timer /\ y.proc = "done" /\ y.inbox = <<>> /\ y.status = x.status
      BY <3>1, DoneFacts
    <3>3. inst' = [inst EXCEPT ![i] = y]
      BY <1>3, <2>1, <2>3, <3>1
    <3> QED
      BY <2>1, <2>3, <3>2, <3>3
  <2> QED
    BY <2>2, <2>3
<1>5. /\ inst' \in [Insts -> InstType] /\ inst'[i] = y /\ \A j \in Insts : j # i => inst'[j] = inst[j]
  BY <1>1, <1>4, InstStep DEF AgentTyped
<1>6. /\ ev' \in [Sessions -> EvType] /\ ev'[s].at = "killed" /\ ev'[s].inst = i
      /\ \A x \in Sessions : x # s => ev'[x] = ev[x]
  <2>1. PICK e \in EvType : e = ev[s]
    BY <1>1 DEF AgentTyped
  <2>2. PICK f : f = [e EXCEPT !.at = "killed"]
    OBVIOUS
  <2>3. f \in EvType /\ f.at = "killed" /\ f.inst = e.inst
    BY <2>2 DEF EvType
  <2>4. ev' = [ev EXCEPT ![s] = f]
    BY <2>1, <2>2 DEF ProcCancelled
  <2> QED
    BY <1>1, <1>2, <2>1, <2>3, <2>4 DEF AgentTyped
<1>7. AgentTyped'
  BY <1>1, <1>a, <1>5, <1>6 DEF AgentTyped, HostTyped
<1>8. NamesOK' /\ ActorQueueOK' /\ LockOK' /\ LeakOK' /\ KeyLogOK'
  <2>1. \A j \in Insts :
         /\ inst'[j].of = inst[j].of /\ inst'[j].actor = inst[j].actor /\ inst'[j].turn = inst[j].turn
         /\ inst'[j].queue = inst[j].queue /\ inst'[j].resumedBusy = inst[j].resumedBusy
         /\ inst'[j].timer => inst[j].timer \/ (inst[j].of \in Sessions /\ inst[j].actor # "off")
         /\ j # i => inst'[j].proc = inst[j].proc
         /\ inst[j].actor = "off" => inst'[j] = inst[j]
    BY <1>2, <1>4, <1>5
  <2>2. inst'[i].proc # "off" /\ inst[i].proc # "off" /\ (inst'[i].proc = "done" \/ inst[i].proc # "done")
    BY <1>3, <1>4, <1>5
  <2>3. \A x \in Sessions :
         /\ ev'[x].inst = ev[x].inst
         /\ ev'[x].at = ev[x].at \/ (ev[x].at = "drain" /\ ev'[x].at = "killed")
    BY <1>2, <1>3, <1>6
  <2> QED
    BY <1>a, <1>5, <1>6, <2>1, <2>2, <2>3, ProcFrame
<1>9. ~ Live(i) /\ Hidden(i)
  BY <1>1, <1>2, <1>3 DEF LeakOK, Hidden
<1>10. InboxOK'
  <2>1. \/ inst'[i].inbox = <<>>
        \/ \E d \in Nat :
             \A k \in 1..Len(inst'[i].inbox) :
               k + d \in 1..Len(inst[i].inbox) /\ inst'[i].inbox[k] = inst[i].inbox[k + d]
    <3>1. CASE y.inbox = inst[i].inbox
      <4>1. PICK b \in Seq(ProcEnds \cup TurnResults) : b = inst[i].inbox
        BY <1>1 DEF AgentTyped, InstType
      <4>2. \A k \in 1..Len(b) : k + 0 \in 1..Len(b) /\ b[k] = b[k + 0]
        OBVIOUS
      <4>3. \E d \in Nat : \A k \in 1..Len(b) : k + d \in 1..Len(b) /\ b[k] = b[k + d]
        BY <4>2
      <4>4. inst'[i].inbox = b
        BY <1>5, <3>1, <4>1
      <4> QED
        BY <4>1, <4>3, <4>4
    <3>2. CASE y.inbox = <<>>
      BY <1>5, <3>2
    <3> QED
      BY <1>4, <3>1, <3>2
  <2>2. \A j \in Insts :
          /\ inst'[j].of = inst[j].of /\ inst'[j].actor = inst[j].actor
          /\ j # i => inst'[j].inbox = inst[j].inbox /\ inst'[j].proc = inst[j].proc
    BY <1>4, <1>5
  <2> QED
    BY <1>1, <1>2, <1>3, <1>9, <1>a, <2>1, <2>2, InboxTaken
<1>11. BusyOK'
  <2>1. \A x \in Sessions : Usable(x)' => Usable(x) /\ registry'[x] = registry[x]
    BY <1>a DEF Usable
  <2>2. ASSUME NEW j \in Insts, j # i PROVE Caused(j) => Caused(j)'
    BY <1>2, <1>3, <1>a, <1>5, <2>2 DEF Caused
  <2>3. inst'[i].status # "running"
    BY <1>4, <1>5
  <2>4. \A x \in Sessions : \A j \in Insts :
          Usable(x)' /\ registry[x] = j /\ inst'[j].status = "running" =>
            Caused(j)' \/ (inst[j].status = "running" /\ (Caused(j) => Caused(j)'))
    BY <1>5, <2>2, <2>3
  <2> QED
    BY <1>1, <2>1, <2>4, BusyFrame DEF AgentTyped
<1>12. RowOK'
  <2>1. ASSUME NEW x \in Sessions, x # s PROVE RowCaused(x) => RowCaused(x)'
    <3>1. \A j \in Insts : inst[j].of = x /\ Works(j) => inst'[j].of = x /\ Works(j)'
      BY <1>2, <1>5, <2>1 DEF Works
    <3>2. \A q \in Requests : Wrote(q) => Wrote(q)'
      BY <1>a DEF Wrote
    <3>3. Settles(x) => Settles(x)'
      <4>1. ASSUME Settles(x) PROVE ev[x].inst \in Insts /\ ev[x].inst # i
        BY <1>1, <1>2, <2>1, <4>1, EvictedOf DEF Settles
      <4> QED
        BY <1>5, <1>6, <2>1, <4>1 DEF Settles, PersistsStatus
    <3>4. Settles(x) => RowCaused(x)'
      BY <3>3 DEF RowCaused
    <3> QED
      BY <1>3, <1>a, <3>1, <3>2, <3>4, RowCausedFrame
  <2>2. RowCaused(s)'
    BY <1>3 DEF RowCaused
  <2>3. \A j \in Insts : inst'[j].proc \in {"final", "term"} => inst'[j].writes # "idle"
    BY <1>1, <1>4, <1>5 DEF RowOK
  <2>4. \A x \in Sessions : row'[x] = "running" =>
          RowCaused(x)' \/ (row[x] = "running" /\ (RowCaused(x) => RowCaused(x)'))
    BY <1>a, <2>1, <2>2
  <2> QED
    BY <1>1, <2>3, <2>4, RowFrame
<1> QED
  BY <1>7, <1>8, <1>10, <1>11, <1>12 DEF SessionInv

-----------------------------------------------------------------------------
(* The end of an eviction *)

\* What Evicted does to the calls that wait for it, and to its instance.
LEMMA EvictedFacts ==
  ASSUME AgentTyped, NamesOK, NEW s \in Sessions, NEW saved \in BOOLEAN, Evicted(s, saved),
         NEW i \in Insts, i = ev[s].inst
  PROVE  /\ req' \in [Requests -> ReqType]
         /\ \A r \in Requests :
              /\ req'[r].inst = req[r].inst /\ req'[r].lock = req[r].lock
              /\ req'[r].pc = req[r].pc \/ (req[r].pc = "evict" /\ req'[r].pc = "build")
         /\ inst' \in [Insts -> InstType]
         /\ \A j \in Insts :
              /\ inst'[j].of = inst[j].of /\ inst'[j].actor = inst[j].actor /\ inst'[j].turn = inst[j].turn
              /\ inst'[j].queue = inst[j].queue /\ inst'[j].inbox = inst[j].inbox
              /\ inst'[j].proc = inst[j].proc /\ inst'[j].writes = inst[j].writes
              /\ inst'[j].timer = inst[j].timer /\ inst'[j].resumedBusy = inst[j].resumedBusy
              /\ inst'[j].status = inst[j].status \/ inst'[j].status = "interrupted"
              /\ j # i => inst'[j] = inst[j]
         /\ row' \in [Sessions -> Statuses]
         /\ \A x \in Sessions : x # s => row'[x] = row[x]
         /\ row'[s] = "running" => row[s] = "running" /\ (~ PersistsStatus(i) \/ s \in cut')
<1>1. /\ req' = [r \in Requests |-> IF At(r, "evict") /\ req[r].victim = s THEN [req[r] EXCEPT !.pc = "build"] ELSE req[r]]
      /\ inst' = [inst EXCEPT ![i].status = IF inst[i].status = "running" THEN "interrupted" ELSE inst[i].status]
      /\ row' = IF saved /\ PersistsStatus(i)
                  THEN [row EXCEPT ![s] = IF inst[i].status = "running" THEN "interrupted" ELSE inst[i].status]
                  ELSE row
      /\ saved \/ s \in cut'
  BY DEF Evicted
<1>2. ASSUME NEW r \in Requests
      PROVE  /\ req'[r] \in ReqType
             /\ req'[r].inst = req[r].inst /\ req'[r].lock = req[r].lock
             /\ req'[r].pc = req[r].pc \/ (req[r].pc = "evict" /\ req'[r].pc = "build")
  <2>1. PICK x \in ReqType : x = req[r]
    BY DEF AgentTyped
  <2>2. PICK y : y = [x EXCEPT !.pc = "build"]
    OBVIOUS
  <2>3. y \in ReqType /\ y.inst = x.inst /\ y.lock = x.lock /\ y.pc = "build"
    BY <2>2 DEF ReqType, InCall
  <2>4. req'[r] = x \/ (x.pc = "evict" /\ req'[r] = y)
    BY <1>1, <2>1, <2>2 DEF At
  <2> QED
    BY <2>1, <2>3, <2>4
<1>3. req' \in [Requests -> ReqType]
  BY <1>1, <1>2
<1>4. PICK x \in InstType : x = inst[i]
  BY DEF AgentTyped
<1>5. PICK st : st = IF x.status = "running" THEN "interrupted" ELSE x.status
  OBVIOUS
<1>6. st \in Statuses /\ st # "running" /\ (st = x.status \/ st = "interrupted")
  BY <1>5 DEF InstType, Statuses
<1>7. PICK y : y = [x EXCEPT !.status = st]
  OBVIOUS
<1>8. /\ y \in InstType
      /\ y.of = x.of /\ y.actor = x.actor /\ y.turn = x.turn /\ y.queue = x.queue /\ y.inbox = x.inbox
      /\ y.proc = x.proc /\ y.writes = x.writes /\ y.timer = x.timer /\ y.resumedBusy = x.resumedBusy
      /\ y.status = st
  BY <1>6, <1>7 DEF InstType
<1>9. inst' = [inst EXCEPT ![i] = y]
  BY <1>1, <1>4, <1>5, <1>7
<1>10. inst' \in [Insts -> InstType] /\ inst'[i] = y /\ \A j \in Insts : j # i => inst'[j] = inst[j]
  BY <1>8, <1>9, InstStep DEF AgentTyped
<1>11. /\ row' \in [Sessions -> Statuses]
       /\ \A x1 \in Sessions : x1 # s => row'[x1] = row[x1]
       /\ row'[s] = "running" => row[s] = "running" /\ (~ PersistsStatus(i) \/ s \in cut')
  BY <1>1, <1>4, <1>5, <1>6 DEF AgentTyped, HostTyped
<1> QED
  BY <1>2, <1>3, <1>4, <1>6, <1>8, <1>10, <1>11

LEMMA EvictedInv ==
  ASSUME SessionInv, NEW s \in Sessions, NEW saved \in BOOLEAN, Evicted(s, saved) PROVE SessionInv'
<1>1. AgentTyped /\ NamesOK /\ ActorQueueOK /\ InboxOK /\ LeakOK /\ LockOK /\ KeyLogOK /\ BusyOK /\ RowOK
  BY DEF SessionInv
<1>2. ev[s].at \in {"drain", "killed"}
  BY DEF Evicted
<1>3. PICK i \in Insts : i = ev[s].inst /\ inst[i].of = s /\ inst[i].actor # "off" /\ s \in disconnecting
  BY <1>1, <1>2, EvictedOf
<1>4. ~ Live(i)
  BY <1>1, <1>2, <1>3 DEF LeakOK
<1>a. UNCHANGED <<call, log, delivered, holder>> /\ cut \subseteq cut'
  BY DEF Evicted
<1>5. /\ req' \in [Requests -> ReqType]
      /\ \A r \in Requests :
           /\ req'[r].inst = req[r].inst /\ req'[r].lock = req[r].lock
           /\ req'[r].pc = req[r].pc \/ (req[r].pc = "evict" /\ req'[r].pc = "build")
      /\ inst' \in [Insts -> InstType]
      /\ \A j \in Insts :
           /\ inst'[j].of = inst[j].of /\ inst'[j].actor = inst[j].actor /\ inst'[j].turn = inst[j].turn
           /\ inst'[j].queue = inst[j].queue /\ inst'[j].inbox = inst[j].inbox
           /\ inst'[j].proc = inst[j].proc /\ inst'[j].writes = inst[j].writes
           /\ inst'[j].timer = inst[j].timer /\ inst'[j].resumedBusy = inst[j].resumedBusy
           /\ inst'[j].status = inst[j].status \/ inst'[j].status = "interrupted"
           /\ j # i => inst'[j] = inst[j]
      /\ row' \in [Sessions -> Statuses]
      /\ \A x \in Sessions : x # s => row'[x] = row[x]
      /\ row'[s] = "running" => row[s] = "running" /\ (~ PersistsStatus(i) \/ s \in cut')
  BY <1>1, <1>3, EvictedFacts
<1>6. /\ Nobody \notin Insts
      /\ registry \in [Sessions -> Insts \cup {Nobody}] /\ registry' \in [Sessions -> Insts \cup {Nobody}]
      /\ registry'[s] = Nobody /\ \A x \in Sessions : x # s => registry'[x] = registry[x]
  <2>1. registry' = [registry EXCEPT ![s] = Nobody]
    BY DEF Evicted
  <2> QED
    BY <1>1, <2>1, AgentAssumption DEF AgentTyped
<1>7. /\ disconnecting' = disconnecting \ {s}
      /\ ev' \in [Sessions -> EvType] /\ ev'[s].at = "none" /\ \A x \in Sessions : x # s => ev'[x] = ev[x]
  <2>1. disconnecting' = disconnecting \ {s} /\ ev' = [ev EXCEPT ![s] = NoEvict]
    BY DEF Evicted
  <2>2. NoEvict \in EvType /\ NoEvict.at = "none"
    BY DEF NoEvict, EvType
  <2> QED
    BY <1>1, <2>1, <2>2 DEF AgentTyped
<1>8. /\ lockOf' \in [Sessions -> Requests \cup {Nobody}]
      /\ \A x \in Sessions : x # s => lockOf'[x] = lockOf[x]
  <2>1. lockOf' = [lockOf EXCEPT ![s] = Nobody]
    BY DEF Evicted
  <2> QED
    BY <1>1, <2>1 DEF AgentTyped, HostTyped
<1>9. /\ overlapped \subseteq overlapped'
      /\ s \notin overlapped' =>
           registry[s] = i /\ \A r \in Requests : SessionOf(r) = s => req[r].pc \notin Connecting
  BY <1>3 DEF Evicted
<1>b. \A x \in Sessions : Usable(x)' => x # s /\ Usable(x) /\ registry'[x] = registry[x]
  BY <1>6, <1>7 DEF Usable
<1>c. \A r \in Requests : SessionOf(r)' = SessionOf(r) /\ SessionOf(r) \in Sessions
  BY <1>1, <1>a, CallTypes DEF SessionOf, AgentTyped
<1>10. AgentTyped'
  BY <1>1, <1>a, <1>5, <1>6, <1>7, <1>8 DEF AgentTyped, HostTyped
<1>11. NamesOK'
  <2>1. \A j \in Insts :
          /\ inst'[j].of = inst[j].of
          /\ inst'[j].actor = "off" => inst'[j] = inst[j]
          /\ inst'[j].actor \in {"starting", "up"} => inst[j].actor \in {"starting", "up"}
          /\ inst'[j].timer => inst[j].timer \/ inst[j].of \in Sessions
          /\ inst'[j].proc \in {"off", "done"} \/ inst[j].proc \notin {"off", "done"} \/ inst[j].of \in Sessions
          /\ inst[j].proc = "off" => inst'[j].proc = "off"
    BY <1>3, <1>5
  <2>2. \A x \in Sessions :
          /\ registry'[x] = registry[x] \/ registry'[x] = Nobody
          /\ x \in disconnecting' <=> ev'[x].at # "none"
          /\ ev'[x].at # "none" => ev[x].at # "none" /\ ev'[x].inst = ev[x].inst
    BY <1>1, <1>6, <1>7, EvictedOf
  <2>3. \A r \in Requests :
          /\ req'[r].pc \in Using => req[r].pc \in Using /\ req'[r].inst = req[r].inst
          /\ req'[r].pc = "start" => req[r].pc = "start"
    BY <1>5 DEF Using
  <2> QED
    BY <1>1, <1>a, <1>6, <2>1, <2>2, <2>3, OwnFrame DEF AgentTyped
<1>12. ActorQueueOK'
  <2>1. \A j \in Insts :
          /\ inst'[j].queue = inst[j].queue
          /\ inst[j].queue # <<>> => inst'[j].of = inst[j].of
          /\ inst'[j].turn = inst[j].turn \/ inst'[j].turn = Nobody
          /\ inst[j].actor \in {"starting", "up"} => inst'[j].actor \in {"starting", "up"}
          /\ inst[j].actor = "up" => inst'[j].actor = "up"
    BY <1>5
  <2>2. \A r \in Requests : req[r].pc = "sent" => req'[r].pc = "sent" /\ req'[r].inst = req[r].inst
    BY <1>5
  <2>3. ASSUME NEW j \in Insts, inst[j].queue # <<>>, ev[inst[j].of].at = "disconnect"
        PROVE  ev'[inst[j].of] = ev[inst[j].of]
    <3>1. inst[j].of \in Sessions
      BY <1>1, <2>3, LiveOf DEF ActorQueueOK
    <3> QED
      BY <1>2, <1>7, <2>3, <3>1
  <2>4. \A j \in Insts : inst[j].queue \in Seq(Requests \cup {"disconnect"})
    BY <1>1 DEF AgentTyped, InstType
  <2> QED
    BY <1>1, <2>1, <2>2, <2>3, <2>4, QueueFrame
<1>13. InboxOK'
  <2>1. ASSUME NEW j \in Insts
        PROVE  /\ inst'[j].inbox = inst[j].inbox
               /\ inst'[j].proc \in {"term", "done"} => inst[j].proc = inst'[j].proc /\ inst'[j].of = inst[j].of
               /\ inst[j].inbox # <<>> => inst'[j].of = inst[j].of
               /\ inst'[j].actor \in {"starting", "up"} /\ (inst[j].inbox # <<>> \/ inst'[j].proc \in {"term", "done"}) =>
                    inst[j].actor \in {"starting", "up"}
               /\ inst[j].inbox # <<>> /\ inst[j].of \in Sessions =>
                    /\ registry'[inst[j].of] = j => registry[inst[j].of] = j
                    /\ registry'[inst[j].of] = j /\ inst[j].of \in disconnecting => inst[j].of \in disconnecting'
    BY <1>5, <1>6, <1>7
  <2> QED
    BY <1>1, <1>a, <2>1, InboxFrame
<1>14. LockOK'
  <2>1. \A r \in Requests :
          /\ req'[r].pc \in Connecting => req'[r].lock \in Requests
          /\ req'[r].pc \in Holding => holder'[req'[r].lock] = r
    BY <1>1, <1>a, <1>5 DEF LockOK, Connecting, Holding
  <2>2. \A l \in Requests : holder'[l] # Nobody => req'[holder'[l]].pc \in Holding /\ req'[holder'[l]].lock = l
    BY <1>1, <1>a, <1>5 DEF LockOK, Holding, AgentTyped, HostTyped
  <2>3. ASSUME NEW r \in Requests, SessionOf(r)' \notin overlapped'
        PROVE  /\ req'[r].pc \in Connecting => req'[r].lock = lockOf'[SessionOf(r)']
               /\ req'[r].pc \in {"cap", "evict", "build"} => ~ Usable(SessionOf(r))'
               /\ req'[r].pc = "start" => registry'[SessionOf(r)'] = req'[r].inst
    <3>1. PICK x \in Sessions : x = SessionOf(r) /\ x = SessionOf(r)'
      BY <1>c
    <3>4. x \notin overlapped'
      BY <2>3, <3>1
    <3>5. x \notin overlapped
      BY <1>9, <3>4
    <3>2. CASE x = s
      <4>2. req[r].pc \notin Connecting
        BY <1>9, <3>1, <3>2, <3>4
      <4>1. req'[r].pc \notin Connecting
        BY <1>5, <4>2 DEF Connecting
      <4> QED
        BY <4>1 DEF Connecting
    <3>3. CASE x # s
      <4>1. /\ req[r].pc \in Connecting => req[r].lock = lockOf[x]
            /\ req[r].pc \in {"cap", "evict", "build"} => ~ Usable(x)
            /\ req[r].pc = "start" => registry[x] = req[r].inst
        <5>1. /\ req[r].pc \in Connecting => req[r].lock = lockOf[SessionOf(r)]
              /\ req[r].pc \in {"cap", "evict", "build"} => ~ Usable(SessionOf(r))
              /\ req[r].pc = "start" => registry[SessionOf(r)] = req[r].inst
          BY <1>1, <3>1, <3>5 DEF LockOK
        <5> QED
          BY <3>1, <5>1 DEF Usable
      <4>2. ~ Usable(x) => ~ Usable(x)'
        BY <1>b
      <4>3. ~ Usable(x)' => ~ Usable(SessionOf(r))'
        BY <3>1 DEF Usable
      <4> QED
        BY <1>5, <1>6, <1>8, <3>1, <3>3, <4>1, <4>2, <4>3 DEF Connecting
    <3> QED
      BY <3>2, <3>3
  <2> QED
    BY <2>1, <2>2, <2>3 DEF LockOK
<1>15. LeakOK'
  <2>1. ASSUME NEW x \in Sessions, ev'[x].at \in {"drain", "killed"}
        PROVE  ~ Live(ev[x].inst)'
    <3>1. x # s /\ ev'[x] = ev[x]
      BY <1>7, <2>1
    <3>2. PICK j \in Insts : j = ev[x].inst /\ j = ev'[x].inst
      BY <1>1, <2>1, <3>1, EvictedOf
    <3>3. ~ Live(j)'
      BY <1>1, <1>5, <2>1, <3>1, <3>2 DEF LeakOK, Live
    <3> QED
      BY <3>2, <3>3 DEF Live
  <2>2. ASSUME NEW j \in Insts, Live(j)', NEW x, x = inst'[j].of
        PROVE  \/ registry'[x] = j
               \/ x \in disconnecting' /\ (ev'[x].inst = j \/ registry'[x] # ev'[x].inst)
               \/ x \in overlapped'
    <3>1. Live(j) /\ x = inst[j].of /\ x \in Sessions
      BY <1>1, <1>5, <2>2, LiveOf DEF Live
    <3>2. \/ registry[x] = j
          \/ x \in disconnecting /\ (ev[x].inst = j \/ registry[x] # ev[x].inst)
          \/ x \in overlapped
      BY <1>1, <3>1 DEF LeakOK
    <3>3. CASE x = s
      BY <1>3, <1>4, <1>9, <3>1, <3>2, <3>3
    <3>4. CASE x # s
      BY <1>6, <1>7, <1>9, <3>1, <3>2, <3>4
    <3> QED
      BY <3>3, <3>4
  <2> QED
    BY <2>1, <2>2 DEF LeakOK
<1>16. KeyLogOK'
  <2>1. \A r \in Requests :
          /\ req'[r].pc \in Owning => req[r].pc \in Owning
          /\ req[r].pc \in Owning => req'[r].pc \in Owning \cup {"unmark", "left", "lost"}
          /\ req[r].pc = "unmark" => req'[r].pc \in {"unmark", "left", "lost"}
          /\ req[r].pc \in {"left", "lost", "delivered"} => req'[r].pc = req[r].pc
    BY <1>5 DEF Owning
  <2> QED
    BY <1>1, <1>a, <2>1, EntryFrame DEF AgentTyped
<1>17. BusyOK'
  <2>1. \A j \in Insts : Caused(j) => Caused(j)'
    BY <1>a, <1>5 DEF Caused
  <2>2. \A x \in Sessions : \A j \in Insts :
          Usable(x)' /\ registry[x] = j /\ inst'[j].status = "running" =>
            Caused(j)' \/ (inst[j].status = "running" /\ (Caused(j) => Caused(j)'))
    BY <1>5, <2>1
  <2> QED
    BY <1>1, <1>6, <1>b, <2>2, BusyFrame
<1>18. RowOK'
  <2>1. ASSUME NEW x \in Sessions, row'[x] = "running" PROVE RowCaused(x) => RowCaused(x)'
    <3>1. \A j \in Insts : inst[j].of = x /\ Works(j) => inst'[j].of = x /\ Works(j)'
      BY <1>5 DEF Works
    <3>2. \A q \in Requests : Wrote(q) => Wrote(q)'
      BY <1>5 DEF Wrote
    <3>3. Settles(x) => Settles(x)' \/ x \in cut'
      <4>1. CASE x = s
        BY <1>3, <1>5, <2>1, <4>1 DEF Settles
      <4>2. CASE x # s
        <5>1. ASSUME Settles(x) PROVE ev[x].inst \in Insts /\ ev[x].inst # i
          BY <1>1, <1>3, <4>2, <5>1, EvictedOf DEF Settles
        <5> QED
          BY <1>5, <1>7, <4>2, <5>1 DEF Settles, PersistsStatus
      <4> QED
        BY <4>1, <4>2
    <3>4. Settles(x) => RowCaused(x)'
      BY <3>3 DEF RowCaused
    <3> QED
      BY <1>a, <3>1, <3>2, <3>4, RowCausedFrame
  <2>2. \A j \in Insts : inst'[j].proc \in {"final", "term"} => inst'[j].writes # "idle"
    BY <1>1, <1>5 DEF RowOK
  <2>3. \A x \in Sessions : row'[x] = "running" =>
          RowCaused(x)' \/ (row[x] = "running" /\ (RowCaused(x) => RowCaused(x)'))
    BY <1>5, <2>1
  <2> QED
    BY <1>1, <2>2, <2>3, RowFrame
<1> QED
  BY <1>10, <1>11, <1>12, <1>13, <1>14, <1>15, <1>16, <1>17, <1>18 DEF SessionInv

-----------------------------------------------------------------------------
(* A restart *)

LEMMA RestartFacts ==
  ASSUME AgentTyped, NamesOK, Restart
  PROVE  /\ inst' \in [Insts -> InstType]
         /\ \A i \in Insts :
              /\ inst'[i].actor = "off" => inst'[i] = Blank
              /\ inst'[i].actor \in {"off", "gone"} /\ inst'[i].proc \in {"off", "done"}
              /\ inst'[i].turn = Nobody /\ inst'[i].queue = <<>> /\ inst'[i].inbox = <<>> /\ ~ inst'[i].timer
         /\ req' \in [Requests -> ReqType]
         /\ \A r \in Requests :
              /\ req'[r].pc \in Answers \cup {"new"}
              /\ req[r].pc \in Answers \cup {"new"} => req'[r] = req[r]
              /\ req[r].pc \in InCall => req'[r].pc = "lost"
<1>1. /\ req' = [r \in Requests |-> IF req[r].pc \in InCall THEN Put(r, "lost") ELSE req[r]]
      /\ inst' = [i \in Insts |-> IF inst[i].actor = "off" THEN inst[i] ELSE [Blank EXCEPT !.actor = "gone", !.proc = "done"]]
  BY DEF Restart
<1>2. /\ Blank \in InstType /\ Blank.proc = "off" /\ Blank.turn = Nobody /\ Blank.queue = <<>> /\ Blank.inbox = <<>>
      /\ Blank.timer = FALSE /\ Blank.actor = "off"
  BY BlankTyped DEF Blank
<1>3. PICK g : g = [Blank EXCEPT !.actor = "gone", !.proc = "done"]
  OBVIOUS
<1>4. /\ g \in InstType /\ g.proc = "done" /\ g.turn = Nobody /\ g.queue = <<>> /\ g.inbox = <<>>
      /\ g.timer = FALSE /\ g.actor = "gone"
  BY <1>2, <1>3 DEF InstType
<1>5. \A i \in Insts : IF inst[i].actor = "off" THEN inst'[i] = Blank ELSE inst'[i] = g
  BY <1>1, <1>3 DEF NamesOK
<1>6. inst' \in [Insts -> InstType]
  <2>1. \A i \in Insts : inst'[i] \in InstType
    BY <1>2, <1>4, <1>5
  <2> QED
    BY <1>1, <2>1
<1>7. PICK l : l = [NoCall EXCEPT !.pc = "lost"]
  OBVIOUS
<1>8. l \in ReqType /\ l.pc = "lost"
  BY <1>7 DEF NoCall, ReqType, Answers, Statuses
<1>9. \A r \in Requests : IF req[r].pc \in InCall THEN req'[r] = l ELSE req'[r] = req[r]
  BY <1>1, <1>7 DEF Put, Answers
<1>10. \A r \in Requests : req[r] \in ReqType /\ req[r].pc \in InCall \cup Answers \cup {"new"}
  BY DEF AgentTyped, ReqType
<1>11. req' \in [Requests -> ReqType]
  <2>1. \A r \in Requests : req'[r] \in ReqType
    BY <1>8, <1>9, <1>10
  <2> QED
    BY <1>1, <2>1
<1>12. \A x \in Answers \cup {"new"} : x \notin InCall
  BY DEF Answers, InCall
<1>13. "lost" \in Answers
  BY DEF Answers
<1>14. \A i \in Insts :
         /\ inst'[i].actor = "off" => inst'[i] = Blank
         /\ inst'[i].actor \in {"off", "gone"} /\ inst'[i].proc \in {"off", "done"}
         /\ inst'[i].turn = Nobody /\ inst'[i].queue = <<>> /\ inst'[i].inbox = <<>> /\ ~ inst'[i].timer
  BY <1>2, <1>4, <1>5
<1>15. ASSUME NEW r \in Requests
       PROVE  /\ req'[r].pc \in Answers \cup {"new"}
              /\ req[r].pc \in Answers \cup {"new"} => req'[r] = req[r]
              /\ req[r].pc \in InCall => req'[r].pc = "lost"
  BY <1>8, <1>9, <1>10, <1>12, <1>13
<1> QED
  BY <1>6, <1>11, <1>14, <1>15

LEMMA RestartInv == ASSUME SessionInv, Restart PROVE SessionInv'
<1>1. AgentTyped /\ NamesOK /\ LockOK /\ KeyLogOK
  BY DEF SessionInv
<1>a. /\ row' = [s \in Sessions |-> IF row[s] = "running" THEN "interrupted" ELSE row[s]]
      /\ registry' = [s \in Sessions |-> Nobody]
      /\ disconnecting' = {} /\ ev' = [s \in Sessions |-> NoEvict]
      /\ lockOf' = [s \in Sessions |-> Nobody] /\ holder' = [r \in Requests |-> Nobody]
      /\ UNCHANGED <<call, log, delivered>>
  BY DEF Restart
<1>2. /\ inst' \in [Insts -> InstType]
      /\ \A i \in Insts :
           /\ inst'[i].actor = "off" => inst'[i] = Blank
           /\ inst'[i].actor \in {"off", "gone"} /\ inst'[i].proc \in {"off", "done"}
           /\ inst'[i].turn = Nobody /\ inst'[i].queue = <<>> /\ inst'[i].inbox = <<>> /\ ~ inst'[i].timer
      /\ req' \in [Requests -> ReqType]
      /\ \A r \in Requests :
           /\ req'[r].pc \in Answers \cup {"new"}
           /\ req[r].pc \in Answers \cup {"new"} => req'[r] = req[r]
           /\ req[r].pc \in InCall => req'[r].pc = "lost"
  BY <1>1, RestartFacts
<1>3. NoEvict \in EvType /\ NoEvict.at = "none"
  BY DEF NoEvict, EvType
<1>4. \A s \in Sessions : row'[s] \in Statuses /\ row'[s] # "running"
  BY <1>1, <1>a DEF AgentTyped, HostTyped, Statuses
<1>5. \A r \in Requests : req'[r].pc \notin Using \cup Owning \cup Connecting \cup Holding \cup {"start", "sent"}
  <2>1. \A x \in Answers \cup {"new"} : x \notin Using \cup Owning \cup Connecting \cup Holding \cup {"start", "sent"}
    BY DEF Answers, Using, Owning, Connecting, Holding
  <2> QED
    BY <1>2, <2>1
<1>6. AgentTyped'
  BY <1>1, <1>a, <1>2, <1>3, <1>4 DEF AgentTyped, HostTyped
<1>7. NamesOK'
  <2>1. \A s \in Sessions : registry'[s] = Nobody /\ ev'[s].at = "none" /\ s \notin disconnecting'
    BY <1>a, <1>3
  <2>2. \A i \in Insts : ~ Live(i)'
    BY <1>2 DEF Live
  <2> QED
    BY <1>2, <1>5, <2>1, <2>2 DEF NamesOK
<1>8. ActorQueueOK'
  <2>1. \A i \in Insts : inst'[i].queue = <<>> /\ inst'[i].turn = Nobody
    BY <1>2
  <2>2. \A i \in Insts : \A k \in 1..Len(inst'[i].queue) : FALSE
    BY <2>1
  <2> QED
    BY <2>1, <2>2 DEF ActorQueueOK
<1>9. InboxOK'
  <2>1. \A i \in Insts : inst'[i].inbox = <<>> /\ inst'[i].proc # "term" /\ ~ Live(i)'
    BY <1>2 DEF Live
  <2>2. \A i \in Insts : \A k \in 1..Len(inst'[i].inbox) : FALSE
    BY <2>1
  <2> QED
    BY <2>1, <2>2 DEF InboxOK
<1>10. LockOK'
  <2>1. \A l \in Requests : holder'[l] = Nobody
    BY <1>a
  <2> QED
    BY <1>5, <2>1 DEF LockOK, Connecting
<1>11. LeakOK'
  <2>1. \A i \in Insts : ~ Live(i)'
    BY <1>2 DEF Live
  <2>2. \A s \in Sessions : ev'[s].at = "none"
    BY <1>a, <1>3
  <2> QED
    BY <2>1, <2>2 DEF LeakOK
<1>12. KeyLogOK'
  <2>1. ASSUME NEW r \in Requests
        PROVE  /\ req'[r].pc \in Owning => req[r].pc \in Owning
               /\ req[r].pc \in Owning => req'[r].pc \in Owning \cup {"unmark", "left", "lost"}
               /\ req[r].pc = "unmark" => req'[r].pc \in {"unmark", "left", "lost"}
               /\ req[r].pc \in {"left", "lost", "delivered"} => req'[r].pc = req[r].pc
    <3>1. /\ \A x \in Owning \cup {"unmark"} : x \in InCall
          /\ "lost" \in Answers /\ "delivered" \in Answers /\ "left" \in Answers
      BY DEF Owning, InCall, Answers
    <3> QED
      BY <1>2, <1>5, <3>1
  <2> QED
    BY <1>1, <1>a, <2>1, EntryFrame DEF AgentTyped
<1>13. BusyOK'
  <2>1. \A s \in Sessions : registry'[s] = Nobody
    BY <1>a
  <2> QED
    BY <2>1 DEF BusyOK, Usable
<1>14. RowOK'
  BY <1>2, <1>4 DEF RowOK
<1> QED
  BY <1>6, <1>7, <1>8, <1>9, <1>10, <1>11, <1>12, <1>13, <1>14 DEF SessionInv

-----------------------------------------------------------------------------
(* Every step *)

LEMMA Stutters == ASSUME SessionInv, UNCHANGED agentVars PROVE SessionInv'
<1>1. UNCHANGED <<call, row, log, registry, disconnecting, lockOf, holder, req, inst, ev, overlapped, cut, delivered>>
  BY DEF agentVars
<1>2. AgentTyped' /\ NamesOK' /\ ActorQueueOK'
  BY <1>1 DEF SessionInv, AgentTyped, HostTyped, NamesOK, ActorQueueOK, Live, SessionOf
<1>3. InboxOK' /\ LeakOK' /\ LockOK'
  BY <1>1 DEF SessionInv, InboxOK, LeakOK, LockOK, Live, Hidden, SessionOf, Usable
<1>4. KeyLogOK' /\ BusyOK'
  BY <1>1 DEF SessionInv, KeyLogOK, BusyOK, Caused, KeyOf, Usable
<1>5. RowOK'
  BY <1>1 DEF SessionInv, RowOK, RowCaused, Works, Wrote, Settles, PersistsStatus, SessionOf
<1> QED
  BY <1>2, <1>3, <1>4, <1>5 DEF SessionInv

LEMMA Steps == ASSUME SessionInv, [AgentNext]_agentVars PROVE SessionInv'
<1>1. CASE UNCHANGED agentVars
  BY <1>1, Stutters
<1>2. CASE AgentStep
  <2>1. ASSUME NEW s \in Sessions,
               \/ Disconnected(s) \/ Evicted(s, TRUE) \/ Patrol(s)
               \/ InterruptWrite(s) \/ InterruptFails(s)
        PROVE  SessionInv'
    BY <2>1, DisconnectedInv, EvictedInv, PatrolFindsInv, InterruptWriteInv, InterruptFailsInv DEF Patrol
  <2>2. ASSUME NEW i \in Insts,
               \/ TimerFires(i) \/ ActorStarts(i) \/ ActorQuery(i) \/ ActorDisconnects(i) \/ ActorResult(i)
               \/ ProcTake(i) \/ ProcWrite(i)
        PROVE  SessionInv'
    BY <2>2, TimerFiresInv, ActorStartsInv, ActorQueryInv, ActorDisconnectsInv, ActorResultInv, ProcTakeInv,
       ProcWriteInv
  <2>3. ASSUME NEW r \in Requests,
               \/ Begin(r) \/ Connect(r) \/ Acquire(r) \/ EnsureCapacity(r) \/ Build(r) \/ Started(r)
               \/ Admit(r) \/ AppendUserEntry(r) \/ Send(r)
               \/ SendFailed(r) \/ DeleteEntry(r) \/ MarkError(r)
        PROVE  SessionInv'
    BY <2>3, BeginInv, ConnectInv, AcquireInv, EnsureCapacityInv, BuildInv, StartedInv, AdmitInv,
       AppendUserEntryInv, SendInv, SendFailedInv, DeleteEntryInv, MarkErrorInv
  <2>4. CASE Shutdown
    BY <2>4, ShutdownInv
  <2> QED
    BY <1>2, <2>1, <2>2, <2>3, <2>4 DEF AgentStep
<1>3. CASE AgentFault
  <2>1. ASSUME NEW s \in Sessions,
               \/ DisconnectTimesOut(s) \/ ProcCancelled(s) \/ Interrupt(s)
               \/ Evicted(s, FALSE) \/ PatrolIsLate(s)
        PROVE  SessionInv'
    BY <2>1, DisconnectTimesOutInv, ProcCancelledInv, InterruptInv, EvictedInv, PatrolFindsInv DEF PatrolIsLate
  <2>2. ASSUME NEW i \in Insts, StartFails(i) \/ QueryFails(i) \/ ActorDies(i) \/ ProcWriteFails(i)
        PROVE  SessionInv'
    BY <2>2, StartFailsInv, QueryFailsInv, ActorDiesInv, ProcWriteFailsInv
  <2>3. ASSUME NEW r \in Requests,
               BuildFails(r) \/ AppendRaises(r) \/ SendRaises(r) \/ DeleteFails(r) \/ MarkFails(r)
        PROVE  SessionInv'
    BY <2>3, BuildFailsInv, AppendRaisesInv, SendRaisesInv, DeleteFailsInv, MarkFailsInv
  <2>4. CASE Restart
    BY <2>4, RestartInv
  <2> QED
    BY <1>3, <2>1, <2>2, <2>3, <2>4 DEF AgentFault
<1> QED
  BY <1>1, <1>2, <1>3 DEF AgentNext

\* Every step of the calls, the actors, the processors and the evictions, and every
\* fault, keeps the bookkeeping of session_manager.py: its conjuncts hold in every state.
THEOREM Inductive == AgentSpec => []SessionInv
BY Initially, Steps, PTL DEF AgentSpec

\* The registry, the locks and _disconnecting keep their types; a lock is held inside
\* get_or_connect only.
THEOREM Types == AgentSpec => []AgentTypeOK
<1>1. SessionInv => AgentTypeOK
  <2> SUFFICES ASSUME SessionInv PROVE AgentTypeOK
    OBVIOUS
  <2>1. AgentTyped /\ NamesOK /\ LockOK
    BY DEF SessionInv
  <2>2. \A i \in Insts :
          inst[i].status \in Statuses /\ inst[i].actor \in {"off", "starting", "up", "gone", "failed", "cancelled"}
    BY <2>1 DEF AgentTyped, InstType
  <2>3. \A r \in Requests : req[r].pc \in InCall \cup Answers \cup {"new"}
    BY <2>1 DEF AgentTyped, ReqType
  <2> QED
    BY <2>1, <2>2, <2>3 DEF AgentTypeOK, AgentTyped, HostTyped, NamesOK, LockOK, Holding
<1> QED
  BY <1>1, Inductive, PTL

\* send_message hands a client_key to the SDK at most once, and the entry that later
\* retries are answered from means an accepted message, a call in progress, one that was
\* lost, or one that has answered with an error and could not take its entry back.
THEOREM Delivers == AgentSpec => []DeliveredOnce
<1>1. SessionInv => DeliveredOnce
  <2> SUFFICES ASSUME SessionInv, NEW k \in Keys
               PROVE  /\ delivered[k] <= 1
                      /\ delivered[k] = 1 => log[k] # Nobody
                      /\ log[k] # Nobody =>
                           \/ delivered[k] = 1 \/ Sending(log[k])
                           \/ At(log[k], "lost") \/ At(log[k], "left")
    BY DEF DeliveredOnce
  <2>1. delivered[k] \in {0, 1} /\ (delivered[k] = 1 => log[k] # Nobody)
    BY DEF SessionInv, KeyLogOK
  <2>2. delivered[k] <= 1
    BY <2>1
  <2>3. ASSUME log[k] # Nobody
        PROVE  delivered[k] = 1 \/ Sending(log[k]) \/ At(log[k], "lost") \/ At(log[k], "left")
    BY <2>3 DEF SessionInv, KeyLogOK, Owning, Sending, At
  <2> QED
    BY <2>1, <2>2, <2>3
<1> QED
  BY <1>1, Inductive, PTL

\* A registered session that send_message refuses as running has a turn, an end of a
\* turn to process or a call of its own, or it was resumed from a stale row, or its
\* processor has ended under a living actor.
THEOREM Runs == AgentSpec => []BusyHasCause
<1>1. SessionInv => BusyHasCause
  <2> SUFFICES ASSUME SessionInv, NEW s \in Sessions, Usable(s), inst[registry[s]].status = "running"
               PROVE  \/ Busy(registry[s])
                      \/ inst[registry[s]].resumedBusy
                      \/ inst[registry[s]].proc = "done" /\ s \in cut
                      \/ \E r \in Requests : Sending(r) /\ SessionOf(r) = s
    BY DEF BusyHasCause
  <2>1. NamesOK /\ BusyOK
    BY DEF SessionInv
  <2>2. Caused(registry[s]) /\ inst[registry[s]].of = s
    BY <2>1 DEF BusyOK, NamesOK, Usable
  <2>3. ASSUME NEW r \in Requests, req[r].pc \in {"sent", "failed"}, req[r].inst = registry[s]
        PROVE  Sending(r) /\ SessionOf(r) = s
    <3>1. inst[req[r].inst].of = SessionOf(r)
      BY <2>1, <2>3 DEF NamesOK, Using
    <3> QED
      BY <2>2, <2>3, <3>1 DEF Sending
  <2> QED
    BY <2>2, <2>3 DEF Caused, Busy
<1> QED
  BY <1>1, Inductive, PTL

\* A row that says running is that of a session at work, unless a disconnect cut the
\* turn off, _evict_one is still to write it or it could not be written.
THEOREM Marks == AgentSpec => []RunningRowHasCause
<1>1. SessionInv => RunningRowHasCause
  <2> SUFFICES ASSUME SessionInv, NEW s \in Sessions, row[s] = "running"
               PROVE  \/ \E i \in Insts : inst[i].of = s /\ Busy(i)
                      \/ \E r \in Requests : Sending(r) /\ SessionOf(r) = s
                      \/ s \in cut
                      \/ ev[s].at # "none"
    BY DEF RunningRowHasCause
  <2>1. RowCaused(s)
    BY DEF SessionInv, RowOK
  <2>2. ASSUME NEW i \in Insts, Works(i) PROVE Busy(i)
    <3>1. CASE inst[i].turn # Nobody
      BY <3>1 DEF Busy
    <3>2. CASE inst[i].proc # "done" /\ \E k \in 1..Len(inst[i].inbox) : inst[i].inbox[k] \in TurnResults
      <4>1. inst[i].inbox # <<>>
        <5>1. ASSUME inst[i].inbox = <<>> PROVE FALSE
          <6>1. \A k \in 1..Len(inst[i].inbox) : FALSE
            BY <5>1
          <6> QED
            BY <3>2, <6>1
        <5> QED
          BY <5>1
      <4> QED
        BY <3>2, <4>1 DEF Busy
    <3>3. CASE inst[i].proc \in {"final", "term"}
      BY <3>3 DEF Busy
    <3> QED
      BY <2>2, <3>1, <3>2, <3>3 DEF Works
  <2> QED
    BY <2>1, <2>2 DEF RowCaused, Settles, Wrote, Sending
<1> QED
  BY <1>1, Inductive, PTL

\* An SDK process that lives is registered, or is being evicted, or was registered
\* while _evict_one of an earlier one ended.
THEOREM Reaches == AgentSpec => []LeakHasCause
<1>1. SessionInv => LeakHasCause
  BY DEF SessionInv, LeakOK, LeakHasCause
<1> QED
  BY <1>1, Inductive, PTL
=============================================================================
