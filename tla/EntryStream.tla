---------------------------- MODULE EntryStream ----------------------------
(***************************************************************************)
(* The timeline of one session: the event log (EventLogStore), what writes *)
(* it (send_message and the entry pipeline of the inbox processor), the    *)
(* subscriber queue (SseChannel) and the stream of one client              *)
(* (stream_entry_events), which reads what is stored and then what is      *)
(* broadcast, and comes back with the seq of the last entry it was given.  *)
(***************************************************************************)
EXTENDS Integers, Sequences, SequencesExt, FiniteSetsExt

CONSTANTS Users,        \* the user messages, numbered in the order in which their inserts return
          MaxMessages,  \* bound on the messages of the SDK
          QueueMax,     \* queue_maxsize
          MaxOpens,     \* bound on how often the client connects
          MaxLosses     \* bound on refused queries, failed writes and failed deletes

ASSUME StreamAssumption ==
  /\ Users \subseteq Nat \ {0}
  /\ MaxMessages \in Nat /\ QueueMax \in Nat \ {0} /\ MaxOpens \in Nat /\ MaxLosses \in Nat

VARIABLES rows,       \* the event log: seq -> entry
          user,       \* the user messages: where send_message is, and the seq it writes
          status,     \* managed.status
          alive,      \* the actor lives
          waiting,    \* the queries in the queue of the actor
          driven,     \* the turn that is driven, or 0
          turns,      \* how many queries the SDK has accepted
          made,       \* how many messages the SDK has sent
          unread,     \* _inbox
          writer,     \* the inbox processor: where it is, its message and the seq it writes
          chan,       \* the queue of the subscriber, and whether it is registered
          client,     \* the stream: where it is, how it ended and the turn that ended it
          cursor,     \* last_seq, which the client sends when it connects again
          shown,      \* the entries the client was given
          opens,      \* how often it has connected
          losses,     \* how many queries were refused, and writes and deletes have failed
          cast,       \* history: the seqs of the entries that were broadcast
          freed,      \* history: the seqs of deleted entries
          overtaken,  \* history: the seqs of entries of which one with a greater seq was broadcast first
          unsure      \* history: the entries of which a write was committed and yet raised

logVars == <<rows, freed, unsure>>
actorSide == <<alive, waiting, driven, turns, made, unread>>
castVars == <<chan, cast, overtaken>>
clientVars == <<client, cursor, shown, opens>>
streamVars == <<logVars, actorSide, castVars, clientVars, user, status, writer, losses>>

\* An entry: its kind, its number and the turn it belongs to.
UserEntry(u) == <<"user", u, 0>>
IsInterrupt(e) == e[1] \in {"echo", "result"}
IdleWriter == [at |-> "idle", msg |-> <<"none", 0, 0>>, seq |-> -1]

\* Type invariant.
StreamTypeOK ==
  /\ DOMAIN rows \subseteq Nat
  /\ status \in {"idle", "running", "completed", "interrupted", "error"}
  /\ Len(chan.queue) <= QueueMax
  /\ writer.at \in {"idle", "tail", "read", "write", "cast"}
  /\ client.at \in {"off", "list", "all", "check", "live", "ended"}
  /\ cursor \in Int /\ cursor >= -1
  /\ freed \subseteq Nat

StreamInit ==
  /\ rows = <<>>
  /\ user = [u \in Users |-> [at |-> "new", seq |-> -1]]
  /\ status = "idle" /\ alive = TRUE
  /\ waiting = <<>> /\ driven = 0 /\ turns = 0 /\ made = 0 /\ unread = <<>>
  /\ writer = IdleWriter
  /\ chan = [queue |-> <<>>, on |-> FALSE]
  /\ client = [at |-> "off", by |-> "none", turn |-> 0, pending |-> FALSE, beats |-> 0]
  /\ cursor = -1 /\ shown = <<>> /\ opens = 0 /\ losses = 0
  /\ cast = {} /\ freed = {} /\ overtaken = {} /\ unsure = {}
-----------------------------------------------------------------------------
(* EventLogStore *)

LastSeq == Max(DOMAIN rows \cup {-1})
WithRow(seq, e) == [s \in DOMAIN rows \cup {seq} |-> IF s = seq THEN e ELSE rows[s]]
WithoutRow(seq) == [s \in DOMAIN rows \ {seq} |-> rows[s]]

\* list_after, in the order of seq: the k-th has k - 1 of the entries found before it.
ListAfter(seq) ==
  LET found == {s \in DOMAIN rows : s > seq}
      nth(k) == CHOOSE s \in found : Cardinality({x \in found : x < s}) = k - 1
  IN [k \in 1..Cardinality(found) |-> rows[nth(k)]]

-----------------------------------------------------------------------------
(* SseChannel with EvictNonCriticalAndSignal *)

Critical(item) == item[1] # "raw"
Evictable(q) == {k \in 1..Len(q) : ~ Critical(q[k])}

\* A full queue drops what is not critical; something critical takes the place
\* of something that is not, and without any ends the stream.
Deliver(c, item) ==
  CASE ~ c.on -> c
    [] c.on /\ Len(c.queue) < QueueMax -> [c EXCEPT !.queue = Append(@, item)]
    [] c.on /\ Len(c.queue) = QueueMax /\ ~ Critical(item) -> c
    [] c.on /\ Len(c.queue) = QueueMax /\ Critical(item) /\ Evictable(c.queue) # {} ->
         [c EXCEPT !.queue = Append(RemoveAt(@, Min(Evictable(c.queue))), item)]
    [] OTHER -> [queue |-> <<<<"eos">>>>, on |-> FALSE]

\* What is broadcast at a time is one item or two.
Delivered(items) ==
  IF Len(items) = 1 THEN Deliver(chan, items[1]) ELSE Deliver(Deliver(chan, items[1]), items[2])

Cast(items) == chan' = Delivered(items) /\ UNCHANGED <<cast, overtaken>>

\* The log_entry of the entry at seq is among the items.
CastEntry(seq, items) ==
  /\ chan' = Delivered(items)
  /\ cast' = cast \cup {seq}
  /\ overtaken' = overtaken \cup {s \in DOMAIN rows : s < seq /\ s \notin cast}

-----------------------------------------------------------------------------
(* send_message, from the check of the status on *)

\* The session does not run; the greatest seq is read.
Admitted(u) ==
  /\ user[u].at = "new" /\ status # "running"
  /\ user' = [user EXCEPT ![u] = [at |-> "write", seq |-> LastSeq + 1]]
  /\ UNCHANGED <<logVars, actorSide, castVars, clientVars, status, writer, losses>>

\* It is the turn of u to return from the store.
IsNext(u) == \A v \in Users : v < u => user[v].at \notin {"new", "write"}

\* The entry is inserted, or its seq is taken and another is read.
UserWrites(u) ==
  /\ user[u].at = "write" /\ IsNext(u)
  /\ IF user[u].seq \in DOMAIN rows
       THEN user' = [user EXCEPT ![u].seq = LastSeq + 1] /\ UNCHANGED rows
       ELSE rows' = WithRow(user[u].seq, UserEntry(u)) /\ user' = [user EXCEPT ![u].at = "send"]
  /\ UNCHANGED <<freed, unsure, actorSide, castVars, clientVars, status, writer, losses>>

\* The insert raises, committed or not, or the status that is written behind it does:
\* the call ends, and an entry that was stored is left.
UserFails(u) ==
  /\ user[u].at \in {"write", "send"} /\ IsNext(u)
  /\ losses < MaxLosses /\ losses' = losses + 1
  /\ \/ UNCHANGED rows
     \/ user[u].at = "write" /\ user[u].seq \notin DOMAIN rows /\ rows' = WithRow(user[u].seq, UserEntry(u))
  /\ user' = [user EXCEPT ![u].at = "left"]
  /\ UNCHANGED <<freed, unsure, actorSide, castVars, clientVars, status, writer>>

\* send_query puts the query into the queue, or finds the actor gone.
Queued(u) ==
  /\ user[u].at = "send"
  /\ user' = [user EXCEPT ![u].at = IF alive THEN "sent" ELSE "undo"]
  /\ status' = IF alive THEN "running" ELSE "error"
  /\ waiting' = IF alive THEN Append(waiting, u) ELSE waiting
  /\ UNCHANGED <<logVars, alive, driven, turns, made, unread, castVars, clientVars, writer, losses>>

\* The query is accepted: send_message wakes up and broadcasts the entry
\* before the SDK can answer.
Accepted ==
  LET u == Head(waiting)
  IN /\ alive /\ driven = 0 /\ waiting # <<>>
     /\ waiting' = Tail(waiting)
     /\ turns' = turns + 1 /\ driven' = turns + 1
     /\ user' = [user EXCEPT ![u].at = "accepted"]
     /\ CastEntry(user[u].seq, <<<<"entry", user[u].seq, UserEntry(u)>>>>)
     /\ UNCHANGED <<logVars, alive, made, unread, clientVars, status, writer, losses>>

\* The query raises: the actor ends, and with it all that was queued.
Refused ==
  /\ alive /\ driven = 0 /\ waiting # <<>>
  /\ losses < MaxLosses /\ losses' = losses + 1
  /\ alive' = FALSE
  /\ user' = [u \in Users |-> IF u \in ToSet(waiting) THEN [user[u] EXCEPT !.at = "undo"] ELSE user[u]]
  /\ waiting' = <<>>
  /\ status' = "error"
  /\ unread' = Append(unread, <<"crash", 0, 0>>)
  /\ UNCHANGED <<logVars, driven, turns, made, castVars, clientVars, writer>>

\* delete_entry, the compensation of a query that was not accepted.
Undone(u) ==
  /\ user[u].at = "undo"
  /\ rows' = WithoutRow(user[u].seq)
  /\ freed' = freed \cup {user[u].seq}
  /\ user' = [user EXCEPT ![u].at = "failed"]
  /\ UNCHANGED <<unsure, actorSide, castVars, clientVars, status, writer, losses>>

\* It raises, which is logged: the entry is left.
UndoFails(u) ==
  /\ user[u].at = "undo"
  /\ losses < MaxLosses /\ losses' = losses + 1
  /\ user' = [user EXCEPT ![u].at = "left"]
  /\ UNCHANGED <<logVars, actorSide, castVars, clientVars, status, writer>>

\* The session is evicted and connected again, with a channel of its own.
Reconnected ==
  /\ ~ alive /\ unread = <<>> /\ writer = IdleWriter
  /\ alive' = TRUE
  /\ chan' = [chan EXCEPT !.on = FALSE]
  /\ UNCHANGED <<logVars, waiting, driven, turns, made, unread, cast, overtaken, clientVars, user, status, writer, losses>>

-----------------------------------------------------------------------------
(* The callback of the actor: a message is broadcast and handed to the inbox *)

\* The SDK says something, or echoes an interrupt.
Speaks(kind) ==
  /\ driven # 0 /\ made < MaxMessages
  /\ made' = made + 1
  /\ unread' = Append(unread, <<kind, made + 1, driven>>)
  /\ Cast(<<<<"raw">>>>)
  /\ UNCHANGED <<logVars, alive, waiting, driven, turns, clientVars, user, status, writer, losses>>

\* The result of the turn, which says whether it was interrupted.
Results(how) ==
  /\ driven # 0
  /\ driven' = 0
  /\ unread' = Append(unread, <<how, 0, driven>>)
  /\ Cast(<<<<"result">>>>)
  /\ UNCHANGED <<logVars, alive, waiting, turns, made, clientVars, user, status, writer, losses>>

-----------------------------------------------------------------------------
(* _process_inbox and the entry pipeline *)

writerOthers == <<logVars, alive, waiting, driven, turns, made, clientVars, user, losses>>

\* A message that yields no entry is finished at once.
TakeMessage ==
  LET m == Head(unread)
  IN /\ writer.at = "idle" /\ unread # <<>>
     /\ unread' = Tail(unread)
     /\ CASE m[1] = "crash" -> Cast(<<<<"runtime">>>>) /\ status' = "error" /\ UNCHANGED writer
          [] m[1] = "completed" -> Cast(<<<<"complete", m[3]>>>>) /\ status' = "completed" /\ UNCHANGED writer
          [] m[1] \in {"echo", "result"} ->
               writer' = [at |-> "tail", msg |-> m, seq |-> -1] /\ UNCHANGED <<castVars, status>>
          [] OTHER -> writer' = [at |-> "read", msg |-> m, seq |-> -1] /\ UNCHANGED <<castVars, status>>
     /\ UNCHANGED writerOthers

\* Mutant: the end of the turn is announced before its interrupt entry.
EndFirst(seq, m) == <<<<"complete", m[3]>>, <<"entry", seq, m>>>>

\* What is broadcast once an entry is stored: the entry, and the end of the turn
\* when it comes from a result.
AfterWrite(seq, m) ==
  IF m[1] = "result" THEN <<<<"entry", seq, m>>, <<"complete", m[3]>>>> ELSE <<<<"entry", seq, m>>>>

Finalized(m) == IF m[1] = "result" THEN "interrupted" ELSE status

\* _append_interrupt_deduped: an interrupt behind an interrupt is not stored.
ChecksTail ==
  LET m == writer.msg
      dup == LastSeq >= 0 /\ IsInterrupt(rows[LastSeq])
  IN /\ writer.at = "tail"
     /\ writer' = IF dup THEN IdleWriter ELSE [writer EXCEPT !.at = "read"]
     /\ IF dup /\ m[1] = "result"
          THEN Cast(<<<<"complete", m[3]>>>>) /\ status' = "interrupted"
          ELSE UNCHANGED <<castVars, status>>
     /\ UNCHANGED <<writerOthers, unread>>

ReadsSeq ==
  /\ writer.at = "read"
  /\ writer' = [writer EXCEPT !.at = "write", !.seq = LastSeq + 1]
  /\ UNCHANGED <<writerOthers, unread, castVars, status>>

\* The entry is inserted; or the seq is taken, or the insert raises and nothing is
\* stored, and the seq is read again.
Writes ==
  /\ writer.at = "write"
  /\ \/ writer' = [writer EXCEPT !.at = "read"] /\ UNCHANGED rows
     \/ /\ writer.seq \notin DOMAIN rows
        /\ rows' = WithRow(writer.seq, writer.msg) /\ writer' = [writer EXCEPT !.at = "cast"]
  /\ UNCHANGED <<freed, unsure, actorSide, castVars, clientVars, user, status, losses>>

\* The store has returned: the broadcasts, and the status of a result.
Broadcasts ==
  LET m == writer.msg
  IN /\ writer.at = "cast"
     /\ CastEntry(writer.seq, AfterWrite(writer.seq, m))
     /\ status' = Finalized(m)
     /\ writer' = IdleWriter
     /\ UNCHANGED <<writerOthers, unread>>

\* The insert raises although the entry is stored, and _append_with_retry stores it
\* again, whatever was raised; or an insert that raises, with the entry stored or
\* not, was the last attempt: handle_message swallows that, end of turn included.
WriteFails ==
  LET m == writer.msg
      stored == writer.seq \notin DOMAIN rows /\ rows' = WithRow(writer.seq, m) /\ unsure' = unsure \cup {m}
      again == writer' = [writer EXCEPT !.at = "read"] /\ UNCHANGED status
      last == writer' = IdleWriter /\ status' = Finalized(m)
  IN /\ writer.at = "write"
     /\ losses < MaxLosses /\ losses' = losses + 1
     /\ \/ stored /\ (again \/ last)
        \/ last /\ UNCHANGED <<rows, unsure>>
     /\ UNCHANGED <<freed, actorSide, castVars, clientVars, user>>

-----------------------------------------------------------------------------
(* stream_entry_events *)

clientOthers == <<logVars, actorSide, cast, overtaken, user, status, writer, losses>>
Ends(by, turn) == client' = [client EXCEPT !.at = "ended", !.by = by, !.turn = turn]
Subscribed == [queue |-> <<>>, on |-> TRUE]
Unsubscribed == [queue |-> <<>>, on |-> FALSE]
Begins(at) == [at |-> at, by |-> "none", turn |-> 0, pending |-> FALSE, beats |-> 0]

\* The client connects; a session that does not run is only listed.
Opens ==
  /\ client.at \in {"off", "ended"} /\ opens < MaxOpens
  /\ opens' = opens + 1
  /\ IF status = "running"
       THEN client' = Begins("list") /\ chan' = Subscribed
       ELSE client' = Begins("all") /\ UNCHANGED chan
  /\ UNCHANGED <<clientOthers, cursor, shown>>

\* list_entries: what is stored behind the cursor is given.
Lists ==
  /\ client.at \in {"list", "all"}
  /\ shown' = shown \o ListAfter(cursor)
  /\ cursor' = Max({cursor, LastSeq})
  /\ IF client.at = "all" THEN Ends("status", 0) ELSE client' = [client EXCEPT !.at = "check"]
  /\ UNCHANGED <<clientOthers, chan, opens>>

\* Mutant: the subscription is made after the stored entries were read.
ChecksThenSubscribes ==
  /\ client.at = "check"
  /\ IF status = "running"
       THEN client' = [client EXCEPT !.at = "live"] /\ chan' = Subscribed
       ELSE Ends("status", 0) /\ chan' = Unsubscribed
  /\ UNCHANGED <<clientOthers, cursor, shown, opens>>

\* A session that no longer runs ends the stream, whatever the queue holds.
Checks ==
  /\ client.at = "check"
  /\ IF status = "running"
       THEN client' = [client EXCEPT !.at = "live"] /\ UNCHANGED chan
       ELSE Ends("status", 0) /\ chan' = Unsubscribed
  /\ UNCHANGED <<clientOthers, cursor, shown, opens>>

\* Mutant: what the list gave comes again from the queue.
GivesAgain(seq) == seq >= 0

\* The threshold that keeps out what was listed already.
IsNew(seq) == seq > cursor

\* What ends the stream: the end of the turn whose result was seen, the end of the
\* session, and the end of the queue.
EndsStream(item) == \/ item[1] = "complete" /\ client.pending
                    \/ item[1] \in {"runtime", "eos"}

\* The next item of the queue.
Receives ==
  LET item == Head(chan.queue)
      fresh == item[1] = "entry" /\ IsNew(item[2])
  IN /\ client.at = "live" /\ chan.queue # <<>>
     /\ shown' = IF fresh THEN Append(shown, item[3]) ELSE shown
     /\ cursor' = IF fresh THEN item[2] ELSE cursor
     /\ IF EndsStream(item)
          THEN /\ Ends(item[1], IF item[1] = "complete" THEN item[2] ELSE 0)
               /\ chan' = Unsubscribed
          ELSE /\ client' = [client EXCEPT !.pending = @ \/ item[1] = "result"]
               /\ chan' = [chan EXCEPT !.queue = Tail(@)]
     /\ UNCHANGED <<clientOthers, opens>>

\* Nothing has come for a while: the second time after the result, or when the
\* session no longer runs, the stream ends.
Heartbeats ==
  LET over == IF client.pending THEN client.beats = 1 ELSE status # "running"
  IN /\ client.at = "live" /\ chan.queue = <<>>
     /\ IF over
          THEN Ends("beat", 0) /\ chan' = Unsubscribed
          ELSE /\ client' = [client EXCEPT !.beats = IF client.pending THEN @ + 1 ELSE @]
               /\ UNCHANGED chan
     /\ UNCHANGED <<clientOthers, cursor, shown, opens>>

\* The connection is lost.
Drops ==
  /\ client.at = "live"
  /\ Ends("drop", 0)
  /\ chan' = Unsubscribed
  /\ UNCHANGED <<clientOthers, cursor, shown, opens>>

-----------------------------------------------------------------------------
StreamNext ==
  \/ \E u \in Users :
       Admitted(u) \/ UserWrites(u) \/ UserFails(u) \/ Queued(u) \/ Undone(u) \/ UndoFails(u)
  \/ Accepted \/ Refused \/ Reconnected
  \/ \E kind \in {"say", "echo"} : Speaks(kind)
  \/ \E how \in {"completed", "result"} : Results(how)
  \/ TakeMessage \/ ChecksTail \/ ReadsSeq \/ Writes \/ Broadcasts \/ WriteFails
  \/ Opens \/ Lists \/ Checks \/ Receives \/ Heartbeats \/ Drops

StreamSpec == StreamInit /\ [][StreamNext]_streamVars
-----------------------------------------------------------------------------
(* What must hold *)

\* No entry is given twice: not by the list and then by the queue of the same stream,
\* not after a reconnect, and not under another seq, unless a write of it was
\* committed and yet raised: _append_with_retry then stores it again.
GivenOnce ==
  \A j, k \in 1..Len(shown) : j # k /\ shown[j] = shown[k] => shown[j] \in unsure

\* An entry the client cannot get any more by connecting with its cursor, it was
\* given; unless its seq was that of a deleted entry before, or an entry with a
\* greater seq was broadcast before it was, if it was at all.
CursorMeansSeen ==
  \A s \in DOMAIN rows :
    s <= cursor => rows[s] \in ToSet(shown) \/ s \in freed \/ s \in overtaken

\* A stream that ended with the end of a turn has given all that turn has stored,
\* but for the same two exceptions, and for an entry whose write was committed and
\* yet raised, the last time too, so that it was never broadcast.
EndIsComplete ==
  client.at = "ended" /\ client.by = "complete" =>
    \A s \in DOMAIN rows :
      rows[s][3] \in 1..client.turn =>
        rows[s] \in ToSet(shown) \/ s \in freed \/ s \in overtaken \/ rows[s] \in unsure
=============================================================================
