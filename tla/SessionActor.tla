---------------------------- MODULE SessionActor ----------------------------
(***************************************************************************)
(* server/agent_runtime/session_actor.py: the one asyncio task that owns   *)
(* the SDK client of a session.  Requests put commands into its queue and  *)
(* wait until they are completed; while a query is driven, the stream of   *)
(* messages (msg_task) and the next command (cmd_task) are awaited         *)
(* together, and both may have arrived when the actor wakes up.            *)
(***************************************************************************)
EXTENDS Sequences, SequencesExt, FiniteSets

CONSTANTS Commands,   \* the commands that may be sent
          KindOf,     \* query, interrupt or disconnect
          NoCommand

ASSUME CommandsAssumption ==
  /\ KindOf \in [Commands -> {"query", "interrupt", "disconnect"}]
  /\ NoCommand \notin Commands

VARIABLES actor,     \* where _run is
          cmdQueue,  \* _cmd_queue
          taken,     \* the command a finished cmd_task took from the queue
          message,   \* the state of msg_task: "none", "ready", "end" or "raise"
          current,   \* query_cmd of _drive_query, or the query being submitted
          stashed,   \* pending_query
          deferred,  \* deferred_cmd of _command_loop
          sent,      \* the commands that were enqueued
          accepted,  \* the queries whose client.query() returned
          done,      \* the commands whose done event is set
          ended      \* history: the queries whose response was read to its end

actorVars == <<actor, cmdQueue, taken, message, current, stashed, deferred, sent, accepted, done, ended>>

ActorStates == {"new", "loop", "submit", "drive", "interrupt", "disconnect", "leaving", "done"}
Slot == Commands \cup {NoCommand}

\* The command that each local variable of the actor holds.
Held == <<taken, current, stashed, deferred>>

\* Type invariant; no command is in two places.
ActorTypeOK ==
  /\ actor \in ActorStates
  /\ cmdQueue \in Seq(Commands) /\ IsInjective(cmdQueue)
  /\ taken \in Slot /\ current \in Slot /\ stashed \in Slot /\ deferred \in Slot
  /\ message \in {"none", "ready", "end", "raise"}
  /\ sent \subseteq Commands /\ accepted \subseteq sent /\ done \subseteq sent /\ ended \subseteq accepted
  /\ \A i, j \in 1..4 : i # j /\ Held[i] = Held[j] => Held[i] = NoCommand
  /\ \A i \in 1..4 : Held[i] \notin ToSet(cmdQueue)

ActorInit ==
  /\ actor = "new"
  /\ cmdQueue = <<>>
  /\ taken = NoCommand /\ current = NoCommand /\ stashed = NoCommand /\ deferred = NoCommand
  /\ message = "none"
  /\ sent = {} /\ accepted = {} /\ done = {} /\ ended = {}

Complete(cs) == done' = done \cup (cs \ {NoCommand})

\* enqueue: an actor whose task is done answers at once.
Enqueue(c) ==
  /\ c \notin sent
  /\ sent' = sent \cup {c}
  /\ IF actor = "done"
       THEN Complete({c}) /\ UNCHANGED cmdQueue
       ELSE cmdQueue' = Append(cmdQueue, c) /\ UNCHANGED done
  /\ UNCHANGED <<actor, taken, message, current, stashed, deferred, accepted, ended>>

\* The client context is entered, or the factory raises.
EnterClient ==
  /\ actor = "new"
  /\ \E to \in {"loop", "leaving"} : actor' = to
  /\ UNCHANGED <<cmdQueue, taken, message, current, stashed, deferred, sent, accepted, done, ended>>

\* _command_loop: the deferred command first, then the head of the queue.
NextCommand ==
  LET c == IF deferred # NoCommand THEN deferred ELSE Head(cmdQueue)
  IN /\ actor = "loop"
     /\ deferred # NoCommand \/ cmdQueue # <<>>
     /\ deferred' = NoCommand
     /\ cmdQueue' = IF deferred # NoCommand THEN cmdQueue ELSE Tail(cmdQueue)
     /\ CASE KindOf[c] = "query" -> actor' = "submit" /\ current' = c /\ UNCHANGED done
          [] KindOf[c] = "interrupt" -> actor' = "loop" /\ Complete({c}) /\ UNCHANGED current
          [] OTHER -> actor' = "leaving" /\ Complete({c}) /\ UNCHANGED current
     /\ UNCHANGED <<taken, message, stashed, sent, accepted, ended>>

\* client.query() returns and the HTTP path is released.
Submitted ==
  /\ actor = "submit"
  /\ actor' = "drive"
  /\ accepted' = accepted \cup {current}
  /\ UNCHANGED <<cmdQueue, taken, message, current, stashed, deferred, sent, done, ended>>

\* cmd_task takes the next command.
TakeCommand ==
  /\ actor \in {"drive", "interrupt", "disconnect"}
  /\ taken = NoCommand /\ cmdQueue # <<>>
  /\ taken' = Head(cmdQueue)
  /\ cmdQueue' = Tail(cmdQueue)
  /\ UNCHANGED <<actor, message, current, stashed, deferred, sent, accepted, done, ended>>

\* msg_task yields a message, the end of the response, or an error.
StreamYields ==
  /\ actor \in {"drive", "interrupt", "disconnect"}
  /\ message = "none"
  /\ message' \in {"ready", "end", "raise"}
  /\ ended' = IF message' = "end" THEN ended \cup {current} ELSE ended
  /\ UNCHANGED <<actor, cmdQueue, taken, current, stashed, deferred, sent, accepted, done>>

\* An exception leaves _drive_query: its handlers complete the query and the
\* stashed one, and whatever cmd_task had taken is dropped with it.
Fail(extra) ==
  /\ Complete({current, stashed} \cup extra)
  /\ actor' = "leaving"
  /\ taken' = NoCommand /\ current' = NoCommand /\ stashed' = NoCommand
  /\ message' = "none"
  /\ UNCHANGED <<cmdQueue, deferred, sent, accepted, ended>>

\* Mutant: a stashed query is handed over while the response is still coming.
HandsOverEarly == message # "none" \/ stashed # NoCommand

\* _drive_query leaves its loop for the next command once the response ended.
ResponseOver == message = "end"

\* The queue after _drive_query has put back what it does not hand over.
PutBack == IF stashed # NoCommand /\ taken # NoCommand THEN Append(cmdQueue, taken) ELSE cmdQueue

\* The response has ended: a stashed query goes first, and a command that
\* cmd_task took meanwhile is put back at the end of the queue.
WakeAtEnd ==
  /\ actor = "drive"
  /\ ResponseOver
  /\ Complete({current})
  /\ actor' = "loop"
  /\ current' = NoCommand /\ taken' = NoCommand /\ stashed' = NoCommand
  /\ message' = "none"
  /\ deferred' = IF stashed # NoCommand THEN stashed ELSE taken
  /\ cmdQueue' = PutBack
  /\ UNCHANGED <<sent, accepted, ended>>

\* A message is delivered and the command that came with it, if any, served.
WakeServing ==
  /\ actor = "drive"
  /\ message \in {"none", "ready"}
  /\ message # "none" \/ taken # NoCommand
  /\ message' = "none"
  /\ IF taken = NoCommand THEN UNCHANGED <<actor, taken, stashed, done>>
     ELSE CASE KindOf[taken] = "interrupt" ->
                 actor' = "interrupt" /\ UNCHANGED <<taken, stashed, done>>
            [] KindOf[taken] = "disconnect" ->
                 actor' = "disconnect" /\ UNCHANGED <<taken, stashed, done>>
            [] OTHER ->
                 /\ taken' = NoCommand
                 /\ UNCHANGED actor
                 /\ IF stashed = NoCommand
                      THEN stashed' = taken /\ UNCHANGED done
                      ELSE Complete({taken}) /\ UNCHANGED stashed
  /\ UNCHANGED <<cmdQueue, current, deferred, sent, accepted, ended>>

WakeAtError == actor = "drive" /\ message = "raise" /\ Fail({})

\* client.interrupt() for an interrupt command: it is completed either way.
Interrupted ==
  /\ actor = "interrupt"
  /\ \/ /\ actor' = "drive"
        /\ Complete({taken})
        /\ taken' = NoCommand
        /\ UNCHANGED <<cmdQueue, message, current, stashed, deferred, sent, accepted, ended>>
     \/ Fail({taken})

\* Mutant: the query that a disconnect interrupts is forgotten.
ForgetsQuery == {stashed}

\* What a disconnect completes before it leaves _drive_query.
DisconnectCompletes == {current, stashed}

\* client.interrupt() for a disconnect; the command goes back to the loop.
LeaveQuery ==
  /\ actor = "disconnect"
  /\ \/ /\ actor' = "loop"
        /\ Complete(DisconnectCompletes)
        /\ deferred' = taken
        /\ taken' = NoCommand /\ current' = NoCommand /\ stashed' = NoCommand
        /\ message' = "none"
        /\ UNCHANGED <<cmdQueue, sent, accepted, ended>>
     \/ Fail({})

\* client.query() raises, or cancel_and_wait cancels the actor at an await.
SubmitFails == actor = "submit" /\ Fail({})
Cancelled ==
  \/ actor \in {"submit", "drive", "disconnect"} /\ Fail({})
  \/ actor = "interrupt" /\ Fail({taken})
  \/ /\ actor = "loop" /\ deferred = NoCommand /\ cmdQueue = <<>>
     /\ Fail({})

\* The client is closed and _drain_pending_commands answers what is left.
Leave ==
  /\ actor = "leaving"
  /\ actor' = "done"
  /\ Complete(ToSet(cmdQueue))
  /\ cmdQueue' = <<>>
  /\ UNCHANGED <<taken, message, current, stashed, deferred, sent, accepted, ended>>

ActorNext ==
  \/ \E c \in Commands : Enqueue(c)
  \/ EnterClient \/ NextCommand \/ Submitted \/ TakeCommand \/ StreamYields
  \/ WakeAtEnd \/ WakeServing \/ WakeAtError \/ Interrupted \/ LeaveQuery
  \/ SubmitFails \/ Cancelled \/ Leave

ActorSpec == ActorInit /\ [][ActorNext]_actorVars
-----------------------------------------------------------------------------
(* What must hold *)

\* A query is submitted only when the responses to the queries accepted before
\* it were read to their ends ("drain before new query", ADR 0028).
DrainBeforeNext == actor = "submit" => accepted \subseteq ended

\* When the actor is gone every accepted query has been released, and at most
\* one caller waits on: the one whose command cmd_task had taken out of the
\* queue when the stream or client.interrupt() raised.
ReleasedButOne ==
  actor = "done" => accepted \subseteq done /\ Cardinality(sent \ done) <= 1
=============================================================================
