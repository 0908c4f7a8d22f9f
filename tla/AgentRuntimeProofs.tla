------------------------ MODULE AgentRuntimeProofs -------------------------
(***************************************************************************)
(* Proofs about the actor of an agent session, for any set of commands,    *)
(* and about the runtime that it, the session registry and the timeline of *)
(* a session make up.                                                      *)
(*                                                                         *)
(* The argument about the actor follows the commands: each one that was    *)
(* sent is answered or in one place (the queue or a local variable of the  *)
(* actor), except for at most one, which is dropped on the way out (Lost). *)
(*                                                                         *)
(* The runtime has the properties of its parts because each of its steps   *)
(* is a step of every part, or leaves it alone (RuntimeParts).             *)
(***************************************************************************)
EXTENDS MCAgentRuntime, AgentSessionProofs, EntryStreamProofs, TLAPS

\* A query is being driven.
Driving == {"drive", "interrupt", "disconnect"}

\* What each point of the actor holds.
Holds ==
  /\ actor # "loop" => deferred = NoCommand
  /\ actor \in {"new", "loop", "leaving", "done"} => taken = NoCommand /\ current = NoCommand /\ stashed = NoCommand
  /\ actor = "submit" => current # NoCommand /\ taken = NoCommand /\ stashed = NoCommand
  /\ actor \in Driving => current \in accepted
  /\ actor \in {"interrupt", "disconnect"} => taken # NoCommand
  /\ actor = "disconnect" => KindOf[taken] = "disconnect"
  /\ actor = "done" => cmdQueue = <<>>
  /\ message # "none" => actor \in Driving

\* What is in a place was sent, and what was sent and is in none was answered or lost.
InPlace == {taken, current, stashed, deferred} \cup ToSet(cmdQueue)
Lost == sent \ (done \cup InPlace)
Followed ==
  /\ InPlace \subseteq sent \cup {NoCommand}
  /\ actor \notin {"leaving", "done"} => Lost = {}
  /\ \E c \in Slot : Lost \subseteq {c}
  /\ accepted \subseteq done \cup {current}

\* A response that was not read to its end is the current one, or the actor is about to disconnect.
Drained ==
  /\ actor = "new" => accepted = {}
  /\ actor = "loop" => accepted \subseteq ended \/ (deferred # NoCommand /\ KindOf[deferred] = "disconnect")
  /\ actor = "submit" => accepted \subseteq ended
  /\ actor \in Driving => accepted \subseteq ended \cup {current}
  /\ message = "end" => current \in ended

\* No command is in two places, spelt out.
OnePlace ==
  /\ IsInjective(cmdQueue)
  /\ taken \notin ToSet(cmdQueue) /\ current \notin ToSet(cmdQueue)
  /\ stashed \notin ToSet(cmdQueue) /\ deferred \notin ToSet(cmdQueue)
  /\ taken # NoCommand => taken \notin {current, stashed, deferred}
  /\ current # NoCommand => current \notin {stashed, deferred}
  /\ stashed # NoCommand => stashed # deferred

CommandsTyped ==
  /\ actor \in ActorStates
  /\ cmdQueue \in Seq(Commands)
  /\ taken \in Slot /\ current \in Slot /\ stashed \in Slot /\ deferred \in Slot
  /\ message \in {"none", "ready", "end", "raise"}
  /\ sent \subseteq Commands /\ accepted \subseteq sent /\ done \subseteq sent /\ ended \subseteq accepted

ActorInv == CommandsTyped /\ OnePlace /\ Holds /\ Followed /\ Drained
-----------------------------------------------------------------------------
(* Sequences of commands                                                   *)

LEMMA AppendSet ==
  ASSUME NEW s \in Seq(Commands), NEW c \in Commands
  PROVE  Append(s, c) \in Seq(Commands) /\ ToSet(Append(s, c)) = ToSet(s) \cup {c}
<1>1. /\ Append(s, c) \in Seq(Commands) /\ Len(Append(s, c)) = Len(s) + 1
      /\ \A i \in 1..Len(s) + 1 : Append(s, c)[i] = IF i = Len(s) + 1 THEN c ELSE s[i]
  OBVIOUS
<1>2. ASSUME NEW e PROVE e \in ToSet(Append(s, c)) => e \in ToSet(s) \cup {c}
  BY <1>1 DEF ToSet
<1>3. ASSUME NEW e \in ToSet(s) PROVE e \in ToSet(Append(s, c))
  BY <1>1 DEF ToSet
<1>4. c \in ToSet(Append(s, c))
  BY <1>1 DEF ToSet
<1> QED BY <1>1, <1>2, <1>3, <1>4

LEMMA TailSet ==
  ASSUME NEW s \in Seq(Commands), s # <<>>
  PROVE  Head(s) \in Commands /\ Tail(s) \in Seq(Commands) /\ ToSet(s) = ToSet(Tail(s)) \cup {Head(s)}
<1> DEFINE u == Tail(s)
           n == Len(s)
<1>1. /\ Head(s) \in Commands /\ u \in Seq(Commands) /\ n \in Nat \ {0} /\ Head(s) = s[1]
      /\ DOMAIN s = 1..n /\ DOMAIN u = 1..(n - 1) /\ \A i \in 1..(n - 1) : u[i] = s[i + 1]
  OBVIOUS
<1> HIDE DEF u, n
<1>2. ASSUME NEW i \in 1..n PROVE s[i] \in ToSet(u) \cup {Head(s)}
  <2>1. i = 1 \/ (i - 1 \in 1..(n - 1) /\ u[i - 1] = s[i])
    BY <1>1
  <2> QED BY <1>1, <2>1 DEF ToSet
<1>3. ASSUME NEW i \in 1..(n - 1) PROVE u[i] \in ToSet(s)
  BY <1>1 DEF ToSet
<1>4. Head(s) \in ToSet(s)
  BY <1>1 DEF ToSet
<1>5. ToSet(s) = {s[i] : i \in 1..n} /\ ToSet(u) = {u[i] : i \in 1..(n - 1)}
  BY <1>1 DEF ToSet
<1>6. ToSet(s) = ToSet(u) \cup {Head(s)}
  BY <1>2, <1>3, <1>4, <1>5
<1> QED BY <1>1, <1>6 DEF u

LEMMA AppendInj ==
  ASSUME NEW s \in Seq(Commands), NEW c \in Commands, IsInjective(s), c \notin ToSet(s)
  PROVE  IsInjective(Append(s, c))
BY DEF ToSet, IsInjective

LEMMA TailInj ==
  ASSUME NEW s \in Seq(Commands), s # <<>>, IsInjective(s)
  PROVE  IsInjective(Tail(s)) /\ Head(s) \notin ToSet(Tail(s))
BY DEF ToSet, IsInjective
-----------------------------------------------------------------------------
(* Every step keeps the invariant                                          *)

LEMMA ActorInitInv == ActorInit => ActorInv
<1> SUFFICES ASSUME ActorInit PROVE ActorInv
  OBVIOUS
<1> USE CommandsAssumption DEF ActorInit
<1>1. CommandsTyped
  BY DEF CommandsTyped, ActorStates, Slot
<1>2. ToSet(cmdQueue) = {} /\ IsInjective(cmdQueue)
  BY DEF ToSet, IsInjective
<1>3. OnePlace /\ Holds /\ Drained
  BY <1>2 DEF OnePlace, Holds, Drained, Driving
<1>4. Followed
  BY <1>2 DEF Followed, InPlace, Lost, Slot
<1> QED BY <1>1, <1>3, <1>4 DEF ActorInv

\* An exception that leaves _drive_query loses at most what cmd_task had taken.
LEMMA FailKeeps ==
  ASSUME ActorInv, NEW extra, Fail(extra), extra = {} \/ extra = {taken},
         actor \in {"submit", "drive", "interrupt", "disconnect"} \/ (actor = "loop" /\ deferred = NoCommand)
  PROVE  ActorInv'
<1> USE CommandsAssumption DEF ActorInv, Fail, Complete
<1>a. CommandsTyped'
  BY DEF CommandsTyped, Holds, ActorStates, Slot, Driving, InPlace, Followed
<1>b. OnePlace'
  BY DEF OnePlace, CommandsTyped, Slot, Holds, Driving, Followed, InPlace
<1>c. Holds'
  BY DEF Holds, Driving, CommandsTyped, Slot
<1>d. Followed'
  BY DEF Followed, InPlace, Lost, Holds, Driving, CommandsTyped, Slot
<1>e. Drained'
  BY DEF Drained, Holds, Driving, CommandsTyped, Slot
<1> QED BY <1>a, <1>b, <1>c, <1>d, <1>e

LEMMA EnqueueKeeps ==
  ASSUME ActorInv, NEW c \in Commands, Enqueue(c)
  PROVE  ActorInv'
<1> USE CommandsAssumption DEF ActorInv
<1>0. c \notin ToSet(cmdQueue) /\ c \notin {taken, current, stashed, deferred}
  BY DEF Enqueue, Followed, InPlace
<1>1. CASE actor = "done"
  <2> USE <1>0, <1>1 DEF Enqueue, Complete
  <2>a. CommandsTyped'
    BY DEF CommandsTyped, Holds, ActorStates, Slot, Driving, InPlace, Followed
  <2>b. OnePlace'
    BY DEF OnePlace, CommandsTyped, Slot, Holds, Driving, Followed, InPlace
  <2>c. Holds'
    BY DEF Holds, Driving, CommandsTyped, Slot
  <2>d. Followed'
    BY DEF Followed, InPlace, Lost, Holds, Driving, CommandsTyped, Slot
  <2>e. Drained'
    BY DEF Drained, Holds, Driving, CommandsTyped, Slot
  <2> QED BY <2>a, <2>b, <2>c, <2>d, <2>e
<1>2. CASE actor # "done"
  <2>1. /\ cmdQueue' \in Seq(Commands) /\ ToSet(cmdQueue') = ToSet(cmdQueue) \cup {c} /\ IsInjective(cmdQueue')
        /\ UNCHANGED <<actor, taken, message, current, stashed, deferred, accepted, ended, done>>
        /\ sent' = sent \cup {c}
    <3>1. cmdQueue' = Append(cmdQueue, c) /\ cmdQueue \in Seq(Commands) /\ IsInjective(cmdQueue)
      BY <1>2 DEF Enqueue, CommandsTyped, OnePlace
    <3>2. cmdQueue' \in Seq(Commands) /\ ToSet(cmdQueue') = ToSet(cmdQueue) \cup {c} /\ IsInjective(cmdQueue')
      BY <1>0, <3>1, AppendSet, AppendInj
    <3> QED BY <1>2, <3>2 DEF Enqueue
  <2> USE <1>0, <1>2, <2>1
  <2>a. CommandsTyped'
    BY DEF CommandsTyped, Holds, ActorStates, Slot, Driving, InPlace, Followed
  <2>b. OnePlace'
    BY DEF OnePlace, CommandsTyped, Slot, Holds, Driving, Followed, InPlace
  <2>c. Holds'
    BY DEF Holds, Driving, CommandsTyped, Slot
  <2>d. Followed'
    BY DEF Followed, InPlace, Lost, Holds, Driving, CommandsTyped, Slot
  <2>e. Drained'
    BY DEF Drained, Holds, Driving, CommandsTyped, Slot
  <2> QED BY <2>a, <2>b, <2>c, <2>d, <2>e
<1> QED BY <1>1, <1>2

LEMMA NextKeeps ==
  ASSUME ActorInv, NextCommand
  PROVE  ActorInv'
<1> USE CommandsAssumption DEF ActorInv
<1>1. PICK c \in Commands :
        /\ c \in InPlace /\ c \notin ToSet(cmdQueue')
        /\ cmdQueue' \in Seq(Commands) /\ ToSet(cmdQueue') \cup {c} = ToSet(cmdQueue) \cup ({deferred} \ {NoCommand})
        /\ IsInjective(cmdQueue') /\ deferred' = NoCommand /\ actor = "loop"
        /\ deferred # NoCommand => c = deferred
        /\ \/ KindOf[c] = "query" /\ actor' = "submit" /\ current' = c /\ UNCHANGED done
           \/ KindOf[c] # "query" /\ actor' \in {"loop", "leaving"} /\ Complete({c}) /\ UNCHANGED current
        /\ actor' = "loop" => KindOf[c] # "disconnect"
  <2>1. CASE deferred # NoCommand
    <3>1. deferred \in Commands /\ deferred \notin ToSet(cmdQueue)
      BY <2>1 DEF CommandsTyped, Slot, OnePlace
    <3> QED BY <2>1, <3>1 DEF NextCommand, CommandsTyped, OnePlace, InPlace
  <2>2. CASE deferred = NoCommand
    <3>1. cmdQueue # <<>> /\ cmdQueue' = Tail(cmdQueue)
      BY <2>2 DEF NextCommand
    <3>2. /\ Head(cmdQueue) \in Commands /\ Tail(cmdQueue) \in Seq(Commands)
          /\ ToSet(cmdQueue) = ToSet(Tail(cmdQueue)) \cup {Head(cmdQueue)}
          /\ IsInjective(Tail(cmdQueue)) /\ Head(cmdQueue) \notin ToSet(Tail(cmdQueue))
      BY <3>1, TailSet, TailInj DEF CommandsTyped, OnePlace
    <3> QED BY <2>2, <3>1, <3>2 DEF NextCommand, InPlace
  <2> QED BY <2>1, <2>2
<1>2. UNCHANGED <<taken, message, stashed, sent, accepted, ended>>
  BY DEF NextCommand
<1> USE <1>1, <1>2 DEF Complete
<1>a. CommandsTyped'
  BY DEF CommandsTyped, Holds, ActorStates, Slot, Driving, InPlace, Followed
<1>b. OnePlace'
  BY DEF OnePlace, CommandsTyped, Slot, Holds, Driving, Followed, InPlace
<1>c. Holds'
  BY DEF Holds, Driving, CommandsTyped, Slot
<1>d. Followed'
  BY DEF Followed, InPlace, Lost, Holds, Driving, CommandsTyped, Slot
<1>e. Drained'
  BY DEF Drained, Holds, Driving, CommandsTyped, Slot
<1> QED BY <1>a, <1>b, <1>c, <1>d, <1>e

LEMMA TakeKeeps ==
  ASSUME ActorInv, TakeCommand
  PROVE  ActorInv'
<1> USE CommandsAssumption DEF ActorInv
<1>1. /\ taken = NoCommand /\ actor \in Driving
      /\ taken' \in Commands /\ cmdQueue' \in Seq(Commands)
      /\ ToSet(cmdQueue) = ToSet(cmdQueue') \cup {taken'}
      /\ IsInjective(cmdQueue') /\ taken' \notin ToSet(cmdQueue')
  BY TailSet, TailInj DEF TakeCommand, CommandsTyped, OnePlace, Driving
<1>2. UNCHANGED <<actor, message, current, stashed, deferred, sent, accepted, done, ended>>
  BY DEF TakeCommand
<1> USE <1>1, <1>2
<1>a. CommandsTyped'
  BY DEF CommandsTyped, Holds, ActorStates, Slot, Driving, InPlace, Followed
<1>b. OnePlace'
  BY DEF OnePlace, CommandsTyped, Slot, Holds, Driving, Followed, InPlace
<1>c. Holds'
  BY DEF Holds, Driving, CommandsTyped, Slot
<1>d. Followed'
  BY DEF Followed, InPlace, Lost, Holds, Driving, CommandsTyped, Slot
<1>e. Drained'
  BY DEF Drained, Holds, Driving, CommandsTyped, Slot
<1> QED BY <1>a, <1>b, <1>c, <1>d, <1>e

LEMMA EndKeeps ==
  ASSUME ActorInv, WakeAtEnd
  PROVE  ActorInv'
<1> USE CommandsAssumption DEF ActorInv
<1>1. /\ actor = "drive" /\ message = "end" /\ actor' = "loop" /\ message' = "none" /\ Complete({current})
      /\ current' = NoCommand /\ taken' = NoCommand /\ stashed' = NoCommand
      /\ UNCHANGED <<sent, accepted, ended>>
  BY DEF WakeAtEnd, ResponseOver
<1>2. CASE stashed # NoCommand /\ taken # NoCommand
  <2>1. taken \in Commands /\ taken \notin ToSet(cmdQueue)
    BY <1>2 DEF CommandsTyped, Slot, OnePlace
  <2>2. /\ cmdQueue' \in Seq(Commands) /\ ToSet(cmdQueue') = ToSet(cmdQueue) \cup {taken} /\ IsInjective(cmdQueue')
        /\ deferred' = stashed
    BY <1>2, <2>1, AppendSet, AppendInj DEF WakeAtEnd, PutBack, CommandsTyped, OnePlace
  <2> USE <1>1, <1>2, <2>1, <2>2 DEF Complete
  <2>a. CommandsTyped'
    BY DEF CommandsTyped, Holds, ActorStates, Slot, Driving, InPlace, Followed
  <2>b. OnePlace'
    BY DEF OnePlace, CommandsTyped, Slot, Holds, Driving, Followed, InPlace
  <2>c. Holds'
    BY DEF Holds, Driving, CommandsTyped, Slot
  <2>d. Followed'
    BY DEF Followed, InPlace, Lost, Holds, Driving, CommandsTyped, Slot
  <2>e. Drained'
    BY DEF Drained, Holds, Driving, CommandsTyped, Slot
  <2> QED BY <2>a, <2>b, <2>c, <2>d, <2>e
<1>3. CASE ~(stashed # NoCommand /\ taken # NoCommand)
  <2>1. cmdQueue' = cmdQueue /\ deferred' = IF stashed # NoCommand THEN stashed ELSE taken
    BY <1>3 DEF WakeAtEnd, PutBack
  <2> USE <1>1, <1>3, <2>1 DEF Complete
  <2>a. CommandsTyped'
    BY DEF CommandsTyped, Holds, ActorStates, Slot, Driving, InPlace, Followed
  <2>b. OnePlace'
    BY DEF OnePlace, CommandsTyped, Slot, Holds, Driving, Followed, InPlace
  <2>c. Holds'
    BY DEF Holds, Driving, CommandsTyped, Slot
  <2>d. Followed'
    BY DEF Followed, InPlace, Lost, Holds, Driving, CommandsTyped, Slot
  <2>e. Drained'
    BY DEF Drained, Holds, Driving, CommandsTyped, Slot
  <2> QED BY <2>a, <2>b, <2>c, <2>d, <2>e
<1> QED BY <1>2, <1>3

LEMMA ServeKeeps ==
  ASSUME ActorInv, WakeServing
  PROVE  ActorInv'
<1> USE CommandsAssumption DEF ActorInv
<1>1. /\ actor = "drive" /\ message' = "none" /\ UNCHANGED <<cmdQueue, current, deferred, sent, accepted, ended>>
      /\ \/ UNCHANGED <<actor, taken, stashed, done>>
         \/ /\ taken # NoCommand /\ actor' \in {"interrupt", "disconnect"} /\ UNCHANGED <<taken, stashed, done>>
            /\ actor' = "disconnect" => KindOf[taken] = "disconnect"
         \/ taken # NoCommand /\ stashed = NoCommand /\ stashed' = taken /\ taken' = NoCommand /\ UNCHANGED <<actor, done>>
         \/ taken # NoCommand /\ Complete({taken}) /\ taken' = NoCommand /\ UNCHANGED <<actor, stashed>>
  BY DEF WakeServing
<1> USE <1>1 DEF Complete
<1>a. CommandsTyped'
  BY DEF CommandsTyped, Holds, ActorStates, Slot, Driving, InPlace, Followed
<1>b. OnePlace'
  BY DEF OnePlace, CommandsTyped, Slot, Holds, Driving, Followed, InPlace
<1>c. Holds'
  BY DEF Holds, Driving, CommandsTyped, Slot
<1>d. Followed'
  BY DEF Followed, InPlace, Lost, Holds, Driving, CommandsTyped, Slot
<1>e. Drained'
  BY DEF Drained, Holds, Driving, CommandsTyped, Slot
<1> QED BY <1>a, <1>b, <1>c, <1>d, <1>e

\* The steps that leave the queue alone and do not fail.
LEMMA PlainKeeps ==
  ASSUME ActorInv
  PROVE  /\ EnterClient => ActorInv'
         /\ Submitted => ActorInv'
         /\ StreamYields => ActorInv'
         /\ Interrupted /\ actor' = "drive" => ActorInv'
         /\ LeaveQuery /\ actor' = "loop" => ActorInv'
         /\ Leave => ActorInv'
<1> USE CommandsAssumption DEF ActorInv
<1>1. ASSUME EnterClient PROVE ActorInv'
  <2> USE <1>1 DEF EnterClient
  <2>a. CommandsTyped'
    BY DEF CommandsTyped, Holds, ActorStates, Slot, Driving, InPlace, Followed
  <2>b. OnePlace'
    BY DEF OnePlace, CommandsTyped, Slot, Holds, Driving, Followed, InPlace
  <2>c. Holds'
    BY DEF Holds, Driving, CommandsTyped, Slot
  <2>d. Followed'
    BY DEF Followed, InPlace, Lost, Holds, Driving, CommandsTyped, Slot
  <2>e. Drained'
    BY DEF Drained, Holds, Driving, CommandsTyped, Slot
  <2> QED BY <2>a, <2>b, <2>c, <2>d, <2>e
<1>2. ASSUME Submitted PROVE ActorInv'
  <2> USE <1>2 DEF Submitted
  <2>a. CommandsTyped'
    BY DEF CommandsTyped, Holds, ActorStates, Slot, Driving, InPlace, Followed
  <2>b. OnePlace'
    BY DEF OnePlace, CommandsTyped, Slot, Holds, Driving, Followed, InPlace
  <2>c. Holds'
    BY DEF Holds, Driving, CommandsTyped, Slot
  <2>d. Followed'
    BY DEF Followed, InPlace, Lost, Holds, Driving, CommandsTyped, Slot
  <2>e. Drained'
    BY DEF Drained, Holds, Driving, CommandsTyped, Slot
  <2> QED BY <2>a, <2>b, <2>c, <2>d, <2>e
<1>3. ASSUME StreamYields PROVE ActorInv'
  <2> USE <1>3 DEF StreamYields
  <2>a. CommandsTyped'
    BY DEF CommandsTyped, Holds, ActorStates, Slot, Driving, InPlace, Followed
  <2>b. OnePlace'
    BY DEF OnePlace, CommandsTyped, Slot, Holds, Driving, Followed, InPlace
  <2>c. Holds'
    BY DEF Holds, Driving, CommandsTyped, Slot
  <2>d. Followed'
    BY DEF Followed, InPlace, Lost, Holds, Driving, CommandsTyped, Slot
  <2>e. Drained'
    BY DEF Drained, Holds, Driving, CommandsTyped, Slot
  <2> QED BY <2>a, <2>b, <2>c, <2>d, <2>e
<1>4. ASSUME Interrupted, actor' = "drive" PROVE ActorInv'
  <2>1. /\ actor = "interrupt" /\ Complete({taken}) /\ taken' = NoCommand
        /\ UNCHANGED <<cmdQueue, message, current, stashed, deferred, sent, accepted, ended>>
    BY <1>4 DEF Interrupted, Fail
  <2> USE <1>4, <2>1 DEF Complete
  <2>a. CommandsTyped'
    BY DEF CommandsTyped, Holds, ActorStates, Slot, Driving, InPlace, Followed
  <2>b. OnePlace'
    BY DEF OnePlace, CommandsTyped, Slot, Holds, Driving, Followed, InPlace
  <2>c. Holds'
    BY DEF Holds, Driving, CommandsTyped, Slot
  <2>d. Followed'
    BY DEF Followed, InPlace, Lost, Holds, Driving, CommandsTyped, Slot
  <2>e. Drained'
    BY DEF Drained, Holds, Driving, CommandsTyped, Slot
  <2> QED BY <2>a, <2>b, <2>c, <2>d, <2>e
<1>5. ASSUME LeaveQuery, actor' = "loop" PROVE ActorInv'
  <2>1. /\ actor = "disconnect" /\ Complete({current, stashed}) /\ deferred' = taken
        /\ taken' = NoCommand /\ current' = NoCommand /\ stashed' = NoCommand /\ message' = "none"
        /\ UNCHANGED <<cmdQueue, sent, accepted, ended>>
    BY <1>5 DEF LeaveQuery, Fail, DisconnectCompletes
  <2> USE <1>5, <2>1 DEF Complete
  <2>a. CommandsTyped'
    BY DEF CommandsTyped, Holds, ActorStates, Slot, Driving, InPlace, Followed
  <2>b. OnePlace'
    BY DEF OnePlace, CommandsTyped, Slot, Holds, Driving, Followed, InPlace
  <2>c. Holds'
    BY DEF Holds, Driving, CommandsTyped, Slot
  <2>d. Followed'
    BY DEF Followed, InPlace, Lost, Holds, Driving, CommandsTyped, Slot
  <2>e. Drained'
    BY DEF Drained, Holds, Driving, CommandsTyped, Slot
  <2> QED BY <2>a, <2>b, <2>c, <2>d, <2>e
<1>6. ASSUME Leave PROVE ActorInv'
  <2>1. cmdQueue' = <<>> /\ cmdQueue' \in Seq(Commands) /\ ToSet(cmdQueue') = {} /\ IsInjective(cmdQueue')
    BY <1>6 DEF Leave, ToSet, IsInjective
  <2>2. /\ actor = "leaving" /\ actor' = "done" /\ Complete(ToSet(cmdQueue))
        /\ UNCHANGED <<taken, message, current, stashed, deferred, sent, accepted, ended>>
    BY <1>6 DEF Leave
  <2> USE <2>1, <2>2 DEF Complete
  <2>a. CommandsTyped'
    BY DEF CommandsTyped, Holds, ActorStates, Slot, Driving, InPlace, Followed
  <2>b. OnePlace'
    BY DEF OnePlace, CommandsTyped, Slot, Holds, Driving, Followed, InPlace
  <2>c. Holds'
    BY DEF Holds, Driving, CommandsTyped, Slot
  <2>d. Followed'
    BY DEF Followed, InPlace, Lost, Holds, Driving, CommandsTyped, Slot
  <2>e. Drained'
    BY DEF Drained, Holds, Driving, CommandsTyped, Slot
  <2> QED BY <2>a, <2>b, <2>c, <2>d, <2>e
<1> QED BY <1>1, <1>2, <1>3, <1>4, <1>5, <1>6

LEMMA ActorStepInv == ActorInv /\ [ActorNext]_actorVars => ActorInv'
<1> SUFFICES ASSUME ActorInv, [ActorNext]_actorVars PROVE ActorInv'
  OBVIOUS
<1>1. CASE UNCHANGED actorVars
  BY <1>1 DEF actorVars, ActorInv, CommandsTyped, OnePlace, Holds, Followed, InPlace, Lost, Drained
<1>2. CASE WakeAtError \/ SubmitFails
  BY <1>2, FailKeeps DEF WakeAtError, SubmitFails
<1>3. CASE Cancelled
  BY <1>3, FailKeeps DEF Cancelled
<1>4. CASE Interrupted
  BY <1>4, FailKeeps, PlainKeeps DEF Interrupted
<1>5. CASE LeaveQuery
  BY <1>5, FailKeeps, PlainKeeps DEF LeaveQuery
<1> QED BY <1>1, <1>2, <1>3, <1>4, <1>5, EnqueueKeeps, NextKeeps, TakeKeeps, EndKeeps, ServeKeeps, PlainKeeps DEF ActorNext

LEMMA ActorInductive == ActorSpec => []ActorInv
BY ActorInitInv, ActorStepInv, PTL DEF ActorSpec

-----------------------------------------------------------------------------
(* The theorems                                                            *)

\* Types, and no command is in two places: neither handed over twice when a message and a command
\* arrive together, nor left behind when one is put back (_drive_query).
THEOREM ActorTypes == ActorSpec => []ActorTypeOK
<1>1. ActorInv => ActorTypeOK
  <2> SUFFICES ASSUME ActorInv PROVE ActorTypeOK
    OBVIOUS
  <2>1. Held[1] = taken /\ Held[2] = current /\ Held[3] = stashed /\ Held[4] = deferred
    BY DEF Held
  <2>2. \A i \in 1..4 : i = 1 \/ i = 2 \/ i = 3 \/ i = 4
    OBVIOUS
  <2>3. \A i, j \in 1..4 : i # j /\ Held[i] = Held[j] => Held[i] = NoCommand
    BY <2>1, <2>2 DEF ActorInv, OnePlace
  <2>4. \A i \in 1..4 : Held[i] \notin ToSet(cmdQueue)
    BY <2>1, <2>2 DEF ActorInv, OnePlace
  <2> QED BY <2>3, <2>4 DEF ActorInv, CommandsTyped, OnePlace, ActorTypeOK
<1> QED BY <1>1, ActorInductive, PTL

\* A query is submitted only when the responses accepted before it were read to their ends
\* ("drain before new query", ADR 0028).
THEOREM Drains == ActorSpec => []DrainBeforeNext
<1>1. ActorInv => DrainBeforeNext
  BY DEF ActorInv, Drained, DrainBeforeNext
<1> QED BY <1>1, ActorInductive, PTL

\* When the actor is gone every accepted query has been released, and at most one caller waits on.
THEOREM Releases == ActorSpec => []ReleasedButOne
<1>1. ActorInv => ReleasedButOne
  <2> SUFFICES ASSUME ActorInv, actor = "done"
               PROVE  accepted \subseteq done /\ Cardinality(sent \ done) <= 1
    BY DEF ReleasedButOne
  <2>1. ToSet(cmdQueue) = {}
    BY DEF ActorInv, Holds, ToSet
  <2>2. InPlace = {NoCommand}
    BY <2>1 DEF ActorInv, Holds, InPlace
  <2>3. NoCommand \notin sent
    BY CommandsAssumption DEF ActorInv, CommandsTyped
  <2>4. PICK c \in Slot : sent \ done \subseteq {c}
    BY <2>2, <2>3 DEF ActorInv, Followed, Lost
  <2>5. Cardinality(sent \ done) <= Cardinality({c}) /\ Cardinality({c}) = 1
    BY <2>4, FS_Singleton, FS_Subset
  <2>6. accepted \subseteq done
    BY <2>3 DEF ActorInv, CommandsTyped, Holds, Followed
  <2> QED BY <2>5, <2>6
<1> QED BY <1>1, ActorInductive, PTL

-----------------------------------------------------------------------------
(* The runtime                                                             *)

\* What the runtime does is, seen from each of its three parts, what that part does alone.
THEOREM RuntimeParts == RuntimeSpec => ActorSpec /\ AgentSpec /\ StreamSpec
<1>1. RuntimeInit => ActorInit /\ AgentInit /\ StreamInit
  BY DEF RuntimeInit
<1>2. [RuntimeNext]_runtimeVars => [ActorNext]_actorVars
  BY DEF RuntimeNext, runtimeVars
<1>3. [RuntimeNext]_runtimeVars => [AgentNext]_agentVars
  BY DEF RuntimeNext, runtimeVars
<1>4. [RuntimeNext]_runtimeVars => [StreamNext]_streamVars
  BY DEF RuntimeNext, runtimeVars
<1> QED
  BY <1>1, <1>2, <1>3, <1>4, PTL DEF RuntimeSpec, ActorSpec, AgentSpec, StreamSpec

\* The three parts keep their types, each with what it states beside them.
THEOREM RuntimeTypes == RuntimeSpec => []RuntimeTypeOK
<1>1. ActorTypeOK /\ AgentTypeOK /\ StreamTypeOK => RuntimeTypeOK
  BY DEF RuntimeTypeOK
<1> QED BY <1>1, RuntimeParts, ActorTypes, Types, StreamTypes, PTL

\* What the actor, the registry and the timeline promise the runtime promises: a query starts
\* on a drained client, a message is delivered once, a busy session, a running row and a leaked
\* process have a cause, and a client that follows a session is given every entry, once.
THEOREM RuntimeHolds ==
  RuntimeSpec => [](/\ DrainBeforeNext /\ ReleasedButOne
                    /\ DeliveredOnce /\ BusyHasCause /\ RunningRowHasCause /\ LeakHasCause
                    /\ CursorMeansSeen /\ EndIsComplete /\ GivenOnce)
BY RuntimeParts, Drains, Releases, Delivers, Runs, Marks, Reaches, CursorHolds, EndHolds, GivenOnceHolds, PTL
=============================================================================
