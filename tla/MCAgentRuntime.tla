--------------------------- MODULE MCAgentRuntime ---------------------------
(***************************************************************************)
(* Instances of the three models of the agent runtime: the actor, the      *)
(* session registry and the timeline of a session.  They share no          *)
(* variable; part is the one that moves, the others stay at an initial     *)
(* state.                                                                  *)
(***************************************************************************)
EXTENDS SessionActor, AgentSession, EntryStream, TLC

VARIABLE part

runtimeVars == <<part, actorVars, agentVars, streamVars>>

MCKindOf == "q1" :> "query" @@ "q2" :> "query" @@ "q3" :> "query" @@ "i" :> "interrupt" @@ "d" :> "disconnect"

\* r1 sends k to session a; r2 repeats it, sends another message to a, or one to b.
MCCalls == {"r1" :> <<"a", "k">> @@ "r2" :> c : c \in {<<"a", "k">>, <<"a", "l">>, <<"b", "l">>}}

RuntimeInit ==
  /\ part \in {"actor", "session", "timeline"}
  /\ ActorInit /\ AgentInit /\ StreamInit
  /\ part # "session" => call["r2"] = <<"b", "l">> /\ registry = [s \in Sessions |-> Nobody]

RuntimeNext ==
  \/ part = "actor" /\ ActorNext /\ UNCHANGED <<part, agentVars, streamVars>>
  \/ part = "session" /\ AgentNext /\ UNCHANGED <<part, actorVars, streamVars>>
  \/ part = "timeline" /\ StreamNext /\ UNCHANGED <<part, actorVars, agentVars>>

RuntimeSpec == RuntimeInit /\ [][RuntimeNext]_runtimeVars

\* Type invariant of the three models, with what each states beside the types.
RuntimeTypeOK == ActorTypeOK /\ AgentTypeOK /\ StreamTypeOK
=============================================================================
