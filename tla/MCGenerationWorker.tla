------------------------ MODULE MCGenerationWorker ------------------------
(***************************************************************************)
(* Instances of GenerationWorker: video tasks v1, v2 of two resources and  *)
(* image tasks i1, i2 of one.  The capacity tables give a provider the     *)
(* same limit in every lane: MCTight has one slot at p and no lane at q,   *)
(* MCEdited lets a restart exchange the two, MCAmple never fills up.  The  *)
(* create calls of p are repeated after a lost answer, those of q are not. *)
(***************************************************************************)
EXTENDS GenerationWorker, TLC

CONSTANTS v1, v2, i1, i2, k1, k2, k3, CapacityOf

MCKeyOf == [t \in Tasks |-> CASE t = v1 -> k1 [] t = v2 -> k2 [] t \in {i1, i2} -> k3]
MCProjectOf == [t \in Tasks |-> "prj"]
MCMediaOf == [t \in Tasks |-> IF t \in {i1, i2} THEN "image" ELSE "video"]
MCCapacity == {[x \in Providers \X Media |-> c[x[1]]] : c \in CapacityOf}
MCAmple == {"p" :> 2 @@ "q" :> 2}
MCTight == {"p" :> 1 @@ "q" :> 0}
MCEdited == {"p" :> 1 @@ "q" :> 0, "p" :> 0 @@ "q" :> 1}
MCRepeating == {<<"p", m>> : m \in Media}
MCImageLane == <<"image">>
MCVideoLane == <<"video">>
MCBothLanes == <<"image", "video">>
=============================================================================
