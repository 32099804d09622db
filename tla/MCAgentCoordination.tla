------------------------- MODULE MCAgentCoordination -------------------------
(* t3 fans in t1 and t2, t2 depends on t1; t1 and t3 are planned for an     *)
(* agent; t1 and t2 share a resource.                                       *)
EXTENDS AgentCoordination, TLC

CONSTANTS t1, t2, t3, a1, a2, r, m1

MCDeps == t1 :> {} @@ t2 :> {t1} @@ t3 :> {t1, t2}
MCResourceOf == t1 :> r @@ t2 :> r @@ t3 :> NoResource
MCPlanned == t1 :> a1 @@ t2 :> NoAgent @@ t3 :> a2
=============================================================================
