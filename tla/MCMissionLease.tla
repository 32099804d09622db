--------------------------- MODULE MCMissionLease ---------------------------
(* Two workers; worker A has two threads (mission loop and heartbeats).    *)
EXTENDS MissionLease, FiniteSets, TLC

CONSTANTS A, B, a1, a2, b1

MCWorkerOf == a1 :> A @@ a2 :> A @@ b1 :> B

\* The two threads of worker A are interchangeable.
TwinThreads == Permutations({a1, a2})

\* Bound: at most two operations wait for the lock at a time.  Two suffice
\* for every race of the lock: they differ in the order of two sections.
TwoInFlight == Cardinality({t \in Threads : call[t] # Idle}) <= 2
=============================================================================
