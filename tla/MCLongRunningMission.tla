------------------------ MODULE MCLongRunningMission ------------------------
(* Two workers with a thread each. *)
EXTENDS LongRunningMission, TLC

CONSTANTS A, B, a1, b1

MCWorkerOf == a1 :> A @@ b1 :> B

\* The two workers may be exchanged, each with its thread.
MCSymmetry == {f \in Permutations({A, B, a1, b1}) :
                  \A t \in {a1, b1} : f[t] \in {a1, b1} /\ MCWorkerOf[f[t]] = f[MCWorkerOf[t]]}

\* A report may be lower than what an earlier one said.
MCReports == {[used |-> 0, rem |-> "unknown"], [used |-> 2, rem |-> "left"],
              [used |-> 1, rem |-> "exhausted"]}
=============================================================================
