--------------------------- MODULE MCEmergencyStop ---------------------------
(* Two operators, stops of one account and of all accounts, and nobody who     *)
(* executes anything.                                                          *)
EXTENDS EmergencyStop, TLC

CONSTANTS account

MCScopes == {"ACCOUNT"}
MCRank == [s \in Scopes |-> 1]
MCTargets == [s \in Scopes |-> {account}]
MCSubject == [a \in Actions |-> [s \in Scopes |-> None]]
MCSymmetry == Permutations(Operators)
=============================================================================
