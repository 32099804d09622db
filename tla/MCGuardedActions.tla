--------------------------- MODULE MCGuardedActions ---------------------------
(* A purchase over its limit, which the policy does not ask to be approved, and *)
(* a look that only reads, under stops of the whole system.                     *)
EXTENDS GuardedActions

CONSTANTS buy, look

MCScopes == {"GLOBAL"}
MCRank == [s \in Scopes |-> 0]
MCTargets == [s \in Scopes |-> {}]
MCSubject == [a \in Actions |-> [s \in Scopes |-> None]]
MCApprovalRule == [a \in Actions |-> "NOT_REQUIRED"]
MCAmount == [a \in Actions |-> IF a = buy THEN 2 ELSE None]
MCLimit == [a \in Actions |-> [min |-> 0, max |-> 1, override |-> TRUE]]
=============================================================================
