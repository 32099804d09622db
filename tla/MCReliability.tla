---------------------------- MODULE MCReliability ----------------------------
(* Two engines that share the breaker and the store; a key whose operation   *)
(* has a side effect, and one whose operation reads.                         *)
EXTENDS Reliability

CONSTANTS publish, query, p

MCPayloads == [k \in Keys |-> {p}]
=============================================================================
