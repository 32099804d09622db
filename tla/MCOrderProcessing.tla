------------------------- MODULE MCOrderProcessing -------------------------
(* Two orders that compete for the first listing; the second order has also *)
(* a line for a listing that the policy engine lets nobody change.          *)
EXTENDS OrderProcessing, TLC

CONSTANTS o1, o2, l1, l2

Line(l, q) == [listing |-> l, quantity |-> q]

MCItems == (o1 :> <<Line(l1, 2)>>) @@ (o2 :> <<Line(l1, 1), Line(l2, 1)>>)

MCStock == [l \in Listings |-> 1]
=============================================================================
