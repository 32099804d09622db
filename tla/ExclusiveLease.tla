--------------------------- MODULE ExclusiveLease ---------------------------
(***************************************************************************)
(* What the lease manager of the long-running missions promises to its     *)
(* callers (R.6, "single winner"): at any instant at most one worker may   *)
(* act as the owner of the mission, and ownership never passes from one    *)
(* worker to another directly: the first one must have lost it before.     *)
(***************************************************************************)
CONSTANTS
    Workers,    \* the workers that may run the mission
    NoOwner     \* nobody may act as the owner

VARIABLE owner

Init == owner = NoOwner

\* A worker becomes the owner of a mission nobody owns.
Take(w) == owner = NoOwner /\ owner' = w

\* The owner releases the mission, lets its lease run out, or dies.
Lose == owner # NoOwner /\ owner' = NoOwner

Next == Lose \/ \E w \in Workers : Take(w)

Spec == Init /\ [][Next]_owner
=============================================================================
