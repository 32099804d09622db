----------------------------- MODULE MCSubMissions -----------------------------
EXTENDS SubMissions, TLC

CONSTANTS w1, a, b, c, d

MCWriters == {w1, Service}
MCSteps == {a, b, c, d}

\* A chain of three steps; its dependencies are read off the steps.
MCCreated == [needs |-> (a :> {} @@ b :> {a} @@ c :> {b}), deps |-> None]

\* A step in the place of another, one that closes a circle of three, and a new one
\* with the dependencies of the plan given anew.
MCRepairs ==
    {[needs |-> (d :> {a} @@ c :> {d}), deps |-> None],
     [needs |-> (a :> {c}), deps |-> None],
     [needs |-> (d :> {}), deps |-> {<<d, b>>}]}

MCCost == [s \in MCSteps |-> IF s = d THEN None ELSE 1]
MCCosts == {2, None}
=============================================================================
