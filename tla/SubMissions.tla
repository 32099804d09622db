------------------------------ MODULE SubMissions ------------------------------
(***************************************************************************)
(* Sub-missions (R.2): SubMissionService with its validator and the JSON   *)
(* repository of missions, for one root mission that carries out a plan.   *)
(* The children of the root are delegated steps of that plan.              *)
(*                                                                         *)
(* The service takes a lock of its own for each operation, so that one is  *)
(* over before the next begins; but the planning service does not take it, *)
(* and the writes of one operation go to several files.                    *)
(***************************************************************************)
EXTENDS ExecutionPlans, Sequences

CONSTANTS
    Service,        \* the thread that holds the lock of the service
    RootCost,       \* the cost budget of the root, None when it has none
    Costs,          \* what a child may be given: a cost, or None for no budget at all
    MaxDepth, MaxChildren,  \* the hierarchy policy
    MaxMissions     \* bound: missions in the tree

VARIABLES
    missions,       \* the file of missions: the root and what was created, in order
    cancelled       \* history: how many cancellations of the root came to their end

subVars == <<planVars, missions, cancelled>>

MissionStatuses == {"PENDING", "RUNNING", "PAUSED", "COMPLETED", "BLOCKED", "FAILED", "ABORTED"}
Terminal == {"COMPLETED", "ABORTED", "FAILED"}
Active == {"PENDING", "RUNNING", "BLOCKED"}

Root == 1

\* A mission is named by its place in the file.
Ids == 1 .. MaxMissions

\* step is the step of the plan that a child of the root carries out; one that is not
\* in the plan stands for none.
Records == [parent : Ids \cup {None}, root : Ids \cup {None}, depth : Nat,
            status : MissionStatuses, step : Steps \cup {None}, cost : Costs \cup {RootCost}]

ASSUME SubAssumption ==
    /\ Service \in Writers
    /\ RootCost \in Nat \cup {None} /\ Costs \subseteq Nat \cup {None}
    /\ MaxDepth \in Nat \ {0} /\ MaxChildren \in Nat \ {0} /\ MaxMissions \in Nat \ {0}

SubInit ==
    /\ PlanInit
    /\ missions = <<[parent |-> None, root |-> None, depth |-> 0, status |-> "RUNNING",
                     step |-> None, cost |-> RootCost]>>
    /\ cancelled = 0

-----------------------------------------------------------------------------
(* create_sub_mission                                                      *)

Children(m) == {c \in DOMAIN missions : missions[c].parent = m}

CostsOf(S) == [c \in {d \in S : missions[d].cost # None} |-> missions[c].cost]

\* Wrong on purpose: the budget of a child that is over is given to another.
SiblingCostOfActive(m) ==
    SumFunction(CostsOf({c \in Children(m) : missions[c].status \notin Terminal}))

SiblingCost(m) == SumFunction(CostsOf(Children(m)))

\* A child without a budget passes whatever the budget of its parent.
Affords(m, cost) ==
    cost # None /\ missions[m].cost # None => SiblingCost(m) + cost <= missions[m].cost

\* Wrong on purpose: the root of a child is its parent.
RootIsParent(m) == m

RootOf(m) == IF missions[m].root # None THEN missions[m].root ELSE m

LockIsFree == job[Service] = None

\* The child that a delegation key already has is returned, and nothing changes.  The key
\* is the caller's, or made of the objective and the step: one step may have children of
\* several keys.
CreateSubMission(m, step, cost) ==
    /\ LockIsFree /\ calls < MaxCalls /\ Len(missions) < MaxMissions
    /\ missions[m].status \notin Terminal
    /\ missions[m].depth + 1 <= MaxDepth
    /\ Cardinality(Children(m)) < MaxChildren
    /\ Affords(m, cost)
    /\ missions' = Append(missions,
            [parent |-> m, root |-> RootOf(m), depth |-> missions[m].depth + 1,
             status |-> "PENDING", step |-> step, cost |-> cost])
    /\ calls' = calls + 1
    /\ UNCHANGED <<plan, job, faults, closed, asked, astray, cancelled>>

-----------------------------------------------------------------------------
(* propagate_result, as the specialist agent calls it                      *)

\* Wrong on purpose: the result of a step that is not to be done now is dropped.
StepIsReady(c) == missions[c].step \in Ready(plan)

StepIsThere(c) == missions[c].step \in InPlan(plan)

\* The result overwrites whatever status the mission has.  Then the step of the plan
\* is read and saved, in one operation with it under the lock of the service, but not
\* with what other threads do to the plan; a plan that cannot be read raises.
PropagateResult(c, status) ==
    /\ LockIsFree /\ calls < MaxCalls
    /\ missions[c].parent # None
    /\ missions' = [missions EXCEPT ![c].status = status]
    /\ job' = IF missions[c].parent = Root /\ Whole /\ StepIsThere(c)
              THEN [job EXCEPT ![Service] =
                        JobOf(IF status = "COMPLETED" THEN "succeed" ELSE "fail",
                              missions[c].step, None)]
              ELSE job
    /\ calls' = calls + 1
    /\ UNCHANGED <<plan, faults, closed, asked, astray, cancelled>>

-----------------------------------------------------------------------------
(* cancel_hierarchy                                                        *)

Descendants(m) == {c \in DOMAIN missions : missions[c].root = m \/ missions[c].parent = m}

Cancellable(m) == {c \in Descendants(m) : missions[c].status \in Active}

Aborted(S) ==
    [c \in DOMAIN missions |->
        IF c \in S THEN [missions[c] EXCEPT !.status = "ABORTED"] ELSE missions[c]]

CancelHierarchy(m) ==
    /\ LockIsFree /\ calls < MaxCalls
    /\ Cancellable(m) # {} \/ m = Root
    /\ missions' = Aborted(Cancellable(m))
    /\ cancelled' = IF m = Root THEN cancelled + 1 ELSE cancelled
    /\ calls' = calls + 1
    /\ UNCHANGED <<plan, job, faults, closed, asked, astray>>

\* Each descendant is saved by itself, and the process dies between two of them.
CancelCutShort(m) ==
    /\ LockIsFree /\ calls < MaxCalls /\ faults < MaxFaults
    /\ \E S \in SUBSET Cancellable(m) :
        /\ S # {} /\ S # Cancellable(m)
        /\ missions' = Aborted(S)
    /\ job' = [w \in Writers |-> None]
    /\ calls' = calls + 1 /\ faults' = faults + 1
    /\ UNCHANGED <<plan, closed, asked, astray, cancelled>>

-----------------------------------------------------------------------------
\* Whoever runs a mission saves its status in the repository; nothing under src/ does.
RunOrPause(c) ==
    /\ calls < MaxCalls
    /\ missions[c].status \in {"PENDING", "RUNNING", "PAUSED"}
    /\ missions' = [missions EXCEPT ![c].status = IF @ = "RUNNING" THEN "PAUSED" ELSE "RUNNING"]
    /\ calls' = calls + 1
    /\ UNCHANGED <<plan, job, faults, closed, asked, astray, cancelled>>

\* Every thread dies with the process; what was saved stays.
Crash ==
    /\ faults < MaxFaults
    /\ \E w \in Writers : job[w] # None
    /\ job' = [w \in Writers |-> None]
    /\ faults' = faults + 1
    /\ UNCHANGED <<plan, calls, closed, asked, astray, missions, cancelled>>

PlanStep ==
    /\ \/ \E w \in Writers \ {Service} : Begin(w) \/ BeginRepair(w)
       \/ \E w \in Writers : Save(w) \/ Reject(w) \/ SaveCutShort(w)
    /\ UNCHANGED <<missions, cancelled>>

SubNext ==
    \/ PlanStep
    \/ \E m \in DOMAIN missions :
        \/ \E step \in Steps, cost \in Costs : CreateSubMission(m, step, cost)
        \/ \E status \in {"COMPLETED", "FAILED", "BLOCKED"} : PropagateResult(m, status)
        \/ CancelHierarchy(m)
        \/ CancelCutShort(m)
        \/ RunOrPause(m)
    \/ Crash

SubSpec == SubInit /\ [][SubNext]_subVars

-----------------------------------------------------------------------------
\* The file holds a tree under the root, within its depth, that never grows past its
\* bounds, beside a plan that is well typed.
SubTypeOK ==
    /\ PlanTypeOK
    /\ Len(missions) \in Ids
    /\ \A m \in DOMAIN missions : missions[m] \in Records /\ missions[m].depth <= MaxDepth
    /\ cancelled \in 0 .. MaxCalls

\* What the children of a mission were ever given, those that are over included, adds
\* up to no more than the mission has itself.
BudgetIsPartitioned ==
    \A m \in DOMAIN missions :
        missions[m].cost # None => SumFunction(CostsOf(Children(m))) <= missions[m].cost

\* A cancellation of the root that comes to its end leaves no mission of its tree
\* pending, running or blocked, however deep: the ids of the root that children copy
\* from their parents lead to all of them.  One that is paused is left alone.
CancelReachesAll ==
    [][cancelled' # cancelled =>
        \A c \in DOMAIN missions \ {Root} : missions'[c].status \notin Active]_subVars

\* A child that carries out this step was reported otherwise, or cancelled since.
Disputed(step) ==
    \E c \in Children(Root) :
        missions[c].step = step /\ missions[c].status \in {"FAILED", "BLOCKED", "ABORTED"}

\* The step of a delegated mission that is completed is completed in the plan, unless
\* it was replanned or denied since, another mission that carries it out was reported
\* otherwise, a late save brought an older plan back or the process died.
ResultIsInPlan ==
    LockIsFree /\ Whole /\ ~astray /\ faults = 0 =>
        \A c \in Children(Root) :
            missions[c].status = "COMPLETED" /\ missions[c].step \in InPlan(plan) =>
                \/ plan.steps[missions[c].step].status \in {"COMPLETED", "BLOCKED"}
                \/ missions[c].step \in asked
                \/ Disputed(missions[c].step)
=============================================================================
