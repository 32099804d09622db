---------------------------- MODULE ExecutionPlans ----------------------------
(***************************************************************************)
(* Multi-step plans (R.1): MultiStepPlanningService, PlanValidator and the *)
(* JSON repository of plans, for one plan.                                 *)
(*                                                                         *)
(* Every operation reads the plan, builds another and saves it.  Nothing   *)
(* is locked from the read to the save, and the save compares nothing: it  *)
(* overwrites the file of the plan's version, cut short when it fails half *)
(* way.  A replan makes a new version, and the last one is what is read.   *)
(***************************************************************************)
EXTENDS Integers, FiniteSets, FiniteSetsExt

CONSTANTS
    Writers,    \* threads that change the plan
    Steps,      \* what step ids there are
    Created,    \* the subgraph that create_plan is given
    Repairs,    \* the subgraphs that replan may be given
    Cost,       \* the estimated cost of each step, None when unknown
    MaxCost, MaxSteps, MaxReplans,  \* the budget of the plan
    MaxCalls,   \* bound: operations that are begun
    MaxFaults,  \* bound: crashes and saves that fail half way
    None

VARIABLES
    plan,       \* the last version on file
    job,        \* the operation of each thread, and the plan it read
    calls, faults,
    \* history, read by the properties only
    closed,     \* steps reported completed, or denied by a policy, and not failed since
    asked,      \* those of them that a replan was asked for by name since
    astray      \* something was saved that was made of an older plan

planVars == <<plan, job, calls, faults, closed, asked, astray>>

StepStatuses == {"PENDING", "READY", "COMPLETED", "FAILED", "BLOCKED"}

PlanStatuses == {"VALIDATED", "IN_PROGRESS", "COMPLETED", "BLOCKED", "FAILED", "TORN"}

Operations == {"complete", "deny", "exhaust", "retry", "repair", "succeed", "fail"}

\* needs are the dependencies a step declares; deps those given apart, if any are.
IsSubgraph(g) ==
    /\ DOMAIN g = {"needs", "deps"}
    /\ DOMAIN g.needs \subseteq Steps
    /\ \A s \in DOMAIN g.needs : g.needs[s] \subseteq Steps
    /\ g.deps = None \/ g.deps \subseteq Steps \X Steps

StepRecords == [status : StepStatuses, needs : SUBSET Steps]

\* A plan is "TORN" when its file is cut short, and nothing can be read of it.
PlansOver(S) ==
    [version : 1 .. MaxReplans + 1, count : 0 .. MaxReplans, deps : SUBSET (Steps \X Steps),
     status : PlanStatuses, steps : [S -> StepRecords]]

IsPlan(p) == \E S \in SUBSET Steps : p \in PlansOver(S) /\ p.count = p.version - 1

IsJob(j) ==
    \E S \in SUBSET Steps :
        /\ j \in [op : Operations, step : Steps, repair : Repairs \cup {None},
                  plan : PlansOver(S), stale : BOOLEAN]
        /\ j.plan.count = j.plan.version - 1

\* The names of the files of more than nine versions do not sort as the versions do.
ASSUME PlanAssumption ==
    /\ IsFiniteSet(Steps)
    /\ IsSubgraph(Created) /\ \A g \in Repairs : IsSubgraph(g)
    /\ Cost \in [Steps -> Nat \cup {None}]
    /\ MaxReplans \in 0 .. 8
    /\ MaxCost \in Nat /\ MaxSteps \in Nat
    /\ MaxCalls \in Nat /\ MaxFaults \in Nat
    /\ None \notin Nat /\ ~IsJob(None)

-----------------------------------------------------------------------------
(* PlanValidator                                                           *)

InPlan(p) == DOMAIN p.steps

Needs(p, s) == p.steps[s].needs \cup {d \in Steps : <<d, s>> \in p.deps}

\* Every dependency is a step of the plan, and another one.
WellFormed(p) ==
    /\ InPlan(p) # {}
    /\ \A e \in p.deps : e[1] \in InPlan(p) /\ e[2] \in InPlan(p) /\ e[1] # e[2]
    /\ \A s \in InPlan(p) : p.steps[s].needs \subseteq InPlan(p) \ {s}

\* Wrong on purpose: a cycle is only looked for between two steps.
HasOrderOfPairs(p) ==
    \A s \in InPlan(p) : \A d \in Needs(p, s) : s \notin Needs(p, d)

\* Kahn's: what is left after each round of taking out the steps that need no other.
HasOrder(p) ==
    LET left[n \in 0 .. Cardinality(InPlan(p))] ==
            IF n = 0 THEN InPlan(p)
            ELSE {s \in left[n - 1] : Needs(p, s) \cap left[n - 1] # {}}
    IN  left[Cardinality(InPlan(p))] = {}

WithinBudget(p) ==
    /\ Cardinality(InPlan(p)) <= MaxSteps
    /\ MapThenSumSet(LAMBDA s : Cost[s], {s \in InPlan(p) : Cost[s] # None}) <= MaxCost
    /\ p.count <= MaxReplans

Valid(p) == WellFormed(p) /\ HasOrder(p) /\ WithinBudget(p)

\* compute_step_readiness
Ready(p) ==
    {s \in InPlan(p) :
        /\ p.steps[s].status \in {"PENDING", "READY"}
        /\ \A d \in Needs(p, s) : d \in InPlan(p) /\ p.steps[d].status = "COMPLETED"}

Refreshed(p) ==
    [p EXCEPT !.steps = [s \in InPlan(p) |->
        IF s \in Ready(p) THEN [p.steps[s] EXCEPT !.status = "READY"]
        ELSE p.steps[s]]]

-----------------------------------------------------------------------------
(* create_plan, mark_step_completed and replan                             *)

NewSteps(graph) ==
    [s \in DOMAIN graph.needs |-> [status |-> "PENDING", needs |-> graph.needs[s]]]

EdgesOf(graph) == UNION {{<<d, s>> : d \in graph.needs[s]} : s \in DOMAIN graph.needs}

CreatedPlan ==
    LET given == Created.deps # None /\ Created.deps # {}
    IN  Refreshed([version |-> 1, count |-> 0, status |-> "VALIDATED",
                   deps |-> IF given THEN Created.deps ELSE EdgesOf(Created),
                   steps |-> NewSteps(Created)])

WithStatus(p, s, status) ==
    IF s \in InPlan(p) THEN [p EXCEPT !.steps[s].status = status] ELSE p

AllCompleted(p) == \A s \in InPlan(p) : p.steps[s].status = "COMPLETED"

Completed(p, s) ==
    LET after == Refreshed(WithStatus(p, s, "COMPLETED"))
    IN  [after EXCEPT !.status = IF AllCompleted(after) THEN "COMPLETED" ELSE "IN_PROGRESS"]

\* Wrong on purpose: the replans are not counted.
NextVersionUncounted(p) == [p EXCEPT !.version = @ + 1, !.status = "VALIDATED"]

NextVersion(p) ==
    [p EXCEPT !.version = @ + 1, !.count = @ + 1, !.status = "VALIDATED"]

\* Without a subgraph the step is to be done again, whatever its status.
Retry(p, s) == {NextVersion(WithStatus(p, s, "PENDING"))}

\* Wrong on purpose: the steps that are kept are to be done again too.
RepairAnew(p, s, graph) ==
    LET present == (InPlan(p) \ {s}) \cup DOMAIN graph.needs
        anew == [x \in present |->
            IF x \in DOMAIN graph.needs THEN NewSteps(graph)[x]
            ELSE [p.steps[x] EXCEPT !.status = "PENDING"]]
    IN  {NextVersion([p EXCEPT !.steps = anew,
            !.deps = (p.deps \cup EdgesOf(graph)) \cap (present \X present)])}

\* The completed steps, the others but the one that failed, and the new ones in the
\* place of those of their name; none when one of that name is completed.
Repair(p, s, graph) ==
    LET completed == {c \in InPlan(p) : p.steps[c].status = "COMPLETED"}
        present == (InPlan(p) \ {s}) \cup completed \cup DOMAIN graph.needs
        repaired == [p EXCEPT
            !.steps = [x \in present |->
                IF x \in DOMAIN graph.needs THEN NewSteps(graph)[x] ELSE p.steps[x]],
            !.deps = IF graph.deps # None THEN graph.deps
                     ELSE (p.deps \cup EdgesOf(graph)) \cap (present \X present)]
    IN  IF completed \cap DOMAIN graph.needs # {} THEN {} ELSE {NextVersion(repaired)}

\* What a replan saves: nothing when the plan it makes is not valid.
Replanned(p, candidates) ==
    IF p.count >= MaxReplans THEN {[p EXCEPT !.status = "FAILED"]}
    ELSE {Refreshed(c) : c \in {c \in candidates : Valid(c)}}

\* What each operation makes of the plan it read; succeed and fail are those of the
\* sub-missions, which change the step and nothing else.
Outcomes(j) ==
    CASE j.op = "complete" -> {Completed(j.plan, j.step)}
      [] j.op = "deny"     -> {[WithStatus(j.plan, j.step, "BLOCKED") EXCEPT !.status = "BLOCKED"]}
      [] j.op = "exhaust"  -> {[j.plan EXCEPT !.status = "BLOCKED"]}
      [] j.op = "retry"    -> Replanned(j.plan, Retry(j.plan, j.step))
      [] j.op = "repair"   -> Replanned(j.plan, Repair(j.plan, j.step, j.repair))
      [] j.op = "succeed"  -> {WithStatus(j.plan, j.step, "COMPLETED")}
      [] j.op = "fail"     -> {WithStatus(j.plan, j.step, "FAILED")}

-----------------------------------------------------------------------------
(* The operations, in two steps: the read and the save                     *)

PlanInit ==
    /\ Valid(CreatedPlan)
    /\ plan = CreatedPlan
    /\ job = [w \in Writers |-> None]
    /\ calls = 0 /\ faults = 0
    /\ closed = {} /\ asked = {}
    /\ astray = FALSE

Whole == plan.status # "TORN"

JobOf(op, s, graph) ==
    [op |-> op, step |-> s, repair |-> graph, plan |-> plan, stale |-> FALSE]

\* An operation on a plan that cannot be read raises, and so does the completion of
\* a step that the plan has not.  Which step an exhausted budget is told of makes no
\* difference.
Begin(w) ==
    /\ job[w] = None /\ calls < MaxCalls
    /\ Whole
    /\ \E s \in Steps, op \in {"complete", "deny", "exhaust", "retry"} :
        /\ op = "complete" => s \in InPlan(plan)
        /\ op = "exhaust" => s = CHOOSE t \in Steps : TRUE
        /\ job' = [job EXCEPT ![w] = JobOf(op, s, None)]
    /\ calls' = calls + 1
    /\ UNCHANGED <<plan, faults, closed, asked, astray>>

BeginRepair(w) ==
    /\ job[w] = None /\ calls < MaxCalls
    /\ Whole
    /\ \E s \in Steps, graph \in Repairs : job' = [job EXCEPT ![w] = JobOf("repair", s, graph)]
    /\ calls' = calls + 1
    /\ UNCHANGED <<plan, faults, closed, asked, astray>>

\* Only the properties read what is remembered of the operation here.
Remember(j, outcome) ==
    LET replanned == j.op \in {"retry", "repair"} /\ outcome.version > j.plan.version
        named == IF j.op = "repair" THEN {j.step} \cup DOMAIN j.repair.needs ELSE {j.step}
    IN  /\ closed' = CASE j.op \in {"complete", "deny", "succeed"} -> closed \cup {j.step}
                        [] j.op = "fail" -> closed \ {j.step}
                        [] OTHER -> closed
        /\ asked' = CASE j.op \in {"complete", "deny", "succeed", "fail"} -> asked \ {j.step}
                       [] replanned -> asked \cup named
                       [] OTHER -> asked
        /\ astray' = (astray \/ j.stale)

\* The file of a version that a replan has left behind is not read any more.
Save(w) ==
    /\ job[w] # None
    /\ \E outcome \in Outcomes(job[w]) :
        /\ plan' = IF outcome.version >= plan.version THEN outcome ELSE plan
        /\ Remember(job[w], outcome)
    /\ job' = [v \in Writers |-> IF v = w \/ job[v] = None THEN None
                                 ELSE [job[v] EXCEPT !.stale = TRUE]]
    /\ UNCHANGED <<calls, faults>>

\* The replan is rejected.
Reject(w) ==
    /\ job[w] # None /\ Outcomes(job[w]) = {}
    /\ job' = [job EXCEPT ![w] = None]
    /\ UNCHANGED <<plan, calls, faults, closed, asked, astray>>

\* The process dies while it writes the file, or an output cannot be written.
SaveCutShort(w) ==
    /\ job[w] # None /\ faults < MaxFaults
    /\ \E outcome \in Outcomes(job[w]) :
        plan' = IF outcome.version >= plan.version THEN [outcome EXCEPT !.status = "TORN"]
                ELSE plan
    /\ job' = [job EXCEPT ![w] = None]
    /\ faults' = faults + 1
    /\ UNCHANGED <<calls, closed, asked, astray>>

-----------------------------------------------------------------------------
PlanTypeOK ==
    /\ IsPlan(plan)
    /\ DOMAIN job = Writers /\ \A w \in Writers : job[w] = None \/ IsJob(job[w])
    /\ calls \in 0 .. MaxCalls /\ faults \in 0 .. MaxFaults
    /\ closed \subseteq Steps /\ asked \subseteq Steps
    /\ astray \in BOOLEAN

\* get_ready_steps gives no step again that was completed, nor one that a policy has
\* denied, unless a replan named that very step since or a late save brought an older
\* plan back: what a repair does with the other steps is to keep them.
NothingIsRedone ==
    Whole /\ ~astray => Ready(plan) \cap closed \subseteq asked

\* A plan in which no step has failed or is blocked has a step to do until it is done:
\* whatever is repaired, the dependencies never close a circle.
PlanIsNotStuck ==
    Whole /\ (\A s \in InPlan(plan) : plan.steps[s].status \in {"PENDING", "READY", "COMPLETED"})
        => Ready(plan) # {} \/ AllCompleted(plan)
=============================================================================
