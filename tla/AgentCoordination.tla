-------------------------- MODULE AgentCoordination --------------------------
(***************************************************************************)
(* Coordination of the agents of a mission (R.4) and dynamic delegation    *)
(* (R.5): AgentCoordinatorService for one session, and the delegation that *)
(* self-monitoring (R.7) asks it for.                                      *)
(*                                                                         *)
(* Every operation of the service runs under its lock, from reading the    *)
(* session to saving it, so it is one action.  What interleaves is outside:*)
(* an agent reports on an assignment long after it was given it, when the  *)
(* task may have been delegated, cancelled or blocked, and may report      *)
(* again; the dispatcher of self-monitoring picks a task from a session it *)
(* read without the lock and asks for its delegation later.                *)
(*                                                                         *)
(* Agents identify their reports with assignment_version and agent_id.     *)
(* Inputs are left out: create_session fills required_input_keys and       *)
(* inputs from the same mapping and nothing removes an input, so a task    *)
(* never waits for one, and handoff and a successful merge change nothing  *)
(* else.  Which specialists are fit and available is the registry's        *)
(* business: any, or none.                                                 *)
(***************************************************************************)
EXTENDS Naturals, FiniteSets

CONSTANTS
    Tasks,          \* the tasks of the session
    Agents,         \* the specialist agents
    Monitors,       \* the runs of self-monitoring
    Resources,      \* what the side effects of tasks exclude each other on
    Deps,           \* the tasks each task depends on
    ResourceOf,     \* resource_id, NoResource if None
    Planned,        \* the agent the plan assigns, NoAgent if None
    StartStatuses,  \* the statuses a step of the plan may already have
    Funded,         \* the tasks whose allocated budget is not exhausted
    MaxTasks,       \* policy.max_concurrent_tasks
    MaxAgents,      \* policy.max_concurrent_agents
    MaxDelegations, \* policy.max_delegations_per_task
    FailFast,       \* policy.fail_fast_on_policy_denied
    NoAgent, NoResource, NoRequest

VARIABLES
    session,        \* the status of the session
    task,           \* its tasks
    leases,         \* active_leases
    locks,          \* resource_locks
    request,        \* the delegation each monitor is about to ask for
    granted,        \* every assignment an agent was ever given
    denied          \* the tasks that were ever reported POLICY_DENIED

coordination == <<session, task, leases, locks>>
vars == <<session, task, leases, locks, request, granted, denied>>

Waits == {"PENDING", "READY"}
Failures == {"FAILED", "BLOCKED", "CANCELLED"}
TaskStatuses == Waits \cup {"CLAIMED", "COMPLETED"} \cup Failures

\* delegation_history grows with every new version, so it is not kept.
TaskState == [status : TaskStatuses, agent : Agents \cup {NoAgent},
              version : 1 .. MaxDelegations + 1,
              failure : {"none", "POLICY_DENIED", "other"}]

Assignments == [task : Tasks, agent : Agents, version : Nat]

Requests == [task : Tasks, from : Agents]

ASSUME CoordinationAssumption ==
    /\ IsFiniteSet(Tasks)
    /\ Deps \in [Tasks -> SUBSET Tasks]
    /\ ResourceOf \in [Tasks -> Resources \cup {NoResource}]
    /\ Planned \in [Tasks -> Agents \cup {NoAgent}]
    /\ StartStatuses \subseteq {"PENDING", "COMPLETED", "FAILED", "BLOCKED"}
    /\ Funded \subseteq Tasks
    /\ MaxTasks \in Nat \ {0} /\ MaxAgents \in Nat \ {0}
    /\ MaxDelegations \in Nat
    /\ FailFast \in BOOLEAN
    /\ NoAgent \notin Agents /\ NoResource \notin Resources
    /\ NoRequest \notin Requests

TypeOK ==
    /\ session \in {"ACTIVE", "COMPLETED", "FAILED", "CANCELLED"}
    /\ task \in [Tasks -> TaskState]
    /\ leases \in [Tasks -> Agents \cup {NoAgent}]
    /\ locks \in [Resources -> Agents \cup {NoAgent}]
    /\ request \in [Monitors -> Requests \cup {NoRequest}]
    /\ granted \subseteq Assignments
    /\ denied \subseteq Tasks

-----------------------------------------------------------------------------
\* Wrong on purpose: a blocked dependency is waited for.
FailedOnly(ts, t) == \E d \in Deps[t] : ts[d].status \in {"FAILED", "CANCELLED"}

DependencyFailed(ts, t) == \E d \in Deps[t] : ts[d].status \in Failures

DependenciesDone(ts, t) == \A d \in Deps[t] : ts[d].status = "COMPLETED"

\* _refresh_task_readiness: one level of the graph at a time.
Refreshed(ts) ==
    [t \in Tasks |->
        IF ts[t].status \notin Waits THEN ts[t]
        ELSE IF DependencyFailed(ts, t)
        THEN [ts[t] EXCEPT !.status = "BLOCKED", !.failure = "other"]
        ELSE [ts[t] EXCEPT !.status =
                 IF DependenciesDone(ts, t) THEN "READY" ELSE "PENDING"]]

\* The waiting tasks that depend on t, directly or through waiting tasks.
Downstream(ts, t) ==
    LET waiting == {d \in Tasks : ts[d].status \in Waits}
        closed(S) == \A d \in waiting : Deps[d] \cap (S \cup {t}) # {} => d \in S
    IN  {d \in waiting : \A S \in SUBSET waiting : closed(S) => d \in S}

Active == {t \in Tasks : task[t].status = "CLAIMED"}

ActiveAgents == {task[t].agent : t \in Active}

LockFree(t) == \A r \in Resources : r = ResourceOf[t] => locks[r] = NoAgent

LockFor(t, a) == [r \in Resources |-> IF r = ResourceOf[t] THEN a ELSE locks[r]]

\* Only the agent of the task gives its lock back.
LockReleased(t) ==
    [r \in Resources |-> IF r = ResourceOf[t] /\ locks[r] = task[t].agent
                         THEN NoAgent ELSE locks[r]]

Grant(t, a, version) ==
    granted' = granted \cup {[task |-> t, agent |-> a, version |-> version]}

-----------------------------------------------------------------------------
\* create_session: the steps of the plan may have ended before.
Init ==
    /\ session = "ACTIVE"
    /\ \E start \in [Tasks -> StartStatuses] :
          task = Refreshed([t \in Tasks |->
                    [status |-> start[t], agent |-> Planned[t],
                     version |-> 1, failure |-> "none"]])
    /\ leases = [t \in Tasks |-> NoAgent]
    /\ locks = [r \in Resources |-> NoAgent]
    /\ request = [m \in Monitors |-> NoRequest]
    /\ granted = {}
    /\ denied = {}

\* get_ready_tasks saves the session it refreshed.
GetReadyTasks ==
    /\ session = "ACTIVE"
    /\ task' = Refreshed(task)
    /\ UNCHANGED <<session, leases, locks, request, granted, denied>>

ClaimTask(t, a) ==
    /\ session = "ACTIVE"
    /\ task[t].status = "READY"
    /\ DependenciesDone(task, t)
    /\ task[t].agent \in {NoAgent, a}
    /\ Cardinality(Active) < MaxTasks
    /\ a \in ActiveAgents \/ Cardinality(ActiveAgents) < MaxAgents
    /\ t \in Funded
    /\ LockFree(t)
    /\ task' = [task EXCEPT ![t] = [@ EXCEPT !.status = "CLAIMED", !.agent = a]]
    /\ leases' = [leases EXCEPT ![t] = a]
    /\ locks' = LockFor(t, a)
    /\ Grant(t, a, task[t].version)
    /\ UNCHANGED <<session, request, denied>>

-----------------------------------------------------------------------------
\* The check of complete_task and fail_task; neither looks at the status of
\* the task or of the session.
Current(g) == task[g.task].version = g.version /\ task[g.task].agent = g.agent

CompleteTask(g) ==
    /\ Current(g)
    /\ LET done == [task EXCEPT ![g.task].status = "COMPLETED"]
       IN  /\ session' = IF \A t \in Tasks : done[t].status = "COMPLETED"
                         THEN "COMPLETED" ELSE session
           /\ task' = IF session' = "ACTIVE" THEN Refreshed(done) ELSE done
    /\ leases' = [leases EXCEPT ![g.task] = NoAgent]
    /\ locks' = LockReleased(g.task)
    /\ UNCHANGED <<request, granted, denied>>

\* CoordinationFailureType, by what it leads to: BUDGET_EXHAUSTED stands for
\* the types that block the task, TECHNICAL_FAILURE for those that fail it.
FailureTypes == {"POLICY_DENIED", "TECHNICAL_FAILURE", "BUDGET_EXHAUSTED"}

\* Wrong on purpose: only fail_fast_on_policy_denied fails the session.
SessionLenient(type) == IF type = "POLICY_DENIED" /\ FailFast THEN "FAILED" ELSE session

SessionAfter(type) ==
    IF (type = "POLICY_DENIED" /\ FailFast) \/ type # "BUDGET_EXHAUSTED"
    THEN "FAILED" ELSE session

FailTask(g, type) ==
    /\ Current(g)
    /\ LET after == [task EXCEPT
               ![g.task] = [@ EXCEPT
                   !.status = IF type = "BUDGET_EXHAUSTED" THEN "BLOCKED" ELSE "FAILED",
                   !.failure = IF type = "POLICY_DENIED" THEN type ELSE "other"]]
       IN  task' = [t \in Tasks |->
               IF t \in Downstream(after, g.task)
               THEN [after[t] EXCEPT !.status = "BLOCKED", !.failure = "other"]
               ELSE after[t]]
    /\ session' = SessionAfter(type)
    /\ leases' = [leases EXCEPT ![g.task] = NoAgent]
    /\ locks' = LockReleased(g.task)
    /\ denied' = IF type = "POLICY_DENIED" THEN denied \cup {g.task} ELSE denied
    /\ UNCHANGED <<request, granted>>

\* merge_task_results of the dependencies of t, when their outputs contradict
\* each other: t is blocked, whatever it was doing, and keeps its lease.
MergeConflict(t) ==
    /\ Deps[t] # {} /\ DependenciesDone(task, t)
    /\ task' = [task EXCEPT ![t] = [@ EXCEPT !.status = "BLOCKED", !.failure = "other"]]
    /\ UNCHANGED <<session, leases, locks, request, granted, denied>>

\* cancel_coordination
Cancel ==
    /\ session' = "CANCELLED"
    /\ task' = [t \in Tasks |->
           IF task[t].status \in Waits \cup {"CLAIMED"}
           THEN [task[t] EXCEPT !.status = "CANCELLED", !.failure = "other"]
           ELSE task[t]]
    /\ leases' = [t \in Tasks |-> NoAgent]
    /\ locks' = [r \in Resources |-> NoAgent]
    /\ UNCHANGED <<request, granted, denied>>

-----------------------------------------------------------------------------
\* SelfMonitoringActionDispatcher reads the session and picks a task ...
PickTask(m, t) ==
    /\ request[m] = NoRequest
    /\ task[t].agent # NoAgent
    /\ task[t].status \in {"READY", "BLOCKED", "CLAIMED"}
    /\ request' = [request EXCEPT ![m] = [task |-> t, from |-> task[t].agent]]
    /\ UNCHANGED <<session, task, leases, locks, granted, denied>>

\* Wrong on purpose: the session may have ended.
DelegableAnyway(t) == task[t].failure # "POLICY_DENIED"

\* ... and calls delegate_task, which refuses and changes nothing, or
Delegable(t) == task[t].failure # "POLICY_DENIED" /\ session = "ACTIVE"

RefuseDelegation(m) ==
    /\ request[m] # NoRequest
    /\ request' = [request EXCEPT ![m] = NoRequest]
    /\ UNCHANGED <<session, task, leases, locks, granted, denied>>

LimitReached(t) == task[t].version - 1 >= MaxDelegations

\* blocks the task, at the limit or when no specialist is found: the lease is
\* given back, the lock is not, or
DelegationBlocks(m) ==
    /\ request[m] # NoRequest
    /\ LET t == request[m].task
       IN  /\ Delegable(t)
           /\ task' = [task EXCEPT ![t] = [@ EXCEPT !.status = "BLOCKED", !.failure = "other"]]
           /\ leases' = [leases EXCEPT ![t] = NoAgent]
    /\ request' = [request EXCEPT ![m] = NoRequest]
    /\ UNCHANGED <<session, locks, granted, denied>>

\* Wrong on purpose: the new owner gets the version of the old one.
DelegateSameVersion(m, a) ==
    /\ request[m] # NoRequest
    /\ a # request[m].from
    /\ LET t == request[m].task
       IN  /\ Delegable(t) /\ ~LimitReached(t)
           /\ task' = [task EXCEPT ![t] = [@ EXCEPT !.status = "CLAIMED", !.agent = a,
                                                    !.failure = "none"]]
           /\ leases' = [leases EXCEPT ![t] = a]
           /\ locks' = LockFor(t, a)
           /\ Grant(t, a, task[t].version)
    /\ request' = [request EXCEPT ![m] = NoRequest]
    /\ UNCHANGED <<session, denied>>

\* gives the task, its lease and its lock to another agent, whatever the
\* status of the task and whoever has the lock.
Delegate(m, a) ==
    /\ request[m] # NoRequest
    /\ a # request[m].from
    /\ LET t == request[m].task
       IN  /\ Delegable(t) /\ ~LimitReached(t)
           /\ task' = [task EXCEPT ![t] = [@ EXCEPT !.status = "CLAIMED", !.agent = a,
                                                    !.version = task[t].version + 1,
                                                    !.failure = "none"]]
           /\ leases' = [leases EXCEPT ![t] = a]
           /\ locks' = LockFor(t, a)
           /\ Grant(t, a, task[t].version + 1)
    /\ request' = [request EXCEPT ![m] = NoRequest]
    /\ UNCHANGED <<session, denied>>

-----------------------------------------------------------------------------
Next ==
    \/ GetReadyTasks
    \/ \E t \in Tasks, a \in Agents : ClaimTask(t, a)
    \/ \E g \in granted : CompleteTask(g)
    \/ \E g \in granted, type \in FailureTypes : FailTask(g, type)
    \/ \E t \in Tasks : MergeConflict(t)
    \/ Cancel
    \/ \E m \in Monitors, t \in Tasks : PickTask(m, t)
    \/ \E m \in Monitors : RefuseDelegation(m) \/ DelegationBlocks(m)
    \/ \E m \in Monitors, a \in Agents : Delegate(m, a)

Spec == Init /\ [][Next]_vars

\* The host keeps asking for the tasks that are ready.  Nothing is assumed of
\* the agents and the monitors.
FairSpec == Spec /\ WF_vars(GetReadyTasks)

-----------------------------------------------------------------------------
(***************************************************************************)
(* No two agents are ever given the same version of a task, however claims,*)
(* delegations, reports and cancellations follow each other: this is what  *)
(* lets complete_task and fail_task tell the result of a former owner.     *)
(***************************************************************************)
AssignmentIsUnique ==
    \A g, h \in granted : g.task = h.task /\ g.version = h.version => g = h

(***************************************************************************)
(* A claimed task has a lease, and a lease is never in the name of another *)
(* agent than the one the task is assigned to ("single owner").            *)
(***************************************************************************)
LeaseIsOwners ==
    \A t \in Tasks :
        /\ task[t].status = "CLAIMED" => leases[t] # NoAgent
        /\ leases[t] # NoAgent => leases[t] = task[t].agent

(***************************************************************************)
(* A task that a policy denied is never assigned again, neither by claim   *)
(* nor by delegation, also when a later merge overwrote the reason and the *)
(* policy does not fail the session fast ("cero reroute evasivo").         *)
(***************************************************************************)
DeniedIsNotRerouted ==
    [][ \A t \in denied : task'[t].status = "CLAIMED" => task'[t] = task[t] ]_vars

(***************************************************************************)
(* A cancelled session gives no work out and holds nothing, also when      *)
(* delegations picked before and results of former assignments come in     *)
(* after the cancellation.                                                 *)
(***************************************************************************)
CancelledIsQuiet ==
    session = "CANCELLED" =>
        /\ \A t \in Tasks : /\ task[t].status \notin Waits \cup {"CLAIMED"}
                            /\ leases[t] = NoAgent
        /\ \A r \in Resources : locks[r] = NoAgent

(***************************************************************************)
(* A waiting task is decided: while the session is active, what depends on *)
(* a failed task, however far, does not wait for ever, although blocking   *)
(* by merge and delegation does not cascade and a refresh goes one level;  *)
(* and a task whose dependencies are all completed becomes ready.          *)
(***************************************************************************)
Undecided(t) ==
    /\ session = "ACTIVE" /\ task[t].status \in Waits
    /\ \/ /\ task[t].status = "PENDING"
          /\ DependenciesDone(task, t)
       \/ \E f \in Tasks : /\ task[f].status \in Failures
                           /\ t \in Downstream(task, f)

WaitingIsDecided == \A t \in Tasks : Undecided(t) ~> ~Undecided(t)
=============================================================================
