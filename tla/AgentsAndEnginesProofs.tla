----------------------- MODULE AgentsAndEnginesProofs ------------------------
(***************************************************************************)
(* Proofs about two components that share no state.  Agent coordination,   *)
(* for any tasks, agents, monitors, dependencies and limits: one owner per *)
(* assignment, leases in the name of the owner, nothing given out again    *)
(* after a denial or a cancellation.  The reliability engine, for any      *)
(* engines, keys and payloads, any retry policy and any configuration of   *)
(* the breaker.                                                            *)
(***************************************************************************)
EXTENDS AgentCoordination, Reliability, FiniteSetTheorems, TLAPS

-----------------------------------------------------------------------------
(* Agent coordination                                                      *)

(***************************************************************************)
(* Why an assignment is unique: versions only grow, the agent of the       *)
(* current version is the one on the task, and a task that waits to be     *)
(* claimed never had an agent at its version.                              *)
(***************************************************************************)
GrantedAreOld ==
    \A g \in granted :
        /\ g.version <= task[g.task].version
        /\ g.version = task[g.task].version =>
               /\ g.agent = task[g.task].agent
               /\ task[g.task].status \notin Waits

\* Why a denied task is not assigned again: its denial ended the session.
DenialEnds == denied # {} => session # "ACTIVE"

Owners == GrantedAreOld /\ AssignmentIsUnique /\ LeaseIsOwners

Inv == TypeOK /\ Owners /\ DenialEnds /\ CancelledIsQuiet

\* A step that gives no task to an agent.
GivesNothing ==
    /\ granted' = granted
    /\ \A t \in Tasks :
        /\ task'[t].agent = task[t].agent
        /\ task'[t].version = task[t].version
        /\ task[t].status \notin Waits => task'[t].status \notin Waits
        /\ task'[t].status = "CLAIMED" => task'[t] = task[t] /\ leases'[t] = leases[t]
        /\ leases'[t] \in {leases[t], NoAgent}

-----------------------------------------------------------------------------
(***************************************************************************)
(* _refresh_task_readiness keeps tasks well-typed, and touches neither the *)
(* owner of a task nor a task that is not waiting.                         *)
(***************************************************************************)
LEMMA RefreshKeeps ==
    ASSUME NEW ts \in [Tasks -> TaskState]
    PROVE  /\ Refreshed(ts) \in [Tasks -> TaskState]
           /\ \A t \in Tasks :
                 /\ Refreshed(ts)[t].agent = ts[t].agent
                 /\ Refreshed(ts)[t].version = ts[t].version
                 /\ ts[t].status \notin Waits => Refreshed(ts)[t] = ts[t]
                 /\ ts[t].status \in Waits =>
                       Refreshed(ts)[t].status \in Waits \cup {"BLOCKED"}
  BY DEF Refreshed, TaskState, TaskStatuses, Waits, Failures

\* Only waiting tasks are downstream of a failure.
LEMMA DownstreamWaits ==
    ASSUME NEW ts, NEW t, NEW d \in Downstream(ts, t)
    PROVE  d \in Tasks /\ ts[d].status \in Waits
  BY DEF Downstream

\* Giving a lock, or giving it back, keeps the locks well-typed.
LEMMA LocksTyped ==
    ASSUME TypeOK, NEW t \in Tasks, NEW a \in Agents
    PROVE  /\ LockFor(t, a) \in [Resources -> Agents \cup {NoAgent}]
           /\ LockReleased(t) \in [Resources -> Agents \cup {NoAgent}]
           /\ (\A r \in Resources : locks[r] = NoAgent)
                 => \A r \in Resources : LockReleased(t)[r] = NoAgent
  BY DEF TypeOK, LockFor, LockReleased

-----------------------------------------------------------------------------
(***************************************************************************)
(* The operations that give no task to an agent.                           *)
(***************************************************************************)
LEMMA GetReadyGivesNothing ==
    ASSUME Inv, GetReadyTasks
    PROVE  GivesNothing /\ TypeOK' /\ DenialEnds' /\ CancelledIsQuiet'
  <1>1. task \in [Tasks -> TaskState]  BY DEF Inv, TypeOK
  <1>2. /\ task' = Refreshed(task) /\ session = "ACTIVE"
        /\ UNCHANGED <<session, leases, locks, request, granted, denied>>
    BY DEF GetReadyTasks
  <1>3. TypeOK'  BY <1>1, <1>2, RefreshKeeps DEF Inv, TypeOK
  <1>4. GivesNothing
    BY <1>1, <1>2, RefreshKeeps DEF GivesNothing, Waits
  <1> QED  BY <1>2, <1>3, <1>4 DEF Inv, DenialEnds, CancelledIsQuiet

LEMMA CompleteGivesNothing ==
    ASSUME Inv, NEW g \in granted, CompleteTask(g)
    PROVE  GivesNothing /\ TypeOK' /\ DenialEnds' /\ CancelledIsQuiet'
  <1> DEFINE p == g.task
             done == [task EXCEPT ![p].status = "COMPLETED"]
             r == [task[p] EXCEPT !.status = "COMPLETED"]
  <1>1. p \in Tasks /\ task \in [Tasks -> TaskState]  BY DEF Inv, TypeOK, Assignments
  <1>2. r \in TaskState /\ r.agent = task[p].agent /\ r.version = task[p].version
        /\ r.status = "COMPLETED"
    BY <1>1 DEF TaskState, TaskStatuses
  <1>3. done = [task EXCEPT ![p] = r]  BY <1>1
  <1> HIDE DEF r
  <1>4. done \in [Tasks -> TaskState]  BY <1>1, <1>2, <1>3
  <1>5. \A t \in Tasks : /\ done[t].agent = task[t].agent
                         /\ done[t].version = task[t].version
                         /\ t # p => done[t] = task[t]
                         /\ t = p => done[t].status = "COMPLETED"
    BY <1>1, <1>2, <1>3
  <1>6. /\ session' \in {session, "COMPLETED"}
        /\ task' = IF session' = "ACTIVE" THEN Refreshed(done) ELSE done
        /\ leases' = [leases EXCEPT ![p] = NoAgent]
        /\ locks' = LockReleased(p)
        /\ UNCHANGED <<request, granted, denied>>
    BY Zenon DEF CompleteTask
  <1> HIDE DEF done
  <1>7. TypeOK'
    BY <1>1, <1>4, <1>6, RefreshKeeps, LocksTyped DEF Inv, TypeOK, Assignments
  <1>8. GivesNothing
    BY <1>1, <1>4, <1>5, <1>6, RefreshKeeps DEF Inv, TypeOK, GivesNothing, Waits
  <1>9. DenialEnds'  BY <1>6 DEF Inv, DenialEnds
  <1>10. CancelledIsQuiet'
    <2> SUFFICES ASSUME session' = "CANCELLED" PROVE CancelledIsQuiet'
      BY DEF CancelledIsQuiet
    <2>1. session = "CANCELLED" /\ task' = done  BY <1>6
    <2>2. \A t \in Tasks : /\ task'[t].status \notin Waits \cup {"CLAIMED"}
                           /\ leases'[t] = NoAgent
      BY <2>1, <1>1, <1>5, <1>6 DEF Inv, TypeOK, CancelledIsQuiet, Waits
    <2>3. \A q \in Resources : locks'[q] = NoAgent
      BY <2>1, <1>6 DEF Inv, TypeOK, CancelledIsQuiet, LockReleased
    <2> QED  BY <2>2, <2>3 DEF CancelledIsQuiet
  <1> QED  BY <1>7, <1>8, <1>9, <1>10

LEMMA FailGivesNothing ==
    ASSUME Inv, NEW g \in granted, NEW type \in FailureTypes, FailTask(g, type)
    PROVE  GivesNothing /\ TypeOK' /\ DenialEnds' /\ CancelledIsQuiet'
  <1> DEFINE p == g.task
             st == IF type = "BUDGET_EXHAUSTED" THEN "BLOCKED" ELSE "FAILED"
             why == IF type = "POLICY_DENIED" THEN type ELSE "other"
             r == [task[p] EXCEPT !.status = st, !.failure = why]
             after == [task EXCEPT ![p] = [@ EXCEPT !.status = st, !.failure = why]]
             down == Downstream(after, p)
             blocked(d) == [after[d] EXCEPT !.status = "BLOCKED", !.failure = "other"]
  <1>1. p \in Tasks /\ task \in [Tasks -> TaskState]  BY DEF Inv, TypeOK, Assignments
  <1>2. /\ r \in TaskState /\ r.agent = task[p].agent /\ r.version = task[p].version
        /\ r.status \in {"BLOCKED", "FAILED"}
    BY ZenonT(40), <1>1 DEF TaskState, TaskStatuses, Failures, FailureTypes
  <1>3. after = [task EXCEPT ![p] = r]  BY <1>1
  <1>4. /\ task' = [d \in Tasks |-> IF d \in down THEN blocked(d) ELSE after[d]]
        /\ session' = SessionAfter(type)
        /\ leases' = [leases EXCEPT ![p] = NoAgent]
        /\ locks' = LockReleased(p)
        /\ denied' = IF type = "POLICY_DENIED" THEN denied \cup {p} ELSE denied
        /\ UNCHANGED <<request, granted>>
    BY Zenon DEF FailTask
  <1> HIDE DEF r
  <1>5. after \in [Tasks -> TaskState]  BY <1>1, <1>2, <1>3
  <1>6. \A d \in Tasks : /\ after[d].agent = task[d].agent
                         /\ after[d].version = task[d].version
                         /\ d # p => after[d] = task[d]
                         /\ d = p => after[d].status \in {"BLOCKED", "FAILED"}
    BY <1>1, <1>2, <1>3
  <1> HIDE DEF after
  <1>7. \A d \in Tasks : /\ blocked(d) \in TaskState
                         /\ blocked(d).agent = task[d].agent
                         /\ blocked(d).version = task[d].version
                         /\ blocked(d).status = "BLOCKED"
    BY <1>5, <1>6 DEF TaskState, TaskStatuses, Failures
  <1> HIDE DEF blocked
  <1>8. \A d \in Tasks : d \in down => d # p /\ task[d].status \in Waits
    BY <1>6, DownstreamWaits DEF Waits
  <1> HIDE DEF down
  <1>9. task' \in [Tasks -> TaskState]  BY <1>4, <1>5, <1>7
  <1>10. \A d \in Tasks : /\ task'[d].agent = task[d].agent
                          /\ task'[d].version = task[d].version
                          /\ \/ task'[d] = task[d] /\ d # p
                             \/ task'[d].status \in {"BLOCKED", "FAILED"}
    BY <1>4, <1>6, <1>7
  <1>11. session' \in {session, "FAILED"}
         /\ (type = "POLICY_DENIED" => session' = "FAILED")
    BY <1>4 DEF SessionAfter
  <1>12. TypeOK'
    BY <1>1, <1>4, <1>9, <1>11, LocksTyped DEF Inv, TypeOK, Assignments
  <1>13. GivesNothing
    BY <1>1, <1>4, <1>10 DEF Inv, TypeOK, GivesNothing, Waits
  <1>14. DenialEnds'  BY <1>4, <1>11 DEF Inv, DenialEnds
  <1>15. CancelledIsQuiet'
    BY <1>1, <1>4, <1>10, <1>11
       DEF Inv, TypeOK, CancelledIsQuiet, LockReleased, Waits
  <1> QED  BY <1>12, <1>13, <1>14, <1>15

LEMMA MergeGivesNothing ==
    ASSUME Inv, NEW t \in Tasks, MergeConflict(t)
    PROVE  GivesNothing /\ TypeOK' /\ DenialEnds' /\ CancelledIsQuiet'
  <1> DEFINE r == [task[t] EXCEPT !.status = "BLOCKED", !.failure = "other"]
  <1>1. task \in [Tasks -> TaskState]  BY DEF Inv, TypeOK
  <1>2. /\ r \in TaskState /\ r.agent = task[t].agent /\ r.version = task[t].version
        /\ r.status = "BLOCKED"
    BY <1>1 DEF TaskState, TaskStatuses, Failures
  <1>3. task' = [task EXCEPT ![t] = r]
        /\ UNCHANGED <<session, leases, locks, request, granted, denied>>
    BY <1>1 DEF MergeConflict
  <1> HIDE DEF r
  <1>4. TypeOK'  BY <1>1, <1>2, <1>3 DEF Inv, TypeOK
  <1>5. GivesNothing  BY <1>1, <1>2, <1>3 DEF Inv, GivesNothing, Waits
  <1>6. CancelledIsQuiet'  BY <1>1, <1>2, <1>3 DEF Inv, CancelledIsQuiet, Waits
  <1> QED  BY <1>3, <1>4, <1>5, <1>6 DEF Inv, DenialEnds

LEMMA CancelGivesNothing ==
    ASSUME Inv, Cancel
    PROVE  GivesNothing /\ TypeOK' /\ DenialEnds' /\ CancelledIsQuiet'
  <1> DEFINE ended(t) == [task[t] EXCEPT !.status = "CANCELLED", !.failure = "other"]
  <1>1. task \in [Tasks -> TaskState]  BY DEF Inv, TypeOK
  <1>2. \A t \in Tasks : /\ ended(t) \in TaskState
                         /\ ended(t).agent = task[t].agent
                         /\ ended(t).version = task[t].version
                         /\ ended(t).status = "CANCELLED"
    BY <1>1 DEF TaskState, TaskStatuses, Failures
  <1>3. /\ task' = [t \in Tasks |->
                       IF task[t].status \in Waits \cup {"CLAIMED"}
                       THEN ended(t) ELSE task[t]]
        /\ session' = "CANCELLED"
        /\ leases' = [t \in Tasks |-> NoAgent]
        /\ locks' = [q \in Resources |-> NoAgent]
        /\ UNCHANGED <<request, granted, denied>>
    BY DEF Cancel
  <1> HIDE DEF ended
  <1>4. TypeOK'  BY <1>1, <1>2, <1>3 DEF Inv, TypeOK
  <1>5. GivesNothing  BY <1>1, <1>2, <1>3 DEF Inv, TypeOK, GivesNothing, Waits
  <1>6. CancelledIsQuiet'  BY <1>1, <1>2, <1>3 DEF CancelledIsQuiet, Waits
  <1> QED  BY <1>3, <1>4, <1>5, <1>6 DEF DenialEnds

LEMMA MonitorGivesNothing ==
    ASSUME Inv, NEW m \in Monitors,
           \/ \E t \in Tasks : PickTask(m, t)
           \/ RefuseDelegation(m)
    PROVE  GivesNothing /\ TypeOK' /\ DenialEnds' /\ CancelledIsQuiet'
  <1>1. /\ UNCHANGED <<session, task, leases, locks, granted, denied>>
        /\ request' \in [Monitors -> Requests \cup {NoRequest}]
    BY DEF Inv, TypeOK, PickTask, RefuseDelegation, Requests, TaskState
  <1> QED
    BY <1>1 DEF Inv, TypeOK, GivesNothing, DenialEnds, CancelledIsQuiet

LEMMA DelegationBlocksGivesNothing ==
    ASSUME Inv, NEW m \in Monitors, DelegationBlocks(m)
    PROVE  GivesNothing /\ TypeOK' /\ DenialEnds' /\ CancelledIsQuiet'
  <1> DEFINE t == request[m].task
             r == [task[t] EXCEPT !.status = "BLOCKED", !.failure = "other"]
  <1>1. t \in Tasks /\ task \in [Tasks -> TaskState]
    BY DEF Inv, TypeOK, DelegationBlocks, Requests
  <1>2. /\ r \in TaskState /\ r.agent = task[t].agent /\ r.version = task[t].version
        /\ r.status = "BLOCKED"
    BY <1>1 DEF TaskState, TaskStatuses, Failures
  <1>3. /\ task' = [task EXCEPT ![t] = r]
        /\ leases' = [leases EXCEPT ![t] = NoAgent]
        /\ request' = [request EXCEPT ![m] = NoRequest]
        /\ session = "ACTIVE"
        /\ UNCHANGED <<session, locks, granted, denied>>
    BY <1>1 DEF DelegationBlocks, Delegable
  <1> HIDE DEF r
  <1>4. TypeOK'  BY <1>1, <1>2, <1>3 DEF Inv, TypeOK
  <1>5. GivesNothing  BY <1>1, <1>2, <1>3 DEF Inv, TypeOK, GivesNothing, Waits
  <1> QED  BY <1>3, <1>4, <1>5 DEF Inv, DenialEnds, CancelledIsQuiet

(***************************************************************************)
(* A step that gives nothing out leaves every assignment as unique, and    *)
(* every lease as much its owner's, as it was.                             *)
(***************************************************************************)
LEMMA OwnersKept ==
    ASSUME Inv, TypeOK', GivesNothing
    PROVE  Owners'
  <1>1. granted \subseteq Assignments  BY DEF Inv, TypeOK
  <1>2. GrantedAreOld'
    BY <1>1 DEF Inv, Owners, GrantedAreOld, GivesNothing, Assignments
  <1>3. AssignmentIsUnique'
    BY DEF Inv, Owners, AssignmentIsUnique, GivesNothing
  <1>4. LeaseIsOwners'
    BY DEF Inv, Owners, LeaseIsOwners, GivesNothing
  <1> QED  BY <1>2, <1>3, <1>4 DEF Owners

-----------------------------------------------------------------------------
(***************************************************************************)
(* The two operations that give a task to an agent.  What they share: the  *)
(* agent gets the task claimed, leased, and with a version that no one was *)
(* given before.                                                           *)
(***************************************************************************)
LEMMA OwnersGiven ==
    ASSUME Inv, NEW t \in Tasks, NEW a \in Agents, NEW v \in Nat,
           NEW r \in TaskState,
           r.status = "CLAIMED", r.agent = a, r.version = v,
           task' = [task EXCEPT ![t] = r],
           leases' = [leases EXCEPT ![t] = a],
           Grant(t, a, v),
           \A g \in granted : g.task = t => g.version < v
    PROVE  Owners'
  <1> DEFINE new == [task |-> t, agent |-> a, version |-> v]
  <1>1. /\ granted \subseteq Assignments /\ task \in [Tasks -> TaskState]
        /\ leases \in [Tasks -> Agents \cup {NoAgent}]
    BY DEF Inv, TypeOK
  <1>2. granted' = granted \cup {new} /\ new.task = t /\ new.agent = a /\ new.version = v
    BY DEF Grant
  <1> HIDE DEF new
  <1>3. GrantedAreOld'
    <2> SUFFICES ASSUME NEW g \in granted'
                 PROVE  /\ g.version <= task'[g.task].version
                        /\ g.version = task'[g.task].version =>
                               /\ g.agent = task'[g.task].agent
                               /\ task'[g.task].status \notin Waits
      BY DEF GrantedAreOld
    <2>1. CASE g = new  BY <2>1, <1>1, <1>2 DEF Waits
    <2>2. CASE g # new /\ g.task = t
      BY <2>2, <1>1, <1>2 DEF Assignments
    <2>3. CASE g # new /\ g.task # t
      BY <2>3, <1>1, <1>2 DEF Inv, Owners, GrantedAreOld, Assignments
    <2> QED  BY <2>1, <2>2, <2>3
  <1>4. AssignmentIsUnique'
    <2>1. \A g \in granted : ~ (g.task = t /\ g.version = v)
      BY <1>1 DEF Assignments
    <2> QED  BY <1>2, <2>1 DEF Inv, Owners, AssignmentIsUnique
  <1>5. LeaseIsOwners'
    <2>1. a # NoAgent  BY CoordinationAssumption DEF CoordinationAssumption
    <2> QED  BY <1>1, <2>1 DEF Inv, Owners, LeaseIsOwners
  <1> QED  BY <1>3, <1>4, <1>5 DEF Owners

LEMMA ClaimStep ==
    ASSUME Inv, NEW t \in Tasks, NEW a \in Agents, ClaimTask(t, a)
    PROVE  Inv'
  <1> DEFINE r == [task[t] EXCEPT !.status = "CLAIMED", !.agent = a]
             v == task[t].version
  <1>1. task \in [Tasks -> TaskState] /\ granted \subseteq Assignments
    BY DEF Inv, TypeOK
  <1>2. v \in Nat  BY <1>1, CoordinationAssumption DEF TaskState
  <1>3. r \in TaskState /\ r.status = "CLAIMED" /\ r.agent = a /\ r.version = v
    BY <1>1 DEF TaskState, TaskStatuses
  <1>4. /\ task' = [task EXCEPT ![t] = r]
        /\ leases' = [leases EXCEPT ![t] = a]
        /\ locks' = LockFor(t, a)
        /\ Grant(t, a, v)
        /\ session = "ACTIVE" /\ task[t].status \in Waits
        /\ UNCHANGED <<session, request, denied>>
    BY <1>1 DEF ClaimTask, Waits
  <1> HIDE DEF r
  <1>5. \A g \in granted : g.task = t => g.version < v
    BY <1>1, <1>2, <1>4 DEF Inv, Owners, GrantedAreOld, Assignments
  <1>6. Owners'  BY <1>2, <1>3, <1>4, <1>5, OwnersGiven
  <1>7. TypeOK'
    BY <1>2, <1>3, <1>4, LocksTyped DEF Inv, TypeOK, Grant, Assignments
  <1> QED
    BY <1>4, <1>6, <1>7 DEF Inv, DenialEnds, CancelledIsQuiet

LEMMA DelegateStep ==
    ASSUME Inv, NEW m \in Monitors, NEW a \in Agents, Delegate(m, a)
    PROVE  Inv'
  <1> DEFINE t == request[m].task
             v == task[t].version + 1
             r == [task[t] EXCEPT !.status = "CLAIMED", !.agent = a,
                                  !.version = @ + 1, !.failure = "none"]
  <1>1. /\ t \in Tasks /\ task \in [Tasks -> TaskState]
        /\ granted \subseteq Assignments
    BY DEF Inv, TypeOK, Delegate, Requests
  <1>2. /\ task[t].version \in Nat /\ v \in 1 .. MaxDelegations + 1
    BY SMTT(40), <1>1, CoordinationAssumption DEF Delegate, LimitReached, TaskState
  <1>3. r \in TaskState /\ r.status = "CLAIMED" /\ r.agent = a /\ r.version = v
    BY <1>1, <1>2 DEF TaskState, TaskStatuses
  <1>4. /\ task' = [task EXCEPT ![t] = r]
        /\ leases' = [leases EXCEPT ![t] = a]
        /\ locks' = LockFor(t, a)
        /\ Grant(t, a, v)
        /\ session = "ACTIVE"
        /\ request' = [request EXCEPT ![m] = NoRequest]
        /\ UNCHANGED <<session, denied>>
    <2>1. task' = [task EXCEPT ![t] = r]
      BY DEF Delegate
    <2>2. Delegable(t) /\ v = task[t].version + 1
      BY DEF Delegate
    <2> HIDE DEF r, v
    <2> QED
      BY <2>1, <2>2 DEF Delegate, Delegable
  <1> HIDE DEF r
  <1>5. \A g \in granted : g.task = t => g.version < v
    BY <1>1, <1>2 DEF Inv, Owners, GrantedAreOld, Assignments
  <1>6. v \in Nat  BY <1>2
  <1> HIDE DEF v
  <1>7. Owners'  BY <1>1, <1>3, <1>4, <1>5, <1>6, OwnersGiven
  <1> HIDE DEF t
  <1>8. TypeOK'
    BY <1>1, <1>3, <1>4, <1>6, LocksTyped DEF Inv, TypeOK, Grant, Assignments
  <1> QED
    BY <1>4, <1>7, <1>8 DEF Inv, DenialEnds, CancelledIsQuiet

-----------------------------------------------------------------------------
LEMMA InitEstablishes == Init => Inv
  <1> SUFFICES ASSUME Init PROVE Inv
    OBVIOUS
  <1>1. PICK start \in [Tasks -> StartStatuses] :
            task = Refreshed([t \in Tasks |->
                      [status |-> start[t], agent |-> Planned[t],
                       version |-> 1, failure |-> "none"]])
    BY DEF Init
  <1> DEFINE ts == [t \in Tasks |-> [status |-> start[t], agent |-> Planned[t],
                                     version |-> 1, failure |-> "none"]]
  <1>2. \A t \in Tasks :
           /\ start[t] \in {"PENDING", "COMPLETED", "FAILED", "BLOCKED"}
           /\ Planned[t] \in Agents \cup {NoAgent}
           /\ 1 \in 1 .. MaxDelegations + 1
    <2>1. MaxDelegations \in Nat /\ Planned \in [Tasks -> Agents \cup {NoAgent}]
      BY CoordinationAssumption DEF CoordinationAssumption
    <2>2. StartStatuses \subseteq {"PENDING", "COMPLETED", "FAILED", "BLOCKED"}
      BY CoordinationAssumption DEF CoordinationAssumption
    <2>3. 1 \in 1 .. MaxDelegations + 1  BY <2>1
    <2>4. \A t \in Tasks : start[t] \in StartStatuses  OBVIOUS
    <2> QED  BY <2>1, <2>2, <2>3, <2>4
  <1>3. \A t \in Tasks : /\ ts[t] \in TaskState
                         /\ ts[t].status # "CLAIMED"
    BY <1>2 DEF TaskState, TaskStatuses, Waits, Failures
  <1>4. ts \in [Tasks -> TaskState]  BY <1>3
  <1> HIDE DEF ts
  <1>5. /\ task \in [Tasks -> TaskState]
        /\ \A t \in Tasks : task[t].status # "CLAIMED"
    <2>1. task = Refreshed(ts)  BY <1>1 DEF ts
    <2> QED  BY <2>1, <1>3, <1>4, RefreshKeeps DEF Waits
  <1>6. TypeOK  BY <1>5 DEF Init, TypeOK
  <1> QED
    BY <1>5, <1>6 DEF Init, Inv, Owners, GrantedAreOld, AssignmentIsUnique,
                      LeaseIsOwners, DenialEnds, CancelledIsQuiet

\* What every step but a claim and a delegation does.
Quiet ==
    \/ GetReadyTasks
    \/ \E g \in granted : CompleteTask(g)
    \/ \E g \in granted, type \in FailureTypes : FailTask(g, type)
    \/ \E t \in Tasks : MergeConflict(t)
    \/ Cancel
    \/ \E m \in Monitors, t \in Tasks : PickTask(m, t)
    \/ \E m \in Monitors : RefuseDelegation(m) \/ DelegationBlocks(m)

LEMMA QuietGivesNothing ==
    ASSUME Inv, Quiet
    PROVE  GivesNothing /\ TypeOK' /\ DenialEnds' /\ CancelledIsQuiet'
  BY GetReadyGivesNothing, CompleteGivesNothing, FailGivesNothing,
     MergeGivesNothing, CancelGivesNothing, MonitorGivesNothing,
     DelegationBlocksGivesNothing DEF Quiet

LEMMA NextPreserves == Inv /\ [Next]_vars => Inv'
  <1> SUFFICES ASSUME Inv, [Next]_vars PROVE Inv'
    OBVIOUS
  <1>1. CASE Quiet
    BY <1>1, QuietGivesNothing, OwnersKept DEF Inv
  <1>2. ASSUME NEW t \in Tasks, NEW a \in Agents, ClaimTask(t, a) PROVE Inv'
    BY <1>2, ClaimStep
  <1>3. ASSUME NEW m \in Monitors, NEW a \in Agents, Delegate(m, a) PROVE Inv'
    BY <1>3, DelegateStep
  <1>4. CASE UNCHANGED vars
    BY <1>4 DEF vars, Inv, Owners, TypeOK, GrantedAreOld, AssignmentIsUnique,
                LeaseIsOwners, DenialEnds, CancelledIsQuiet
  <1> QED  BY <1>1, <1>2, <1>3, <1>4 DEF Next, Quiet

(***************************************************************************)
(* The inductive invariant of agent coordination.                          *)
(***************************************************************************)
THEOREM CoordinationInvariant == Spec => []Inv
  BY InitEstablishes, NextPreserves, PTL DEF Spec

(***************************************************************************)
(* create_session to cancel_coordination keep the session well-formed; no  *)
(* task is delegated more often than max_delegations_per_task allows.      *)
(***************************************************************************)
THEOREM TypeCorrect == Spec => []TypeOK
  <1>1. Inv => TypeOK  BY DEF Inv
  <1> QED  BY <1>1, CoordinationInvariant, PTL

(***************************************************************************)
(* No two agents are ever given the same version of a task, so complete_   *)
(* task and fail_task tell a former owner from the present one.            *)
(***************************************************************************)
THEOREM AssignmentsAreUnique == Spec => []AssignmentIsUnique
  <1>1. Inv => AssignmentIsUnique  BY DEF Inv, Owners
  <1> QED  BY <1>1, CoordinationInvariant, PTL

(***************************************************************************)
(* A claimed task is leased, and to the agent it is assigned to.           *)
(***************************************************************************)
THEOREM LeasesAreOwners == Spec => []LeaseIsOwners
  <1>1. Inv => LeaseIsOwners  BY DEF Inv, Owners
  <1> QED  BY <1>1, CoordinationInvariant, PTL

(***************************************************************************)
(* After cancel_coordination nothing is held and nothing is given out.     *)
(***************************************************************************)
THEOREM CancelledStaysQuiet == Spec => []CancelledIsQuiet
  <1>1. Inv => CancelledIsQuiet  BY DEF Inv
  <1> QED  BY <1>1, CoordinationInvariant, PTL

(***************************************************************************)
(* No claim and no delegation assigns a task that a policy denied.         *)
(***************************************************************************)
THEOREM DeniedNeverRerouted == Spec => DeniedIsNotRerouted
  <1>1. ASSUME Inv, [Next]_vars, NEW t \in denied, task'[t].status = "CLAIMED"
        PROVE  task'[t] = task[t]
    <2>1. t \in Tasks /\ session # "ACTIVE"  BY <1>1 DEF Inv, TypeOK, DenialEnds
    <2>2. CASE Quiet
      BY <1>1, <2>1, <2>2, QuietGivesNothing DEF GivesNothing
    <2>3. CASE UNCHANGED vars  BY <2>3 DEF vars
    <2> QED
      BY <1>1, <2>1, <2>2, <2>3 DEF Next, Quiet, ClaimTask, Delegate, Delegable
  <1>2. Inv /\ [Next]_vars =>
           [\A t \in denied : task'[t].status = "CLAIMED" => task'[t] = task[t]]_vars
    BY <1>1
  <1> QED  BY <1>2, CoordinationInvariant, PTL DEF Spec, DeniedIsNotRerouted

-----------------------------------------------------------------------------
(* The reliability engine                                                  *)

\* What a thread is doing fits its stage.
EnginesFit ==
    \A e \in Engines :
        /\ engine[e].stage = "idle" => engine[e] = Idle
        /\ engine[e].stage # "idle" => Work(e) \in Keys /\ engine[e].payload \in AllPayloads
        /\ engine[e].stage = "failed" => engine[e].category \in Categories
        /\ engine[e].stage \in {"returned", "save"} /\ Work(e) \in SideEffects
             => engine[e].made

\* A key that was never worked on by two has at most one engine at work, and then
\* no record.
OneAtWork ==
    \A k \in SideEffects \ unseen : \A e \in Engines : Work(e) = k =>
        /\ saved[k] = None
        /\ \A f \in Engines : Work(f) = k => f = e

\* What an engine says it made it made.
MadeIsTrue ==
    \A e \in Engines : engine[e].made => Work(e) \in SideEffects /\ effects[Work(e)] > 0

\* An engine that knows of an effect it made does not call the operation again.
MadeIsPending ==
    \A e \in Engines : engine[e].made /\ Work(e) \notin Accounted =>
        engine[e].stage \in {"returned", "save", "failed", "reconcile"}

\* An effect is on record, or an engine knows of it.
EffectsAccounted ==
    \A k \in SideEffects \ Accounted : effects[k] > 0 =>
        saved[k] # None \/ \E e \in Engines : Work(e) = k /\ engine[e].made

RelInv ==
    /\ RelTypeOK
    /\ EnginesFit
    /\ OneAtWork
    /\ MadeIsTrue
    /\ MadeIsPending
    /\ EffectsAccounted
    /\ EffectOnceUnlessExcused
    /\ SuccessWasMade

-----------------------------------------------------------------------------
(* The breaker keeps its type                                              *)

LEMMA ClosedIsBreaker == Closed \in Breakers
BY RelAssumption DEF Closed, Breakers

LEMMA OpenedIsBreaker == Opened \in Breakers
BY RelAssumption DEF Opened, Breakers

LEMMA ObservedIsBreaker ==
    ASSUME NEW b \in Breakers
    PROVE  Observed(b) \in Breakers
<1>0. b.state \in {"CLOSED", "OPEN", "HALF_OPEN"} /\ b.failures \in 0 .. FailureThreshold
      /\ 0 \in 0 .. HalfOpenSuccesses - 1
  BY RelAssumption DEF Breakers
<1>1. CASE b.state = "OPEN" /\ b.due
  BY <1>0, <1>1 DEF Observed, Breakers
<1>2. CASE ~(b.state = "OPEN" /\ b.due)
  BY <1>2 DEF Observed
<1> QED
  BY <1>1, <1>2

LEMMA SuccessIsBreaker ==
    ASSUME NEW b \in Breakers
    PROVE  AfterSuccess(b) \in Breakers
<1>0. b.state \in {"CLOSED", "OPEN", "HALF_OPEN"} /\ b.successes \in 0 .. HalfOpenSuccesses - 1
      /\ b.failures \in 0 .. FailureThreshold /\ b.due \in BOOLEAN
  BY DEF Breakers
<1>1. CASE b.state = "HALF_OPEN"
  BY <1>0, <1>1, RelAssumption, ClosedIsBreaker DEF AfterSuccess, Breakers
<1>2. CASE b.state = "CLOSED"
  BY <1>0, <1>2, RelAssumption DEF AfterSuccess, Breakers
<1>3. CASE b.state = "OPEN"
  BY <1>0, <1>3, RelAssumption DEF AfterSuccess, Breakers
<1> QED
  BY <1>0, <1>1, <1>2, <1>3

LEMMA FailureIsBreaker ==
    ASSUME NEW b \in Breakers, NEW category
    PROVE  AfterFailure(b, category) \in Breakers
<1>0. b.state \in {"CLOSED", "OPEN", "HALF_OPEN"} /\ b.successes \in 0 .. HalfOpenSuccesses - 1
      /\ b.failures \in 0 .. FailureThreshold /\ b.due \in BOOLEAN
  BY DEF Breakers
<1>1. CASE category \notin Monitored
  BY <1>1 DEF AfterFailure
<1>2. CASE category \in Monitored /\ b.state = "CLOSED"
  BY <1>0, <1>2, RelAssumption, OpenedIsBreaker DEF AfterFailure, Breakers
<1>3. CASE category \in Monitored /\ b.state = "HALF_OPEN"
  BY <1>3, OpenedIsBreaker DEF AfterFailure
<1>4. CASE category \in Monitored /\ b.state = "OPEN"
  BY <1>0, <1>4, RelAssumption DEF AfterFailure, Breakers
<1> QED
  BY <1>0, <1>1, <1>2, <1>3, <1>4

LEMMA HitsBound == MaxHits \in Int /\ MaxHits + 1 \in Nat
<1>1. Cardinality(Engines) \in Nat
  BY FS_CardinalityType, RelAssumption
<1> QED
  BY <1>1, RelAssumption DEF MaxHits

-----------------------------------------------------------------------------
LEMMA IdleIsRun == Idle \in Runs /\ Idle.stage = "idle" /\ Idle.key = None /\ ~Idle.made
BY RelAssumption DEF Idle, Runs, Stages

LEMMA RelInitially == RelInit => RelInv
<1> SUFFICES ASSUME RelInit PROVE RelInv
  OBVIOUS
<1> USE DEF RelInit
<1>1. RelTypeOK
  BY IdleIsRun, ClosedIsBreaker, HitsBound DEF RelTypeOK
<1>2. EnginesFit /\ MadeIsTrue /\ MadeIsPending
  BY IdleIsRun DEF EnginesFit, MadeIsTrue, MadeIsPending
<1>3. OneAtWork
  BY IdleIsRun, RelAssumption DEF OneAtWork, Work
<1>4. \A k \in SideEffects : effects[k] = 0 /\ saved[k] = None
  BY RelAssumption
<1>5. EffectsAccounted /\ EffectOnceUnlessExcused /\ SuccessWasMade
  BY <1>4 DEF Accounted, EffectsAccounted, EffectOnceUnlessExcused, SuccessWasMade
<1> QED
  BY <1>1, <1>2, <1>3, <1>5 DEF RelInv

\* A call goes on, with its key and what it knows of its effect.
LEMMA CallGoesOn ==
    ASSUME RelInv, NEW e \in Engines, NEW r \in Runs,
           engine[e].stage # "idle", r.stage # "idle",
           r.key = Work(e), r.payload = engine[e].payload, r.made = engine[e].made,
           r.stage = "failed" => r.category \in Categories,
           r.stage \in {"returned", "save"} /\ Work(e) \in SideEffects => r.made,
           r.made /\ Work(e) \notin Accounted' =>
             r.stage \in {"returned", "save", "failed", "reconcile"},
           engine' = [engine EXCEPT ![e] = r],
           excused \subseteq excused', excused' \subseteq SideEffects,
           breaker' \in Breakers, faults' \in Nat, hits' \in 0 .. MaxHits + 1,
           UNCHANGED <<saved, effects, unseen>>
    PROVE  RelInv'
<1> USE DEF Accounted, RelInv
<1>1. RelTypeOK'
  BY DEF RelTypeOK
<1>2. engine'[e] = r /\ \A f \in Engines : f # e => engine'[f] = engine[f]
  BY DEF RelTypeOK
<1>3. \A f \in Engines : Work(f)' = Work(f) /\ engine'[f].made = engine[f].made
  BY <1>2 DEF Work
<1>4. EnginesFit'
  BY <1>2, <1>3 DEF EnginesFit, Work
<1>5. OneAtWork'
  BY <1>3 DEF OneAtWork
<1>6. MadeIsTrue'
  BY <1>3 DEF MadeIsTrue
<1>7. MadeIsPending'
  BY <1>2, <1>3 DEF MadeIsPending
<1>8. EffectsAccounted'
  BY <1>3 DEF EffectsAccounted
<1>9. EffectOnceUnlessExcused' /\ SuccessWasMade'
  BY DEF EffectOnceUnlessExcused, SuccessWasMade
<1> QED
  BY <1>1, <1>4, <1>5, <1>6, <1>7, <1>8, <1>9

\* A call ends: its success is put on record, or what it made is on record or forgotten.
LEMMA CallEnds ==
    ASSUME RelInv, NEW e \in Engines, engine[e].stage # "idle", Answer(e),
           \/ saved' = [saved EXCEPT ![Work(e)] = engine[e].payload]
              /\ (Work(e) \in SideEffects => effects[Work(e)] > 0)
           \/ saved' = saved
              /\ (engine[e].made => Work(e) \in Accounted'),
           excused \subseteq excused', excused' \subseteq SideEffects,
           breaker' \in Breakers, faults' \in Nat, hits' \in 0 .. MaxHits + 1,
           UNCHANGED <<effects, unseen>>
    PROVE  RelInv'
<1> USE DEF Accounted, RelInv
<1>0. Work(e) \in Keys /\ engine[e].payload \in AllPayloads
  BY DEF EnginesFit
<1>1. engine' = [engine EXCEPT ![e] = Idle]
  BY DEF Answer
<1>2. RelTypeOK'
  BY <1>0, <1>1, IdleIsRun DEF RelTypeOK
<1>3. engine'[e] = Idle /\ \A f \in Engines : f # e => engine'[f] = engine[f]
  BY <1>1 DEF RelTypeOK
<1>4. Work(e)' = None /\ \A f \in Engines : f # e => Work(f)' = Work(f)
  BY <1>3, IdleIsRun DEF Work
<1>5. None \notin Keys /\ None \notin AllPayloads /\ SideEffects \subseteq Keys
  BY RelAssumption
<1>6. EnginesFit'
  BY <1>3, <1>4, IdleIsRun DEF EnginesFit
<1>7. \A k \in SideEffects : k # Work(e) => saved'[k] = saved[k]
  BY <1>0, <1>5 DEF RelTypeOK
<1>8. OneAtWork'
  BY <1>4, <1>5, <1>7 DEF OneAtWork
<1>9. MadeIsTrue'
  BY <1>3, <1>4, IdleIsRun DEF MadeIsTrue
<1>10. MadeIsPending'
  BY <1>3, <1>4, IdleIsRun DEF MadeIsPending
<1>11. EffectsAccounted'
  <2> SUFFICES ASSUME NEW k \in SideEffects \ Accounted', effects[k] > 0
               PROVE  saved'[k] # None \/ \E f \in Engines : Work(f)' = k /\ engine'[f].made
    BY DEF EffectsAccounted
  <2>1. saved[k] # None \/ \E f \in Engines : Work(f) = k /\ engine[f].made
    BY DEF EffectsAccounted
  <2>2. CASE k = Work(e)
    <3>1. CASE saved' = [saved EXCEPT ![Work(e)] = engine[e].payload]
      BY <1>0, <1>5, <2>2, <3>1 DEF RelTypeOK
    <3>2. CASE saved' = saved /\ (engine[e].made => Work(e) \in Accounted')
      BY <2>1, <2>2, <3>2 DEF OneAtWork
    <3> QED
      BY <3>1, <3>2
  <2>3. CASE k # Work(e)
    BY <1>3, <1>4, <1>7, <2>1, <2>3
  <2> QED
    BY <2>2, <2>3
<1>12. EffectOnceUnlessExcused'
  BY DEF EffectOnceUnlessExcused
<1>13. SuccessWasMade'
  BY <1>7 DEF SuccessWasMade
<1> QED
  BY <1>2, <1>6, <1>8, <1>9, <1>10, <1>11, <1>12, <1>13

-----------------------------------------------------------------------------
(* One lemma per action                                                    *)

LEMMA BeginKeeps ==
    ASSUME RelInv, NEW e \in Engines, NEW k \in Keys, NEW p \in Payloads[k], Begin(e, k, p)
    PROVE  RelInv'
<1> USE DEF Accounted, RelInv, Begin
<1> DEFINE r == [Idle EXCEPT !.stage = "admit", !.key = k, !.payload = p, !.attempt = 1]
<1>1. p \in AllPayloads
  BY DEF AllPayloads
<1>2. r \in Runs /\ r.stage = "admit" /\ r.key = k /\ r.payload = p /\ ~r.made
  <2>1. 1 \in 0 .. MaxAttempts
    BY RelAssumption
  <2> QED
    BY <1>1, <2>1 DEF Idle, Runs, Stages
<1>3. engine'[e] = r /\ \A f \in Engines : f # e => engine'[f] = engine[f]
  BY DEF RelTypeOK
<1> HIDE DEF r
<1>4. Work(e) = None /\ Work(e)' = k /\ \A f \in Engines : f # e => Work(f)' = Work(f)
  BY <1>2, <1>3, IdleIsRun DEF Work
<1>5. k \in SideEffects \ unseen' => saved[k] = None /\ \A f \in Engines : Work(f) # k
  OBVIOUS
<1>6. RelTypeOK'
  <2>1. engine' \in [Engines -> Runs]
    BY <1>2 DEF RelTypeOK, r
  <2> QED
    BY <2>1 DEF RelTypeOK, Fault
<1>7. EnginesFit'
  BY <1>1, <1>2, <1>3, <1>4 DEF EnginesFit
<1>8. OneAtWork'
  <2>1. saved' = saved /\ unseen \subseteq unseen'
    OBVIOUS
  <2> SUFFICES ASSUME NEW l \in SideEffects \ unseen', NEW f \in Engines, Work(f)' = l
               PROVE  saved'[l] = None /\ \A g \in Engines : Work(g)' = l => g = f
    BY DEF OneAtWork
  <2>2. CASE l = k
    BY <1>4, <1>5, <2>1, <2>2
  <2>3. CASE l # k
    BY <1>4, <2>1, <2>3 DEF OneAtWork
  <2> QED
    BY <2>2, <2>3
<1>9. MadeIsTrue'
  BY <1>2, <1>3, <1>4 DEF MadeIsTrue
<1>10. MadeIsPending'
  BY <1>2, <1>3, <1>4 DEF MadeIsPending
<1>11. EffectsAccounted'
  BY <1>3, <1>4, IdleIsRun DEF EffectsAccounted
<1>12. EffectOnceUnlessExcused' /\ SuccessWasMade'
  BY DEF EffectOnceUnlessExcused, SuccessWasMade
<1> QED
  BY <1>6, <1>7, <1>8, <1>9, <1>10, <1>11, <1>12

LEMMA AdmitKeeps ==
    ASSUME RelInv, NEW e \in Engines, Admit(e)
    PROVE  RelInv'
<1> USE DEF Accounted, RelInv, Admit
<1>1. breaker' \in Breakers
  BY ObservedIsBreaker DEF RelTypeOK
<1>2. engine[e] \in Runs /\ faults' \in Nat /\ hits \in 0 .. MaxHits + 1 /\ 0 \in 0 .. MaxHits + 1
      /\ excused \subseteq SideEffects
  BY HitsBound DEF RelTypeOK
<1>3. engine[e].made => Work(e) \in Accounted
  BY DEF MadeIsPending
<1>4. CASE breaker'.state = "OPEN"
  <2>1. Answer(e) /\ saved' = saved /\ hits' \in 0 .. MaxHits + 1
    BY <1>2, <1>4 DEF Answer
  <2> QED
    BY <1>1, <1>2, <1>3, <2>1, CallEnds DEF historyVars
<1>5. CASE breaker'.state # "OPEN"
  <2> DEFINE r == [engine[e] EXCEPT !.stage = "call"]
  <2>1. r \in Runs /\ r.stage = "call" /\ r.key = Work(e) /\ r.payload = engine[e].payload
        /\ r.made = engine[e].made
    BY <1>2 DEF Runs, Stages, Work
  <2>2. engine' = [engine EXCEPT ![e] = r] /\ hits' \in 0 .. MaxHits + 1
    BY <1>2, <1>5
  <2> HIDE DEF r
  <2> QED
    BY <1>1, <1>2, <1>3, <2>1, <2>2, CallGoesOn DEF historyVars
<1> QED
  BY <1>4, <1>5

LEMMA EffectKeeps ==
    ASSUME RelInv, NEW e \in Engines, engine[e].stage = "call", MakeEffect(e), NEW r \in Runs,
           \/ r.stage = "returned" /\ (Work(e) \in SideEffects => r.made)
           \/ r.stage = "failed" /\ r.category \in Categories,
           r.made => Work(e) \in SideEffects,
           Work(e) \in SideEffects => r.made,
           r.key = Work(e), r.payload = engine[e].payload,
           engine' = [engine EXCEPT ![e] = r], hits' \in 0 .. MaxHits + 1,
           UNCHANGED <<saved, breaker, faults, excused, unseen>>
    PROVE  RelInv'
<1> USE DEF Accounted, RelInv
<1>1. engine'[e] = r /\ \A f \in Engines : f # e => engine'[f] = engine[f]
  BY DEF RelTypeOK
<1>2. \A f \in Engines : Work(f)' = Work(f)
  BY <1>1 DEF Work
<1>3. \A k \in SideEffects : /\ k # Work(e) => effects'[k] = effects[k]
                             /\ effects'[k] >= effects[k]
                             /\ k = Work(e) => effects'[k] > 0
  BY DEF MakeEffect, RelTypeOK
<1>4. RelTypeOK'
  BY DEF MakeEffect, RelTypeOK
<1>5. EnginesFit'
  BY <1>1, <1>2 DEF EnginesFit
<1>6. OneAtWork'
  BY <1>2 DEF OneAtWork
<1>7. MadeIsTrue'
  <2>1. \A k \in SideEffects : effects[k] > 0 => effects'[k] > 0
    BY <1>3 DEF RelTypeOK, MakeEffect
  <2> QED
    BY <1>1, <1>2, <1>3, <2>1 DEF MadeIsTrue
<1>8. MadeIsPending'
  BY <1>1, <1>2 DEF MadeIsPending
<1>9. EffectsAccounted'
  BY <1>1, <1>2, <1>3 DEF EffectsAccounted
<1>10. EffectOnceUnlessExcused'
  <2> SUFFICES ASSUME NEW k \in SideEffects \ Accounted
               PROVE  effects'[k] <= 1
    BY DEF EffectOnceUnlessExcused
  <2>1. CASE k # Work(e)
    BY <1>3, <2>1 DEF EffectOnceUnlessExcused
  <2>2. CASE k = Work(e)
    <3>1. saved[k] = None /\ \A f \in Engines : Work(f) = k => f = e
      BY <2>2 DEF OneAtWork
    <3>2. ~engine[e].made
      BY <2>2 DEF MadeIsPending
    <3>3. ~(effects[k] > 0)
      BY <3>1, <3>2 DEF EffectsAccounted
    <3>4. effects[k] = 0
      BY <3>3 DEF RelTypeOK
    <3> QED
      BY <2>2, <3>4 DEF MakeEffect
  <2> QED
    BY <2>1, <2>2
<1>11. SuccessWasMade'
  BY <1>3 DEF SuccessWasMade, RelTypeOK, MakeEffect
<1> QED
  BY <1>4, <1>5, <1>6, <1>7, <1>8, <1>9, <1>10, <1>11

LEMMA CallOperationKeeps ==
    ASSUME RelInv, NEW e \in Engines, CallOperation(e)
    PROVE  RelInv'
<1> USE DEF Accounted, RelInv
<1>0. engine[e] \in Runs /\ engine[e].stage = "call" /\ excused \subseteq SideEffects
      /\ UNCHANGED <<saved, breaker, faults, excused, unseen>>
  BY DEF RelTypeOK, CallOperation, historyVars
<1>1. hits' \in 0 .. MaxHits + 1
  <2>1. hits \in 0 .. MaxHits + 1
    BY DEF RelTypeOK
  <2>2. hits' = hits \/ (hits <= MaxHits /\ hits' = hits + 1)
    BY DEF CallOperation
  <2> HIDE DEF RelInv
  <2> QED
    BY <2>1, <2>2, HitsBound
<1>2. CASE engine' = [engine EXCEPT ![e] = [@ EXCEPT !.stage = "returned",
                                                     !.made = Work(e) \in SideEffects]]
           /\ MakeEffect(e)
  <2> DEFINE made == Work(e) \in SideEffects
  <2> DEFINE r == [engine[e] EXCEPT !.stage = "returned", !.made = made]
  <2>1. engine' = [engine EXCEPT ![e] = r]
    BY <1>2
  <2>2. made \in BOOLEAN /\ (made <=> Work(e) \in SideEffects)
    OBVIOUS
  <2> HIDE DEF made
  <2>3. r \in Runs /\ r.stage = "returned" /\ r.made = made
        /\ r.key = Work(e) /\ r.payload = engine[e].payload
    BY <1>0, <2>2 DEF Runs, Stages, Work
  <2> HIDE DEF r
  <2> QED
    BY <1>0, <1>1, <1>2, <2>1, <2>2, <2>3, EffectKeeps
<1>3. ASSUME NEW category \in Categories, UNCHANGED effects,
             engine' = [engine EXCEPT ![e] = [@ EXCEPT !.stage = "failed", !.category = category]]
      PROVE  RelInv'
  <2> DEFINE r == [engine[e] EXCEPT !.stage = "failed", !.category = category]
  <2>1. r \in Runs /\ r.stage = "failed" /\ r.category \in Categories
        /\ r.key = Work(e) /\ r.payload = engine[e].payload /\ r.made = engine[e].made
    BY <1>0 DEF Runs, Stages, Work
  <2>2. engine' = [engine EXCEPT ![e] = r]
    BY <1>3
  <2>3. engine[e].made => Work(e) \in Accounted
    BY <1>0 DEF MadeIsPending
  <2>4. breaker' \in Breakers /\ faults' \in Nat
    BY <1>0 DEF RelTypeOK
  <2> HIDE DEF r
  <2> QED
    BY <1>0, <1>1, <1>3, <2>1, <2>2, <2>3, <2>4, CallGoesOn
<1>4. ASSUME NEW category \in Categories, Work(e) \in SideEffects, MakeEffect(e),
             engine' = [engine EXCEPT ![e] = [@ EXCEPT !.stage = "failed", !.category = category,
                                                       !.made = TRUE]]
      PROVE  RelInv'
  <2> DEFINE r == [engine[e] EXCEPT !.stage = "failed", !.category = category, !.made = TRUE]
  <2>1. r \in Runs /\ r.stage = "failed" /\ r.category \in Categories
        /\ r.key = Work(e) /\ r.payload = engine[e].payload /\ r.made
    BY <1>0 DEF Runs, Stages, Work
  <2>2. engine' = [engine EXCEPT ![e] = r]
    BY <1>4
  <2> HIDE DEF r
  <2> QED
    BY <1>0, <1>1, <1>4, <2>1, <2>2, EffectKeeps
<1> QED
  BY <1>2, <1>3, <1>4 DEF CallOperation

LEMMA RecordSuccessKeeps ==
    ASSUME RelInv, NEW e \in Engines, RecordSuccess(e)
    PROVE  RelInv'
<1> USE DEF Accounted, RelInv, RecordSuccess
<1> DEFINE r == [engine[e] EXCEPT !.stage = "save"]
<1>1. breaker' \in Breakers /\ faults' \in Nat /\ hits' \in 0 .. MaxHits + 1
      /\ excused' = excused /\ excused \subseteq SideEffects
      /\ UNCHANGED <<saved, effects, unseen>> /\ engine[e] \in Runs
  BY SuccessIsBreaker DEF RelTypeOK, historyVars
<1>2. r \in Runs /\ r.stage = "save" /\ r.key = Work(e) /\ r.payload = engine[e].payload
      /\ r.made = engine[e].made
  BY <1>1 DEF Runs, Stages, Work
<1>3. engine' = [engine EXCEPT ![e] = r]
  OBVIOUS
<1>4. Work(e) \in SideEffects => r.made
  BY <1>2 DEF EnginesFit
<1> HIDE DEF r
<1> QED
  BY <1>1, <1>2, <1>3, <1>4, CallGoesOn

LEMMA SaveResultKeeps ==
    ASSUME RelInv, NEW e \in Engines, SaveResult(e)
    PROVE  RelInv'
<1> USE DEF Accounted, RelInv
<1>1. breaker' \in Breakers /\ faults' \in Nat /\ hits' \in 0 .. MaxHits + 1
      /\ excused' = excused /\ excused \subseteq SideEffects /\ UNCHANGED <<effects, unseen>>
      /\ engine[e] \in Runs /\ engine[e].stage = "save"
  <2>1. faults' = faults \/ faults' = faults + 1
    BY DEF SaveResult, Fault
  <2>2. UNCHANGED <<breaker, effects, hits, excused, unseen>> /\ engine[e].stage = "save"
    BY DEF SaveResult, historyVars
  <2> QED
    BY <2>1, <2>2 DEF RelTypeOK
<1>2. Work(e) \in SideEffects => engine[e].made /\ effects[Work(e)] > 0
  BY <1>1 DEF EnginesFit, MadeIsTrue
<1>3. CASE saved' = [saved EXCEPT ![Work(e)] = engine[e].payload] /\ Answer(e)
  BY <1>1, <1>2, <1>3, CallEnds
<1>4. ASSUME saved' = saved, NEW category \in Categories,
             engine' = [engine EXCEPT ![e] = [@ EXCEPT !.stage = "failed", !.category = category]]
      PROVE  RelInv'
  <2> DEFINE r == [engine[e] EXCEPT !.stage = "failed", !.category = category]
  <2>1. r \in Runs /\ r.stage = "failed" /\ r.key = Work(e) /\ r.payload = engine[e].payload
        /\ r.made = engine[e].made /\ r.category \in Categories
    BY <1>1 DEF Runs, Stages, Work
  <2>2. engine' = [engine EXCEPT ![e] = r]
    BY <1>4
  <2> HIDE DEF r
  <2> QED
    BY <1>1, <1>4, <2>1, <2>2, CallGoesOn
<1> QED
  BY <1>3, <1>4 DEF SaveResult

LEMMA ForgetForgets ==
    ASSUME RelInv, NEW e \in Engines, Forget(e)
    PROVE  /\ excused \subseteq excused' /\ excused' \subseteq SideEffects
           /\ engine[e].made => Work(e) \in excused'
BY DEF RelInv, RelTypeOK, MadeIsTrue, Forget

LEMMA HandleFailureKeeps ==
    ASSUME RelInv, NEW e \in Engines, HandleFailure(e)
    PROVE  RelInv'
<1> USE DEF Accounted, RelInv
<1> DEFINE recoverability == Classify(engine[e].category, Work(e) \in SideEffects)
<1>1. breaker' \in Breakers /\ faults' \in Nat /\ UNCHANGED <<saved, effects, unseen>>
      /\ engine[e] \in Runs /\ engine[e].stage = "failed" /\ excused \subseteq SideEffects
      /\ engine[e].category \in Categories
  BY FailureIsBreaker DEF RelTypeOK, HandleFailure, EnginesFit
<1>2. hits' \in 0 .. MaxHits + 1
  <2>1. hits \in 0 .. MaxHits + 1 /\ (hits' = hits \/ hits' = 0)
    BY DEF RelTypeOK, HandleFailure
  <2> HIDE DEF RelInv
  <2> QED
    BY <2>1, HitsBound
<1>3. engine[e].made => Work(e) \in SideEffects
  BY DEF MadeIsTrue
<1>4. CASE recoverability = "RECONCILIATION_REQUIRED"
  <2> DEFINE r == [engine[e] EXCEPT !.stage = "reconcile", !.category = None]
  <2>1. r \in Runs /\ r.stage = "reconcile" /\ r.key = Work(e) /\ r.payload = engine[e].payload
        /\ r.made = engine[e].made
    BY <1>1 DEF Runs, Stages, Work
  <2>2. engine' = [engine EXCEPT ![e] = r] /\ excused' = excused
    BY <1>4 DEF HandleFailure
  <2> HIDE DEF r
  <2> QED
    BY <1>1, <1>2, <2>1, <2>2, CallGoesOn
<1>5. CASE recoverability # "RECONCILIATION_REQUIRED"
  <2>1. /\ excused \subseteq excused' /\ excused' \subseteq SideEffects
        /\ engine[e].made => Work(e) \in Accounted'
    <3>1. CASE engine[e].category \notin Doubtful
      BY <1>5, <3>1, ForgetForgets DEF HandleFailure, Accounted
    <3>2. CASE engine[e].category \in Doubtful
      <4>1. excused' = excused
        BY <1>5, <3>2 DEF HandleFailure
      <4>2. ~engine[e].made
        BY <1>3, <1>5, <3>2 DEF Classify, Doubtful
      <4> QED
        BY <1>1, <4>1, <4>2
    <3> QED
      BY <3>1, <3>2
  <2>2. CASE CanRetry(recoverability, engine[e].attempt)
    <3> DEFINE r == NextAttempt(engine[e])
    <3>1. engine[e].attempt + 1 \in 0 .. MaxAttempts
      <4>1. engine[e].attempt \in 0 .. MaxAttempts
        BY <1>1 DEF Runs
      <4> QED
        BY <2>2, <4>1, RelAssumption DEF CanRetry
    <3>2. r \in Runs /\ r.stage = "call" /\ r.key = Work(e) /\ r.payload = engine[e].payload
          /\ r.made = engine[e].made
      <4> HIDE DEF RelInv
      <4> QED
        BY <1>1, <3>1 DEF Runs, Stages, Work, NextAttempt
    <3>3. engine' = [engine EXCEPT ![e] = r]
      BY <1>5, <2>2 DEF HandleFailure
    <3> HIDE DEF r
    <3> QED
      BY <1>1, <1>2, <2>1, <3>2, <3>3, CallGoesOn
  <2>3. CASE ~CanRetry(recoverability, engine[e].attempt)
    <3>1. Answer(e)
      BY <1>5, <2>3 DEF HandleFailure
    <3> QED
      BY <1>1, <1>2, <2>1, <3>1, CallEnds
  <2> QED
    BY <2>2, <2>3
<1> QED
  BY <1>4, <1>5

LEMMA ReconcileKeeps ==
    ASSUME RelInv, NEW e \in Engines, Reconcile(e)
    PROVE  RelInv'
<1> USE DEF Accounted, RelInv
<1>1. breaker' \in Breakers /\ faults' \in Nat /\ hits' \in 0 .. MaxHits + 1
      /\ excused \subseteq SideEffects /\ engine[e].stage = "reconcile" /\ Answer(e)
      /\ UNCHANGED <<effects, unseen>>
  BY DEF RelTypeOK, Reconcile
<1>2. CASE /\ effects[Work(e)] > 0 /\ saved' = [saved EXCEPT ![Work(e)] = engine[e].payload]
           /\ excused' = excused
  BY <1>1, <1>2, CallEnds
<1>3. CASE saved' = saved /\ Forget(e)
  BY <1>1, <1>3, ForgetForgets, CallEnds
<1> QED
  BY <1>2, <1>3 DEF Reconcile

LEMMA CrashKeeps ==
    ASSUME RelInv, Crash
    PROVE  RelInv'
<1> USE DEF Accounted, RelInv, Crash
<1>1. \A e \in Engines : engine'[e] = Idle /\ Work(e)' = None
  BY IdleIsRun DEF Work
<1>2. \A e \in Engines : engine[e].made => Work(e) \in excused'
  OBVIOUS
<1>3. excused \subseteq excused' /\ excused' \subseteq SideEffects
  BY DEF RelTypeOK, MadeIsTrue
<1>4. RelTypeOK'
  BY <1>3, IdleIsRun, ClosedIsBreaker, HitsBound DEF RelTypeOK, Fault
<1>5. EnginesFit' /\ MadeIsTrue' /\ MadeIsPending'
  BY <1>1, IdleIsRun DEF EnginesFit, MadeIsTrue, MadeIsPending
<1>6. OneAtWork'
  BY <1>1, RelAssumption DEF OneAtWork
<1>7. EffectsAccounted'
  BY <1>2, <1>3 DEF EffectsAccounted
<1>8. EffectOnceUnlessExcused' /\ SuccessWasMade'
  BY <1>3 DEF EffectOnceUnlessExcused, SuccessWasMade
<1> QED
  BY <1>4, <1>5, <1>6, <1>7, <1>8

LEMMA BreakerKeeps ==
    ASSUME RelInv, RecoveryTimeout \/ ResetBreaker
    PROVE  RelInv'
<1> USE DEF Accounted, RelInv
<1>1. UNCHANGED <<saved, engine, faults, effects, excused, unseen>>
  BY DEF RecoveryTimeout, ResetBreaker, historyVars
<1>2. breaker' \in Breakers /\ hits' \in 0 .. MaxHits + 1
  <2>1. breaker \in Breakers /\ hits \in 0 .. MaxHits + 1
    BY DEF RelTypeOK
  <2>2. CASE RecoveryTimeout
    BY <2>1, <2>2 DEF RecoveryTimeout, Breakers
  <2>3. CASE ResetBreaker
    BY <2>3, ClosedIsBreaker, HitsBound DEF ResetBreaker
  <2> QED
    BY <2>2, <2>3
<1>3. RelTypeOK'
  BY <1>1, <1>2 DEF RelTypeOK
<1>4. (EnginesFit /\ OneAtWork /\ MadeIsTrue /\ MadeIsPending)'
  BY <1>1 DEF EnginesFit, OneAtWork, MadeIsTrue, MadeIsPending, Work
<1>5. (EffectsAccounted /\ EffectOnceUnlessExcused /\ SuccessWasMade)'
  BY <1>1 DEF EffectsAccounted, EffectOnceUnlessExcused, SuccessWasMade, Work
<1> QED
  BY <1>3, <1>4, <1>5

LEMMA RelStuttering == RelInv /\ UNCHANGED relVars => RelInv'
BY DEF RelInv, relVars, RelTypeOK, EnginesFit, OneAtWork, MadeIsTrue, MadeIsPending,
       EffectsAccounted, Accounted, EffectOnceUnlessExcused, SuccessWasMade, Work

LEMMA RelStep == RelInv /\ [RelNext]_relVars => RelInv'
<1> SUFFICES ASSUME RelInv, [RelNext]_relVars PROVE RelInv'
  OBVIOUS
<1>1. CASE \E e \in Engines : \E k \in Keys : \E p \in Payloads[k] : Begin(e, k, p)
  BY <1>1, BeginKeeps
<1>2. ASSUME NEW e \in Engines, EngineStep(e) PROVE RelInv'
  BY <1>2, AdmitKeeps, CallOperationKeeps, RecordSuccessKeeps, SaveResultKeeps,
     HandleFailureKeeps, ReconcileKeeps DEF EngineStep
<1>3. CASE RecoveryTimeout \/ ResetBreaker \/ Crash
  BY <1>3, BreakerKeeps, CrashKeeps
<1>4. CASE UNCHANGED relVars
  BY <1>4, RelStuttering
<1> QED
  BY <1>1, <1>2, <1>3, <1>4 DEF RelNext

LEMMA RelInvariant == RelSpec => []RelInv
<1> QED
  BY RelInitially, RelStep, PTL DEF RelSpec

-----------------------------------------------------------------------------
\* The engines, the breaker and the store hold what they are declared to hold.
THEOREM RelTypeCorrect == RelSpec => []RelTypeOK
<1>1. RelInv => RelTypeOK
  BY DEF RelInv
<1> QED
  BY <1>1, RelInvariant, PTL

\* The engine makes an effect twice only where it could not know of the first:
\* OneAtWork leaves one engine to ask, and EffectsAccounted says that it knows.
THEOREM EffectOnce == RelSpec => []EffectOnceUnlessExcused
<1>1. RelInv => EffectOnceUnlessExcused
  BY DEF RelInv
<1> QED
  BY <1>1, RelInvariant, PTL

\* No key with a side effect is on record as a success without its effect.
THEOREM SuccessIsTrue == RelSpec => []SuccessWasMade
<1>1. RelInv => SuccessWasMade
  BY DEF RelInv
<1> QED
  BY <1>1, RelInvariant, PTL

LEMMA SavedStep ==
    ASSUME RelInv, [RelNext]_relVars, NEW k \in SideEffects \ unseen, saved[k] # None
    PROVE  saved'[k] = saved[k]
<1>1. \A e \in Engines : Work(e) # k
  BY DEF RelInv, OneAtWork
<1>2. CASE saved' = saved
  BY <1>2
<1>3. ASSUME NEW e \in Engines, saved' = [saved EXCEPT ![Work(e)] = engine[e].payload]
      PROVE  saved'[k] = saved[k]
  BY <1>1, <1>3, RelAssumption DEF RelInv, RelTypeOK
<1>4. saved' = saved
      \/ \E e \in Engines : saved' = [saved EXCEPT ![Work(e)] = engine[e].payload]
  BY DEF RelNext, EngineStep, relVars, Begin, Admit, CallOperation, RecordSuccess, SaveResult,
         HandleFailure, Reconcile, RecoveryTimeout, ResetBreaker, Crash
<1> QED
  BY <1>2, <1>3, <1>4

\* A record is never replaced, but by an engine that did not see it: the second of
\* two that both found none, or one that could not read it.
THEOREM SavedStays == RelSpec => SavedIsFinal
<1>1. RelInv /\ [RelNext]_relVars
      => [\A k \in SideEffects \ unseen : saved[k] # None => saved'[k] = saved[k]]_relVars
  BY SavedStep
<1> QED
  BY <1>1, RelInvariant, PTL DEF RelSpec, SavedIsFinal
-----------------------------------------------------------------------------
(* What an open circuit spares the service.  The attempts that the calls   *)
(* under way may still make are a set of pairs, so that a call taken out   *)
(* of it is a hit more and an attempt less.                                *)

Attempts == Engines \X (1 .. MaxAttempts)

\* The k-th attempt of the call may still come.
Left(run, k) ==
    \/ run.stage = "call" /\ k >= run.attempt
    \/ run.stage \in {"returned", "save", "failed"} /\ k > run.attempt

CallsLeft == {c \in Attempts : Left(engine[c[1]], c[2])}

HitsCounted ==
    /\ \A e \in Engines : engine[e].stage # "idle" => engine[e].attempt > 0
    /\ breaker.state # "OPEN" => hits = 0
    /\ breaker.state = "OPEN" => hits + Cardinality(CallsLeft) <= MaxHits

LEMMA AttemptsAreCounted ==
    IsFiniteSet(Attempts) /\ Cardinality(Attempts) = MaxHits + 1 /\ MaxHits \in Nat
<1>1. Cardinality(Engines) \in Nat /\ Cardinality(Engines) # 0
  BY FS_CardinalityType, FS_EmptySet, RelAssumption
<1>2. MaxAttempts \in Nat /\ MaxAttempts > 0
  BY RelAssumption
<1>3. IsFiniteSet(1 .. MaxAttempts) /\ Cardinality(1 .. MaxAttempts) = MaxAttempts
  BY <1>2, FS_Interval
<1>4. IsFiniteSet(Attempts)
      /\ Cardinality(Attempts) = Cardinality(Engines) * MaxAttempts
  BY <1>3, FS_Product, RelAssumption DEF Attempts
<1>5. Cardinality(Engines) * MaxAttempts >= 1 /\ Cardinality(Engines) * MaxAttempts \in Nat
  BY <1>1, <1>2
<1> QED
  BY <1>4, <1>5 DEF MaxHits

LEMMA LeftIsCounted ==
    ASSUME NEW S \in SUBSET Attempts
    PROVE  IsFiniteSet(S) /\ Cardinality(S) \in Nat
BY FS_Subset, FS_CardinalityType, AttemptsAreCounted

LEMMA NoMoreLeft ==
    ASSUME NEW S \in SUBSET Attempts, NEW T \in SUBSET S
    PROVE  Cardinality(T) <= Cardinality(S)
BY FS_Subset, LeftIsCounted

LEMMA OneLessLeft ==
    ASSUME NEW S \in SUBSET Attempts, NEW c \in S, NEW T \in SUBSET (S \ {c})
    PROVE  Cardinality(T) + 1 <= Cardinality(S)
<1>1. IsFiniteSet(S) /\ Cardinality(S) \in Nat /\ Cardinality(T) \in Nat
  BY LeftIsCounted
<1>2. IsFiniteSet(S \ {c}) /\ Cardinality(S \ {c}) = Cardinality(S) - 1
  BY <1>1, FS_RemoveElement
<1>3. Cardinality(T) <= Cardinality(S \ {c})
  BY <1>2, FS_Subset
<1> QED
  BY <1>1, <1>2, <1>3

\* An engine whose step leaves it no attempt that it had not leaves none to the others.
LEMMA StepLeavesNoMore ==
    ASSUME RelTypeOK, NEW e \in Engines, NEW r, engine' = [engine EXCEPT ![e] = r],
           \A k \in 1 .. MaxAttempts : Left(r, k) => Left(engine[e], k)
    PROVE  CallsLeft' \subseteq CallsLeft
<1>1. \A f \in Engines : engine'[f] = IF f = e THEN r ELSE engine[f]
  BY DEF RelTypeOK
<1> QED
  BY <1>1 DEF CallsLeft, Attempts
LEMMA BreakerOpens ==
    ASSUME NEW b \in Breakers
    PROVE  /\ AfterSuccess(b).state = "OPEN" <=> b.state = "OPEN"
           /\ \A category : b.state = "OPEN" => AfterFailure(b, category).state = "OPEN"
           /\ Observed(b).state = "OPEN" => b.state = "OPEN"
<1>0. b.state \in {"CLOSED", "OPEN", "HALF_OPEN"}
  BY DEF Breakers
<1>1. AfterSuccess(b).state = "OPEN" <=> b.state = "OPEN"
  BY <1>0 DEF AfterSuccess, Breakers, Closed
<1>2. \A category : b.state = "OPEN" => AfterFailure(b, category).state = "OPEN"
  BY <1>0 DEF AfterFailure, Breakers
<1>3. Observed(b).state = "OPEN" => b.state = "OPEN"
  BY <1>0 DEF Observed, Breakers
<1> QED
  BY <1>1, <1>2, <1>3

\* What is left is counted still, when the circuit stays as it is and no hit is made.
LEMMA HitsStayCounted ==
    ASSUME RelInv, HitsCounted, NEW e \in Engines, NEW r,
           engine' = [engine EXCEPT ![e] = r], r.stage # "idle" => r.attempt > 0,
           \A k \in 1 .. MaxAttempts : Left(r, k) => Left(engine[e], k),
           breaker'.state = "OPEN" <=> breaker.state = "OPEN", hits' = hits
    PROVE  HitsCounted'
<1>1. CallsLeft' \subseteq CallsLeft /\ CallsLeft \subseteq Attempts
  BY StepLeavesNoMore DEF RelInv, CallsLeft
<1>2. /\ Cardinality(CallsLeft') <= Cardinality(CallsLeft)
      /\ Cardinality(CallsLeft') \in Nat /\ Cardinality(CallsLeft) \in Nat
  BY <1>1, NoMoreLeft, LeftIsCounted
<1>3. \A f \in Engines : engine'[f] = IF f = e THEN r ELSE engine[f]
  BY DEF RelInv, RelTypeOK
<1>4. \A f \in Engines : engine'[f].stage # "idle" => engine'[f].attempt > 0
  BY <1>3 DEF HitsCounted
<1>5. hits \in Int /\ MaxHits \in Int
  BY HitsBound DEF RelInv, RelTypeOK
<1>6. breaker'.state = "OPEN" => hits' + Cardinality(CallsLeft') <= MaxHits
  BY <1>2, <1>5 DEF HitsCounted
<1> QED
  BY <1>4, <1>6 DEF HitsCounted

LEMMA BeginCounts ==
    ASSUME RelInv, HitsCounted, NEW e \in Engines, NEW k \in Keys, NEW p \in Payloads[k],
           Begin(e, k, p)
    PROVE  HitsCounted'
<1> DEFINE r == [Idle EXCEPT !.stage = "admit", !.key = k, !.payload = p, !.attempt = 1]
<1>1. engine' = [engine EXCEPT ![e] = r] /\ breaker' = breaker /\ hits' = hits
  BY DEF Begin
<1>2. r.stage = "admit" /\ r.attempt = 1
  BY DEF Idle
<1> HIDE DEF r
<1>3. \A n : ~Left(r, n)
  BY <1>2 DEF Left
<1>4. r.attempt > 0 /\ (breaker'.state = "OPEN" <=> breaker.state = "OPEN")
  BY <1>1, <1>2
<1> QED
  BY <1>1, <1>3, <1>4, HitsStayCounted

LEMMA AdmitCounts ==
    ASSUME RelInv, HitsCounted, NEW e \in Engines, Admit(e)
    PROVE  HitsCounted'
<1>1. engine[e].stage = "admit" /\ engine[e] \in Runs /\ breaker' = Observed(breaker)
      /\ breaker \in Breakers /\ engine[e].attempt > 0
  BY DEF Admit, RelInv, RelTypeOK, HitsCounted
<1>2. CASE breaker'.state = "OPEN"
  <2>1. engine' = [engine EXCEPT ![e] = Idle] /\ hits' = hits /\ breaker.state = "OPEN"
    BY <1>1, <1>2, BreakerOpens DEF Admit
  <2>2. \A n : ~Left(Idle, n)
    BY IdleIsRun DEF Left
  <2> QED
    BY <1>2, <2>1, <2>2, IdleIsRun, HitsStayCounted
<1>3. CASE breaker'.state # "OPEN"
  <2>1. engine' = [engine EXCEPT ![e].stage = "call"] /\ hits' = 0
    BY <1>3 DEF Admit
  <2>2. \A f \in Engines : engine'[f].stage # "idle" => engine'[f].attempt > 0
    BY <1>1, <2>1 DEF HitsCounted, RelInv, RelTypeOK, Runs
  <2> QED
    BY <1>3, <2>1, <2>2 DEF HitsCounted
<1> QED
  BY <1>2, <1>3

LEMMA CallOperationCounts ==
    ASSUME RelInv, HitsCounted, NEW e \in Engines, CallOperation(e)
    PROVE  HitsCounted'
<1> DEFINE me == engine[e]
<1>1. me.stage = "call" /\ me \in Runs /\ me.attempt > 0 /\ breaker' = breaker
  BY DEF CallOperation, RelInv, RelTypeOK, HitsCounted
<1>2. PICK r : /\ engine' = [engine EXCEPT ![e] = r]
               /\ r.stage \in {"returned", "failed"} /\ r.attempt = me.attempt
  <2>1. CASE engine' = [engine EXCEPT ![e] = [@ EXCEPT !.stage = "returned",
                                                       !.made = Work(e) \in SideEffects]]
    <3> DEFINE made == Work(e) \in SideEffects
    <3> DEFINE r == [engine[e] EXCEPT !.stage = "returned", !.made = made]
    <3>1. engine' = [engine EXCEPT ![e] = r]
      BY <2>1
    <3> HIDE DEF made
    <3>2. r.stage = "returned" /\ r.attempt = me.attempt
      BY <1>1 DEF Runs
    <3> QED
      BY <3>1, <3>2
  <2>2. ASSUME NEW category, 
               engine' = [engine EXCEPT ![e] = [@ EXCEPT !.stage = "failed", !.category = category]]
        PROVE  \E r : /\ engine' = [engine EXCEPT ![e] = r]
                      /\ r.stage \in {"returned", "failed"} /\ r.attempt = me.attempt
    <3> DEFINE r == [engine[e] EXCEPT !.stage = "failed", !.category = category]
    <3>1. engine' = [engine EXCEPT ![e] = r]
      BY <2>2
    <3>2. r.stage = "failed" /\ r.attempt = me.attempt
      BY <1>1 DEF Runs
    <3> QED
      BY <3>1, <3>2
  <2>3. ASSUME NEW category,
               engine' = [engine EXCEPT ![e] = [@ EXCEPT !.stage = "failed", !.category = category,
                                                         !.made = TRUE]]
        PROVE  \E r : /\ engine' = [engine EXCEPT ![e] = r]
                      /\ r.stage \in {"returned", "failed"} /\ r.attempt = me.attempt
    <3> DEFINE r == [engine[e] EXCEPT !.stage = "failed", !.category = category, !.made = TRUE]
    <3>1. engine' = [engine EXCEPT ![e] = r]
      BY <2>3
    <3>2. r.stage = "failed" /\ r.attempt = me.attempt
      BY <1>1 DEF Runs
    <3> QED
      BY <3>1, <3>2
  <2> QED
    BY <2>1, <2>2, <2>3 DEF CallOperation
<1>3. me.attempt \in 1 .. MaxAttempts
  BY <1>1, RelAssumption DEF Runs
<1>4. \A k \in 1 .. MaxAttempts : Left(r, k) => Left(me, k) /\ k # me.attempt
  BY <1>1, <1>2, <1>3 DEF Left
<1>5. CASE breaker.state # "OPEN"
  <2>1. hits' = hits
    BY <1>5 DEF CallOperation
  <2> QED
    BY <1>1, <1>2, <1>4, <1>5, <2>1, HitsStayCounted
<1>6. CASE breaker.state = "OPEN"
  <2> DEFINE c == <<e, me.attempt>>
  <2>1. c \in CallsLeft /\ CallsLeft \subseteq Attempts
    BY <1>1, <1>3 DEF CallsLeft, Attempts, Left
  <2>2. \A f \in Engines : engine'[f] = IF f = e THEN r ELSE engine[f]
    BY <1>2 DEF RelInv, RelTypeOK
  <2>3. CallsLeft' \subseteq CallsLeft \ {c}
    <3> SUFFICES ASSUME NEW d \in CallsLeft' PROVE d \in CallsLeft /\ d # c
      OBVIOUS
    <3>1. d[1] \in Engines /\ d[2] \in 1 .. MaxAttempts /\ d = <<d[1], d[2]>>
          /\ Left(engine'[d[1]], d[2])
      BY DEF CallsLeft, Attempts, Left
    <3> QED
      BY <1>4, <2>2, <3>1 DEF CallsLeft, Attempts
  <2>4. /\ Cardinality(CallsLeft') + 1 <= Cardinality(CallsLeft)
        /\ Cardinality(CallsLeft') \in Nat /\ Cardinality(CallsLeft) \in Nat
    <3> HIDE DEF c
    <3> QED
      BY <2>1, <2>3, OneLessLeft, LeftIsCounted
  <2>5. hits \in Int /\ MaxHits \in Int
    BY HitsBound DEF RelInv, RelTypeOK
  <2>6. hits' + Cardinality(CallsLeft') <= MaxHits
    <3>1. hits' = hits \/ hits' = hits + 1
      BY DEF CallOperation
    <3> QED
      BY <1>6, <2>4, <2>5, <3>1 DEF HitsCounted
  <2>7. \A f \in Engines : engine'[f].stage # "idle" => engine'[f].attempt > 0
    BY <1>1, <1>2, <2>2 DEF HitsCounted
  <2> QED
    BY <1>1, <1>6, <2>6, <2>7 DEF HitsCounted
<1> QED
  BY <1>5, <1>6

LEMMA CallEndsCounted ==
    ASSUME RelInv, HitsCounted, NEW e \in Engines, Answer(e),
           breaker'.state = "OPEN" <=> breaker.state = "OPEN", hits' = hits
    PROVE  HitsCounted'
<1>1. \A n : ~Left(Idle, n)
  BY IdleIsRun DEF Left
<1> QED
  BY <1>1, IdleIsRun, HitsStayCounted DEF Answer

LEMMA RecordSuccessCounts ==
    ASSUME RelInv, HitsCounted, NEW e \in Engines, RecordSuccess(e)
    PROVE  HitsCounted'
<1> DEFINE r == [engine[e] EXCEPT !.stage = "save"]
<1>1. engine[e] \in Runs /\ engine[e].stage = "returned" /\ breaker \in Breakers
      /\ engine[e].attempt > 0
  BY DEF RelInv, RelTypeOK, RecordSuccess, HitsCounted
<1>2. r.stage = "save" /\ r.attempt = engine[e].attempt
  BY <1>1 DEF Runs
<1>3. engine' = [engine EXCEPT ![e] = r] /\ hits' = hits
  BY DEF RecordSuccess
<1>4. breaker'.state = "OPEN" <=> breaker.state = "OPEN"
  BY <1>1, BreakerOpens DEF RecordSuccess
<1> HIDE DEF r
<1>5. \A n : Left(r, n) => Left(engine[e], n)
  BY <1>1, <1>2 DEF Left
<1> QED
  BY <1>1, <1>2, <1>3, <1>4, <1>5, HitsStayCounted

LEMMA SaveResultCounts ==
    ASSUME RelInv, HitsCounted, NEW e \in Engines, SaveResult(e)
    PROVE  HitsCounted'
<1>1. engine[e] \in Runs /\ engine[e].stage = "save" /\ engine[e].attempt > 0
      /\ hits' = hits /\ breaker' = breaker
  BY DEF RelInv, RelTypeOK, SaveResult, HitsCounted
<1>2. CASE Answer(e)
  BY <1>1, <1>2, CallEndsCounted
<1>3. ASSUME NEW category \in Categories,
             engine' = [engine EXCEPT ![e] = [@ EXCEPT !.stage = "failed", !.category = category]]
      PROVE  HitsCounted'
  <2> DEFINE r == [engine[e] EXCEPT !.stage = "failed", !.category = category]
  <2>1. r.stage = "failed" /\ r.attempt = engine[e].attempt
    BY <1>1 DEF Runs
  <2>2. engine' = [engine EXCEPT ![e] = r]
    BY <1>3
  <2> HIDE DEF r
  <2>3. \A n : Left(r, n) => Left(engine[e], n)
    BY <1>1, <2>1 DEF Left
  <2> QED
    BY <1>1, <2>1, <2>2, <2>3, HitsStayCounted
<1> QED
  BY <1>2, <1>3 DEF SaveResult

LEMMA ReconcileCounts ==
    ASSUME RelInv, HitsCounted, NEW e \in Engines, Reconcile(e)
    PROVE  HitsCounted'
BY CallEndsCounted DEF Reconcile

\* The failure that opens the circuit spent an attempt of its own.
LEMMA HandleFailureCounts ==
    ASSUME RelInv, HitsCounted, NEW e \in Engines, HandleFailure(e)
    PROVE  HitsCounted'
<1> DEFINE me == engine[e]
           recoverability == Classify(me.category, Work(e) \in SideEffects)
<1>1. me \in Runs /\ me.stage = "failed" /\ me.attempt > 0 /\ breaker \in Breakers
      /\ breaker' = AfterFailure(breaker, me.category) /\ me.attempt \in Int
  BY DEF RelInv, RelTypeOK, HandleFailure, HitsCounted, Runs
<1>2. PICK r : /\ engine' = [engine EXCEPT ![e] = r]
               /\ r.stage # "idle" => r.attempt > 0
               /\ \A n \in 1 .. MaxAttempts : Left(r, n) => Left(me, n)
               /\ ~Left(r, 1)
  <2>1. CASE recoverability = "RECONCILIATION_REQUIRED"
    <3> DEFINE r == [me EXCEPT !.stage = "reconcile", !.category = None]
    <3>1. engine' = [engine EXCEPT ![e] = r]
      BY <2>1 DEF HandleFailure
    <3>2. r.stage = "reconcile" /\ r.attempt = me.attempt
      BY <1>1 DEF Runs
    <3> HIDE DEF r
    <3> QED
      BY <1>1, <3>1, <3>2 DEF Left
  <2>2. CASE /\ recoverability # "RECONCILIATION_REQUIRED"
             /\ CanRetry(recoverability, me.attempt)
    <3> DEFINE r == NextAttempt(me)
    <3>1. engine' = [engine EXCEPT ![e] = r]
      BY <2>2 DEF HandleFailure
    <3>2. r.stage = "call" /\ r.attempt = me.attempt + 1
      BY <1>1 DEF Runs, NextAttempt
    <3> HIDE DEF r, recoverability
    <3>3. \A n \in 1 .. MaxAttempts : Left(r, n) => Left(me, n)
      BY <1>1, <3>2, RelAssumption DEF Left
    <3>4. ~Left(r, 1) /\ r.attempt > 0
      BY <1>1, <3>2 DEF Left
    <3> QED
      BY <3>1, <3>3, <3>4
  <2>3. CASE /\ recoverability # "RECONCILIATION_REQUIRED"
             /\ ~CanRetry(recoverability, me.attempt)
    <3>1. engine' = [engine EXCEPT ![e] = Idle]
      BY <2>3 DEF HandleFailure, Answer
    <3>2. \A n : ~Left(Idle, n)
      BY IdleIsRun DEF Left
    <3> QED
      BY <3>1, <3>2, IdleIsRun
  <2> QED
    BY <2>1, <2>2, <2>3
<1>3. hits' = IF breaker'.state # "OPEN" \/ breaker.state = "OPEN" THEN hits ELSE 0
  BY DEF HandleFailure
<1>4. breaker.state = "OPEN" => breaker'.state = "OPEN"
  BY <1>1, BreakerOpens
<1>5. CASE breaker.state = "OPEN" \/ breaker'.state # "OPEN"
  <2>1. hits' = hits /\ (breaker'.state = "OPEN" <=> breaker.state = "OPEN")
    BY <1>3, <1>4, <1>5
  <2> HIDE DEF recoverability
  <2> QED
    BY <1>2, <2>1, HitsStayCounted
<1>6. CASE breaker.state # "OPEN" /\ breaker'.state = "OPEN"
  <2> DEFINE c == <<e, 1>>
  <2>1. \A f \in Engines : engine'[f] = IF f = e THEN r ELSE engine[f]
    BY <1>2 DEF RelInv, RelTypeOK
  <2>2. c \in Attempts /\ c \notin CallsLeft' /\ CallsLeft' \subseteq Attempts
    BY <1>2, <2>1, RelAssumption DEF Attempts, CallsLeft
  <2>3. Cardinality(CallsLeft') + 1 <= MaxHits + 1
    <3> HIDE DEF c
    <3> QED
      BY <2>2, OneLessLeft, AttemptsAreCounted
  <2>4. Cardinality(CallsLeft') \in Nat /\ MaxHits \in Nat /\ hits' = 0
    BY <1>3, <1>6, <2>2, LeftIsCounted, AttemptsAreCounted
  <2>5. \A f \in Engines : engine'[f].stage # "idle" => engine'[f].attempt > 0
    BY <1>2, <2>1 DEF HitsCounted
  <2> HIDE DEF recoverability
  <2> QED
    BY <1>6, <2>3, <2>4, <2>5 DEF HitsCounted
<1> QED
  BY <1>5, <1>6

LEMMA BreakerCounts ==
    ASSUME RelInv, HitsCounted, RecoveryTimeout \/ ResetBreaker \/ Crash
    PROVE  HitsCounted'
<1>1. CASE RecoveryTimeout
  <2>1. breaker' = [breaker EXCEPT !.due = TRUE] /\ hits' = hits /\ engine' = engine
        /\ breaker \in Breakers
    BY <1>1 DEF RecoveryTimeout, RelInv, RelTypeOK
  <2>2. breaker'.state = breaker.state
    BY <2>1 DEF Breakers
  <2> QED
    BY <2>1, <2>2 DEF HitsCounted, CallsLeft
<1>2. CASE ResetBreaker
  BY <1>2 DEF ResetBreaker, HitsCounted, Closed
<1>3. CASE Crash
  BY <1>3, IdleIsRun DEF Crash, HitsCounted, Closed
<1> QED
  BY <1>1, <1>2, <1>3

LEMMA HitsStep == RelInv /\ HitsCounted /\ [RelNext]_relVars => HitsCounted'
<1> SUFFICES ASSUME RelInv, HitsCounted, [RelNext]_relVars PROVE HitsCounted'
  OBVIOUS
<1>1. CASE \E e \in Engines : \E k \in Keys : \E p \in Payloads[k] : Begin(e, k, p)
  BY <1>1, BeginCounts
<1>2. ASSUME NEW e \in Engines, EngineStep(e) PROVE HitsCounted'
  BY <1>2, AdmitCounts, CallOperationCounts, RecordSuccessCounts, SaveResultCounts,
     HandleFailureCounts, ReconcileCounts DEF EngineStep
<1>3. CASE RecoveryTimeout \/ ResetBreaker \/ Crash
  BY <1>3, BreakerCounts
<1>4. CASE UNCHANGED relVars
  BY <1>4 DEF relVars, HitsCounted, CallsLeft
<1> QED
  BY <1>1, <1>2, <1>3, <1>4 DEF RelNext

\* From when the circuit opens until it half-opens the service sees no more calls
\* than the calls already admitted had attempts left: the failure that opens it
\* leaves at most MaxHits of them, and every hit takes one away.
THEOREM CircuitIsQuiet == RelSpec => []OpenCircuitIsQuiet
<1>1. RelInit => HitsCounted
  BY IdleIsRun DEF RelInit, HitsCounted, Closed
<1>2. RelInv /\ HitsCounted => OpenCircuitIsQuiet
  <2> SUFFICES ASSUME RelInv, HitsCounted PROVE hits <= MaxHits
    BY DEF OpenCircuitIsQuiet
  <2>1. MaxHits \in Nat /\ hits \in Int
    BY AttemptsAreCounted DEF RelInv, RelTypeOK
  <2>2. Cardinality(CallsLeft) \in Nat
    BY LeftIsCounted DEF CallsLeft
  <2> QED
    BY <2>1, <2>2 DEF HitsCounted
<1> QED
  BY <1>1, <1>2, HitsStep, RelInvariant, PTL DEF RelSpec
=============================================================================
