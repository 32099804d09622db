# Formal models of the autonomous commerce backend

TLA+ models of the parts of this repository where several actors share state or
a failure may come between two steps: long-running missions and their leases,
the scheduler and the continuous missions it triggers, the coordination of
agents, plans and the sub-missions their steps are delegated to, orders and
stock, the event bus and the alerts on it, the reliability engine, emergency
stops and approvals before an action, and the model gateway with its quotas,
usage records and cache. Each part is checked with TLC on small instances, and
every safety property that is checked is proved with TLAPS for every instance.
`PROJECT.json` ties every definition to the lines of `src/` it models.

Paths below are relative to `src/src/`, reports (`*_EXECUTION_REPORT.md`) to
`src/`. Short names of files:

| | |
|---|---|
| AC | `application/agent_coordination/coordinator_service.py` |
| LS, LR | `application/long_running_mission/long_running_mission_service.py`, `infrastructure/persistence/data/json/long_running_mission_repository.py` |
| SS, CS | `application/scheduling/service.py`, `application/continuous_mission/service.py` |
| OS | `application/order/order_processing_service.py` |
| EB, AL | `application/events/event_bus_service.py`, `application/alerts/alert_service.py` |
| RE | `application/reliability/reliability_engine.py` |
| ES, GA | `application/emergency_stop/emergency_stop_service.py`, `application/authorization/authorization_guarded_action_executor.py` |
| MG, QS | `application/model_gateway/model_gateway_service.py`, `application/quota_management/quota_management_service.py` |
| PL, SM | `application/planning/multi_step_planning_service.py`, `application/sub_mission/service.py` |

## 1. The system

The backend is a hexagonal Python application of some hundred small packages
(`application/*`, `domain/*`, `infrastructure/*`): services that read a record
from a JSON or in-memory repository, decide, and save the record. A repository
locks each read and each write; most services lock nothing, and a process may
die between two writes. The state that outlives a call is therefore in files,
and the hard behaviours come from calls that interleave between a read and the
write that follows it.

| Part | State | Operations | Talks to | Hard behaviour |
|---|---|---|---|---|
| Lease manager (`InMemoryLeaseManager`, LR) | one lease per mission, in memory | acquire, renew, release, get | clock | the clock is read before the lock; expiry; heartbeats in flight; a restart loses leases |
| Long-running missions (LS) | checkpoint history (file), heartbeat (memory) | create_checkpoint, pause, resume, heartbeat | lease manager, repositories | check and write are separate; workers that lost their lease; budget carried over |
| Scheduler (SS) | schedule and occurrence files | create, enable, disable, tick | trigger port | list_due snapshot; crash between occurrence, trigger and schedule |
| Continuous missions (CS) | mission and cycle files | start, pause, resume, stop, execute_next_cycle, trigger | scheduler (both ways), cycle executor | saves of stale copies; crash between cycle and count |
| Agent coordination (AC) | session: tasks, leases, resource locks | ready tasks, claim, complete, fail, merge, cancel, delegate | agents, self-monitoring dispatcher | late results of former owners; delegation of a task picked earlier; cascades |
| Plans (PL) | versions of a plan, one file each | create_plan, mark_step_completed, replan | validator, dispatcher, sub-missions | read, build, save without a lock; torn files; repairs that close a circle |
| Sub-missions (SM) | one file of all missions | create_sub_mission, propagate_result, cancel_hierarchy | plans | results after cancellation; writes to two files; limits of a tree |
| Orders (OS) | orders, processed keys, impacts (memory) | process_order_event, sync, reconcile | sales channel | repeated, late and reordered notices; two threads on one order; unknown results |
| Event bus (EB) | event and delivery files, handlers (memory) | register, publish, replay | handlers | crash between handler and record; handlers that raise |
| Alerts (AL) | alert files, cooldown (memory) | process_event, called by the bus | delivery port | two threads with one event; crash between save and delivery |
| Reliability (RE) | breaker (memory), idempotency store (file) | execute_with_reliability, reset | any operation | an exception after the effect; two engines on one key; half-open breaker |
| Emergency stops (ES) | all records in memory and in one file | activate, deactivate, evaluate | clock | concurrent operators; failed writes; damaged file |
| Approvals | evidence files and their index | grant, reject, evaluate | clock | evidence without its line; torn lines |
| Guarded actions (GA) | none | execute | limits, approvals, stops, delegate | what was checked changes before the delegate is called |
| Model gateway (MG, QS) | reservations, usage events, cache | execute | quota, cache, provider, metering | expiry during a call; shared correlation ids; a failure at any stage |
| Everything else | records, logs, scores, views | one step on one record | | none of its own |

What makes each modelled part correct:

* leases: at most one worker acts as the owner of a mission, whatever old clock
  readings are in flight;
* long-running missions: the history is gapless, and nothing gives budget back;
* scheduler: an instant is triggered at most once by one ticking process, every
  counted run was triggered, a due schedule is served, only a crash leaves an
  occurrence open;
* continuous missions: a mission that may still run is below its limits, an
  instant runs one cycle, occurrences and counters tell the truth about cycles;
* coordination: an assignment belongs to one agent, a cancelled session is
  quiet, a denied task is not rerouted, a waiting task is eventually decided;
* plans: what was completed or denied is not handed out again unless somebody
  asked for it by name, and a plan can always go on;
* sub-missions: the tree is within its budget, a result reaches the plan, a
  cancellation of the root reaches every mission;
* orders: stock is deducted once for a paid order unless there is a reason the
  property names, every handled paid order has its impact on record, and the stock is what the applied results explain;
* bus and alerts: a handler consumes an event once, an alert is sent once and
  not forgotten, unless there is a reason the property names;
* reliability: an effect is made once unless there is a reason the property
  names, a success is true, an open circuit is
  quiet and every call ends;
* stops, approvals, guard: a stop that was answered stays in force, an approval
  that was granted is found, and no action reaches the delegate stopped before
  it began or over its limit without an approval of somebody else;
* gateway: limits hold except through the gaps the property names, reservations
  and usage agree, and no capacity is held for nobody.

`PROJECT.json` lists the hazards with their lines and the properties that cover
them; section 5 has those no property covers.

## 2. The modules

| Module | Models | Built on |
|---|---|---|
| `ExclusiveLease` | what a lease manager promises: a lock with expiry | |
| `MissionLease` | `InMemoryLeaseManager` for one mission | refines `ExclusiveLease` |
| `LongRunningMission` | `LongRunningMissionService` and the checkpoint repository | extends `MissionLease` |
| `Scheduler` | `SchedulerService` and its repository, one schedule | |
| `ContinuousMission` | `ContinuousMissionService`, one mission | extends `Scheduler`: its trigger and its caller |
| `AgentCoordination` | `AgentCoordinatorService`, one session, and the dispatcher that delegates | |
| `OrderProcessing` | `OrderProcessingService`, its repository and the channel | |
| `EventBus` | `EventBusService` over `JsonEventStore` | |
| `EventAlerts` | `AlertService` as a handler of the bus | extends `EventBus`: the handler's call becomes its steps |
| `Reliability` | `ReliabilityEngine`, the breaker, the idempotency store | |
| `Governance` | the clock and the faults the next three share | |
| `EmergencyStop` | `EmergencyStopService` and its JSON repository | extends `Governance` |
| `Approval` | `ApprovalPolicyService` and the evidence repository | extends `Governance` |
| `GuardedActions` | `AuthorizationGuardedActionExecutor` | extends `EmergencyStop` and `Approval` |
| `UsageMetering` | usage events of one tenant, and the clock | |
| `QuotaManagement` | `QuotaManagementService` and its repositories | extends `UsageMetering` |
| `InferenceCache` | `InferenceCacheService`, one tenant and route | |
| `ModelGateway` | `ModelGatewayService.execute` | extends `QuotaManagement` and `InferenceCache` |
| `ExecutionPlans` | `MultiStepPlanningService`, `PlanValidator`, the plan repository, one plan | |
| `SubMissions` | `SubMissionService` under one root with that plan | extends `ExecutionPlans` |
| `LongRunningMissionProofs` | theorems about the lease manager and the service on it | extends `LongRunningMission` |
| `ContinuousMissionProofs` | theorems about the scheduler and continuous missions | extends `ContinuousMission` |
| `AgentsAndEnginesProofs` | theorems about the coordination and the reliability engine, which share no state | extends `AgentCoordination` and `Reliability` |
| `OrdersAndPlansProofs` | theorems about orders, and about plans and sub-missions; orders share no state with them | extends `OrderProcessing`, `SubMissions`, `SumLemmas` |
| `EventAlertsProofs` | theorems about the bus and the alerts | extends `EventAlerts` |
| `GuardedActionsProofs` | theorems about stops, approvals and the guard | extends `GuardedActions` |
| `ModelGatewayProofs` | theorems about the gateway, its quotas, usage and cache | extends `ModelGateway`, `SumLemmas` |
| `SumLemmas` | lemmas: sums over finite sets, the two inductions the proofs need | |
| `MC*` | values of the constants for TLC | |

The operators named "Wrong on purpose" in the modules are variants of an
operation with a plausible bug. No specification uses them; each was put in the
place of the operation it varies to see that the property listed in
`PROJECT.json` notices.

**Grain.** An action is what the code does without another actor getting in
between.

* Under one lock, hence one action: an operation of `AgentCoordination`, of
  `QuotaManagement` and `InferenceCache`, and of `SubMissions`, whose service
  holds an RLock; there only the planner, which does not take that lock, and
  crashes come between the saves (`Service` is then a writer of the plan).
* `MissionLease`: two actions for each operation, because `self._clock.now()`
  comes before `with self._lock`.
* `LongRunningMission`, `Scheduler`, `ContinuousMission`, `OrderProcessing`: one
  action for each read or write of a repository and each call to the channel;
  `pc`, `tick`, `edit`, `task` and `worker` say where a call is and what copy it
  holds.
* `EventBus`: a delivery is the read of its record, the call of the handler and
  the write of the record. In the call of the alert handler, `call` says where
  `process_event` is.
* `Reliability`: the steps of `execute_with_reliability` between two uses of the
  breaker, the store or the operation. Retries run under the engine's lock.
* `EmergencyStop`: activate and deactivate are a read and a save. `Approval`: one
  action for each decision, since both writes are under one lock, with the
  outcomes a fault leaves between them. `GuardedActions`: one action for each
  check, and the delegate.
* `ModelGateway`: the stages from `NEW` to `ENDED`, each ending with the next use
  of something shared. The gates before the quota change nothing and are one
  refusal.
* `ExecutionPlans`: `Begin` reads the plan, `Save` writes what was made of it.

Calls that raise or return without having written anything leave no trace and
are not actions.

**State and code.** A variable is named for what the code keeps, and its comment
says which file or attribute that is. Variables under "history, read by the
properties only" are in no guard. They record why something happened: `again`,
`unseen`, `undecided`, `broken`, `excused`, `overlapped`, `forgotten`, `blind` and
`astray` hold the deliveries, events, keys, stops, orders, reservations or windows
for which one of the reasons that the property names came up, so that a property says "once, unless" and the
reasons are actions of the model that a reader can point to.

**Data left out.** Tenants (every lookup is keyed by tenant, and one tenant is
modelled), audit and event records, texts, and amounts other than those a guard
compares. Of the budget of a checkpoint the tokens stand for cost and quota, of
the rules of a quota requests and tokens stand for the others, of the budget of
a plan or a mission the cost stands for all that is partitioned. What a handler,
a delegate, a provider or an operation does is nondeterministic: it may return,
raise before its effect or raise after it. The checks of GA by tables
(authorization, tools, sensitive data) read nothing that changes.

## 3. What the runs show

No run takes more than about two and a half minutes with two TLC workers.

| Run | Question | Bounds, and why they are enough |
|---|---|---|
| `lease` | is there ever a second owner, and does the manager implement the lock | 2 workers, one with two threads (mission and heartbeat), TTL 1, clock to 2, versions 1 and 2, two operations in flight; the twin threads are symmetric. A race of the lock is about the order of two critical sections; one expiry and one renewal after it fit in two ticks |
| `long_running` | interleaved checkpoints, pauses, resumes, heartbeats, restarts | 2 symmetric workers with a thread each, two checkpoints, TTL 1, clock to 2. Both can hold drafts of the same version, so a lost race is reached |
| `scheduler` | triggers and open occurrences over crashes; is a due schedule served | one ticker, one caller, ONCE, INTERVAL and CRON schedules, both missed-run policies, a cap, clock to 2, one crash: an instant is missed, caught up and skipped |
| `continuous` | scheduled and manual cycles with start, pause, stop | one ticker, one caller, clock to 1, two faults among crashes and triggers that raise after the cycle was saved, every result of the executor, at most two cycles count, one failure fails; callers begin an operation while at most one cycle is on file. With a limit of two failures the limit of two cycles would always come first and FAILED would never be reached |
| `coordination` | a session with late and repeated reports, delegation, cancellation | three tasks (a chain and a fan-in), two sharing a resource, two agents, one monitor, one delegation for each task; steps that the plan starts as FAILED included, FAIL_FAST off so that the policy does not hide the rest |
| `orders` | notices against polls | one thread that receives and one that polls and reconciles, two orders that compete for a listing with a stock of one, one of them with an item that policy denies; that one may end after it was paid, and the service restarts once. Two threads suffice for a lost update |
| `event_alerts` | deliveries and alerts over crashes and failed writes | one publisher, one replayer, one event, the alert handler and another that comes and goes, with a delivery port or none, one fault: a crash, a failed write or a file that cannot be read. Everything the two services keep is kept for one event, and two threads can be anywhere in it |
| `reliability` | effects, the breaker, the end of calls | two engines over one breaker and one store, a key with a side effect and one without, each with one payload, two attempts, a threshold of two, two half-open successes, two faults among crashes and records that cannot be written or read. A circuit opens within one call of one engine while the other is in the middle of its own |
| `emergency_stops` | does an answered stop stay in force | two symmetric operators, three records, clock to 1, two faults: one damages the file and the other restarts the process |
| `guarded_actions` | what reaches the delegate | one operator, one executor, a purchase over its limit and a read, two approvals, the agent and a manager as approvers, clock to 1, one fault |
| `model_gateway` | limits, reservations and usage | three calls with two correlation ids and two users, one known by the session only, a limit of two requests for all and of three tokens for each user, windows of two ticks, reservations of one, one fault (a failed write, files that one operation cannot read, or a restart), a policy that appears during the run. The third call is the first that a limit can refuse, and two share an id |
| `sub_missions` | plans and their sub-missions | one planner and the service, a chain of three steps and a new one, repairs that replace a step, close a circle of three or add a step, one replan, four operations, one fault, depth 2, two children each, of one step or of two, four missions. A chain of three missions is the shortest with a mission that is neither root nor leaf |

Properties, beyond the type invariants of `event_alerts`, `model_gateway` and
`sub_missions`:

* `SingleOwner` - at most one worker holds an unexpired promise.
  `ImplementsLock` - `MissionLease` implements `ExclusiveLease`.
* `VersionsAreGapless`, `BudgetNeverReset` - the checkpoint history.
* `OneTriggerPerInstant`, `RunningIsExplained`, `DueIsServed` - the scheduler.
* `RunnableBelowLimits`, `OneCyclePerInstant`, `OccurrenceTellsCycle`,
  `CountedWereCompleted` - continuous missions.
* `AssignmentIsUnique`, `CancelledIsQuiet`, `DeniedIsNotRerouted`,
  `WaitingIsDecided` - coordination.
* `DeductedAgainIsExplained`, `PaidHasImpact`, `StockIsExplained` - orders.
* `ConsumedOnceUnlessAgain`, `AlertedOnceUnlessUnseen`, `DeliveredHasAlert`,
  `PendingIsExplained` - bus and alerts.
* `EffectOnceUnlessExcused`, `OpenCircuitIsQuiet`, `CallsEnd` - reliability.
* `PromisedIsInForce` - emergency stops. `StopIsObeyed`, `GrantedIsListed`,
  `OverLimitWasApproved` - guarded actions.
* `WithinLimitUnlessBlind`, `SettledAsMetered`, `NoOrphanHold` - the gateway.
* `NothingIsRedone`, `PlanIsNotStuck`, `BudgetIsPartitioned`, `ResultIsInPlan`,
  `CancelReachesAll` - plans and sub-missions.

The other type invariants and a few more properties (`RunsWereTriggered`,
`LeaseIsOwners`, `SuccessWasMade`, `SavedIsFinal`, `PromisedIsOnFile`) are proved
for every instance and are in no run.

**Fairness.** The repository has no loop of its own that calls `tick()` or
`get_ready_tasks` (only its tests do): both are entry points that a host must
poll. So these liveness properties are promises to a host that does poll, and
polling is the only thing assumed of it. `SchedFairSpec`: the host calls
`tick()` again and again; a tick is synchronous code, so a started tick goes on
(WF of its steps), an edit made by a trigger is saved (WF), and the trigger returns, or raises, although edits may come in between (SF). Callers and the clock owe
nothing. `FairSpec` of `AgentCoordination`: the host keeps asking
`get_ready_tasks` (WF); nothing is assumed of agents or monitors. `FairRelSpec`:
each engine goes on with the call it is in (WF of its own steps, one formula for
each engine), which is what synchronous code does when its operation returns or
raises; nobody has to begin a call. Crashes are bounded.

**Deadlock** is checked in `lease`, `long_running`, `scheduler`, `continuous`,
`coordination` and `reliability`, where some operation can always be called
again. In the other six the clock, the faults and the number of orders, events,
stops, approvals, calls or operations are bounded, so that a behaviour may come
to its end, and the check is off.

### Disagreements between the code and its documents

The models do what the code does; each of these is a behaviour of a model, and
the property next to it, where there is one, is stated so that the code has it.

1. A worker whose lease was superseded between the check at the start of
   `create_checkpoint` and its write still writes (LS:301; the R6 report, line
   22, says it is refused).
2. A ONCE schedule whose process died after recording the occurrence stays due
   for ever (`domain/scheduling/models.py:137`; the comment at SS:183 says the
   schedule is moved on). `DueIsServed` is about repeating schedules.
3. Two processes that tick at the same time both trigger (SS:180; J1 report,
   line 16). `OneTriggerPerInstant` is about one ticking process.
4. A cycle in flight undoes `stop_mission` (CS:409; docstring at CS:205).
5. A task completed after the dispatcher read the session is delegated and runs
   again (AC:1429; `domain/agent_coordination/models.py:156`).
6. A delegation takes a resource lock another task is using (AC:1424; R4
   report, line 18).
7. A side effect is retried after an exception that may have come after it,
   without reconciliation (RE:407; K7 report, line 197); one whose text makes it
   NON_RETRYABLE (RE:74) leaves no record, and neither does one that cannot be
   read (`infrastructure/reliability/reliability_infrastructure.py:257`), so that
   the next submission of the key makes the effect again.
   `EffectOnceUnlessExcused` names them.
8. An emptied stop file loads as one without stops (N11 report, section 4, says
   that a damaged store blocks). `PromisedIsInForce` excuses it.
9. A stop for all targets of a scope is answered with an active stop of a single
   target, and the others are not stopped (ES:182).
10. The reservation is settled (MG:1114) before the usage event is appended
    (MG:1198): a call in between counts nowhere, so a limit can be passed (O7
    report, lines 61, 67 and 101). `WithinLimitUnlessBlind` names it and the
    others: an expired or shared reservation, one whose file cannot be read and is
    passed over (`infrastructure/persistence/data/json/quota_repository.py:388`), a
    call that straddles two windows, an identity only the session knows, an answer
    larger than its estimate.
11. The dispatcher asks for a replan of a step that a policy denied, and the
    step becomes PENDING again
    (`application/self_monitoring/self_monitoring_action_dispatcher.py:237`;
    `domain/planning/models.py:23` says that a replan is no bypass of a policy).
    A replan without a subgraph resets even a COMPLETED step (PL:668; R1 report,
    line 49). `NothingIsRedone` is about steps that no replan named.
12. `cancel_hierarchy` of a mission between the root and the leaves leaves its
    grandchildren active
    (`infrastructure/persistence/data/json/tenant_mission_repository.py:290`; R2
    report, line 65). `CancelReachesAll` is about the root.
13. A late result overwrites an ABORTED or COMPLETED mission (SM:396; R2 report,
    line 65).
14. A child without a budget passes the partition of its parent's
    (SM:254; `domain/sub_mission/models.py:19` says that UNKNOWN is not
    unlimited). `BudgetIsPartitioned` is about what was allocated.
15. The processed keys and the impacts are in memory only: after a restart the
    next poll deducts a paid order again (OS:332; the docstring at OS:51 says
    "exactamente una vez"). `DeductedAgainIsExplained` allows one more deduction
    for each restart that forgot one.

Hazards that the code has, and that a property therefore names as a reason or
leaves out, say so in their note in `PROJECT.json`.

Seen while modelling, and in the models where they are about modelled state:

* `renew_lease` does not look at the status (LR:431): a heartbeat in flight
  during `pause_mission` turns the RELEASED lease ACTIVE for another TTL.
* `resume_mission` validates the checkpoint it loaded (LS:399) and acquires the
  lease later (LS:605): a mission finished in between is resumed.
* `pause_mission` and `resume_mission` call `get_mission` and `save_mission`,
  which the mission repository port does not have
  (`domain/mission_dashboard/ports.py:17`), and swallow the AttributeError.
* A tick in flight when a mission is paused saves the schedule with the status
  of its snapshot, ACTIVE (SS:250).
* `cycle_number` is not an ordinal: a crash between the cycle and the count, or
  two cycles in flight, give two cycles the same number (CS:293).
* `compute_next_run` compares the cap before the run just made is counted, so
  `max_occurrences = N` allows N + 1 triggers.
* A trigger that raises after its cycle was saved, because the mission cannot be
  (CS:427), leaves the occurrence FAILED beside a SUCCESS cycle (SS:218).
* An alert stays PENDING for good when the service has no delivery port (AL:125)
  or the port answers neither that it delivered nor that it failed.
* A reservation that cannot be read is not settled, and the gateway goes on as if
  it were (QS:470, MG:1122): the call is metered and the capacity stays held until
  it expires.
* An item whose stock update failed is never deducted later (OS:422).
* A step replanned after its sub-mission failed is delegated to the same
  sub-mission, which is over (SM:224). Under another `delegation_key` a step has a
  second sub-mission, and the report of either overwrites that of the other in the
  plan.
* `propagate_result` recomputes neither the readiness of the steps after the one
  it sets nor the status of the plan: a COMPLETED plan may get a FAILED step.
* A version named "_v10" sorts before "_v9" in the plan repository, which
  matters for `max_replans` of 9 or more.
* `max_total_descendants` is in the hierarchy policy and in no check;
  `can_parent_complete` has no caller; `_encode_json_value` drops keys that
  contain "token", and with them the token budgets of a mission.

## 4. What is proved

All theorems assume only the named assumptions on the constants
(`LeaseAssumption`, `ServiceAssumption`, `SchedulerAssumption`,
`MissionAssumption`, `CoordinationAssumption`, `OrderAssumption`,
`RelAssumption`, `GovernanceAssumption`, `StopAssumption`, `ApprovalAssumption`,
`GuardAssumption`, `BusAssumption`, `AlertAssumption`, `PlanAssumption`,
`SubAssumption`, `UsageAssumption`, `QuotaAssumption` and `GatewayAssumption`): any
number of threads and of what they work on, any limits, and no bound on the clock
or the faults beyond being a natural number. What is added up or counted is a
finite set (calls, engines, steps); the values that stand for the absence of
something (`None`, "none") are none of the things that may be present; and the
cache has room for every token count and second a call can bring.

**How.** A property follows from an inductive invariant: it holds initially, a
lemma for each action, or for a kind of action, says that it is kept, and the
theorem puts them together. The invariant is in the proof module next to the
lemmas that need it, its parts under names of their own.


* **Leases.** `LeaseInv` adds two facts to the types: a clock reading in flight,
  and the second a lease was acquired, are in the past (`ReadingsInThePast`);
  and a worker that believes it owns the mission is backed by a live entry in
  its own name that lasts at least as long as its belief (`Backed`).
  `SingleOwner` says nothing of the entry, so it is not inductive; `Backed` is
  why the entry's one name excludes a second owner, and the past readings are
  why an old reading can only shorten a lease. `SingleOwnerAlways`, and
  `LockImplemented` (the refinement of the exclusive lock).
* **Long-running missions.** `ServiceUsesManager`: every step of the service is
  a step of the lease manager or none, so the manager's theorems carry over
  (`ServiceSingleOwner`). `IInv` adds that ids in hand were issued
  (`IdsIssued`) and that a draft waiting to be saved was built on a prefix of
  the history, and if on all of it, carries its budget on (`DraftsFollow`);
  with the comparison of versions in `save_checkpoint` this gives
  `HistoryIsGapless` and `BudgetIsKept`.
* **Scheduler.** `SchedInv`: a tick past its reading has an instant in hand and
  its occurrence is on file (`TicksFollow`), and every copy of the schedule, in
  the file or in a process, counts triggered runs only
  (`CopiesWereTriggered`). `RunsAreTriggered` for any number of processes,
  `TriggeredOnce` for one ticker: without a second ticker nobody records the
  instant between the lookup and the write. `RunningExplained` counts: each
  ticker in its trigger has a RUNNING occurrence of its own, and the others were
  left by as many crashes (`RunningCounted`).
* **Continuous missions.** `ServiceUsesScheduler` (a composition theorem like
  the one above), `MissionTriggeredOnce`, and `LimitsHold` with the invariant
  that every copy of the mission in a process is below the limits until its
  cycle is accounted for. What relates cycles to occurrences is `MatchInv`: a
  process that stored its cycle still holds the cycle that is on file for its
  occurrence, with the result it is about to report (`Held`), one that has not
  stored it finds none (`Fresh`), no two cycles on file have one occurrence
  (`CyclesKeyed`) and no two processes hold one (`HeldApart`). From it follow
  `OccurrencesTell` and `CountsOnlyCompleted`, and, for one ticker,
  `InstantRunOnce`. `OneCyclePerInstant` alone is lost in one step when a ticker
  holds a cycle that nothing says is not on file yet.
* **Coordination.** `Inv` adds to the properties that what was granted is not
  newer than the task's version, and equal to it only for its present owner
  (`GrantedAreOld`), and that a policy denial ended the session
  (`DenialEnds`): the reason a task was denied may be overwritten by a merge
  conflict, so the status and the reason of the task cannot carry the proof.
* **Orders.** `OrderInv` adds that an order deducted more often than restarts
  forgot it is being deducted or has its results kept (`DeductionsLast`), which
  makes the one entry of the impacts a guard of every later deduction up to the
  next restart, and that who is about to set a
  listing the applied results explain is alone and holds its present stock
  (`SettersAgree`), which is why such a listing stays explained.
* **Reliability.** `RelInv`: a key that no engine executed unseeing (`unseen`) has
  at most one engine at work and then no record (`OneAtWork`); what an engine says it made it made
  (`MadeIsTrue`); an engine that made an effect does not call the operation
  again (`MadeIsPending`); an effect is on record or an engine knows of it
  (`EffectsAccounted`). The last is what carries "once" from one call of a key
  to the next. `CircuitIsQuiet` is a budget (`HitsCounted`): while the breaker is
  open, the operations made since it opened and those that the calls under way
  may still make are together no more than the bound, because the failure that
  opened it was one of the attempts, and no call begins while it is open.
* **Bus and alerts.** `EventInv`: where a thread is in a delivery or in
  `process_event` agrees with the files. On top of it, one invariant for each
  property: `OnceFor` (unless a delivery is in `again`, its handler returned at
  most once, and then the record says so or the one thread in that delivery is
  about to write it), `AlertOnce` (unless the event is in `unseen`, it has at most
  one alert, sent at most once, and at most one thread is past the look for it,
  before whose write there is none on file), `HandledHasAlert` (a handler that
  returned, and is not recorded yet, left an alert), and `PendingHeld` (unless
  the event is in `broken` or `undecided`, an alert on file as PENDING is in the hands of a
  thread that will write it). `ConsumedOnce`, `AlertedOnce`,
  `DeliveredAlerted`, `PendingExplained`.
* **Plans and sub-missions.** `SubInv` is about the file of missions, the plan on
  file and the copy that the planner or the service holds. `PlanNotStuck` needs
  that a plan has no circle, in the form that every nonempty set of its steps has
  one that needs none of the set (`NoCircle`), on file and in every copy;
  `OrderedPlansHaveNoCircle` proves that what the validator accepts, Kahn's
  algorithm written as a recursive function, has that form, by induction over the
  rounds. That a copy which is not stale equals the plan on file (`JobFits`)
  carries the steps done or denied through a save (`NothingRedone`). For the
  tree: every mission but the root has its parent on file (`Filed`, `Rooted`); the result
  the service is about to save is that of a child (`ServiceFits`), and until a
  process dies the result of a child is in the plan or on its way, or another child
  of the same step was reported otherwise (`ResultsFit`, `Disputed`):
  `BudgetPartitioned`, `ResultInPlan`, `CancelReaches`.
* **Gateway.** `GatewayInv` follows a call through its stages: it reserves once,
  by itself, its estimate (`NotReservedYet`, `ReservedIsEstimate`), a correlation
  id has one active reservation but for those in `broken` (`OneActive`, which is why
  a release that is refused in the `finally` leaves nothing behind), a reservation
  that could be read is settled before the event is metered, and with the same
  tokens (`SettledFirst`, `SettledAlike`), and the event of a call that ended repeats what the call
  counted (`UsageOfEnded`). `LimitsHold` is the longest argument: the sum that a
  rule reads (`SeenAreCounted`) has one term, no smaller than the tokens used,
  for each call of the window that is not hidden from it, so what is admitted
  below the limit stays below; and every other step leaves the sum of what is
  committed where it was or lowers it (`CommittedShrinks`), unless the window is
  in `blind`. `QuotaAgreesWithUsage`, `HoldsAreOwned`.
* **Stops and guarded actions.** `StopInv`: until the first fault the file holds
  what is in memory (`FileIsMemory`), and a stop that somebody is about to save
  as inactive is not promised for good (`DeactivatingIsExcused`): that is the
  copy a concurrent activation would be answered from. `GuardInv` adds that the
  stops a call has to respect are among those promised now (`CallsFollow`), from
  which `StopObeyed` and `LimitNeedsApproval` follow. `GrantsAreListed` counts:
  every approval that is hidden from the index used up a torn line, and each
  torn line is that of a failed decision (`IndexInv`).
* **Sums and inductions** (`SumLemmas`). The prover cannot instantiate a theorem
  that takes an operator, so the induction theorems of its library are out of
  reach. Both inductions here are about a set that is given: a nonempty set of
  numbers has a least one (`LeastOf`, from the well-foundedness of `<`), hence a
  set with 0 and every successor has all numbers (`CountingUp`), and the subsets
  of a finite set are reached one element at a time (`SubsetInduction`). From
  them, sums over a finite set exist, unfold, grow, split and can be renamed.

**A note on form.** A record that is changed in several fields at a possibly equal
index is written `[f EXCEPT ![e] = [@ EXCEPT !.a = .., !.b = ..]]`, never with two
updates of `f`: the prover's reading of the second form is only right where the
indices differ.

Only model-checked: liveness (`DueIsServed`, `WaitingIsDecided`, `CallsEnd`),
which is out of the prover's reach. Not stated as theorems: that the bus with its
alerts, or the stops with approvals and the guard, implement `BusSpec` or
`StopSpec` alone. They do not, step by step: the faults are one counter for all
parts, and in `BusSpec` or `StopSpec` only their own steps use it up. The
properties of the bus are therefore proved of `EventAlertsSpec`, and the
invariant of the stops is proved of `StopSpec` and is a part of `GuardInv`. No module
declares a RECURSIVE operator: transitive dependencies are the least closed set
of tasks (`Downstream`), and the order of a plan is Kahn's algorithm as a
recursive function (`HasOrder`).

## 5. Not modelled, and the plan

Left out for good (reasons for each component in `PROJECT.json`): decision
functions and scores without state, append-only logs, read-only views, adapters
to external services, web routes, deployment scripts. By lines this is most of
the repository: its decisions read one record and write one record under one
lock, and no order of steps can break them.

Hazards of the modelled parts that no property covers:

* step records of a checkpoint copied from an older one although the session has
  moved on, so that a committed side effect may be recorded as open (LS:232);
* two processes on one directory: sessions saved unconditionally (AC:108), one
  `.tmp` file for two writers
  (`infrastructure/persistence/data/json/schedule_repository.py:86`), the
  reservation lock of one service instance (QS:95), the file of all missions
  (`infrastructure/persistence/data/json/tenant_mission_repository.py:157`), and
  a stop repository that writes its own copy
  (`infrastructure/persistence/data/json/emergency_stop_repository.py:189`).
  One process is modelled throughout, except for tickers and workers;
* a task blocked at its delegation limit keeps its resource lock (AC:1283), a
  delegation is not tested against the limits of a claim (AC:1385), and a
  repeated report releases a lock the agent holds for another task (AC:832);
* `replay_events` reaches the 100 oldest events only (EB:175);
* `_execution_lock` is not reentrant (RE:132): no operation here calls the
  engine that runs it;
* only the first stop of the highest scope decides on reads (ES:367);
* a CUSTOM quota window begins when it is evaluated
  (`domain/quota_management/models.py:182`), so that nothing is ever inside it;
  one event with an actual cost hides the estimates of the others (QS:679);
* an amount of 0 is falsy, and the limits are not asked (GA:293);
* a stop activated after it was evaluated (GA:497) and an approval that expires
  after its check (GA:369) do not keep the action from the delegate;
* a sub-mission is over and its step still to be done when the process dies
  between the two saves or the plan cannot be read (SM:406);
* what a result of the guard reports are attributes of the executor that another
  thread may have set (GA:503).

Next, in order of importance:

1. `CheckpointSteps` - the step records a checkpoint copies, composed with
   `AgentCoordination`: what a resume may repeat.
2. `AutonomousLoop` - orchestrator, loop and the cancel that races its last save.
3. `RateLimit` and `Capital` - counters at a boundary, reservations against an
   envelope.
4. Abstract specifications of what the bus (a handler consumes an event once) and
   the quota (an account that is never overdrawn) promise, with the refinements
   proved, as for the lease manager.
