-------------------------- MODULE ContinuousMission --------------------------
(***************************************************************************)
(* Continuous missions (J.7): ContinuousMissionService for one mission and *)
(* its schedule, as the trigger of the Scheduler and the caller of its     *)
(* enable and disable.                                                     *)
(*                                                                         *)
(* Every operation reads the mission file once and later saves what it     *)
(* made of that copy; the repository locks each read and write, not the    *)
(* operation.  A cycle runs inside a tick (the ticker is then in the       *)
(* "trigger" stage of Scheduler) or is asked for by a caller.  task[p] is  *)
(* what process p is doing.                                                *)
(***************************************************************************)
EXTENDS Scheduler

CONSTANTS
    MaxCycles,      \* stop_condition.max_cycles, Never if None
    MaxFailures,    \* stop_condition.max_consecutive_failures
    StopOnUnknown,  \* stop_condition.stop_on_unknown
    MaxRecords,     \* bound: cycles on file when a caller begins an operation
    MaxFaults       \* bound: crashes and exceptions of a trigger together

VARIABLES
    mission,        \* continuous_missions/<id>.json
    cycles,         \* cycles/*.json, in the order they were created
    task            \* the operation each process is executing

missionVars == <<mission, cycles, task>>
vars == <<schedVars, missionVars>>

Runnable == {"CREATED", "ACTIVE", "PAUSED"}

Missions == [status : Runnable \cup {"STOPPED", "COMPLETED", "FAILED", "UNKNOWN"},
             count : Nat, fails : Nat]

\* The idempotency key of a cycle: the occurrence it belongs to, or the number
\* and the time of a cycle that was asked for by hand (occ = 0).
Keys == [occ : Nat, number : Nat, at : Nat]

\* What the executor may make of a cycle.
CycleResults == {"SUCCESS", "FAILED", "UNKNOWN", "SKIPPED"}

Cycles == [key : Keys, number : Nat, status : CycleResults \cup {"RUNNING"}]

NewMission == [status |-> "CREATED", count |-> 0, fails |-> 0]

Tasks == [op : {"none", "start", "pause", "stop", "cycle"},
          stage : {"save", "edit", "editing", "check", "record", "run",
                   "disable", "disabling", "raised", "count", "return"},
          at : Nat, snap : Missions, cycle : Nat, result : Results]

NoTask == [op |-> "none", stage |-> "save", at |-> 0, snap |-> NewMission,
           cycle |-> 0, result |-> "SKIPPED"]

ASSUME MissionAssumption ==
    /\ CycleResults \subseteq Results
    /\ MaxCycles \in (Nat \ {0}) \cup {Never}
    /\ MaxFailures \in Nat \ {0}
    /\ StopOnUnknown \in BOOLEAN
    /\ MaxRecords \in Nat
    /\ MaxFaults \in Nat

MissionTypeOK ==
    /\ mission \in Missions
    /\ cycles \in Seq(Cycles)
    /\ task \in [Procs -> Tasks]

TypeOK == SchedTypeOK /\ MissionTypeOK

\* create_continuous_mission
Init ==
    /\ SchedInit
    /\ mission = NewMission
    /\ cycles = <<>>
    /\ task = [p \in Procs |-> NoTask]

-----------------------------------------------------------------------------
At(p, op, stage) == task[p].op = op /\ task[p].stage = stage

Move(p, stage) == task' = [task EXCEPT ![p].stage = stage]

\* The operation reads the mission and, for a cycle, the clock.
Begin(p, op, stage, at) ==
    /\ task[p].op = "none"
    /\ task' = [task EXCEPT ![p] = [NoTask EXCEPT !.op = op, !.stage = stage,
                                                 !.at = at, !.snap = mission]]

Done(p) == task' = [task EXCEPT ![p] = NoTask]

\* Bound: the faults are the crashes and the triggers that raised.
FaultsLeft ==
    LET Raised == {k \in 1 .. Len(occs) : occs[k].status = "FAILED" /\ ~occs[k].named}
    IN  crashes + Cardinality(Raised) < MaxFaults

-----------------------------------------------------------------------------
\* start_mission (and resume_mission), pause_mission, stop_mission: the states
\* they are refused in raise or return, and leave no trace.  Bound: few cycles.
StartOp(p, op) ==
    /\ p \in Callers
    /\ Len(cycles) <= MaxRecords
    /\ \/ op = "start" /\ mission.status \in {"CREATED", "PAUSED"}
       \/ op = "pause" /\ mission.status = "ACTIVE"
       \/ op = "stop"  /\ mission.status \notin {"STOPPED", "COMPLETED"}
    /\ Begin(p, op, "save", 0)
    /\ UNCHANGED <<schedVars, mission, cycles>>

StatusAfter(op) == CASE op = "start" -> "ACTIVE"
                     [] op = "pause" -> "PAUSED"
                     [] op = "stop"  -> "STOPPED"

SaveOp(p) ==
    /\ task[p].op \in {"start", "pause", "stop"}
    /\ task[p].stage = "save"
    /\ mission' = [task[p].snap EXCEPT !.status = StatusAfter(task[p].op)]
    /\ Move(p, "edit")
    /\ UNCHANGED <<schedVars, cycles>>

\* ... and then the schedule is enabled or disabled.
EditSchedule(p) ==
    /\ task[p].stage = "edit"
    /\ StartEdit(p, IF task[p].op = "start" THEN "enable" ELSE "disable")
    /\ Move(p, "editing")
    /\ UNCHANGED <<mission, cycles>>

ScheduleEdited(p) ==
    /\ task[p].stage = "editing"
    /\ SaveEnabled(p) \/ SaveDisabled(p)
    /\ Done(p)
    /\ UNCHANGED <<mission, cycles>>

-----------------------------------------------------------------------------
KeyUsed(key) == \E i \in 1 .. Len(cycles) : cycles[i].key = key

\* Bound: a call by hand comes while there are few cycles, or asks for one
\* that is on file.
ByHand == \/ Len(cycles) < MaxRecords
          \/ KeyUsed([occ |-> 0, number |-> mission.count + 1, at |-> clock])

\* execute_next_cycle, from a trigger or by hand.
BeginCycle(p) ==
    /\ \/ p \in Tickers /\ tick[p].stage = "trigger"
       \/ p \in Callers /\ ByHand
    /\ mission.status = "ACTIVE"
    /\ Begin(p, "cycle", "check", IF p \in Callers THEN clock ELSE 0)
    /\ UNCHANGED <<schedVars, mission, cycles>>

\* The mission is not ACTIVE: SKIPPED, and no cycle is stored.
SkipCycle(w) ==
    /\ task[w].op = "none"
    /\ mission.status # "ACTIVE"
    /\ TriggerReturns(w, "SKIPPED")
    /\ UNCHANGED missionVars

KeyOf(p) ==
    IF p \in Tickers
    THEN [occ |-> tick[p].occ, number |-> 0, at |-> 0]
    ELSE [occ |-> 0, number |-> task[p].snap.count + 1, at |-> task[p].at]

\* get_cycle_by_idempotency_key finds the cycle: a call by hand returns it.
\* (A trigger has a fresh occurrence_id, and never finds one.)
ReturnExisting(p) ==
    /\ At(p, "cycle", "check")
    /\ KeyUsed(KeyOf(p))
    /\ p \in Callers
    /\ Done(p)
    /\ UNCHANGED <<schedVars, mission, cycles>>

NoExisting(p) ==
    /\ At(p, "cycle", "check")
    /\ ~KeyUsed(KeyOf(p))
    /\ Move(p, "record")
    /\ UNCHANGED <<schedVars, mission, cycles>>

\* Wrong on purpose: the cycle is counted when it starts.
CountAtStart(p) ==
    /\ At(p, "cycle", "record")
    /\ cycles' = Append(cycles, [key |-> KeyOf(p),
                                 number |-> task[p].snap.count + 1,
                                 status |-> "RUNNING"])
    /\ mission' = [mission EXCEPT !.count = @ + 1]
    /\ task' = [task EXCEPT ![p] = [@ EXCEPT !.stage = "run", !.cycle = Len(cycles) + 1]]
    /\ UNCHANGED schedVars

RecordCycle(p) ==
    /\ At(p, "cycle", "record")
    /\ cycles' = Append(cycles, [key |-> KeyOf(p),
                                 number |-> task[p].snap.count + 1,
                                 status |-> "RUNNING"])
    /\ task' = [task EXCEPT ![p] = [@ EXCEPT !.stage = "run", !.cycle = Len(cycles) + 1]]
    /\ UNCHANGED <<schedVars, mission>>

\* The mission the cycle leaves: the copy read at the start, one cycle later.
Failures(m, result) == IF result = "FAILED" THEN m.fails + 1 ELSE 0

\* Wrong on purpose: the cycle that just ended is not counted for the limit.
StatusOneLate(m, result) ==
    IF MaxCycles # Never /\ m.count >= MaxCycles THEN "COMPLETED"
    ELSE IF Failures(m, result) >= MaxFailures THEN "FAILED"
    ELSE m.status

StatusOf(m, result) ==
    IF MaxCycles # Never /\ m.count + 1 >= MaxCycles THEN "COMPLETED"
    ELSE IF Failures(m, result) >= MaxFailures THEN "FAILED"
    ELSE IF result = "UNKNOWN" /\ StopOnUnknown THEN "UNKNOWN"
    ELSE m.status

AfterCycle(m, result) == [status |-> StatusOf(m, result), count |-> m.count + 1,
                          fails |-> Failures(m, result)]

\* The executor returns and the cycle is saved.
CompleteCycle(p, result) ==
    /\ At(p, "cycle", "run")
    /\ cycles' = [cycles EXCEPT ![task[p].cycle].status = result]
    /\ task' = [task EXCEPT
          ![p] = [@ EXCEPT !.result = result,
                           !.stage = IF StatusOf(task[p].snap, result) = task[p].snap.status
                                     THEN "count" ELSE "disable"]]
    /\ UNCHANGED <<schedVars, mission>>

\* A stop condition disables the schedule before the mission is saved.
StopDisables(p) ==
    /\ At(p, "cycle", "disable")
    /\ StartEdit(p, "disable")
    /\ Move(p, "disabling")
    /\ UNCHANGED <<mission, cycles>>

StopDisabled(p) ==
    /\ At(p, "cycle", "disabling")
    /\ SaveDisabled(p)
    /\ Move(p, "count")
    /\ UNCHANGED <<mission, cycles>>

CountCycle(p) ==
    /\ At(p, "cycle", "count")
    /\ mission' = AfterCycle(task[p].snap, task[p].result)
    /\ IF p \in Tickers THEN Move(p, "return") ELSE Done(p)
    /\ UNCHANGED <<schedVars, cycles>>

\* Wrong on purpose: a cycle whose result is unknown is told as a success.
UnknownIsSuccess(w) ==
    /\ At(w, "cycle", "return")
    /\ TriggerReturns(w, IF task[w].result = "UNKNOWN" THEN "SUCCESS"
                         ELSE task[w].result)
    /\ Done(w)
    /\ UNCHANGED <<mission, cycles>>

\* trigger: the status of the cycle becomes that of the occurrence.
CycleReturns(w) ==
    /\ At(w, "cycle", "return")
    /\ TriggerReturns(w, task[w].result)
    /\ Done(w)
    /\ UNCHANGED <<mission, cycles>>

\* The disabling of the schedule raises ...
DisableRaises(w) ==
    /\ FaultsLeft
    /\ At(w, "cycle", "disabling")
    /\ EditRaises(w)
    /\ Move(w, "raised")
    /\ UNCHANGED <<mission, cycles>>

\* ... or any read or save of the repository, or the executor: the trigger ends
\* there, and leaves the files as they are.  A trigger that cannot read the
\* mission returns the same.  (For a caller this is CrashTask.)
CycleRaises(w) ==
    /\ FaultsLeft \/ At(w, "cycle", "raised")
    /\ \/ task[w].op = "none"
       \/ task[w].stage \in {"check", "record", "run", "disable", "raised", "count"}
    /\ TriggerRaises(w)
    /\ Done(w)
    /\ UNCHANGED <<mission, cycles>>

-----------------------------------------------------------------------------
CrashTask(p) ==
    /\ FaultsLeft
    /\ Crash(p)
    /\ Done(p)
    /\ UNCHANGED <<mission, cycles>>

\* The steps of a tick outside its trigger.
TickOutside(w) ==
    /\ \/ StartTick(w) \/ ListDue(w) \/ SkipRecorded(w) \/ CheckUnrecorded(w)
       \/ RecordRunning(w) \/ AdvanceSchedule(w)
    /\ UNCHANGED missionVars

MissionStep(p) ==
    \/ \E op \in {"start", "pause", "stop"} : StartOp(p, op)
    \/ SaveOp(p) \/ EditSchedule(p) \/ ScheduleEdited(p)
    \/ BeginCycle(p) \/ ReturnExisting(p) \/ NoExisting(p) \/ RecordCycle(p)
    \/ \E result \in CycleResults : CompleteCycle(p, result)
    \/ StopDisables(p) \/ StopDisabled(p) \/ CountCycle(p)

Next ==
    \/ \E p \in Procs : MissionStep(p) \/ CrashTask(p)
    \/ \E w \in Tickers : \/ TickOutside(w) \/ SkipCycle(w) \/ CycleReturns(w)
                          \/ DisableRaises(w) \/ CycleRaises(w)
    \/ SchedTime /\ UNCHANGED missionVars

Spec == Init /\ [][Next]_vars

-----------------------------------------------------------------------------
(***************************************************************************)
(* A mission that can still run cycles is below both of its limits: no     *)
(* stale save, pause or resume puts an ACTIVE mission back at or past      *)
(* max_cycles or max_consecutive_failures.                                 *)
(***************************************************************************)
RunnableBelowLimits ==
    mission.status \in Runnable =>
        /\ MaxCycles # Never => mission.count < MaxCycles
        /\ mission.fails < MaxFailures

(***************************************************************************)
(* "La misma ocurrencia disparada dos veces resulta en exactamente una     *)
(* ejecucion logica": no two cycles were run for the same instant of the   *)
(* schedule, with one ticker, over crashes and edits of the schedule.      *)
(***************************************************************************)
OneCyclePerInstant ==
    \A i, j \in 1 .. Len(cycles) :
        /\ cycles[i].key.occ # 0 /\ cycles[j].key.occ # 0
        /\ occs[cycles[i].key.occ].at = occs[cycles[j].key.occ].at
        => i = j

CyclesOf(k) == {i \in 1 .. Len(cycles) : cycles[i].key.occ = k}

Tells(k) ==
    /\ \/ occs[k].status \in {"SUCCESS", "UNKNOWN"}
       \/ occs[k].status = "FAILED" /\ occs[k].named
       => \E i \in CyclesOf(k) : cycles[i].status = occs[k].status
    /\ occs[k].status = "SKIPPED" =>
           \A i \in CyclesOf(k) : cycles[i].status = "SKIPPED"

(***************************************************************************)
(* The final status of an occurrence is that of its cycle, and SKIPPED     *)
(* says that no cycle was run or that the executor skipped it: an UNKNOWN  *)
(* result is never told as a SUCCESS.  Only an occurrence that names no    *)
(* cycle, whose trigger raised, may be FAILED beside a cycle that is       *)
(* something else.                                                         *)
(***************************************************************************)
OccurrenceTellsCycle == \A k \in 1 .. Len(occs) : Tells(k)

(***************************************************************************)
(* cycle_count never counts a cycle that is not on file and completed.     *)
(***************************************************************************)
CountedWereCompleted ==
    mission.count <=
        Cardinality({i \in 1 .. Len(cycles) : cycles[i].status # "RUNNING"})
=============================================================================
