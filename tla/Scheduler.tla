------------------------------ MODULE Scheduler ------------------------------
(***************************************************************************)
(* The mission scheduler (J.1): SchedulerService and JsonScheduleRepository *)
(* for one schedule.  Schedules share nothing but the loop of tick(), so   *)
(* the others only add delay between the reading of the due list and its   *)
(* use.                                                                    *)
(*                                                                         *)
(* tick() reads the clock and the due schedules, and then works from that  *)
(* snapshot: occurrence and schedule are files that it reads and writes    *)
(* one at a time, with no lock, while enable_schedule and disable_schedule *)
(* (a read and a write each) and other ticks run.  A process may crash     *)
(* between any two steps; the files survive.                               *)
(*                                                                         *)
(* The idempotency key of an occurrence is the schedule and its instant,   *)
(* so for one schedule it is the instant.  One unit of time is the         *)
(* resolution of the intervals.                                            *)
(***************************************************************************)
EXTENDS Naturals, Sequences, FiniteSets

CONSTANTS
    Tickers,        \* processes that call tick()
    Callers,        \* processes that call enable and disable
    Configs,        \* the configurations a schedule may be created with
    Results,        \* the ExecutionStatus a trigger may end with
    Never,          \* next_run_at or max_occurrences is None
    MaxTime,        \* bound: the clock stops here
    MaxCrashes      \* bound: crashes in a run

VARIABLES
    clock,          \* the wall clock
    config,         \* type, interval, missed policy and cap of the schedule
    schedule,       \* schedules/<id>.json
    occs,           \* occurrences/*.json, in the order they were created
    tick,           \* what each ticker is doing
    edit,           \* the enable or disable each process has in progress
    crashes         \* how many crashes there were

schedVars == <<clock, config, schedule, occs, tick, edit, crashes>>

Procs == Tickers \cup Callers

ScheduleStatuses == {"ACTIVE", "DISABLED", "COMPLETED"}

ScheduleState ==
    [status : ScheduleStatuses, next : Nat \cup {Never}, runs : Nat]

\* named: the mission_id of the occurrence names what its trigger has run.
Occurrences == [at : Nat, status : Results \cup {"RUNNING"}, named : BOOLEAN]

ConfigSet == [type : {"INTERVAL", "ONCE", "CRON"}, interval : Nat \ {0},
              skip : BOOLEAN, cap : Nat \cup {Never}]

Stages == {"idle", "list", "check", "record", "trigger", "advance"}

Ticks == [stage : Stages, at : Nat, snap : ScheduleState, occ : Nat]

Edits == [kind : {"none", "enable", "disable"}, at : Nat, snap : ScheduleState]

NewSchedule == [status |-> "ACTIVE", next |-> 0, runs |-> 0]

IdleTick == [stage |-> "idle", at |-> 0, snap |-> NewSchedule, occ |-> 0]

NoEdit == [kind |-> "none", at |-> 0, snap |-> NewSchedule]

ASSUME SchedulerAssumption ==
    /\ Results \subseteq {"SUCCESS", "FAILED", "UNKNOWN", "SKIPPED"}
    /\ "FAILED" \in Results
    /\ Tickers \cap Callers = {}
    /\ Configs \subseteq ConfigSet
    /\ Never \notin Nat
    /\ MaxTime \in Nat
    /\ MaxCrashes \in Nat

SchedTypeOK ==
    /\ clock \in Nat
    /\ config \in ConfigSet
    /\ schedule \in ScheduleState
    /\ occs \in Seq(Occurrences)
    /\ tick \in [Tickers -> Ticks]
    /\ edit \in [Procs -> Edits]
    /\ crashes \in Nat

\* create_schedule, with a start_time that is absent or past.
SchedInit ==
    /\ clock = 0
    /\ config \in Configs
    /\ schedule = NewSchedule
    /\ occs = <<>>
    /\ tick = [w \in Tickers |-> IdleTick]
    /\ edit = [p \in Procs |-> NoEdit]
    /\ crashes = 0

-----------------------------------------------------------------------------
\* Schedule.is_due
IsDue(s, at) == s.status = "ACTIVE" /\ s.next # Never /\ s.next <= at

\* get_occurrence_by_idempotency_key finds an occurrence.
Recorded(at) == \E i \in 1 .. Len(occs) : occs[i].at = at

\* Schedule.compute_next_run.  A snapshot of the due list is ACTIVE and has a
\* next_run_at.
Exhausted(s) ==
    \/ config.cap # Never /\ s.runs >= config.cap
    \/ config.type = "ONCE" /\ s.runs > 0
    \/ config.type = "CRON"

NextInterval(s, at) ==
    IF config.skip /\ s.next < at
    THEN s.next + ((at - s.next) \div config.interval + 1) * config.interval
    ELSE s.next + config.interval

NextRun(s, at) ==
    IF Exhausted(s) THEN Never
    ELSE IF config.type = "ONCE" THEN s.next
    ELSE NextInterval(s, at)

\* The schedule that is stored after an instant was dealt with.
Advanced(s, at, runs) ==
    LET next == NextRun(s, at)
    IN  [status |-> IF next = Never THEN "COMPLETED" ELSE s.status,
         next |-> next, runs |-> runs]

-----------------------------------------------------------------------------
\* tick: the clock is read first.
StartTick(w) ==
    /\ tick[w].stage = "idle"
    /\ tick' = [tick EXCEPT ![w] = [@ EXCEPT !.stage = "list", !.at = clock]]
    /\ UNCHANGED <<clock, config, schedule, occs, edit, crashes>>

\* list_due: the snapshot that the rest of the tick works from.
ListDue(w) ==
    /\ tick[w].stage = "list"
    /\ tick' = IF IsDue(schedule, tick[w].at)
               THEN [tick EXCEPT ![w] = [@ EXCEPT !.stage = "check", !.snap = schedule]]
               ELSE [tick EXCEPT ![w] = IdleTick]
    /\ UNCHANGED <<clock, config, schedule, occs, edit, crashes>>

\* Wrong on purpose: the schedule is left as it is.
SkipOnly(w) ==
    /\ tick[w].stage = "check"
    /\ Recorded(tick[w].snap.next)
    /\ tick' = [tick EXCEPT ![w] = IdleTick]
    /\ UNCHANGED <<clock, config, schedule, occs, edit, crashes>>

\* _process_due_schedule: the instant already has an occurrence, so it is not
\* triggered again; only the schedule is moved on.  Occurrences are never
\* deleted, so the check may as well be made when the schedule is saved.
SkipRecorded(w) ==
    /\ tick[w].stage = "check"
    /\ Recorded(tick[w].snap.next)
    /\ schedule' = Advanced(tick[w].snap, tick[w].at, tick[w].snap.runs)
    /\ tick' = [tick EXCEPT ![w] = IdleTick]
    /\ UNCHANGED <<clock, config, occs, edit, crashes>>

\* Wrong on purpose: the instant is not looked up.
NoCheck(w) ==
    /\ tick[w].stage = "check"
    /\ tick' = [tick EXCEPT ![w].stage = "record"]
    /\ UNCHANGED <<clock, config, schedule, occs, edit, crashes>>

CheckUnrecorded(w) ==
    /\ tick[w].stage = "check"
    /\ ~Recorded(tick[w].snap.next)
    /\ tick' = [tick EXCEPT ![w].stage = "record"]
    /\ UNCHANGED <<clock, config, schedule, occs, edit, crashes>>

\* The occurrence is saved as RUNNING, under a fresh occurrence_id, before the
\* trigger is called.
RecordRunning(w) ==
    /\ tick[w].stage = "record"
    /\ occs' = Append(occs, [at |-> tick[w].snap.next, status |-> "RUNNING",
                            named |-> FALSE])
    /\ tick' = [tick EXCEPT ![w] = [@ EXCEPT !.stage = "trigger", !.occ = Len(occs) + 1]]
    /\ UNCHANGED <<clock, config, schedule, edit, crashes>>

\* The occurrence is saved again, with what the trigger has made of it.
TriggerEnds(w, result, named) ==
    /\ tick[w].stage = "trigger"
    /\ edit[w].kind = "none"
    /\ occs' = [occs EXCEPT ![tick[w].occ] =
                  [at |-> @.at, status |-> result, named |-> named]]
    /\ tick' = [tick EXCEPT ![w].stage = "advance"]
    /\ UNCHANGED <<clock, config, schedule, edit, crashes>>

TriggerReturns(w, result) == TriggerEnds(w, result, TRUE)

\* Wrong on purpose: an exception of the trigger ends the processing.
FailureEscapes(w) ==
    /\ tick[w].stage = "trigger"
    /\ edit[w].kind = "none"
    /\ tick' = [tick EXCEPT ![w].stage = "advance"]
    /\ UNCHANGED <<clock, config, schedule, occs, edit, crashes>>

\* An exception of the trigger is a failure that names nothing, however far the
\* trigger has come.
TriggerRaises(w) == TriggerEnds(w, "FAILED", FALSE)

\* The schedule is saved as the snapshot says it should go on, whatever it has
\* become in the meantime.
AdvanceSchedule(w) ==
    /\ tick[w].stage = "advance"
    /\ schedule' = Advanced(tick[w].snap, tick[w].at, tick[w].snap.runs + 1)
    /\ tick' = [tick EXCEPT ![w] = IdleTick]
    /\ UNCHANGED <<clock, config, occs, edit, crashes>>

-----------------------------------------------------------------------------
\* enable_schedule and disable_schedule read the schedule ...  A ticker calls
\* them only from inside its trigger.
StartEdit(p, kind) ==
    /\ edit[p].kind = "none"
    /\ p \in Tickers => tick[p].stage = "trigger"
    /\ edit' = [edit EXCEPT ![p] = [kind |-> kind, at |-> clock,
                                    snap |-> schedule]]
    /\ UNCHANGED <<clock, config, schedule, occs, tick, crashes>>

\* ... read the clock at some time in between, and save the schedule: a next
\* run that is missing or past becomes now.
SaveEnabled(p) ==
    /\ edit[p].kind = "enable"
    /\ \E t \in edit[p].at .. clock :
         LET s == edit[p].snap
             next == IF s.next = Never \/ s.next < t THEN t ELSE s.next
         IN  schedule' = [status |-> "ACTIVE", next |-> next, runs |-> s.runs]
    /\ edit' = [edit EXCEPT ![p] = NoEdit]
    /\ UNCHANGED <<clock, config, occs, tick, crashes>>

SaveDisabled(p) ==
    /\ edit[p].kind = "disable"
    /\ schedule' = [edit[p].snap EXCEPT !.status = "DISABLED"]
    /\ edit' = [edit EXCEPT ![p] = NoEdit]
    /\ UNCHANGED <<clock, config, occs, tick, crashes>>

\* The read or the save raises inside a trigger, and the schedule stays as it
\* is.  (For a caller this is Crash.)
EditRaises(p) ==
    /\ p \in Tickers
    /\ edit[p].kind # "none"
    /\ edit' = [edit EXCEPT ![p] = NoEdit]
    /\ UNCHANGED <<clock, config, schedule, occs, tick, crashes>>

-----------------------------------------------------------------------------
SchedTime ==
    /\ clock < MaxTime
    /\ clock' = clock + 1
    /\ UNCHANGED <<config, schedule, occs, tick, edit, crashes>>

\* A process dies in the middle of a call and is started again, or the call ends
\* with an exception of the repository.
Crash(p) ==
    /\ crashes < MaxCrashes
    /\ crashes' = crashes + 1
    /\ tick' = [w \in Tickers |-> IF w = p THEN IdleTick ELSE tick[w]]
    /\ edit' = [edit EXCEPT ![p] = NoEdit]
    /\ UNCHANGED <<clock, config, schedule, occs>>

TickStep(w) ==
    \/ StartTick(w) \/ ListDue(w) \/ SkipRecorded(w) \/ CheckUnrecorded(w)
    \/ RecordRunning(w) \/ AdvanceSchedule(w)
    \/ \E result \in Results : TriggerReturns(w, result)
    \/ TriggerRaises(w)

EditStep(p) ==
    \/ \E kind \in {"enable", "disable"} : StartEdit(p, kind)
    \/ SaveEnabled(p) \/ SaveDisabled(p) \/ EditRaises(p)

SchedNext ==
    \/ \E w \in Tickers : TickStep(w)
    \/ \E p \in Procs : EditStep(p) \/ Crash(p)
    \/ SchedTime

SchedSpec == SchedInit /\ [][SchedNext]_schedVars

\* The host keeps calling tick(), and a tick is synchronous code with no loop
\* and no wait of its own: it goes on, an edit that its trigger makes is ended
\* and the trigger returns, after however many edits.  Nothing is assumed of
\* the callers and the clock.
SchedFairness ==
    \A w \in Tickers :
        /\ WF_schedVars(TickStep(w))
        /\ WF_schedVars(SaveEnabled(w) \/ SaveDisabled(w) \/ EditRaises(w))
        /\ SF_schedVars(\/ \E result \in Results : TriggerReturns(w, result)
                        \/ TriggerRaises(w))

SchedFairSpec == SchedSpec /\ SchedFairness

-----------------------------------------------------------------------------
(***************************************************************************)
(* "Deduplicacion e idempotencia estricta": no instant of a schedule is    *)
(* ever triggered twice, over crashes, stale snapshots and edits of the    *)
(* schedule.  It holds when tick() has one caller at a time.               *)
(***************************************************************************)
OneTriggerPerInstant ==
    \A i, j \in 1 .. Len(occs) : occs[i].at = occs[j].at => i = j

(***************************************************************************)
(* total_runs never counts a run that was not triggered, although ticks    *)
(* and edits save it from old snapshots.  (It may count fewer.)            *)
(***************************************************************************)
RunsWereTriggered == schedule.runs <= Len(occs)

(***************************************************************************)
(* Only a crash leaves an occurrence RUNNING: whatever the trigger does,   *)
(* an exception included, every other occurrence is given its final        *)
(* status.                                                                 *)
(***************************************************************************)
RunningIsExplained ==
    Cardinality({i \in 1 .. Len(occs) : occs[i].status = "RUNNING"})
        <= crashes + Cardinality({w \in Tickers : tick[w].stage = "trigger"})

(***************************************************************************)
(* A due schedule that repeats does not stay due: it is triggered and      *)
(* moved on, or it is found triggered (a crash came before the schedule    *)
(* was saved) and moved on, or it is disabled.                             *)
(***************************************************************************)
DueIsServed ==
    config.type # "ONCE" /\ IsDue(schedule, clock) ~> ~IsDue(schedule, clock)
=============================================================================
