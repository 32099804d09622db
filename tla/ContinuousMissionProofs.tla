----------------------- MODULE ContinuousMissionProofs -----------------------
(***************************************************************************)
(* Proofs about the scheduler, for any number of tickers and callers, and  *)
(* about the continuous missions it triggers, for any number of processes: *)
(* any configuration, any limits and any number of crashes.                *)
(***************************************************************************)
EXTENDS ContinuousMission, FiniteSetTheorems, TLAPS

-----------------------------------------------------------------------------
(* The scheduler                                                           *)

\* What a ticker knows of the files it is working on.
TicksFollow ==
    \A w \in Tickers :
        /\ tick[w].stage \in {"check", "record", "trigger", "advance"}
              => tick[w].snap.next \in Nat
        /\ tick[w].stage \in {"trigger", "advance"}
              => tick[w].occ \in 1 .. Len(occs)

\* Every copy of the schedule, like the schedule itself, counts triggered runs
\* only; a tick that has recorded its occurrence has one to add.
CopiesWereTriggered ==
    /\ RunsWereTriggered
    /\ \A w \in Tickers :
         /\ tick[w].snap.runs <= Len(occs)
         /\ tick[w].stage \in {"trigger", "advance"}
               => tick[w].snap.runs < Len(occs)
    /\ \A p \in Procs : edit[p].snap.runs <= Len(occs)

SchedInv == SchedTypeOK /\ TicksFollow /\ CopiesWereTriggered

LEMMA NextRunTyped ==
    ASSUME config \in ConfigSet, NEW s \in ScheduleState, s.next \in Nat,
           NEW at \in Nat
    PROVE  NextRun(s, at) \in Nat \cup {Never}
<1>1. /\ config.interval \in Nat \ {0}
      /\ s.next \in Nat
  BY DEF ConfigSet
<1>2. NextInterval(s, at) \in Nat
  <2>1. CASE config.skip /\ s.next < at
    <3> DEFINE k == (at - s.next) \div config.interval
    <3>1. at - s.next \in Nat
      BY <1>1, <2>1
    <3>2. k \in Nat
      BY <3>1, <1>1
    <3>3. (k + 1) * config.interval \in Nat
      <4> HIDE DEF k
      <4> QED BY <3>2, <1>1
    <3> QED BY <1>1, <2>1, <3>3 DEF NextInterval
  <2>2. CASE ~(config.skip /\ s.next < at)
    BY <1>1, <2>2 DEF NextInterval
  <2> QED BY <2>1, <2>2
<1> QED BY <1>1, <1>2 DEF NextRun

LEMMA AdvancedTyped ==
    ASSUME config \in ConfigSet, NEW s \in ScheduleState, s.next \in Nat,
           NEW at \in Nat, NEW runs \in Nat
    PROVE  /\ Advanced(s, at, runs) \in ScheduleState
           /\ Advanced(s, at, runs).runs = runs
<1>1. NextRun(s, at) \in Nat \cup {Never}
  BY NextRunTyped
<1>2. s.status \in ScheduleStatuses
  BY DEF ScheduleState
<1> HIDE DEF NextRun
<1> QED BY <1>1, <1>2 DEF Advanced, ScheduleState, ScheduleStatuses

LEMMA InitSchedInv == SchedInit => SchedInv
<1> SUFFICES ASSUME SchedInit PROVE SchedInv
  OBVIOUS
<1> USE SchedulerAssumption DEF SchedInit
<1>1. SchedTypeOK
  BY DEF SchedTypeOK, NewSchedule, ScheduleState, ScheduleStatuses, IdleTick,
     Ticks, Stages, NoEdit, Edits
<1>2. TicksFollow
  BY DEF TicksFollow, IdleTick
<1>3. CopiesWereTriggered
  BY DEF CopiesWereTriggered, RunsWereTriggered, IdleTick, NoEdit, NewSchedule
<1> QED BY <1>1, <1>2, <1>3 DEF SchedInv

\* Of what a ticker does outside of its trigger only the check leads to a record.
LEMMA EarlyTick ==
    ASSUME SchedTypeOK, NEW w \in Tickers,
           \/ StartTick(w) \/ ListDue(w) \/ SkipRecorded(w) \/ CheckUnrecorded(w)
           \/ AdvanceSchedule(w)
    PROVE  /\ \A v \in Tickers \ {w} : tick'[v] = tick[v]
           /\ tick[w].stage # "trigger" /\ tick'[w].stage # "trigger"
           /\ tick[w].stage # "record"
           /\ CheckUnrecorded(w) \/ tick'[w].stage # "record"
           /\ tick' \in [Tickers -> Ticks]
<1>0. tick \in [Tickers -> Ticks] /\ clock \in Nat /\ schedule \in ScheduleState
  BY DEF SchedTypeOK
<1>1. IdleTick \in Ticks /\ IdleTick.stage = "idle"
  BY SchedulerAssumption
     DEF IdleTick, Ticks, Stages, NewSchedule, ScheduleState, ScheduleStatuses
<1>2. ASSUME NEW r \in Ticks, tick' = [tick EXCEPT ![w] = r],
             r.stage \in {"idle", "list", "check"}, tick[w].stage \notin {"record", "trigger"}
      PROVE  /\ \A v \in Tickers \ {w} : tick'[v] = tick[v]
             /\ tick[w].stage # "trigger" /\ tick'[w].stage # "trigger"
             /\ tick[w].stage # "record" /\ tick'[w].stage # "record"
             /\ tick' \in [Tickers -> Ticks]
  BY <1>0, <1>2
<1>3. CASE StartTick(w)
  <2> DEFINE r == [tick[w] EXCEPT !.stage = "list", !.at = clock]
  <2>1. r \in Ticks /\ r.stage = "list"
    BY <1>0 DEF Ticks, Stages
  <2>2. tick' = [tick EXCEPT ![w] = r] /\ tick[w].stage = "idle"
    BY <1>3 DEF StartTick
  <2> HIDE DEF r
  <2> QED
    BY <1>2, <2>1, <2>2
<1>4. CASE ListDue(w)
  <2> DEFINE r == [tick[w] EXCEPT !.stage = "check", !.snap = schedule]
  <2>1. r \in Ticks /\ r.stage = "check"
    BY <1>0 DEF Ticks, Stages
  <2>2. tick[w].stage = "list"
        /\ (tick' = [tick EXCEPT ![w] = r] \/ tick' = [tick EXCEPT ![w] = IdleTick])
    BY <1>4 DEF ListDue
  <2> HIDE DEF r
  <2> QED
    BY <1>1, <1>2, <2>1, <2>2
<1>5. CASE SkipRecorded(w) \/ AdvanceSchedule(w)
  BY <1>1, <1>2, <1>5 DEF SkipRecorded, AdvanceSchedule
<1>6. CASE CheckUnrecorded(w)
  BY <1>0, <1>6 DEF CheckUnrecorded, Ticks, Stages
<1> QED
  BY <1>3, <1>4, <1>5, <1>6

LEMMA TickStepInv ==
    ASSUME SchedInv, NEW w \in Tickers, TickStep(w)
    PROVE  SchedInv'
<1> USE SchedulerAssumption DEF SchedInv
<1>0. /\ tick \in [Tickers -> Ticks] /\ tick[w] \in Ticks
      /\ tick[w].snap \in ScheduleState /\ tick[w].at \in Nat
      /\ tick[w].snap.runs \in Nat
      /\ IdleTick \in Ticks /\ Len(occs) \in Nat
      /\ schedule \in ScheduleState /\ schedule.runs \in Nat
  BY DEF SchedTypeOK, Ticks, ScheduleState, IdleTick, Stages, NewSchedule,
     ScheduleStatuses
<1>1. CASE StartTick(w)
  <2>1. tick' \in [Tickers -> Ticks]
    BY <1>0, <1>1 DEF StartTick, SchedTypeOK, Ticks, Stages
  <2> QED BY <1>0, <1>1, <2>1 DEF StartTick, SchedTypeOK, TicksFollow,
          CopiesWereTriggered, RunsWereTriggered
<1>2. CASE ListDue(w)
  <2>1. CASE IsDue(schedule, tick[w].at)
    <3>1. schedule.next \in Nat
      BY <1>0, <2>1 DEF IsDue, ScheduleState
    <3>2. tick' \in [Tickers -> Ticks]
      BY <1>2, EarlyTick
    <3>3. /\ tick' = [tick EXCEPT ![w] = [@ EXCEPT !.stage = "check", !.snap = schedule]]
          /\ UNCHANGED <<clock, config, schedule, occs, edit, crashes>>
      BY <1>2, <2>1 DEF ListDue
    <3>4. tick'[w].snap = schedule /\ tick'[w].stage = "check"
          /\ \A v \in Tickers \ {w} : tick'[v] = tick[v]
      BY <1>0, <3>3 DEF Ticks
    <3>5. SchedTypeOK'
      BY <3>2, <3>3 DEF SchedTypeOK
    <3>6. TicksFollow'
      BY <3>1, <3>3, <3>4 DEF TicksFollow
    <3>7. CopiesWereTriggered'
      BY <3>3, <3>4 DEF CopiesWereTriggered, RunsWereTriggered
    <3> QED BY <3>5, <3>6, <3>7
  <2>2. CASE ~IsDue(schedule, tick[w].at)
    <3>1. /\ tick' = [tick EXCEPT ![w] = IdleTick]
          /\ UNCHANGED <<clock, config, schedule, occs, edit, crashes>>
      BY <1>2, <2>2 DEF ListDue
    <3> QED BY <1>0, <3>1 DEF SchedTypeOK, TicksFollow,
            CopiesWereTriggered, RunsWereTriggered, IdleTick, NewSchedule
  <2> QED BY <2>1, <2>2
<1>3. CASE SkipRecorded(w)
  <2> DEFINE s == Advanced(tick[w].snap, tick[w].at, tick[w].snap.runs)
  <2>a. tick[w] \in Ticks /\ tick[w].stage = "check" /\ config \in ConfigSet
    BY <1>3 DEF SkipRecorded, SchedTypeOK
  <2>b. /\ tick[w].snap \in ScheduleState /\ tick[w].at \in Nat
        /\ tick[w].snap.runs \in Nat
    BY <2>a DEF Ticks, ScheduleState
  <2>c. tick[w].snap.next \in Nat
    BY <2>a DEF TicksFollow
  <2>1. s \in ScheduleState /\ s.runs = tick[w].snap.runs
    BY <2>a, <2>b, <2>c, AdvancedTyped
  <2> HIDE DEF s
  <2>2. schedule' = s /\ tick' = [tick EXCEPT ![w] = IdleTick]
    BY <1>3 DEF SkipRecorded, s
  <2>3. UNCHANGED <<clock, config, occs, edit, crashes>>
    BY <1>3 DEF SkipRecorded
  <2> QED BY <1>0, <2>1, <2>2, <2>3 DEF SchedTypeOK, TicksFollow,
          CopiesWereTriggered, RunsWereTriggered, IdleTick, NewSchedule
<1>4. CASE CheckUnrecorded(w)
  <2>1. tick' \in [Tickers -> Ticks]
    BY <1>0, <1>4 DEF CheckUnrecorded, Ticks, Stages
  <2> QED BY <1>0, <1>4, <2>1 DEF CheckUnrecorded, SchedTypeOK, TicksFollow,
          CopiesWereTriggered, RunsWereTriggered
<1>5. CASE RecordRunning(w)
  <2>1. tick' \in [Tickers -> Ticks]
    <3> DEFINE r == [tick[w] EXCEPT !.stage = "trigger",
                                    !.occ = Len(occs) + 1]
    <3>1. r \in Ticks
      <4>1. Len(occs) + 1 \in Nat /\ tick[w] \in Ticks
        BY <1>0
      <4> QED BY ONLY <4>1 DEF Ticks, Stages
    <3>2. tick' = [tick EXCEPT ![w] = r]
      BY <1>0, <1>5 DEF RecordRunning
    <3> QED BY <1>0, <3>1, <3>2
  <2>2. /\ occs' \in Seq(Occurrences) /\ Len(occs') = Len(occs) + 1
    BY <1>0, <1>5 DEF RecordRunning, SchedTypeOK, TicksFollow, Occurrences
  <2>3. SchedTypeOK'
    BY <1>5, <2>1, <2>2 DEF RecordRunning, SchedTypeOK
  <2>4. TicksFollow'
    BY <1>0, <1>5, <2>2 DEF RecordRunning, TicksFollow
  <2>5. CopiesWereTriggered'
    <3>1. schedule'.runs <= Len(occs')
      BY <1>0, <1>5, <2>2 DEF RecordRunning, CopiesWereTriggered,
         RunsWereTriggered
    <3>2. ASSUME NEW v \in Tickers
          PROVE  /\ tick'[v].snap.runs <= Len(occs')
                 /\ tick'[v].stage \in {"trigger", "advance"}
                       => tick'[v].snap.runs < Len(occs')
      <4>1. tick'[v].snap = tick[v].snap /\ tick[v].snap.runs \in Nat
        BY <1>0, <1>5 DEF RecordRunning, Ticks, ScheduleState
      <4> QED BY <1>0, <2>2, <4>1 DEF CopiesWereTriggered
    <3>3. ASSUME NEW p \in Procs PROVE edit'[p].snap.runs <= Len(occs')
      <4>1. edit'[p] = edit[p] /\ edit[p].snap.runs \in Nat
        BY <1>5 DEF RecordRunning, SchedTypeOK, Edits, ScheduleState
      <4> QED BY <1>0, <2>2, <4>1 DEF CopiesWereTriggered
    <3> QED BY <3>1, <3>2, <3>3 DEF CopiesWereTriggered, RunsWereTriggered
  <2> QED BY <2>3, <2>4, <2>5
<1>6. CASE AdvanceSchedule(w)
  <2> DEFINE s == Advanced(tick[w].snap, tick[w].at, tick[w].snap.runs + 1)
  <2>a. tick[w] \in Ticks /\ tick[w].stage = "advance" /\ config \in ConfigSet
    BY <1>6 DEF AdvanceSchedule, SchedTypeOK
  <2>b. /\ tick[w].snap \in ScheduleState /\ tick[w].at \in Nat
        /\ tick[w].snap.runs + 1 \in Nat
    BY <2>a DEF Ticks, ScheduleState
  <2>c. tick[w].snap.next \in Nat
    BY <2>a DEF TicksFollow
  <2>1. s \in ScheduleState /\ s.runs = tick[w].snap.runs + 1
    BY <2>a, <2>b, <2>c, AdvancedTyped
  <2> HIDE DEF s
  <2>2. schedule' = s /\ tick' = [tick EXCEPT ![w] = IdleTick]
    BY <1>6 DEF AdvanceSchedule, s
  <2>3. UNCHANGED <<clock, config, occs, edit, crashes>>
    BY <1>6 DEF AdvanceSchedule
  <2>4. tick[w].snap.runs < Len(occs)
    BY <1>6 DEF AdvanceSchedule, CopiesWereTriggered
  <2> QED BY <1>0, <2>1, <2>2, <2>3, <2>4 DEF SchedTypeOK, TicksFollow,
          CopiesWereTriggered, RunsWereTriggered, IdleTick, NewSchedule
<1>7. ASSUME NEW result \in Results, NEW named \in BOOLEAN,
             TriggerEnds(w, result, named)
      PROVE  SchedInv'
  <2>1. tick' \in [Tickers -> Ticks]
    BY <1>0, <1>7 DEF TriggerEnds, Ticks, Stages
  <2>2. tick[w].occ \in 1 .. Len(occs)
    BY <1>7 DEF TriggerEnds, TicksFollow
  <2>3. occs[tick[w].occ] \in Occurrences
    BY <2>2 DEF SchedTypeOK
  <2>4. [at |-> occs[tick[w].occ].at, status |-> result, named |-> named] \in Occurrences
    BY <2>3 DEF Occurrences
  <2>5. occs' \in Seq(Occurrences) /\ Len(occs') = Len(occs)
    BY <1>7, <2>2, <2>4 DEF TriggerEnds, SchedTypeOK
  <2> QED BY <1>0, <1>7, <2>1, <2>5 DEF TriggerEnds, SchedTypeOK,
          TicksFollow, CopiesWereTriggered, RunsWereTriggered
<1>8. (TriggerRaises(w) \/ \E result \in Results : TriggerReturns(w, result))
         => SchedInv'
  BY <1>7 DEF TriggerReturns, TriggerRaises
<1> QED BY <1>1, <1>2, <1>3, <1>4, <1>5, <1>6, <1>8 DEF TickStep

LEMMA EditStepInv ==
    ASSUME SchedInv, NEW p \in Procs, EditStep(p) \/ Crash(p)
    PROVE  SchedInv'
<1> USE SchedulerAssumption DEF SchedInv
<1>0. /\ edit[p] \in Edits /\ edit[p].snap \in ScheduleState
      /\ edit[p].at \in Nat /\ NoEdit \in Edits /\ IdleTick \in Ticks
      /\ Len(occs) \in Nat /\ clock \in Nat
      /\ edit[p].snap.runs \in Nat /\ edit[p].snap.runs <= Len(occs)
  BY DEF SchedTypeOK, Edits, NoEdit, NewSchedule, ScheduleState,
     ScheduleStatuses, IdleTick, Ticks, Stages, CopiesWereTriggered
<1>1. ASSUME NEW kind \in {"enable", "disable"}, StartEdit(p, kind)
      PROVE  SchedInv'
  <2>1. edit' \in [Procs -> Edits]
    BY <1>1 DEF StartEdit, SchedTypeOK, Edits
  <2> QED BY <1>0, <1>1, <2>1 DEF StartEdit, SchedTypeOK, TicksFollow,
          CopiesWereTriggered, RunsWereTriggered
<1>2. CASE SaveEnabled(p)
  <2>1. PICK t \in edit[p].at .. clock :
          schedule' = [status |-> "ACTIVE",
                       next |-> IF \/ edit[p].snap.next = Never
                                   \/ edit[p].snap.next < t
                                THEN t ELSE edit[p].snap.next,
                       runs |-> edit[p].snap.runs]
    BY <1>2 DEF SaveEnabled
  <2>2. t \in Nat
    BY <1>0
  <2>3. schedule' \in ScheduleState /\ schedule'.runs = edit[p].snap.runs
    BY <1>0, <2>1, <2>2 DEF ScheduleState, ScheduleStatuses
  <2>4. edit' = [edit EXCEPT ![p] = NoEdit]
        /\ UNCHANGED <<clock, config, occs, tick, crashes>>
    BY <1>2 DEF SaveEnabled
  <2> QED BY <1>0, <2>3, <2>4 DEF SchedTypeOK, TicksFollow,
          CopiesWereTriggered, RunsWereTriggered, NoEdit, NewSchedule
<1>3. CASE SaveDisabled(p)
  <2>1. schedule' \in ScheduleState /\ schedule'.runs = edit[p].snap.runs
    BY <1>0, <1>3 DEF SaveDisabled, ScheduleState, ScheduleStatuses
  <2>2. edit' = [edit EXCEPT ![p] = NoEdit]
        /\ UNCHANGED <<clock, config, occs, tick, crashes>>
    BY <1>3 DEF SaveDisabled
  <2> QED BY <1>0, <2>1, <2>2 DEF SchedTypeOK, TicksFollow,
          CopiesWereTriggered, RunsWereTriggered, NoEdit, NewSchedule
<1>4. CASE Crash(p)
  BY <1>0, <1>4 DEF Crash, SchedTypeOK, TicksFollow, CopiesWereTriggered,
     RunsWereTriggered, NoEdit, NewSchedule, IdleTick
<1>5. CASE EditRaises(p)
  BY <1>0, <1>5 DEF EditRaises, SchedTypeOK, TicksFollow, CopiesWereTriggered,
     RunsWereTriggered, NoEdit, NewSchedule
<1> QED BY <1>1, <1>2, <1>3, <1>4, <1>5 DEF EditStep

LEMMA NextSchedInv == SchedInv /\ [SchedNext]_schedVars => SchedInv'
<1> SUFFICES ASSUME SchedInv, [SchedNext]_schedVars PROVE SchedInv'
  OBVIOUS
<1>1. CASE SchedTime
  BY <1>1 DEF SchedTime, SchedInv, SchedTypeOK, TicksFollow,
     CopiesWereTriggered, RunsWereTriggered
<1>2. CASE UNCHANGED schedVars
  BY <1>2 DEF schedVars, SchedInv, SchedTypeOK, TicksFollow,
     CopiesWereTriggered, RunsWereTriggered
<1> QED BY <1>1, <1>2, TickStepInv, EditStepInv DEF SchedNext

THEOREM SchedulerInvariant == SchedSpec => []SchedInv
BY InitSchedInv, NextSchedInv, PTL DEF SchedSpec

(***************************************************************************)
(* total_runs never counts a run that was not triggered, however many      *)
(* processes save the schedule from old copies.                            *)
(***************************************************************************)
THEOREM RunsAreTriggered == SchedSpec => []RunsWereTriggered
<1>1. SchedInv => RunsWereTriggered
  BY DEF SchedInv, CopiesWereTriggered
<1> QED BY <1>1, SchedulerInvariant, PTL

-----------------------------------------------------------------------------
\* A ticker about to record its occurrence is still right that there is none.
StillUnrecorded ==
    \A w \in Tickers : tick[w].stage = "record" => ~Recorded(tick[w].snap.next)

OnceInv == OneTriggerPerInstant /\ StillUnrecorded

LEMMA NextOnceInv ==
    ASSUME \A u, v \in Tickers : u = v,
           SchedInv, OnceInv, [SchedNext]_schedVars
    PROVE  OnceInv'
<1> USE DEF SchedInv, OnceInv
<1>1. ASSUME NEW w \in Tickers, RecordRunning(w) PROVE OnceInv'
  <2>1. ~Recorded(tick[w].snap.next)
    BY <1>1 DEF RecordRunning, StillUnrecorded
  <2>2. /\ Len(occs) \in Nat /\ Len(occs') = Len(occs) + 1
        /\ \A i \in 1 .. Len(occs) : occs'[i] = occs[i]
        /\ occs'[Len(occs) + 1].at = tick[w].snap.next
    BY <1>1 DEF RecordRunning, SchedTypeOK
  <2>3. OneTriggerPerInstant'
    BY <2>1, <2>2 DEF OneTriggerPerInstant, Recorded
  <2>4. \A v \in Tickers : tick'[v].stage # "record"
    BY <1>1 DEF RecordRunning, SchedTypeOK
  <2> QED BY <2>3, <2>4 DEF StillUnrecorded
<1>2. ASSUME NEW w \in Tickers, NEW result \in Results, NEW named \in BOOLEAN,
             TriggerEnds(w, result, named)
      PROVE  OnceInv'
  <2>1. tick[w].occ \in 1 .. Len(occs)
    BY <1>2 DEF TriggerEnds, TicksFollow
  <2>2. /\ Len(occs') = Len(occs)
        /\ \A i \in 1 .. Len(occs) : occs'[i].at = occs[i].at
    BY <1>2, <2>1 DEF TriggerEnds, SchedTypeOK, Occurrences
  <2>3. \A v \in Tickers : tick'[v].stage # "record"
    BY <1>2 DEF TriggerEnds, SchedTypeOK
  <2> QED BY <2>2, <2>3 DEF OneTriggerPerInstant, StillUnrecorded
<1>3. ASSUME NEW w \in Tickers, CheckUnrecorded(w) PROVE OnceInv'
  BY <1>3 DEF CheckUnrecorded, OneTriggerPerInstant, StillUnrecorded, Recorded,
     SchedTypeOK
<1>4. ASSUME NEW w \in Tickers,
             \/ StartTick(w) \/ ListDue(w) \/ SkipRecorded(w)
             \/ AdvanceSchedule(w)
      PROVE  OnceInv'
  <2>1. occs' = occs
    BY <1>4 DEF StartTick, ListDue, SkipRecorded, AdvanceSchedule
  <2>2. \A v \in Tickers : tick'[v].stage # "record"
    <3>1. tick'[w].stage # "record" /\ \A v \in Tickers \ {w} : tick'[v] = tick[v]
      BY <1>4, EarlyTick DEF StartTick, ListDue, SkipRecorded, AdvanceSchedule, CheckUnrecorded
    <3> QED BY <3>1
  <2> QED BY <2>1, <2>2 DEF OneTriggerPerInstant, StillUnrecorded
<1>5. ASSUME NEW p \in Procs, Crash(p) PROVE OnceInv'
  BY <1>5 DEF Crash, OneTriggerPerInstant, StillUnrecorded, Recorded, IdleTick
<1>6. ASSUME NEW p \in Procs, EditStep(p) PROVE UNCHANGED <<occs, tick>>
  BY <1>6 DEF EditStep, StartEdit, SaveEnabled, SaveDisabled, EditRaises
<1>7. ASSUME UNCHANGED <<occs, tick>> PROVE OnceInv'
  BY <1>7 DEF OneTriggerPerInstant, StillUnrecorded, Recorded
<1>8. SchedTime \/ UNCHANGED schedVars => UNCHANGED <<occs, tick>>
  BY DEF SchedTime, schedVars
<1>9. ASSUME NEW w \in Tickers,
             TriggerRaises(w) \/ \E result \in Results : TriggerReturns(w, result)
      PROVE  OnceInv'
  BY <1>2, <1>9, SchedulerAssumption DEF TriggerReturns, TriggerRaises
<1> QED BY <1>1, <1>3, <1>4, <1>5, <1>6, <1>7, <1>8, <1>9
        DEF SchedNext, TickStep

(***************************************************************************)
(* With one process that calls tick(), no instant of the schedule is ever  *)
(* triggered twice, over any crashes and edits.  The assumption is needed: *)
(* with two, the check and the record of the occurrence interleave.        *)
(***************************************************************************)
THEOREM TriggeredOnce ==
    ASSUME \A u, v \in Tickers : u = v
    PROVE  SchedSpec => []OneTriggerPerInstant
<1>1. SchedInit => OnceInv
  BY DEF SchedInit, OnceInv, OneTriggerPerInstant, StillUnrecorded, IdleTick
<1>2. SchedInv /\ OnceInv /\ [SchedNext]_schedVars => OnceInv'
  BY NextOnceInv
<1>3. OnceInv => OneTriggerPerInstant
  BY DEF OnceInv
<1> QED BY <1>1, <1>2, <1>3, SchedulerInvariant, PTL DEF SchedSpec
-----------------------------------------------------------------------------
(* Which occurrences are RUNNING                                           *)

Running == {i \in 1 .. Len(occs) : occs[i].status = "RUNNING"}

Triggering == {w \in Tickers : tick[w].stage = "trigger"}

\* Each ticker in its trigger has a RUNNING occurrence of its own; what is left
\* over is counted by the crashes.
RunningCounted ==
    /\ IsFiniteSet(Triggering)
    /\ \A w \in Triggering : occs[tick[w].occ].status = "RUNNING"
    /\ \A v, w \in Triggering : tick[v].occ = tick[w].occ => v = w
    /\ Cardinality(Running) <= crashes + Cardinality(Triggering)

LEMMA RunningFinite ==
    ASSUME SchedInv
    PROVE  IsFiniteSet(Running) /\ Cardinality(Running) \in Nat
<1>1. Len(occs) \in Nat
  BY DEF SchedInv, SchedTypeOK
<1>2. IsFiniteSet(1 .. Len(occs))
  BY <1>1, FS_Interval
<1> QED
  BY <1>2, FS_Subset, FS_CardinalityType DEF Running

LEMMA RunningUndisturbed ==
    ASSUME RunningCounted, occs' = occs, crashes' = crashes,
           Triggering' = Triggering, \A w \in Triggering : tick'[w].occ = tick[w].occ
    PROVE  RunningCounted'
<1>1. Running' = Running
  BY DEF Running
<1> QED
  BY <1>1 DEF RunningCounted

LEMMA RecordRunningCounts ==
    ASSUME SchedInv, RunningCounted, NEW w \in Tickers, RecordRunning(w)
    PROVE  RunningCounted'
<1> DEFINE n == Len(occs) + 1
<1>0. tick \in [Tickers -> Ticks] /\ occs \in Seq(Occurrences) /\ Len(occs) \in Nat
      /\ crashes' = crashes /\ crashes \in Nat
  BY DEF SchedInv, SchedTypeOK, RecordRunning
<1>1. /\ Len(occs') = n /\ occs'[n].status = "RUNNING"
      /\ \A i \in 1 .. Len(occs) : occs'[i] = occs[i]
  BY <1>0 DEF RecordRunning
<1>2. /\ tick[w].stage = "record" /\ tick'[w].stage = "trigger" /\ tick'[w].occ = n
      /\ \A v \in Tickers \ {w} : tick'[v] = tick[v]
  BY <1>0 DEF RecordRunning, Ticks
<1>3. Running' = Running \cup {n} /\ n \notin Running
  BY <1>0, <1>1 DEF Running
<1>4. Triggering' = Triggering \cup {w} /\ w \notin Triggering
  BY <1>2 DEF Triggering
<1>5. \A v \in Triggering : tick'[v].occ = tick[v].occ /\ tick[v].occ \in 1 .. Len(occs)
                            /\ tick[v].occ # n
  <2>1. \A v \in Triggering : tick[v].occ \in 1 .. Len(occs)
    BY DEF SchedInv, TicksFollow, Triggering
  <2> QED
    BY <1>0, <1>2, <1>4, <2>1 DEF Triggering
<1>6. \A v \in Triggering' : occs'[tick'[v].occ].status = "RUNNING"
  BY <1>1, <1>2, <1>4, <1>5 DEF RunningCounted
<1>7. \A u, v \in Triggering' : tick'[u].occ = tick'[v].occ => u = v
  BY <1>2, <1>4, <1>5 DEF RunningCounted
<1>8. /\ IsFiniteSet(Triggering') /\ Cardinality(Triggering') = Cardinality(Triggering) + 1
      /\ Cardinality(Triggering) \in Nat
  BY <1>4, FS_AddElement, FS_CardinalityType DEF RunningCounted
<1>9. Cardinality(Running') = Cardinality(Running) + 1 /\ Cardinality(Running) \in Nat
  BY <1>3, FS_AddElement, RunningFinite
<1>10. Cardinality(Running') <= crashes' + Cardinality(Triggering')
  BY <1>0, <1>8, <1>9 DEF RunningCounted
<1> QED
  BY <1>6, <1>7, <1>8, <1>10 DEF RunningCounted

LEMMA TriggerEndsCounts ==
    ASSUME SchedInv, RunningCounted, NEW w \in Tickers, NEW result \in Results,
           NEW named \in BOOLEAN, TriggerEnds(w, result, named)
    PROVE  RunningCounted'
<1> DEFINE n == tick[w].occ
<1>0. tick \in [Tickers -> Ticks] /\ occs \in Seq(Occurrences) /\ Len(occs) \in Nat
      /\ crashes' = crashes /\ crashes \in Nat /\ result # "RUNNING"
  BY SchedulerAssumption DEF SchedInv, SchedTypeOK, TriggerEnds
<1>1. w \in Triggering /\ n \in 1 .. Len(occs)
  BY DEF SchedInv, TicksFollow, Triggering, TriggerEnds
<1>2. /\ Len(occs') = Len(occs) /\ occs'[n].status = result
      /\ \A i \in 1 .. Len(occs) : i # n => occs'[i] = occs[i]
  BY <1>0, <1>1 DEF TriggerEnds, Occurrences
<1>3. /\ tick'[w].stage = "advance"
      /\ \A v \in Tickers \ {w} : tick'[v] = tick[v]
  BY <1>0 DEF TriggerEnds, Ticks
<1>4. Running' = Running \ {n} /\ n \in Running
  BY <1>0, <1>1, <1>2 DEF Running, RunningCounted
<1>5. Triggering' = Triggering \ {w}
  BY <1>3 DEF Triggering
<1>6. \A v \in Triggering' : /\ tick'[v].occ = tick[v].occ
                             /\ tick[v].occ \in 1 .. Len(occs) /\ tick[v].occ # n
  BY <1>1, <1>3, <1>5 DEF SchedInv, TicksFollow, Triggering, RunningCounted
<1>7. \A v \in Triggering' : occs'[tick'[v].occ].status = "RUNNING"
  BY <1>2, <1>5, <1>6 DEF RunningCounted
<1>8. \A u, v \in Triggering' : tick'[u].occ = tick'[v].occ => u = v
  BY <1>5, <1>6 DEF RunningCounted
<1>9. /\ IsFiniteSet(Triggering') /\ Cardinality(Triggering') = Cardinality(Triggering) - 1
      /\ Cardinality(Triggering) \in Nat
  BY <1>1, <1>5, FS_RemoveElement, FS_CardinalityType DEF RunningCounted
<1>10. Cardinality(Running') = Cardinality(Running) - 1 /\ Cardinality(Running) \in Nat
  BY <1>4, FS_RemoveElement, RunningFinite
<1>11. Cardinality(Running') <= crashes' + Cardinality(Triggering')
  BY <1>0, <1>9, <1>10 DEF RunningCounted
<1> QED
  BY <1>7, <1>8, <1>9, <1>11 DEF RunningCounted

LEMMA CrashCounts ==
    ASSUME SchedInv, RunningCounted, NEW p \in Procs, Crash(p)
    PROVE  RunningCounted'
<1>0. tick \in [Tickers -> Ticks] /\ crashes' = crashes + 1 /\ crashes \in Nat /\ occs' = occs
  BY DEF SchedInv, SchedTypeOK, Crash
<1>1. \A v \in Tickers : tick'[v] = IF v = p THEN IdleTick ELSE tick[v]
  BY DEF Crash
<1>2. Triggering' = Triggering \ {p}
  BY <1>1 DEF Triggering, IdleTick
<1>3. /\ \A v \in Triggering' : occs'[tick'[v].occ].status = "RUNNING"
      /\ \A u, v \in Triggering' : tick'[u].occ = tick'[v].occ => u = v
  BY <1>0, <1>1, <1>2 DEF RunningCounted, Triggering
<1>4. /\ IsFiniteSet(Triggering') /\ Cardinality(Triggering) <= Cardinality(Triggering') + 1
      /\ Cardinality(Triggering) \in Nat /\ Cardinality(Triggering') \in Nat
  <2>1. IsFiniteSet(Triggering) /\ Cardinality(Triggering) \in Nat
    BY FS_CardinalityType DEF RunningCounted
  <2>2. IsFiniteSet(Triggering')
    BY <1>2, <2>1, FS_Subset
  <2>3. Cardinality(Triggering \ {p}) = IF p \in Triggering THEN Cardinality(Triggering) - 1
                                        ELSE Cardinality(Triggering)
    BY <2>1, FS_RemoveElement
  <2>4. Cardinality(Triggering') \in Nat
    BY <2>2, FS_CardinalityType
  <2> QED
    BY <1>2, <2>1, <2>2, <2>3, <2>4
<1>5. Running' = Running /\ Cardinality(Running) \in Nat
  BY <1>0, RunningFinite DEF Running
<1>6. Cardinality(Running') <= crashes' + Cardinality(Triggering')
  BY <1>0, <1>4, <1>5 DEF RunningCounted
<1> QED
  BY <1>3, <1>4, <1>6 DEF RunningCounted

LEMMA NextRunningCounted ==
    ASSUME SchedInv, RunningCounted, [SchedNext]_schedVars
    PROVE  RunningCounted'
<1>1. ASSUME NEW w \in Tickers,
             \/ StartTick(w) \/ ListDue(w) \/ SkipRecorded(w) \/ CheckUnrecorded(w)
             \/ AdvanceSchedule(w)
      PROVE  RunningCounted'
  <2>1. tick \in [Tickers -> Ticks]
    BY DEF SchedInv, SchedTypeOK
  <2>2. /\ occs' = occs /\ crashes' = crashes
        /\ tick[w].stage # "trigger" /\ tick'[w].stage # "trigger"
        /\ \A v \in Tickers \ {w} : tick'[v] = tick[v]
    <3>1. UNCHANGED <<occs, crashes>>
      BY <1>1 DEF StartTick, ListDue, SkipRecorded, CheckUnrecorded, AdvanceSchedule
    <3>2. SchedTypeOK
      BY DEF SchedInv
    <3> QED
      BY <1>1, <3>1, <3>2, EarlyTick
  <2>3. Triggering' = Triggering
    BY <2>2 DEF Triggering
  <2> QED
    BY <2>2, <2>3, RunningUndisturbed DEF Triggering
<1>2. ASSUME \/ \E p \in Procs : EditStep(p)
             \/ SchedTime \/ UNCHANGED schedVars
      PROVE  RunningCounted'
  <2>1. UNCHANGED <<occs, tick, crashes>>
    BY <1>2 DEF EditStep, StartEdit, SaveEnabled, SaveDisabled, EditRaises, SchedTime, schedVars
  <2> QED
    BY <2>1, RunningUndisturbed DEF Triggering
<1>3. ASSUME NEW w \in Tickers,
             TriggerRaises(w) \/ \E result \in Results : TriggerReturns(w, result)
      PROVE  RunningCounted'
  BY <1>3, TriggerEndsCounts, SchedulerAssumption DEF TriggerReturns, TriggerRaises
<1> QED
  BY <1>1, <1>2, <1>3, RecordRunningCounts, CrashCounts DEF SchedNext, TickStep

LEMMA InitRunningCounted == SchedInit => RunningCounted
<1> SUFFICES ASSUME SchedInit PROVE RunningCounted
  OBVIOUS
<1>1. Running = {} /\ Triggering = {} /\ crashes = 0
  BY DEF SchedInit, Running, Triggering, IdleTick
<1> QED
  BY <1>1, FS_EmptySet DEF RunningCounted

(***************************************************************************)
(* Only a crash leaves an occurrence RUNNING: there are never more of them *)
(* than crashes and triggers under way together.                           *)
(***************************************************************************)
THEOREM RunningExplained == SchedSpec => []RunningIsExplained
<1>1. SchedInv /\ RunningCounted /\ [SchedNext]_schedVars => RunningCounted'
  BY NextRunningCounted
<1>2. RunningCounted => RunningIsExplained
  BY DEF RunningCounted, RunningIsExplained, Running, Triggering
<1> QED BY InitRunningCounted, <1>1, <1>2, SchedulerInvariant, PTL DEF SchedSpec

-----------------------------------------------------------------------------
(* Continuous missions                                                     *)

\* RunnableBelowLimits, of any copy of the mission.
Below(m) ==
    m.status \in Runnable =>
        /\ MaxCycles # Never => m.count < MaxCycles
        /\ m.fails < MaxFailures

\* Every copy that will be saved is below the limits too, and was read in a
\* status the operation accepts.
CopiesBelow ==
    \A p \in Procs :
        /\ Below(task[p].snap)
        /\ task[p].op \in {"start", "pause"} => task[p].snap.status \in Runnable
        /\ task[p].op = "cycle" => task[p].snap.status = "ACTIVE"

CyclesOwned ==
    \A p \in Procs : At(p, "cycle", "run") => task[p].cycle \in 1 .. Len(cycles)

IInv == /\ SchedInv
        /\ MissionTypeOK
        /\ Below(mission)
        /\ CopiesBelow
        /\ CyclesOwned

LEMMA NoTaskTyped == NoTask \in Tasks /\ NewMission \in Missions /\ Below(NewMission)
BY MissionAssumption, SchedulerAssumption
   DEF NoTask, Tasks, NewMission, Missions, Runnable, Below, CycleResults

LEMMA InitIInv == Init => IInv
<1> SUFFICES ASSUME Init PROVE IInv
  OBVIOUS
<1>1. SchedInv
  BY InitSchedInv DEF Init
<1>2. MissionTypeOK
  BY NoTaskTyped DEF Init, MissionTypeOK
<1>3. Below(mission) /\ CopiesBelow /\ CyclesOwned
  BY NoTaskTyped DEF Init, CopiesBelow, CyclesOwned, NoTask, At
<1> QED BY <1>1, <1>2, <1>3 DEF IInv

\* Every step of the service is a step of the scheduler, or none.
LEMMA StepOfScheduler ==
    ASSUME IInv, [Next]_vars
    PROVE  [SchedNext]_schedVars
<1> USE DEF IInv
<1>1. ASSUME NEW p \in Procs, MissionStep(p) PROVE [SchedNext]_schedVars
  <2>1. ASSUME EditSchedule(p) \/ ScheduleEdited(p) \/ StopDisables(p)
               \/ StopDisabled(p)
        PROVE  EditStep(p)
    BY <2>1 DEF EditSchedule, ScheduleEdited, StopDisables, StopDisabled,
       EditStep
  <2>2. ASSUME \/ \E op \in {"start", "pause", "stop"} : StartOp(p, op)
               \/ SaveOp(p) \/ BeginCycle(p) \/ ReturnExisting(p)
               \/ NoExisting(p) \/ RecordCycle(p) \/ CountCycle(p)
               \/ \E result \in CycleResults : CompleteCycle(p, result)
        PROVE  UNCHANGED schedVars
    BY <2>2 DEF StartOp, SaveOp, BeginCycle, ReturnExisting, NoExisting,
       RecordCycle, CountCycle, CompleteCycle
  <2> QED BY <1>1, <2>1, <2>2 DEF MissionStep, SchedNext
<1>2. ASSUME NEW p \in Procs, CrashTask(p) PROVE SchedNext
  BY <1>2 DEF CrashTask, SchedNext
<1>3. ASSUME NEW w \in Tickers, TickOutside(w) \/ SkipCycle(w) \/ CycleReturns(w)
      PROVE  SchedNext
  <2>1. "SKIPPED" \in Results /\ task[w].result \in Results
    BY MissionAssumption DEF MissionTypeOK, Tasks, Procs, CycleResults
  <2> QED BY <1>3, <2>1 DEF TickOutside, SkipCycle, CycleReturns, TickStep,
          SchedNext
<1>4. ASSUME NEW w \in Tickers, DisableRaises(w) \/ CycleRaises(w)
      PROVE  SchedNext
  BY <1>4 DEF DisableRaises, CycleRaises, EditStep, TickStep, SchedNext, Procs
<1>5. SchedTime => SchedNext
  BY DEF SchedNext
<1> QED BY <1>1, <1>2, <1>3, <1>4, <1>5 DEF Next, vars

\* What a cycle saves is below the limits if the copy it read was ACTIVE.
LEMMA AfterCycleBelow ==
    ASSUME NEW m \in Missions, NEW result \in Results
    PROVE  /\ AfterCycle(m, result) \in Missions
           /\ Below(AfterCycle(m, result))
<1>1. /\ m.count + 1 \in Nat /\ Failures(m, result) \in Nat
      /\ StatusOf(m, result) \in
            Runnable \cup {"STOPPED", "COMPLETED", "FAILED", "UNKNOWN"}
  BY DEF Missions, Failures, StatusOf
<1>2. StatusOf(m, result) \in Runnable =>
        /\ MaxCycles # Never => ~(m.count + 1 >= MaxCycles)
        /\ ~(Failures(m, result) >= MaxFailures)
  BY DEF StatusOf, Runnable
<1> QED BY <1>1, <1>2, MissionAssumption DEF AfterCycle, Missions, Below

LEMMA MissionStepInv ==
    ASSUME IInv, NEW p \in Procs, MissionStep(p)
    PROVE  (MissionTypeOK /\ Below(mission) /\ CopiesBelow /\ CyclesOwned)'
<1> USE DEF IInv
<1>0. /\ task \in [Procs -> Tasks] /\ task[p] \in Tasks /\ NoTask \in Tasks
      /\ task[p].snap \in Missions /\ mission \in Missions
      /\ task[p].result \in Results /\ Len(cycles) \in Nat
      /\ Below(NoTask.snap) /\ NoTask.op = "none" /\ clock \in Nat
  BY NoTaskTyped DEF MissionTypeOK, Tasks, NoTask, SchedInv, SchedTypeOK
<1>1. ASSUME NEW op \in {"start", "pause", "stop"}, StartOp(p, op)
      PROVE  (MissionTypeOK /\ Below(mission) /\ CopiesBelow /\ CyclesOwned)'
  <2> DEFINE t == [NoTask EXCEPT !.op = op, !.stage = "save", !.at = 0,
                                 !.snap = mission]
  <2>1. t \in Tasks /\ t.op = op /\ t.snap = mission
    BY <1>0 DEF Tasks, NoTask
  <2>2. task' = [task EXCEPT ![p] = t] /\ UNCHANGED <<mission, cycles>>
    BY <1>1 DEF StartOp, Begin
  <2>3. op # "stop" => mission.status \in Runnable
    BY <1>1 DEF StartOp, Runnable
  <2> HIDE DEF t
  <2> QED BY <1>0, <2>1, <2>2, <2>3
          DEF MissionTypeOK, CopiesBelow, CyclesOwned, At, Below
<1>2. CASE SaveOp(p)
  <2> DEFINE m == [task[p].snap EXCEPT !.status = StatusAfter(task[p].op)]
  <2>1. m \in Missions
    BY <1>0, <1>2 DEF SaveOp, Missions, Runnable, StatusAfter
  <2>2. Below(m)
    BY <1>0, <1>2 DEF SaveOp, Missions, Runnable, StatusAfter, Below,
       CopiesBelow
  <2>3. /\ mission' = m /\ task' = [task EXCEPT ![p].stage = "edit"]
        /\ cycles' = cycles
    BY <1>2 DEF SaveOp, Move
  <2>4. task' \in [Procs -> Tasks]
    BY <1>0, <2>3 DEF Tasks
  <2> HIDE DEF m
  <2> QED BY <1>0, <2>1, <2>2, <2>3, <2>4
          DEF MissionTypeOK, CopiesBelow, CyclesOwned, At, Below
<1>3. CASE BeginCycle(p)
  <2> DEFINE a == IF p \in Callers THEN clock ELSE 0
             t == [NoTask EXCEPT !.op = "cycle", !.stage = "check", !.at = a,
                                 !.snap = mission]
  <2>1. a \in Nat
    BY <1>0
  <2>2. t \in Tasks /\ t.op = "cycle" /\ t.stage = "check" /\ t.snap = mission
    BY <1>0, <2>1 DEF Tasks, NoTask
  <2>3. /\ task' = [task EXCEPT ![p] = t] /\ UNCHANGED <<mission, cycles>>
        /\ mission.status = "ACTIVE"
    BY <1>3 DEF BeginCycle, Begin
  <2> HIDE DEF t
  <2> QED BY <1>0, <2>2, <2>3
          DEF MissionTypeOK, CopiesBelow, CyclesOwned, At, Below
<1>4. ASSUME \/ ReturnExisting(p) \/ ScheduleEdited(p)
      PROVE  (MissionTypeOK /\ Below(mission) /\ CopiesBelow /\ CyclesOwned)'
  BY <1>0, <1>4 DEF ReturnExisting, ScheduleEdited, Done, MissionTypeOK,
     CopiesBelow, CyclesOwned, At, Below
<1>5. ASSUME NEW stage \in {"record", "editing", "disabling", "count"},
             Move(p, stage), UNCHANGED <<mission, cycles>>
      PROVE  (MissionTypeOK /\ Below(mission) /\ CopiesBelow /\ CyclesOwned)'
  <2>1. task' \in [Procs -> Tasks]
    BY <1>0, <1>5 DEF Move, Tasks
  <2> QED BY <1>0, <1>5, <2>1
          DEF Move, MissionTypeOK, CopiesBelow, CyclesOwned, At, Below
<1>6. CASE RecordCycle(p)
  <2> DEFINE c == [key |-> KeyOf(p), number |-> task[p].snap.count + 1,
                   status |-> "RUNNING"]
  <2>1. KeyOf(p) \in Keys
    <3>1. p \in Tickers => tick[p].occ \in Nat
      BY DEF SchedInv, SchedTypeOK, Ticks
    <3>2. task[p].snap.count + 1 \in Nat /\ task[p].at \in Nat
      BY <1>0 DEF Missions, Tasks
    <3> QED BY <3>1, <3>2 DEF KeyOf, Keys
  <2>2. c \in Cycles
    BY <1>0, <2>1 DEF Cycles, Missions
  <2> HIDE DEF c
  <2>3. /\ cycles' = Append(cycles, c) /\ mission' = mission
        /\ task' = [task EXCEPT ![p] = [@ EXCEPT !.stage = "run",
                                                 !.cycle = Len(cycles) + 1]]
    BY <1>6 DEF RecordCycle, c
  <2>4. cycles' \in Seq(Cycles) /\ Len(cycles') = Len(cycles) + 1
    BY <2>2, <2>3 DEF MissionTypeOK
  <2> DEFINE t == [task[p] EXCEPT !.stage = "run", !.cycle = Len(cycles) + 1]
  <2>5. t \in Tasks /\ t.snap = task[p].snap /\ t.op = task[p].op
        /\ t.cycle = Len(cycles) + 1
    <3>1. Len(cycles) + 1 \in Nat /\ task[p] \in Tasks
      BY <1>0
    <3> QED BY ONLY <3>1 DEF Tasks
  <2>6. task' = [task EXCEPT ![p] = t]
    BY <1>0, <2>3
  <2> HIDE DEF t
  <2>7. MissionTypeOK' /\ Below(mission)'
    BY <1>0, <2>3, <2>4, <2>5, <2>6 DEF MissionTypeOK, Below
  <2>8. CopiesBelow'
    BY <1>0, <2>5, <2>6 DEF CopiesBelow, Below
  <2>9. CyclesOwned'
    <3>1. ASSUME NEW q \in Procs, At(q, "cycle", "run")'
          PROVE  task'[q].cycle \in 1 .. Len(cycles')
      <4>1. CASE q = p
        BY <1>0, <2>4, <2>5, <2>6, <4>1
      <4>2. CASE q # p
        BY <1>0, <2>4, <2>6, <3>1, <4>2 DEF CyclesOwned, At
      <4> QED BY <4>1, <4>2
    <3> QED BY <3>1 DEF CyclesOwned
  <2> QED BY <2>7, <2>8, <2>9
<1>7. ASSUME NEW result \in CycleResults, CompleteCycle(p, result)
      PROVE  (MissionTypeOK /\ Below(mission) /\ CopiesBelow /\ CyclesOwned)'
  <2>1. task[p].cycle \in 1 .. Len(cycles)
    BY <1>7 DEF CompleteCycle, CyclesOwned
  <2>2. [cycles[task[p].cycle] EXCEPT !.status = result] \in Cycles
    <3>1. cycles[task[p].cycle] \in Cycles
      BY <2>1 DEF MissionTypeOK
    <3> QED BY <3>1 DEF Cycles
  <2>3. cycles' \in Seq(Cycles) /\ Len(cycles') = Len(cycles)
    BY <1>7, <2>1, <2>2 DEF CompleteCycle, MissionTypeOK
  <2> DEFINE g == IF StatusOf(task[p].snap, result) = task[p].snap.status
                  THEN "count" ELSE "disable"
             t == [task[p] EXCEPT !.result = result, !.stage = g]
  <2>4. g \in {"count", "disable"}
    OBVIOUS
  <2> HIDE DEF g
  <2>5. task' = [task EXCEPT ![p] = t] /\ mission' = mission
    <3>1. task' = [task EXCEPT ![p] = [@ EXCEPT !.result = result, !.stage = g]]
      BY <1>7 DEF CompleteCycle, g
    <3>2. task \in [Procs -> Tasks] /\ mission' = mission
      BY <1>0, <1>7 DEF CompleteCycle
    <3> QED BY ONLY <3>1, <3>2
  <2>6. t \in Tasks /\ t.snap = task[p].snap /\ t.op = task[p].op /\ t.stage = g
    <3>1. result \in Results /\ task[p] \in Tasks
      BY <1>0, MissionAssumption
    <3> QED BY ONLY <2>4, <3>1 DEF Tasks
  <2> HIDE DEF t
  <2> QED BY <1>0, <2>3, <2>4, <2>5, <2>6
          DEF MissionTypeOK, CopiesBelow, CyclesOwned, At, Below
<1>8. CASE CountCycle(p)
  <2> DEFINE m == AfterCycle(task[p].snap, task[p].result)
  <2>1. m \in Missions /\ Below(m)
    BY <1>0, AfterCycleBelow
  <2> HIDE DEF m
  <2>2. mission' = m /\ cycles' = cycles
    BY <1>8 DEF CountCycle, m
  <2>3. CASE p \in Tickers
    <3>1. task' = [task EXCEPT ![p].stage = "return"]
      BY <1>8, <2>3 DEF CountCycle, Move
    <3>2. task' \in [Procs -> Tasks]
      BY <1>0, <3>1 DEF Tasks
    <3> QED BY <1>0, <2>1, <2>2, <3>1, <3>2
            DEF MissionTypeOK, CopiesBelow, CyclesOwned, At, Below
  <2>4. CASE p \notin Tickers
    <3>1. task' = [task EXCEPT ![p] = NoTask]
      BY <1>8, <2>4 DEF CountCycle, Done
    <3> QED BY <1>0, <2>1, <2>2, <3>1
            DEF MissionTypeOK, CopiesBelow, CyclesOwned, At, Below
  <2> QED BY <2>3, <2>4
<1>9. ASSUME NoExisting(p) \/ EditSchedule(p) \/ StopDisables(p) \/ StopDisabled(p)
      PROVE  /\ \E stage \in {"record", "editing", "disabling", "count"} :
                   Move(p, stage)
             /\ UNCHANGED <<mission, cycles>>
  BY <1>9 DEF NoExisting, EditSchedule, StopDisables, StopDisabled
<1> QED BY <1>1, <1>2, <1>3, <1>4, <1>5, <1>6, <1>7, <1>8, <1>9 DEF MissionStep

LEMMA NextIInv == IInv /\ [Next]_vars => IInv'
<1> SUFFICES ASSUME IInv, [Next]_vars PROVE IInv'
  OBVIOUS
<1>1. SchedInv'
  BY StepOfScheduler, NextSchedInv DEF IInv
<1> DEFINE Rest == MissionTypeOK /\ Below(mission) /\ CopiesBelow /\ CyclesOwned
<1>2. ASSUME UNCHANGED missionVars PROVE Rest'
  BY <1>2 DEF missionVars, IInv, MissionTypeOK, CopiesBelow, CyclesOwned, At,
     Below
<1>3. ASSUME NEW p \in Procs, Done(p), UNCHANGED <<mission, cycles>>
      PROVE  Rest'
  BY <1>3, NoTaskTyped DEF Done, IInv, MissionTypeOK, CopiesBelow, CyclesOwned,
     At, Below, NoTask
<1>4. ASSUME NEW p \in Procs, MissionStep(p) PROVE Rest'
  BY <1>4, MissionStepInv
<1>5. ASSUME NEW p \in Procs, CrashTask(p) PROVE Rest'
  BY <1>3, <1>5 DEF CrashTask
<1>6. ASSUME NEW w \in Tickers, TickOutside(w) \/ SkipCycle(w) PROVE Rest'
  BY <1>2, <1>6 DEF TickOutside, SkipCycle
<1>7. ASSUME NEW w \in Tickers, CycleReturns(w) \/ CycleRaises(w) PROVE Rest'
  BY <1>3, <1>7 DEF CycleReturns, CycleRaises, Procs
<1>8. UNCHANGED vars => UNCHANGED missionVars
  BY DEF vars
<1>10. ASSUME NEW w \in Tickers, DisableRaises(w) PROVE Rest'
  <2>1. /\ task' = [task EXCEPT ![w].stage = "raised"] /\ UNCHANGED <<mission, cycles>>
        /\ w \in Procs
    BY <1>10 DEF DisableRaises, Move, Procs
  <2>2. /\ task' \in [Procs -> Tasks]
        /\ \A p \in Procs : /\ task'[p].snap = task[p].snap /\ task'[p].op = task[p].op
                             /\ task'[p].cycle = task[p].cycle
                             /\ task'[p].stage = "run" => task[p].stage = "run"
    BY <2>1 DEF IInv, MissionTypeOK, Tasks
  <2> QED BY <2>1, <2>2 DEF IInv, MissionTypeOK, CopiesBelow, CyclesOwned, At, Below
<1> HIDE DEF Rest
<1>9. Rest'
  BY <1>2, <1>4, <1>5, <1>6, <1>7, <1>8, <1>10 DEF Next
<1> QED BY <1>1, <1>9 DEF IInv, Rest

\* No copy of a mission that may run cycles is at its limits, on file or in a process.
THEOREM MissionInvariant == Spec => []IInv
BY InitIInv, NextIInv, PTL DEF Spec

(***************************************************************************)
(* Type correctness of the mission, its cycles and its schedule.           *)
(***************************************************************************)
THEOREM TypeCorrect == Spec => []TypeOK
<1>1. IInv => TypeOK
  BY DEF IInv, SchedInv, TypeOK
<1> QED BY <1>1, MissionInvariant, PTL

(***************************************************************************)
(* A mission that can run cycles is below its limits, whatever copies of   *)
(* it are saved in whatever order.                                         *)
(***************************************************************************)
THEOREM LimitsHold == Spec => []RunnableBelowLimits
<1>1. IInv => RunnableBelowLimits
  BY DEF IInv, Below, RunnableBelowLimits
<1> QED BY <1>1, MissionInvariant, PTL

(***************************************************************************)
(* The service uses the scheduler as its specification allows.             *)
(***************************************************************************)
THEOREM ServiceUsesScheduler == Spec => SchedSpec
<1>1. Init => SchedInit
  BY DEF Init
<1>2. IInv /\ [Next]_vars => [SchedNext]_schedVars
  BY StepOfScheduler
<1> QED BY <1>1, <1>2, MissionInvariant, PTL DEF Spec, SchedSpec

(***************************************************************************)
(* So with one ticker no instant is triggered twice in the composition.    *)
(***************************************************************************)
THEOREM MissionTriggeredOnce ==
    ASSUME \A u, v \in Tickers : u = v
    PROVE  Spec => []OneTriggerPerInstant
BY ServiceUsesScheduler, TriggeredOnce, PTL

-----------------------------------------------------------------------------
(***************************************************************************)
(* Cycles and occurrences.  A cycle carries the occurrence it was run for, *)
(* so what the mission's files say of the schedule's files follows from    *)
(* who holds which cycle while a trigger runs.                             *)
(***************************************************************************)
HoldStages == {"run", "disable", "disabling", "raised", "count", "return"}

\* A cycle operation that has stored its cycle.
Holding(p) == task[p].op = "cycle" /\ task[p].stage \in HoldStages

Ended(p) == Holding(p) /\ task[p].stage # "run"

\* Only callers start, pause and stop; a ticker's cycle is inside its trigger.
Staged(p) ==
    /\ task[p].op = "cycle" => Holding(p) \/ task[p].stage \in {"check", "record"}
    /\ task[p].op # "cycle" => task[p].stage \in {"save", "edit", "editing"}
    /\ p \in Tickers => task[p].op \in {"none", "cycle"}
    /\ p \in Tickers /\ task[p].op = "cycle" => tick[p].stage = "trigger"

\* The cycle that p holds is that of its occurrence, and its status is what p
\* has as the result.
Held(p) ==
    Holding(p) =>
        /\ task[p].cycle \in 1 .. Len(cycles)
        /\ cycles[task[p].cycle].key.occ = IF p \in Tickers THEN tick[p].occ ELSE 0
        /\ ~Ended(p) => cycles[task[p].cycle].status = "RUNNING"
        /\ Ended(p) => /\ cycles[task[p].cycle].status = task[p].result
                       /\ task[p].result \in CycleResults

\* A trigger that has stored no cycle yet finds none of its occurrence.
Fresh(p) ==
    p \in Tickers /\ tick[p].stage = "trigger" /\ ~Holding(p) =>
        \A i \in 1 .. Len(cycles) : cycles[i].key.occ # tick[p].occ

CyclesKeyed ==
    /\ \A i \in 1 .. Len(cycles) : cycles[i].key.occ \in 0 .. Len(occs)
    /\ \A i, j \in 1 .. Len(cycles) :
          cycles[i].key.occ = cycles[j].key.occ /\ cycles[i].key.occ # 0 => i = j

HeldApart ==
    \A p, q \in Procs :
        Holding(p) /\ Holding(q) /\ task[p].cycle = task[q].cycle => p = q

CyclesMatch ==
    /\ \A p \in Procs : Staged(p) /\ Held(p) /\ Fresh(p)
    /\ CyclesKeyed
    /\ HeldApart

\* A step that stores no cycle, and moves one process at most.
LEMMA QuietMatches ==
    ASSUME IInv, CyclesMatch, NEW p \in Procs,
           cycles' = cycles, Len(occs') \in Nat, Len(occs') >= Len(occs),
           \A q \in Procs \ {p} : task'[q] = task[q],
           \A w \in Tickers \ {p} : tick'[w] = tick[w],
           Staged(p)', Fresh(p)',
           Holding(p)' => /\ Holding(p)
                          /\ task'[p].cycle = task[p].cycle
                          /\ task'[p].result = task[p].result
                          /\ Ended(p)' <=> Ended(p)
                          /\ p \in Tickers => tick'[p].occ = tick[p].occ
    PROVE  CyclesMatch'
<1>0. Len(cycles) \in Nat /\ Len(occs) \in Nat
  BY DEF IInv, MissionTypeOK, SchedInv, SchedTypeOK
<1>1. ASSUME NEW q \in Procs \ {p} PROVE (Staged(q) /\ Held(q) /\ Fresh(q))'
  <2>1. /\ Staged(q) /\ Held(q) /\ Fresh(q) /\ task'[q] = task[q]
        /\ q \in Tickers => tick'[q] = tick[q]
    BY <1>1 DEF CyclesMatch
  <2>2. Staged(q)'
    BY <2>1 DEF Staged, Holding
  <2>3. Held(q)'
    BY <2>1 DEF Held, Holding, Ended
  <2>4. Fresh(q)'
    BY <2>1 DEF Fresh, Holding
  <2> QED BY <2>2, <2>3, <2>4
<1>2. Held(p)'
  <2>1. Held(p)
    BY DEF CyclesMatch
  <2> QED BY <2>1 DEF Held
<1>3. CyclesKeyed'
  BY <1>0 DEF CyclesMatch, CyclesKeyed
<1>4. HeldApart'
  <2>1. \A q \in Procs : Holding(q)' => Holding(q) /\ task'[q].cycle = task[q].cycle
    BY DEF Holding
  <2> QED BY <2>1 DEF CyclesMatch, HeldApart
<1> QED BY <1>1, <1>2, <1>3, <1>4 DEF CyclesMatch

LEMMA MissionStepMatches ==
    ASSUME IInv, RunningCounted, CyclesMatch, NEW p \in Procs, MissionStep(p)
    PROVE  CyclesMatch'
<1> USE SchedulerAssumption
<1>0. /\ task \in [Procs -> Tasks] /\ Staged(p) /\ Held(p) /\ Fresh(p)
      /\ Len(cycles) \in Nat /\ Len(occs) \in Nat /\ cycles \in Seq(Cycles)
      /\ p \in Callers <=> p \notin Tickers
  BY DEF IInv, MissionTypeOK, SchedInv, SchedTypeOK, CyclesMatch, Procs
<1>1. ASSUME NEW op \in {"start", "pause", "stop"}, StartOp(p, op)
      PROVE  CyclesMatch'
  <2>1. /\ task' = [task EXCEPT ![p] = [NoTask EXCEPT !.op = op, !.stage = "save",
                                                 !.at = 0, !.snap = mission]]
        /\ UNCHANGED <<cycles, occs, tick>> /\ p \notin Tickers
    BY <1>0, <1>1 DEF StartOp, Begin, schedVars
  <2>2. task'[p].op = op /\ task'[p].stage = "save"
    BY <1>0, <2>1 DEF NoTask
  <2>3. Staged(p)' /\ Fresh(p)' /\ ~Holding(p)'
    BY <2>1, <2>2 DEF Staged, Fresh, Holding
  <2> QED BY <1>0, <2>1, <2>3, QuietMatches
<1>2. ASSUME SaveOp(p) \/ EditSchedule(p) PROVE CyclesMatch'
  <2>1. /\ \E stage \in {"edit", "editing"} : task' = [task EXCEPT ![p].stage = stage]
        /\ UNCHANGED <<cycles, occs, tick>> /\ task[p].op # "cycle"
    BY <1>0, <1>2 DEF SaveOp, EditSchedule, StartEdit, Move, schedVars, Staged, Holding,
       HoldStages
  <2>2. Staged(p)' /\ Fresh(p)' /\ ~Holding(p)'
    BY <1>0, <2>1 DEF Staged, Fresh, Holding
  <2> QED BY <1>0, <2>1, <2>2, QuietMatches
<1>3. ASSUME ScheduleEdited(p) \/ ReturnExisting(p) PROVE CyclesMatch'
  <2>1. /\ task' = [task EXCEPT ![p] = NoTask] /\ UNCHANGED <<cycles, occs, tick>>
        /\ ~Holding(p)
    BY <1>0, <1>3 DEF ScheduleEdited, SaveEnabled, SaveDisabled, ReturnExisting, At,
       Done, schedVars, Staged, Holding, HoldStages
  <2>2. Staged(p)' /\ Fresh(p)' /\ ~Holding(p)'
    BY <1>0, <2>1 DEF Staged, Fresh, Holding, NoTask
  <2> QED BY <1>0, <2>1, <2>2, QuietMatches
<1>4. ASSUME BeginCycle(p) PROVE CyclesMatch'
  <2> DEFINE a == IF p \in Callers THEN clock ELSE 0
  <2>1. /\ task' = [task EXCEPT ![p] = [NoTask EXCEPT !.op = "cycle", !.stage = "check",
                                                 !.at = a, !.snap = mission]]
        /\ UNCHANGED <<cycles, occs, tick>> /\ task[p].op = "none"
        /\ p \in Tickers => tick[p].stage = "trigger"
    BY <1>0, <1>4 DEF BeginCycle, Begin, schedVars
  <2>2. task'[p].op = "cycle" /\ task'[p].stage = "check"
    BY <1>0, <2>1 DEF NoTask
  <2>3. Staged(p)' /\ Fresh(p)' /\ ~Holding(p)'
    BY <1>0, <2>1, <2>2 DEF Staged, Fresh, Holding, HoldStages
  <2> QED BY <1>0, <2>1, <2>3, QuietMatches
<1>5. ASSUME NoExisting(p) PROVE CyclesMatch'
  <2>1. /\ task' = [task EXCEPT ![p].stage = "record"] /\ UNCHANGED <<cycles, occs, tick>>
        /\ task[p].op = "cycle" /\ task[p].stage = "check"
    BY <1>5 DEF NoExisting, At, Move, schedVars
  <2>2. Staged(p)' /\ Fresh(p)' /\ ~Holding(p)'
    BY <1>0, <2>1 DEF Staged, Fresh, Holding, HoldStages
  <2> QED BY <1>0, <2>1, <2>2, QuietMatches
<1>6. ASSUME StopDisables(p) \/ StopDisabled(p) PROVE CyclesMatch'
  <2>1. /\ \E stage \in {"disabling", "count"} : task' = [task EXCEPT ![p].stage = stage]
        /\ UNCHANGED <<cycles, occs, tick>> /\ Ended(p)
    BY <1>6 DEF StopDisables, StopDisabled, StartEdit, SaveDisabled, At, Move, Ended,
       Holding, HoldStages
  <2>2. /\ task'[p].op = task[p].op /\ task'[p].cycle = task[p].cycle
        /\ task'[p].result = task[p].result /\ task'[p].stage \in {"disabling", "count"}
    BY <1>0, <2>1 DEF Tasks
  <2>3. Staged(p)' /\ Fresh(p)' /\ Ended(p)'
    BY <1>0, <2>1, <2>2 DEF Staged, Fresh, Holding, HoldStages, Ended
  <2> QED BY <1>0, <2>1, <2>2, <2>3, QuietMatches DEF Ended
<1>7. ASSUME CountCycle(p) PROVE CyclesMatch'
  <2>1. /\ UNCHANGED <<cycles, occs, tick>> /\ Ended(p)
        /\ \A q \in Procs \ {p} : task'[q] = task[q]
        /\ p \in Tickers => task' = [task EXCEPT ![p].stage = "return"]
        /\ p \notin Tickers => task' = [task EXCEPT ![p] = NoTask]
    BY <1>0, <1>7 DEF CountCycle, At, Move, Done, Ended, Holding, HoldStages, schedVars
  <2>2. CASE p \in Tickers
    <3>1. /\ task'[p].op = task[p].op /\ task'[p].cycle = task[p].cycle
          /\ task'[p].result = task[p].result /\ task'[p].stage = "return"
      BY <1>0, <2>1, <2>2 DEF Tasks
    <3>2. Staged(p)' /\ Fresh(p)' /\ Ended(p)'
      BY <1>0, <2>1, <3>1 DEF Staged, Fresh, Holding, HoldStages, Ended
    <3> QED BY <1>0, <2>1, <3>1, <3>2, QuietMatches DEF Ended
  <2>3. CASE p \notin Tickers
    <3>1. Staged(p)' /\ Fresh(p)' /\ ~Holding(p)'
      BY <1>0, <2>1, <2>3 DEF Staged, Fresh, Holding, NoTask
    <3> QED BY <1>0, <2>1, <3>1, QuietMatches
  <2> QED BY <2>2, <2>3
<1>8. ASSUME RecordCycle(p) PROVE CyclesMatch'
  <2> DEFINE n == Len(cycles) + 1
             c == [key |-> KeyOf(p), number |-> task[p].snap.count + 1,
                   status |-> "RUNNING"]
             k == IF p \in Tickers THEN tick[p].occ ELSE 0
  <2>1. /\ cycles' = Append(cycles, c) /\ UNCHANGED <<occs, tick>>
        /\ \A q \in Procs \ {p} : task'[q] = task[q]
        /\ task'[p].op = "cycle" /\ task'[p].stage = "run" /\ task'[p].cycle = n
        /\ ~Holding(p) /\ task[p].op = "cycle"
    BY <1>0, <1>8 DEF RecordCycle, At, schedVars, Holding, HoldStages, Tasks
  <2>2. c.key.occ = k /\ c.status = "RUNNING"
    BY DEF KeyOf
  <2>3. p \in Tickers => tick[p].stage = "trigger"
    BY <1>0, <2>1 DEF Staged
  <2>4. k # 0 => p \in Tickers /\ \A i \in 1 .. Len(cycles) : cycles[i].key.occ # k
    BY <1>0, <2>1, <2>3 DEF Fresh
  <2> HIDE DEF c, k
  <2>5. /\ Len(cycles') = n /\ cycles'[n] = c /\ n \notin 1 .. Len(cycles)
        /\ 1 .. n = (1 .. Len(cycles)) \cup {n}
        /\ \A i \in 1 .. Len(cycles) : cycles'[i] = cycles[i]
    BY <1>0, <2>1
  <2>6. k \in 0 .. Len(occs)
    BY <1>0, <2>3 DEF IInv, SchedInv, TicksFollow, k
  <2> HIDE DEF n
  <2>7. CyclesKeyed'
    <3>1. \A i \in 1 .. Len(cycles) : cycles[i].key.occ = k => k = 0
      BY <2>4
    <3> QED BY <1>0, <2>1, <2>2, <2>5, <2>6, <3>1 DEF CyclesMatch, CyclesKeyed
  <2>8. HeldApart'
    <3>1. \A q \in Procs \ {p} : /\ Holding(q)' <=> Holding(q)
                                 /\ task'[q].cycle = task[q].cycle
                                 /\ Holding(q) => task[q].cycle \in 1 .. Len(cycles)
      BY <2>1 DEF Holding, CyclesMatch, Held
    <3>2. task'[p].cycle = n
      BY <2>1
    <3> QED BY <2>5, <3>1, <3>2 DEF HeldApart, CyclesMatch
  <2>9. ASSUME NEW q \in Procs \ {p} PROVE (Staged(q) /\ Held(q) /\ Fresh(q))'
    <3>1. Staged(q) /\ Held(q) /\ Fresh(q) /\ task'[q] = task[q] /\ tick' = tick
      BY <2>1, <2>9 DEF CyclesMatch
    <3>2. Staged(q)'
      BY <3>1 DEF Staged, Holding
    <3>3. Held(q)'
      BY <3>1, <2>5 DEF Held, Holding, Ended
    <3>4. Fresh(q)'
      <4>1. q \in Tickers /\ tick[q].stage = "trigger" => tick[q].occ # k
        <5>1. tick[q].stage = "trigger" /\ q \in Tickers =>
                  tick[q].occ \in 1 .. Len(occs) /\ q \in Triggering
          BY DEF IInv, SchedInv, TicksFollow, Triggering
        <5>2. p \in Tickers => p \in Triggering /\ k = tick[p].occ
          BY <1>0, <2>1 DEF Staged, Triggering, k
        <5>3. p \notin Tickers => k = 0
          BY DEF k
        <5> QED BY <1>0, <5>1, <5>2, <5>3, <2>9 DEF RunningCounted
      <4> QED BY <2>2, <2>5, <3>1, <4>1 DEF Fresh, Holding
    <3> QED BY <3>2, <3>3, <3>4
  <2>10. Staged(p)' /\ Fresh(p)' /\ Holding(p)' /\ ~Ended(p)'
    BY <1>0, <2>1 DEF Staged, Fresh, Holding, HoldStages, Ended
  <2>11. Held(p)'
    <3>1. task'[p].cycle \in 1 .. Len(cycles')
      BY <1>0, <2>1, <2>5
    <3>2. cycles'[task'[p].cycle] = c /\ tick' = tick
      BY <2>1, <2>5
    <3> QED BY <2>2, <2>10, <3>1, <3>2 DEF Held, k
  <2> QED BY <2>7, <2>8, <2>9, <2>10, <2>11 DEF CyclesMatch
<1>9. ASSUME NEW result \in CycleResults, CompleteCycle(p, result)
      PROVE  CyclesMatch'
  <2> DEFINE n == task[p].cycle
  <2>1. /\ cycles' = [cycles EXCEPT ![n].status = result] /\ UNCHANGED <<occs, tick>>
        /\ \A q \in Procs \ {p} : task'[q] = task[q]
        /\ task[p].op = "cycle" /\ task[p].stage = "run"
        /\ task'[p].op = "cycle" /\ task'[p].stage \in {"count", "disable"}
        /\ task'[p].cycle = n /\ task'[p].result = result
    BY <1>0, <1>9 DEF CompleteCycle, At, schedVars, Tasks
  <2>2. Holding(p) /\ ~Ended(p) /\ n \in 1 .. Len(cycles)
    BY <1>0, <2>1 DEF Holding, HoldStages, Ended, Held
  <2>3. /\ Len(cycles') = Len(cycles) /\ cycles'[n].status = result
        /\ \A i \in 1 .. Len(cycles) : /\ cycles'[i].key = cycles[i].key
                                       /\ i # n => cycles'[i] = cycles[i]
    <3>1. cycles[n] \in Cycles
      BY <1>0, <2>2
    <3> QED BY <1>0, <2>1, <2>2, <3>1 DEF Cycles
  <2>4. CyclesKeyed'
    BY SMTT(40), <2>1, <2>3 DEF CyclesMatch, CyclesKeyed
  <2>5. Holding(p)' /\ Ended(p)' /\ Staged(p)' /\ Fresh(p)'
    BY <1>0, <2>1 DEF Holding, HoldStages, Ended, Staged, Fresh
  <2>6. \A q \in Procs : /\ Holding(q)' <=> Holding(q)
                         /\ task'[q].cycle = task[q].cycle
    BY <2>1, <2>2, <2>5 DEF Holding
  <2>7. HeldApart'
    BY <2>6 DEF HeldApart, CyclesMatch
  <2>8. Held(p)'
    BY <1>0, <2>1, <2>2, <2>3, <2>5 DEF Held
  <2>9. ASSUME NEW q \in Procs \ {p} PROVE (Staged(q) /\ Held(q) /\ Fresh(q))'
    <3>1. Staged(q) /\ Held(q) /\ Fresh(q) /\ task'[q] = task[q] /\ tick' = tick
      BY <2>1, <2>9 DEF CyclesMatch
    <3>2. Holding(q) => task[q].cycle # n
      BY <2>2, <2>9 DEF CyclesMatch, HeldApart
    <3>3. Staged(q)'
      BY <3>1 DEF Staged, Holding
    <3>4. Held(q)'
      BY <2>3, <3>1, <3>2 DEF Held, Holding, Ended
    <3>5. Fresh(q)'
      BY <2>3, <3>1 DEF Fresh, Holding
    <3> QED BY <3>3, <3>4, <3>5
  <2> QED BY <2>4, <2>5, <2>7, <2>8, <2>9 DEF CyclesMatch
<1> QED BY <1>1, <1>2, <1>3, <1>4, <1>5, <1>6, <1>7, <1>8, <1>9 DEF MissionStep

LEMMA NextMatches ==
    ASSUME IInv, RunningCounted, CyclesMatch, [Next]_vars
    PROVE  CyclesMatch'
<1> USE SchedulerAssumption
<1>0. /\ task \in [Procs -> Tasks] /\ tick \in [Tickers -> Ticks] /\ Len(occs) \in Nat
      /\ Tickers \subseteq Procs
      /\ \A p \in Procs : Staged(p) /\ Held(p) /\ Fresh(p)
  BY DEF IInv, MissionTypeOK, SchedInv, SchedTypeOK, CyclesMatch, Procs
<1>1. ASSUME NEW p \in Procs, CrashTask(p) PROVE CyclesMatch'
  <2>1. /\ task' = [task EXCEPT ![p] = NoTask] /\ UNCHANGED <<cycles, occs>>
        /\ tick' = [w \in Tickers |-> IF w = p THEN IdleTick ELSE tick[w]]
    BY <1>1 DEF CrashTask, Crash, Done
  <2>2. Staged(p)' /\ Fresh(p)' /\ ~Holding(p)'
    BY <1>0, <2>1 DEF Staged, Fresh, Holding, NoTask, IdleTick
  <2> QED BY <1>0, <2>1, <2>2, QuietMatches
<1>2. ASSUME NEW w \in Tickers, TickOutside(w) PROVE CyclesMatch'
  <2>1. CASE RecordRunning(w)
    <3> DEFINE n == Len(occs) + 1
    <3>1. /\ Len(occs') = n /\ tick'[w].stage = "trigger" /\ tick'[w].occ = n
          /\ \A v \in Tickers \ {w} : tick'[v] = tick[v]
          /\ tick[w].stage = "record" /\ UNCHANGED <<cycles, task>>
      BY <1>0, <1>2, <2>1 DEF RecordRunning, TickOutside, missionVars, IInv, SchedInv,
         SchedTypeOK, Ticks
    <3>2. task[w].op = "none"
      BY <1>0, <3>1 DEF Staged
    <3>3. Staged(w)' /\ ~Holding(w)'
      BY <1>0, <3>1, <3>2 DEF Staged, Holding
    <3>4. \A i \in 1 .. Len(cycles) : cycles[i].key.occ # n
      BY <1>0 DEF CyclesMatch, CyclesKeyed
    <3>5. Fresh(w)'
      BY <3>1, <3>4 DEF Fresh
    <3> QED BY <1>0, <3>1, <3>3, <3>5, QuietMatches
  <2>2. CASE \/ StartTick(w) \/ ListDue(w) \/ SkipRecorded(w) \/ CheckUnrecorded(w)
             \/ AdvanceSchedule(w)
    <3>1. /\ \A v \in Tickers \ {w} : tick'[v] = tick[v]
          /\ tick[w].stage # "trigger" /\ tick'[w].stage # "trigger"
          /\ UNCHANGED <<cycles, task, occs>>
      <4>1. UNCHANGED <<cycles, task, occs>>
        BY <1>2, <2>2 DEF StartTick, ListDue, SkipRecorded, CheckUnrecorded, AdvanceSchedule,
           TickOutside, missionVars
      <4>2. SchedTypeOK
        BY <1>0 DEF IInv, SchedInv
      <4> QED
        BY <2>2, <4>1, <4>2, EarlyTick
    <3>2. task[w].op = "none"
      BY <1>0, <3>1 DEF Staged
    <3>3. Staged(w)' /\ ~Holding(w)' /\ Fresh(w)'
      BY <1>0, <3>1, <3>2 DEF Staged, Holding, Fresh
    <3> QED BY <1>0, <3>1, <3>3, QuietMatches
  <2> QED BY <1>2, <2>1, <2>2 DEF TickOutside
<1>3. ASSUME NEW w \in Tickers, SkipCycle(w) \/ CycleReturns(w) \/ CycleRaises(w)
      PROVE  CyclesMatch'
  <2>1. \E r, b : TriggerEnds(w, r, b)
    BY <1>3 DEF SkipCycle, CycleReturns, CycleRaises, TriggerReturns, TriggerRaises
  <2>2. /\ \A v \in Tickers \ {w} : tick'[v] = tick[v]
        /\ tick'[w].stage = "advance" /\ Len(occs') = Len(occs)
    BY <1>0, <2>1 DEF TriggerEnds, Ticks, IInv, SchedInv, SchedTypeOK
  <2>3. /\ cycles' = cycles /\ \A q \in Procs \ {w} : task'[q] = task[q]
        /\ task'[w].op = "none" /\ task'[w].stage \in {"save", "edit", "editing"}
    BY <1>0, <1>3 DEF SkipCycle, CycleReturns, CycleRaises, Done, missionVars, NoTask, Staged
  <2>4. Staged(w)' /\ Fresh(w)' /\ ~Holding(w)'
    BY <2>2, <2>3 DEF Staged, Fresh, Holding
  <2> QED BY <1>0, <2>2, <2>3, <2>4, QuietMatches
<1>4. ASSUME UNCHANGED <<cycles, task, occs, tick>> PROVE CyclesMatch'
  BY <1>4 DEF CyclesMatch, Staged, Held, Fresh, CyclesKeyed, HeldApart, Holding, Ended
<1>5. (SchedTime /\ UNCHANGED missionVars) \/ UNCHANGED vars
         => UNCHANGED <<cycles, task, occs, tick>>
  BY DEF SchedTime, missionVars, vars, schedVars
<1>6. ASSUME NEW w \in Tickers, DisableRaises(w) PROVE CyclesMatch'
  <2>1. /\ task' = [task EXCEPT ![w].stage = "raised"] /\ UNCHANGED <<cycles, occs, tick>>
        /\ task[w].op = "cycle" /\ task[w].stage = "disabling"
    BY <1>6 DEF DisableRaises, EditRaises, At, Move
  <2>2. /\ \A q \in Procs \ {w} : task'[q] = task[q]
        /\ task'[w].op = "cycle" /\ task'[w].stage = "raised"
        /\ task'[w].cycle = task[w].cycle /\ task'[w].result = task[w].result
    BY <1>0, <2>1 DEF Tasks
  <2>3. Holding(w) /\ Ended(w) /\ Holding(w)' /\ Ended(w)'
    BY <2>1, <2>2 DEF Holding, Ended, HoldStages
  <2>4. Staged(w)' /\ Fresh(w)'
    BY <1>0, <2>1, <2>2, <2>3 DEF Staged, Fresh
  <2> QED BY <1>0, <2>1, <2>2, <2>3, <2>4, QuietMatches
<1> QED BY <1>1, <1>2, <1>3, <1>4, <1>5, <1>6, MissionStepMatches DEF Next

\* RunningCounted, the invariant of the scheduler, holds in the composition.
MatchInv == IInv /\ RunningCounted /\ CyclesMatch

LEMMA InitMatchInv == Init => MatchInv
<1> SUFFICES ASSUME Init PROVE MatchInv
  OBVIOUS
<1>1. RunningCounted
  BY InitRunningCounted DEF Init
<1>2. CyclesMatch
  BY DEF Init, CyclesMatch, Staged, Held, Fresh, CyclesKeyed, HeldApart, Holding,
     NoTask, SchedInit, IdleTick, Procs
<1> QED BY <1>1, <1>2, InitIInv DEF MatchInv

LEMMA NextMatchInv == MatchInv /\ [Next]_vars => MatchInv'
BY NextIInv, NextMatches, StepOfScheduler, NextRunningCounted DEF MatchInv, IInv

\* Every occurrence, cycle and process agree on which cycle is whose: that of
\* execute_next_cycle, from the look for its key to the status of the occurrence.
THEOREM MatchInvariant == Spec => []MatchInv
BY InitMatchInv, NextMatchInv, PTL DEF Spec

(***************************************************************************)
(* With one ticker no instant of the schedule is run by two cycles: each   *)
(* instant is one occurrence, and each occurrence at most one cycle,       *)
(* whatever crashes, edits and limits come between.                        *)
(***************************************************************************)
THEOREM InstantRunOnce ==
    ASSUME \A u, v \in Tickers : u = v
    PROVE  Spec => []OneCyclePerInstant
<1>1. MatchInv /\ OneTriggerPerInstant => OneCyclePerInstant
  <2> SUFFICES ASSUME MatchInv, OneTriggerPerInstant, NEW i \in 1 .. Len(cycles),
                      NEW j \in 1 .. Len(cycles), cycles[i].key.occ # 0,
                      cycles[j].key.occ # 0,
                      occs[cycles[i].key.occ].at = occs[cycles[j].key.occ].at
               PROVE  i = j
    BY DEF OneCyclePerInstant
  <2>1. cycles[i].key.occ \in 1 .. Len(occs) /\ cycles[j].key.occ \in 1 .. Len(occs)
    <3>1. Len(occs) \in Nat
      BY DEF MatchInv, IInv, SchedInv, SchedTypeOK
    <3> QED BY <3>1 DEF MatchInv, CyclesMatch, CyclesKeyed
  <2>2. cycles[i].key.occ = cycles[j].key.occ
    BY <2>1 DEF OneTriggerPerInstant
  <2> QED BY <2>2 DEF MatchInv, CyclesMatch, CyclesKeyed
<1> QED BY <1>1, MatchInvariant, MissionTriggeredOnce, PTL

-----------------------------------------------------------------------------
LEMMA TellsIsAll == OccurrenceTellsCycle <=> \A k \in 1 .. Len(occs) : Tells(k)
BY DEF OccurrenceTellsCycle

LEMMA TellsIsAllNext ==
    OccurrenceTellsCycle' <=> \A k \in 1 .. Len(occs') : Tells(k)'
BY DEF OccurrenceTellsCycle

\* A step that changes neither the cycles nor the status of the occurrence.
LEMMA TellsOn ==
    ASSUME NEW k, Tells(k), cycles' = cycles, occs'[k] = occs[k]
    PROVE  Tells(k)'
BY DEF Tells, CyclesOf

LEMMA MissionStepTells ==
    ASSUME MatchInv, OccurrenceTellsCycle, NEW p \in Procs, MissionStep(p)
    PROVE  OccurrenceTellsCycle'
<1>0. /\ task \in [Procs -> Tasks] /\ Staged(p) /\ Held(p) /\ Fresh(p)
      /\ Len(cycles) \in Nat /\ Len(occs) \in Nat /\ cycles \in Seq(Cycles)
      /\ occs \in Seq(Occurrences)
      /\ p \in Tickers /\ task[p].op = "cycle" =>
            tick[p].occ \in 1 .. Len(occs) /\ occs[tick[p].occ].status = "RUNNING"
  BY DEF MatchInv, IInv, MissionTypeOK, SchedInv, SchedTypeOK, CyclesMatch, Staged,
     TicksFollow, RunningCounted, Triggering
<1>1. occs' = occs
  BY DEF MissionStep, StartOp, SaveOp, EditSchedule, ScheduleEdited, BeginCycle,
     ReturnExisting, NoExisting, RecordCycle, CompleteCycle, StopDisables, StopDisabled,
     CountCycle, StartEdit, SaveEnabled, SaveDisabled, schedVars
<1>2. CASE cycles' = cycles
  BY <1>1, <1>2, TellsOn, TellsIsAll, TellsIsAllNext
<1>3. ASSUME RecordCycle(p), NEW k \in 1 .. Len(occs) PROVE Tells(k)'
  <2> DEFINE n == Len(cycles) + 1
             o == IF p \in Tickers THEN tick[p].occ ELSE 0
  <2>1. /\ Len(cycles') = n /\ cycles'[n].key.occ = o /\ task[p].op = "cycle"
        /\ \A i \in 1 .. Len(cycles) : cycles'[i] = cycles[i]
    BY <1>0, <1>3 DEF RecordCycle, At, KeyOf
  <2>2. Tells(k)
    BY TellsIsAll
  <2>3. CASE k = o
    <3>1. occs'[k].status = "RUNNING"
      BY <1>0, <1>1, <2>1, <2>3
    <3> QED BY <3>1 DEF Tells, CycleResults
  <2>4. CASE k # o
    <3>1. CyclesOf(k)' = CyclesOf(k) /\ CyclesOf(k) \subseteq 1 .. Len(cycles)
      BY <1>0, <2>1, <2>4 DEF CyclesOf
    <3> QED BY <1>1, <2>1, <2>2, <3>1 DEF Tells
  <2> QED BY <2>3, <2>4
<1>4. ASSUME NEW result \in CycleResults, CompleteCycle(p, result),
             NEW k \in 1 .. Len(occs)
      PROVE  Tells(k)'
  <2> DEFINE n == task[p].cycle
             o == IF p \in Tickers THEN tick[p].occ ELSE 0
  <2>1. /\ cycles' = [cycles EXCEPT ![n].status = result]
        /\ task[p].op = "cycle" /\ Holding(p)
    BY <1>4 DEF CompleteCycle, At, Holding, HoldStages
  <2>2. n \in 1 .. Len(cycles) /\ cycles[n].key.occ = o /\ cycles[n] \in Cycles
    BY <1>0, <2>1 DEF Held
  <2>3. /\ Len(cycles') = Len(cycles)
        /\ \A i \in 1 .. Len(cycles) : /\ cycles'[i].key = cycles[i].key
                                       /\ i # n => cycles'[i] = cycles[i]
    BY <1>0, <2>1, <2>2 DEF Cycles
  <2>4. Tells(k) /\ CyclesOf(k)' = CyclesOf(k) /\ CyclesOf(k) \subseteq 1 .. Len(cycles)
    BY <2>3, TellsIsAll DEF CyclesOf
  <2>5. CASE k = o
    <3>1. occs'[k].status = "RUNNING"
      BY <1>0, <1>1, <2>1, <2>5
    <3> QED BY <3>1 DEF Tells, CycleResults
  <2>6. CASE k # o
    <3>1. n \notin CyclesOf(k)
      BY <2>2, <2>6 DEF CyclesOf
    <3> QED BY <1>1, <2>3, <2>4, <3>1 DEF Tells
  <2> QED BY <2>5, <2>6
<1>5. ASSUME cycles' # cycles
      PROVE  RecordCycle(p) \/ \E result \in CycleResults : CompleteCycle(p, result)
  BY <1>5 DEF MissionStep, StartOp, SaveOp, EditSchedule, ScheduleEdited, BeginCycle,
     ReturnExisting, NoExisting, StopDisables, StopDisabled, CountCycle
<1> QED BY <1>1, <1>2, <1>3, <1>4, <1>5, TellsIsAllNext

LEMMA NextTells ==
    ASSUME MatchInv, OccurrenceTellsCycle, [Next]_vars
    PROVE  OccurrenceTellsCycle'
<1>0. /\ Len(occs) \in Nat /\ occs \in Seq(Occurrences) /\ Tickers \subseteq Procs
      /\ \A k \in 1 .. Len(occs) : Tells(k)
  BY TellsIsAll DEF MatchInv, IInv, SchedInv, SchedTypeOK, Procs
<1>1. ASSUME UNCHANGED <<cycles, occs>> PROVE OccurrenceTellsCycle'
  BY <1>0, <1>1, TellsOn, TellsIsAllNext
<1>2. ASSUME NEW w \in Tickers, RecordRunning(w), cycles' = cycles
      PROVE  OccurrenceTellsCycle'
  <2>1. /\ Len(occs') = Len(occs) + 1 /\ occs'[Len(occs) + 1].status = "RUNNING"
        /\ \A k \in 1 .. Len(occs) : occs'[k] = occs[k]
    BY <1>0, <1>2 DEF RecordRunning
  <2>2. ASSUME NEW k, k = Len(occs) + 1 PROVE Tells(k)'
    BY <2>1, <2>2 DEF Tells, CycleResults
  <2>3. \A k \in 1 .. Len(occs) : Tells(k)'
    BY <1>0, <1>2, <2>1, TellsOn
  <2> QED BY <1>0, <2>1, <2>2, <2>3, TellsIsAllNext
<1>3. ASSUME NEW w \in Tickers, NEW r, NEW b \in BOOLEAN,
             TriggerEnds(w, r, b), cycles' = cycles,
             r = "SKIPPED" => \A i \in CyclesOf(tick[w].occ) : cycles[i].status = r,
             r # "SKIPPED" /\ b => \E i \in CyclesOf(tick[w].occ) : cycles[i].status = r,
             ~b => r = "FAILED"
      PROVE  OccurrenceTellsCycle'
  <2> PICK n : n = tick[w].occ
    OBVIOUS
  <2>1. n \in 1 .. Len(occs) /\ occs[n] \in Occurrences
    BY <1>0, <1>3 DEF TriggerEnds, MatchInv, IInv, SchedInv, TicksFollow
  <2>2. /\ Len(occs') = Len(occs) /\ occs'[n].status = r /\ occs'[n].named = b
        /\ \A k \in 1 .. Len(occs) : k # n => occs'[k] = occs[k]
    BY <1>0, <1>3, <2>1 DEF TriggerEnds, Occurrences
  <2>3. Tells(n)'
    BY <1>3, <2>2 DEF Tells, CyclesOf, CycleResults
  <2>4. \A k \in 1 .. Len(occs) : Tells(k)'
    BY <1>0, <1>3, <2>2, <2>3, TellsOn
  <2> QED BY <2>2, <2>4, TellsIsAllNext
<1>4. ASSUME NEW w \in Tickers, SkipCycle(w) PROVE OccurrenceTellsCycle'
  <2>1. CyclesOf(tick[w].occ) = {}
    BY <1>0, <1>4 DEF SkipCycle, TriggerReturns, TriggerEnds, MatchInv, CyclesMatch, Fresh,
       Holding, CyclesOf
  <2>2. TriggerEnds(w, "SKIPPED", TRUE) /\ cycles' = cycles
    BY <1>4 DEF SkipCycle, TriggerReturns, missionVars
  <2> QED BY <1>3, <2>1, <2>2
<1>5. ASSUME NEW w \in Tickers, CycleReturns(w) PROVE OccurrenceTellsCycle'
  <2>1. Holding(w) /\ Ended(w) /\ Held(w)
    BY <1>0, <1>5 DEF CycleReturns, At, Holding, HoldStages, Ended, MatchInv, CyclesMatch
  <2>2. /\ task[w].cycle \in CyclesOf(tick[w].occ)
        /\ cycles[task[w].cycle].status = task[w].result
    BY <2>1 DEF Held, CyclesOf
  <2>3. TriggerEnds(w, task[w].result, TRUE) /\ cycles' = cycles
    BY <1>5 DEF CycleReturns, TriggerReturns
  <2>4. tick[w].occ # 0
    BY <1>0, <2>3 DEF TriggerEnds, MatchInv, IInv, SchedInv, TicksFollow
  <2>5. \A i \in CyclesOf(tick[w].occ) : i = task[w].cycle
    BY <2>2, <2>4 DEF CyclesOf, MatchInv, CyclesMatch, CyclesKeyed
  <2>6. /\ \A i \in CyclesOf(tick[w].occ) : cycles[i].status = task[w].result
        /\ \E i \in CyclesOf(tick[w].occ) : cycles[i].status = task[w].result
    BY <2>2, <2>5
  <2> QED BY <1>3, <2>3, <2>6
<1>6. ASSUME NEW w \in Tickers, TickOutside(w) PROVE OccurrenceTellsCycle'
  <2>1. cycles' = cycles /\ (RecordRunning(w) \/ occs' = occs)
    BY <1>6 DEF TickOutside, missionVars, StartTick, ListDue, SkipRecorded,
       CheckUnrecorded, AdvanceSchedule
  <2> QED BY <1>1, <1>2, <2>1
<1>7. ASSUME \/ \E p \in Procs : CrashTask(p)
             \/ SchedTime /\ UNCHANGED missionVars
             \/ UNCHANGED vars
      PROVE  UNCHANGED <<cycles, occs>>
  BY <1>7 DEF CrashTask, Crash, SchedTime, missionVars, vars, schedVars
<1>8. ASSUME NEW p \in Procs, MissionStep(p) PROVE OccurrenceTellsCycle'
  BY <1>8, MissionStepTells
<1>9. ASSUME NEW w \in Tickers, CycleRaises(w) PROVE OccurrenceTellsCycle'
  <2>1. TriggerEnds(w, "FAILED", FALSE) /\ cycles' = cycles
    BY <1>9 DEF CycleRaises, TriggerRaises
  <2> QED BY <1>3, <2>1
<1>10. ASSUME NEW w \in Tickers, DisableRaises(w) PROVE UNCHANGED <<cycles, occs>>
  BY <1>10 DEF DisableRaises, EditRaises
<1> QED BY <1>1, <1>4, <1>5, <1>6, <1>7, <1>8, <1>9, <1>10 DEF Next

(***************************************************************************)
(* The status of an occurrence is that of its cycle, SKIPPED included, for *)
(* any number of tickers and callers; a FAILED one that names no cycle     *)
(* says only that its trigger raised.                                      *)
(***************************************************************************)
THEOREM OccurrencesTell == Spec => []OccurrenceTellsCycle
<1>1. Init => OccurrenceTellsCycle
  BY DEF Init, SchedInit, OccurrenceTellsCycle
<1>2. MatchInv /\ OccurrenceTellsCycle /\ [Next]_vars => OccurrenceTellsCycle'
  BY NextTells
<1> QED BY <1>1, <1>2, MatchInvariant, PTL DEF Spec

-----------------------------------------------------------------------------
Completed == {i \in 1 .. Len(cycles) : cycles[i].status # "RUNNING"}

\* What the mission will count at least, once process p has saved its copy.
Owed(p) == task[p].snap.count + (IF Ended(p) THEN 1 ELSE 0)

\* Neither the mission nor a copy that is still to be saved is ahead of the
\* completed cycles, and the cycle that p has completed is not in its copy.
CountsBehind ==
    /\ mission.count <= Cardinality(Completed)
    /\ \A p \in Procs : Owed(p) <= Cardinality(Completed)

LEMMA CompletedFinite ==
    ASSUME MatchInv
    PROVE  IsFiniteSet(Completed) /\ Cardinality(Completed) \in Nat
<1>1. Len(cycles) \in Nat /\ Completed \subseteq 1 .. Len(cycles)
  BY DEF MatchInv, IInv, MissionTypeOK, Completed
<1>2. IsFiniteSet(1 .. Len(cycles))
  BY <1>1, FS_Interval
<1> QED BY <1>1, <1>2, FS_Subset, FS_CardinalityType

\* A step of p that completes nothing, saves what is counted, or nothing.
LEMMA QuietCounts ==
    ASSUME MatchInv, CountsBehind, NEW p \in Procs, Completed' = Completed,
           mission'.count <= Cardinality(Completed),
           \A q \in Procs \ {p} : task'[q] = task[q],
           Owed(p)' <= Cardinality(Completed)
    PROVE  CountsBehind'
<1>1. \A q \in Procs \ {p} : Owed(q)' = Owed(q)
  BY DEF Owed, Ended, Holding
<1> QED BY <1>1 DEF CountsBehind

LEMMA CompleteCounts ==
    ASSUME MatchInv, CountsBehind, NEW p \in Procs, NEW result \in CycleResults,
           CompleteCycle(p, result)
    PROVE  CountsBehind'
<1> DEFINE N == Cardinality(Completed)
<1>0. /\ task \in [Procs -> Tasks] /\ task[p].snap \in Missions /\ Held(p)
      /\ Len(cycles) \in Nat /\ cycles \in Seq(Cycles) /\ mission \in Missions
      /\ \A q \in Procs : task[q].snap.count \in Nat
  BY DEF MatchInv, IInv, MissionTypeOK, CyclesMatch, Tasks, Missions
<1> DEFINE n == task[p].cycle
<1>1. /\ cycles' = [cycles EXCEPT ![n].status = result] /\ mission' = mission
      /\ \A q \in Procs \ {p} : task'[q] = task[q]
      /\ Holding(p) /\ ~Ended(p) /\ Ended(p)' /\ task'[p].snap = task[p].snap
  BY <1>0 DEF CompleteCycle, At, Holding, HoldStages, Ended, Tasks
<1>2. n \in 1 .. Len(cycles) /\ cycles[n].status = "RUNNING" /\ cycles[n] \in Cycles
  BY <1>0, <1>1 DEF Held
<1>3. Completed' = Completed \cup {n} /\ n \notin Completed
  <2>1. result # "RUNNING"
    BY DEF CycleResults
  <2>2. /\ Len(cycles') = Len(cycles) /\ cycles'[n].status = result
        /\ \A i \in 1 .. Len(cycles) : i # n => cycles'[i] = cycles[i]
    BY <1>0, <1>1, <1>2 DEF Cycles
  <2> QED BY <1>2, <2>1, <2>2 DEF Completed
<1>4. Cardinality(Completed)' = N + 1 /\ N \in Nat
  BY <1>3, CompletedFinite, FS_AddElement
<1>5. ASSUME NEW q \in Procs PROVE Owed(q)' <= N + 1
  <2>1. Owed(q) <= N /\ task[q].snap.count \in Nat
    BY <1>0 DEF CountsBehind
  <2>2. CASE q = p
    BY <1>1, <1>4, <2>1, <2>2 DEF Owed
  <2>3. CASE q # p
    <3>1. Owed(q)' = Owed(q) /\ Owed(q) \in Nat
      BY <1>1, <2>1, <2>3 DEF Owed, Ended, Holding
    <3> QED BY <1>4, <2>1, <3>1
  <2> QED BY <2>2, <2>3
<1>6. mission'.count <= N + 1
  BY <1>0, <1>1, <1>4 DEF CountsBehind, Missions
<1> QED BY <1>4, <1>5, <1>6 DEF CountsBehind

LEMMA MissionStepCounts ==
    ASSUME MatchInv, CountsBehind, NEW p \in Procs, MissionStep(p)
    PROVE  CountsBehind'
<1> DEFINE N == Cardinality(Completed)
<1>0. /\ task \in [Procs -> Tasks] /\ task[p] \in Tasks /\ task[p].snap \in Missions
      /\ Staged(p) /\ Len(cycles) \in Nat /\ cycles \in Seq(Cycles)
      /\ mission \in Missions /\ mission.count \in Nat /\ task[p].snap.count \in Nat
      /\ N \in Nat /\ mission.count <= N /\ Owed(p) <= N /\ NoTask.snap.count = 0
      /\ NoTask.op = "none"
  BY SMTT(40), CompletedFinite DEF MatchInv, IInv, MissionTypeOK, CyclesMatch, Tasks, Missions,
     CountsBehind, NoTask, NewMission
<1> HIDE DEF N
<1>1. ASSUME \/ \E op \in {"start", "pause", "stop"} : StartOp(p, op)
             \/ BeginCycle(p)
      PROVE  CountsBehind'
  <2>1. /\ UNCHANGED <<mission, cycles>> /\ \A q \in Procs \ {p} : task'[q] = task[q]
        /\ task'[p].snap = mission /\ task'[p].stage \in {"save", "check"}
    BY ZenonT(40), <1>0, <1>1 DEF StartOp, BeginCycle, Begin, NoTask, Procs
  <2>2. Owed(p)' = mission.count
    BY <1>0, <2>1 DEF Owed, Ended, Holding, HoldStages
  <2> QED BY <1>0, <2>1, <2>2, QuietCounts DEF Completed, N
<1>2. ASSUME SaveOp(p) PROVE CountsBehind'
  <2>1. /\ cycles' = cycles /\ \A q \in Procs \ {p} : task'[q] = task[q]
        /\ mission'.count = task[p].snap.count
        /\ task'[p].snap = task[p].snap /\ task'[p].stage = "edit"
    BY <1>0, <1>2 DEF SaveOp, Move, Missions, Tasks
  <2>2. Owed(p)' = task[p].snap.count /\ task[p].snap.count <= N
    BY <1>0, <2>1 DEF Owed, Ended, Holding, HoldStages
  <2> QED BY <1>0, <2>1, <2>2, QuietCounts DEF Completed, N
<1>3. ASSUME EditSchedule(p) \/ NoExisting(p) \/ StopDisables(p) \/ StopDisabled(p)
      PROVE  CountsBehind'
  <2>1. /\ UNCHANGED <<mission, cycles>> /\ \A q \in Procs \ {p} : task'[q] = task[q]
        /\ task'[p].snap = task[p].snap
        /\ Ended(p)' <=> Ended(p)
    <3>1. CASE EditSchedule(p) \/ NoExisting(p)
      <4>1. /\ UNCHANGED <<mission, cycles>>
            /\ \E stage \in {"editing", "record"} : task' = [task EXCEPT ![p].stage = stage]
            /\ task[p].stage \in {"edit", "check"}
        BY <3>1 DEF EditSchedule, NoExisting, At, Move
      <4> QED BY <1>0, <4>1 DEF Ended, Holding, HoldStages, Tasks
    <3>2. CASE StopDisables(p) \/ StopDisabled(p)
      <4>1. /\ UNCHANGED <<mission, cycles>> /\ task[p].op = "cycle"
            /\ \E stage \in {"disabling", "count"} : task' = [task EXCEPT ![p].stage = stage]
            /\ task[p].stage \in {"disable", "disabling"}
        BY <3>2 DEF StopDisables, StopDisabled, At, Move
      <4> QED BY <1>0, <4>1 DEF Ended, Holding, HoldStages, Tasks
    <3> QED BY <1>3, <3>1, <3>2
  <2>2. Owed(p)' = Owed(p)
    BY <2>1 DEF Owed
  <2> QED BY <1>0, <2>1, <2>2, QuietCounts DEF Completed, N
<1>4. ASSUME ScheduleEdited(p) \/ ReturnExisting(p) PROVE CountsBehind'
  <2>1. /\ UNCHANGED <<mission, cycles>> /\ task' = [task EXCEPT ![p] = NoTask]
    BY <1>4 DEF ScheduleEdited, ReturnExisting, Done
  <2>2. Owed(p)' = 0
    BY <1>0, <2>1 DEF Owed, Ended, Holding
  <2> QED BY <1>0, <2>1, <2>2, QuietCounts DEF Completed, N
<1>5. ASSUME RecordCycle(p) PROVE CountsBehind'
  <2>1. /\ mission' = mission /\ \A q \in Procs \ {p} : task'[q] = task[q]
        /\ task'[p].snap = task[p].snap /\ task'[p].stage = "run"
    BY <1>0, <1>5 DEF RecordCycle, Tasks
  <2>2. /\ Len(cycles') = Len(cycles) + 1 /\ cycles'[Len(cycles) + 1].status = "RUNNING"
        /\ \A i \in 1 .. Len(cycles) : cycles'[i] = cycles[i]
    BY <1>0, <1>5 DEF RecordCycle
  <2>3. Completed' = Completed
    BY <1>0, <2>2 DEF Completed
  <2>4. Owed(p)' <= N
    BY <1>0, <2>1 DEF Owed, Ended
  <2> QED BY <1>0, <2>1, <2>3, <2>4, QuietCounts DEF N
<1>6. ASSUME CountCycle(p) PROVE CountsBehind'
  <2>1. /\ cycles' = cycles /\ Ended(p) /\ mission'.count = task[p].snap.count + 1
        /\ \A q \in Procs \ {p} : task'[q] = task[q]
    BY <1>0, <1>6 DEF CountCycle, AfterCycle, At, Ended, Holding, HoldStages, Move, Done
  <2>2. mission'.count = Owed(p)
    BY <2>1 DEF Owed
  <2>3. Owed(p)' <= N
    <3>1. CASE p \in Tickers
      <4>1. task' = [task EXCEPT ![p].stage = "return"]
        BY <1>6, <3>1 DEF CountCycle, Move
      <4>2. task'[p].snap = task[p].snap
        BY <1>0, <4>1 DEF Tasks
      <4> QED BY <1>0, <2>1, <4>2 DEF Owed
    <3>2. CASE p \notin Tickers
      <4>1. task'[p] = NoTask
        BY <1>0, <1>6, <3>2 DEF CountCycle, Done
      <4> QED BY <1>0, <4>1 DEF Owed, Ended, Holding
    <3> QED BY <3>1, <3>2
  <2> QED BY <1>0, <2>1, <2>2, <2>3, QuietCounts DEF Completed, N
<1> QED BY <1>1, <1>2, <1>3, <1>4, <1>5, <1>6, CompleteCounts DEF MissionStep

LEMMA NextCounts ==
    ASSUME MatchInv, CountsBehind, [Next]_vars
    PROVE  CountsBehind'
<1>0. /\ task \in [Procs -> Tasks] /\ Tickers \subseteq Procs
      /\ NoTask.snap.count = 0 /\ NoTask.op = "none"
      /\ Cardinality(Completed) \in Nat
  BY CompletedFinite DEF MatchInv, IInv, MissionTypeOK, NoTask, NewMission, Procs
<1>1. ASSUME NEW p \in Procs, Done(p), UNCHANGED <<mission, cycles>>
      PROVE  CountsBehind'
  <2>1. Owed(p)' = 0 /\ \A q \in Procs \ {p} : task'[q] = task[q]
    BY <1>0, <1>1 DEF Done, Owed, Ended, Holding
  <2> QED BY <1>0, <1>1, <2>1, QuietCounts DEF Completed, CountsBehind
<1>2. ASSUME UNCHANGED missionVars PROVE CountsBehind'
  BY <1>2 DEF missionVars, CountsBehind, Owed, Ended, Holding, Completed
<1>3. ASSUME NEW p \in Procs, MissionStep(p) PROVE CountsBehind'
  BY <1>3, MissionStepCounts
<1>4. ASSUME NEW p \in Procs, CrashTask(p) PROVE CountsBehind'
  BY <1>1, <1>4 DEF CrashTask
<1>5. ASSUME NEW w \in Tickers, CycleReturns(w) \/ CycleRaises(w) PROVE CountsBehind'
  BY <1>0, <1>1, <1>5 DEF CycleReturns, CycleRaises
<1>7. ASSUME NEW w \in Tickers, DisableRaises(w) PROVE CountsBehind'
  <2>1. /\ UNCHANGED <<mission, cycles>> /\ task' = [task EXCEPT ![w].stage = "raised"]
        /\ task[w].op = "cycle" /\ task[w].stage = "disabling" /\ task[w] \in Tasks
    BY <1>0, <1>7 DEF DisableRaises, At, Move
  <2>2. Owed(w)' = Owed(w) /\ \A q \in Procs \ {w} : task'[q] = task[q]
    BY <1>0, <2>1 DEF Owed, Ended, Holding, HoldStages, Tasks
  <2> QED BY <1>0, <2>1, <2>2, QuietCounts DEF Completed, CountsBehind
<1>6. ASSUME \/ \E w \in Tickers : TickOutside(w) \/ SkipCycle(w)
             \/ SchedTime /\ UNCHANGED missionVars
             \/ UNCHANGED vars
      PROVE  UNCHANGED missionVars
  BY <1>6 DEF TickOutside, SkipCycle, vars
<1> QED BY <1>2, <1>3, <1>4, <1>5, <1>6, <1>7 DEF Next

(***************************************************************************)
(* cycle_count never counts a cycle that is not on file and completed,     *)
(* whatever stale copies of the mission are saved: each copy is behind the *)
(* completed cycles by the one its process has still to count.             *)
(***************************************************************************)
THEOREM CountsOnlyCompleted == Spec => []CountedWereCompleted
<1>1. Init => CountsBehind
  <2> SUFFICES ASSUME Init PROVE CountsBehind
    OBVIOUS
  <2>1. Completed = {} /\ mission.count = 0
    BY DEF Init, Completed, NewMission
  <2>2. \A p \in Procs : Owed(p) = 0
    BY DEF Init, Owed, Ended, Holding, NoTask, NewMission
  <2> QED BY <2>1, <2>2, FS_EmptySet DEF CountsBehind
<1>2. MatchInv /\ CountsBehind /\ [Next]_vars => CountsBehind'
  BY NextCounts
<1>3. CountsBehind => CountedWereCompleted
  BY DEF CountsBehind, CountedWereCompleted, Completed
<1> QED BY <1>1, <1>2, <1>3, MatchInvariant, PTL DEF Spec
=============================================================================
