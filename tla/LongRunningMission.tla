------------------------- MODULE LongRunningMission -------------------------
(***************************************************************************)
(* Long-running missions (R.6): LongRunningMissionService for one mission, *)
(* on top of the lease manager (MissionLease) and the checkpoint           *)
(* repository.                                                             *)
(*                                                                         *)
(* The service holds no lock: create_checkpoint, pause_mission,            *)
(* resume_mission and record_heartbeat are sequences of reads and writes   *)
(* of the manager and the repository, each of which locks for itself, and  *)
(* the threads of several workers interleave between them.  pc[t] is where *)
(* thread t is in its call and loc[t] what it has read.  A call that is    *)
(* refused before it has written anything leaves no trace, so it is not an *)
(* action; that covers the refusals of resume_mission by policy, tenant,   *)
(* corruption and emergency stop.                                          *)
(*                                                                         *)
(* The service looks the mission up with get_mission and stores it with    *)
(* save_mission; TenantMissionRepositoryPort and its one implementation    *)
(* call them get_by_id and save.  The AttributeError is swallowed, so the  *)
(* mission is never found and never written.                               *)
(***************************************************************************)
EXTENDS MissionLease, Sequences

CONSTANTS
    MaxCheckpoints, \* bound: checkpoints in the history
    Reports,        \* what a worker may report of its budget
    NoCheckpoint    \* nothing loaded

VARIABLES
    pc,             \* where each thread is in its service call
    loc,            \* what the call of each thread has read
    cps,            \* the checkpoint history on disk
    mission,        \* the status of the mission in the mission repository
    heartbeat       \* the last heartbeat recorded, in memory

serviceVars == <<pc, loc, cps, mission, heartbeat>>
vars == <<leaseVars, serviceVars>>

MissionStatuses == {"RUNNING", "PAUSED", "COMPLETED"}

\* MissionCheckpoint: cost and quota are carried along like the tokens; what
\* is left of the budget matters only as unknown, some, or none.
Remainders == {"unknown", "left", "exhausted"}

Checkpoints == [version : Nat, status : MissionStatuses, used : Nat,
                rem : Remainders, by : Workers]

Ops == {"none", "checkpoint", "complete", "pause", "resume", "heartbeat"}

Locals == [op : Ops, id : LeaseIds \cup {NoId}, version : Versions \cup {0},
           until : Nat, cp : Checkpoints \cup {NoCheckpoint}]

Labels == {"idle", "check", "load", "save", "repo", "release", "releasing",
           "acquire", "acquiring", "renew", "renewing", "record"}

NoLocals == [op |-> "none", id |-> NoId, version |-> 0, until |-> 0,
             cp |-> NoCheckpoint]

ASSUME ServiceAssumption ==
    /\ MaxCheckpoints \in Nat
    /\ Reports \subseteq [used : Nat, rem : Remainders]
    /\ NoCheckpoint \notin Checkpoints

ServiceTypeOK ==
    /\ pc \in [Threads -> Labels]
    /\ loc \in [Threads -> Locals]
    /\ cps \in Seq(Checkpoints)
    /\ mission \in MissionStatuses
    /\ heartbeat \in [worker : Workers, until : Nat] \cup {NoLease}

TypeOK == LeaseTypeOK /\ ServiceTypeOK

Init ==
    /\ LeaseInit
    /\ pc = [t \in Threads |-> "idle"]
    /\ loc = [t \in Threads |-> NoLocals]
    /\ cps = <<>>
    /\ mission = "RUNNING"
    /\ heartbeat = NoLease

-----------------------------------------------------------------------------
Latest == cps[Len(cps)]

LatestVersion == IF cps = <<>> THEN 0 ELSE Latest.version

\* MissionCheckpoint.is_terminal (FAILED and ABORTED behave like COMPLETED)
IsTerminal(cp) == cp.status = "COMPLETED"

Goto(t, label) == pc' = [pc EXCEPT ![t] = label]

Finish(t) == /\ Goto(t, "idle")
             /\ loc' = [loc EXCEPT ![t] = NoLocals]

\* create_checkpoint refuses while another worker's lease is live.  (It reads
\* the clock before the lease; an older reading only refuses more.)
MayCheckpoint(t) == ~(IsLive(lease, now) /\ lease.worker # WorkerOf[t])

-----------------------------------------------------------------------------
\* create_checkpoint, called by a worker, with the status it passes:
\* none, or COMPLETED when the mission is over.
StartCheckpoint(t, op) ==
    /\ pc[t] = "idle"
    /\ MayCheckpoint(t)
    /\ Goto(t, "load")
    /\ loc' = [loc EXCEPT ![t].op = op]
    /\ UNCHANGED <<leaseVars, cps, mission, heartbeat>>

\* override_status, else the status of the latest checkpoint, else RUNNING.
StatusFor(op) ==
    CASE op = "pause" -> "PAUSED"
      [] op = "complete" -> "COMPLETED"
      [] OTHER -> IF cps = <<>> THEN "RUNNING" ELSE Latest.status

\* The defaults of the budget parameters, which pause_mission leaves alone.
NoReport == [used |-> 0, rem |-> "unknown"]

\* Wrong on purpose: the report of the worker replaces what was recorded.
LoadFreshBudget(t, report) ==
    /\ pc[t] = "load"
    /\ Len(cps) < MaxCheckpoints
    /\ report \in IF loc[t].op = "pause" THEN {NoReport} ELSE Reports
    /\ loc' = [loc EXCEPT ![t].cp =
             [version |-> LatestVersion + 1, status |-> StatusFor(loc[t].op),
              used |-> report.used, rem |-> report.rem, by |-> WorkerOf[t]]]
    /\ Goto(t, "save")
    /\ UNCHANGED <<leaseVars, cps, mission, heartbeat>>

\* The latest checkpoint is read and the next one is built from it and from
\* the consumption the worker reports.
LoadLatest(t, report) ==
    /\ pc[t] = "load"
    /\ Len(cps) < MaxCheckpoints
    /\ report \in IF loc[t].op = "pause" THEN {NoReport} ELSE Reports
    /\ LET before == IF cps = <<>> THEN 0 ELSE Latest.used
           known  == IF cps = <<>> THEN "unknown" ELSE Latest.rem
       IN loc' = [loc EXCEPT ![t].cp =
             [version |-> LatestVersion + 1,
              status  |-> StatusFor(loc[t].op),
              used    |-> IF report.used >= before THEN report.used ELSE before,
              rem     |-> IF report.rem = "unknown" THEN known ELSE report.rem,
              by      |-> WorkerOf[t]]]
    /\ Goto(t, "save")
    /\ UNCHANGED <<leaseVars, cps, mission, heartbeat>>

\* Wrong on purpose: the version is not compared.
SaveUnchecked(t) ==
    /\ pc[t] = "save"
    /\ cps' = Append(cps, loc[t].cp)
    /\ IF loc[t].op = "pause"
       THEN Goto(t, "repo") /\ UNCHANGED loc
       ELSE Finish(t)
    /\ UNCHANGED <<leaseVars, mission, heartbeat>>

\* save_checkpoint: the version must be above the latest one, which is what
\* makes the read of LoadLatest and this write one compare-and-swap.
SaveCheckpoint(t) ==
    /\ pc[t] = "save"
    /\ loc[t].cp.version > LatestVersion
    /\ cps' = Append(cps, loc[t].cp)
    /\ IF loc[t].op = "pause"
       THEN Goto(t, "repo") /\ UNCHANGED loc
       ELSE Finish(t)
    /\ UNCHANGED <<leaseVars, mission, heartbeat>>

\* StaleCheckpointError
SaveRefused(t) ==
    /\ pc[t] = "save"
    /\ loc[t].cp.version <= LatestVersion
    /\ Finish(t)
    /\ UNCHANGED <<leaseVars, cps, mission, heartbeat>>

-----------------------------------------------------------------------------
\* pause_mission: its own check refuses whenever another worker's lease has
\* not run out, whatever its status.
StartPause(t) ==
    /\ pc[t] = "idle"
    /\ ~(lease # NoLease /\ ~IsExpired(lease, now) /\ lease.worker # WorkerOf[t])
    /\ Goto(t, "check")
    /\ loc' = [loc EXCEPT ![t] = [@ EXCEPT !.op = "pause", !.id = IdOf(lease)]]
    /\ UNCHANGED <<leaseVars, cps, mission, heartbeat>>

\* create_checkpoint reads the lease again.
PauseCheck(t) ==
    /\ pc[t] = "check"
    /\ IF MayCheckpoint(t) THEN Goto(t, "load") /\ UNCHANGED loc ELSE Finish(t)
    /\ UNCHANGED <<leaseVars, cps, mission, heartbeat>>

\* The update of the mission repository fails silently.
PauseInRepository(t) ==
    /\ pc[t] = "repo"
    /\ IF loc[t].id = NoId THEN Finish(t) ELSE Goto(t, "release") /\ UNCHANGED loc
    /\ UNCHANGED <<leaseVars, cps, mission, heartbeat>>

PauseCallRelease(t) ==
    /\ pc[t] = "release"
    /\ CallRelease(t, loc[t].id)
    /\ Goto(t, "releasing")
    /\ UNCHANGED <<loc, cps, mission, heartbeat>>

PauseRelease(t) ==
    /\ pc[t] = "releasing"
    /\ Release(t) \/ ReleaseRefused(t)
    /\ Finish(t)
    /\ UNCHANGED <<cps, mission, heartbeat>>

-----------------------------------------------------------------------------
\* resume_mission: the checkpoint must exist, be resumable and have budget
\* left.  The lease takes its version from the assignments, any of Versions.
StartResume(t) ==
    /\ pc[t] = "idle"
    /\ cps # <<>>
    /\ ~IsTerminal(Latest)
    /\ Latest.rem # "exhausted"
    /\ Goto(t, "acquire")
    /\ loc' = [loc EXCEPT ![t].op = "resume"]
    /\ UNCHANGED <<leaseVars, cps, mission, heartbeat>>

ResumeCallAcquire(t) ==
    /\ pc[t] = "acquire"
    /\ \E v \in Versions : CallAcquire(t, v)
    /\ Goto(t, "acquiring")
    /\ UNCHANGED <<loc, cps, mission, heartbeat>>

ResumeConflict(t) ==
    /\ pc[t] = "acquiring"
    /\ AcquireConflict(t)
    /\ Finish(t)
    /\ UNCHANGED <<cps, mission, heartbeat>>

\* GRANTED; setting the mission to RUNNING in the repository fails silently.
ResumeGranted(t) ==
    /\ pc[t] = "acquiring"
    /\ AcquireConfirm(t) \/ AcquireNew(t)
    /\ Finish(t)
    /\ UNCHANGED <<cps, mission, heartbeat>>

-----------------------------------------------------------------------------
\* record_heartbeat
StartHeartbeat(t) ==
    /\ pc[t] = "idle"
    /\ lease # NoLease
    /\ ~IsExpired(lease, now)
    /\ lease.worker = WorkerOf[t]
    /\ Goto(t, "renew")
    /\ loc' = [loc EXCEPT ![t] = [@ EXCEPT !.op = "heartbeat", !.id = IdOf(lease),
                                           !.version = lease.version]]
    /\ UNCHANGED <<leaseVars, cps, mission, heartbeat>>

HeartbeatCallRenew(t) ==
    /\ pc[t] = "renew"
    /\ CallRenew(t, loc[t].id, loc[t].version)
    /\ Goto(t, "renewing")
    /\ UNCHANGED <<loc, cps, mission, heartbeat>>

HeartbeatRefused(t) ==
    /\ pc[t] = "renewing"
    /\ RenewRefused(t) \/ RenewExpired(t)
    /\ Finish(t)
    /\ UNCHANGED <<cps, mission, heartbeat>>

HeartbeatRenewed(t) ==
    /\ pc[t] = "renewing"
    /\ Renew(t)
    /\ Goto(t, "record")
    /\ loc' = [loc EXCEPT ![t].until = lease'.expires]
    /\ UNCHANGED <<cps, mission, heartbeat>>

\* The heartbeat manager keeps the last record it is given.
RecordHeartbeat(t) ==
    /\ pc[t] = "record"
    /\ heartbeat' = [worker |-> WorkerOf[t], until |-> loc[t].until]
    /\ Finish(t)
    /\ UNCHANGED <<leaseVars, cps, mission>>

-----------------------------------------------------------------------------
\* Checkpoints and missions are on disk, leases, heartbeats and calls are not.
ServiceRestart ==
    /\ Restart
    /\ pc' = [t \in Threads |-> "idle"]
    /\ loc' = [t \in Threads |-> NoLocals]
    /\ heartbeat' = NoLease
    /\ UNCHANGED <<cps, mission>>

Time == Tick /\ UNCHANGED serviceVars

ServiceStep(t) ==
    \/ \E op \in {"checkpoint", "complete"} : StartCheckpoint(t, op)
    \/ \E report \in Reports \cup {NoReport} : LoadLatest(t, report)
    \/ SaveCheckpoint(t) \/ SaveRefused(t)
    \/ StartPause(t) \/ PauseCheck(t) \/ PauseInRepository(t)
    \/ PauseCallRelease(t) \/ PauseRelease(t)
    \/ StartResume(t) \/ ResumeCallAcquire(t)
    \/ ResumeConflict(t) \/ ResumeGranted(t)
    \/ StartHeartbeat(t) \/ HeartbeatCallRenew(t)
    \/ HeartbeatRefused(t) \/ HeartbeatRenewed(t) \/ RecordHeartbeat(t)

Next == (\E t \in Threads : ServiceStep(t)) \/ Time \/ ServiceRestart

Spec == Init /\ [][Next]_vars

-----------------------------------------------------------------------------
(***************************************************************************)
(* However the checkpoints of several workers interleave, the history has  *)
(* no gap and no repeated version: checkpoint n is the n-th one, so        *)
(* get_latest_checkpoint returns the newest ("versionado monotonico").     *)
(***************************************************************************)
VersionsAreGapless == \A i \in 1 .. Len(cps) : cps[i].version = i

(***************************************************************************)
(* A resume, a pause or a restart never gives budget back: along the       *)
(* history the consumption only grows, and a known remainder is never      *)
(* forgotten ("UNKNOWN != fresh budget").                                  *)
(***************************************************************************)
BudgetNeverReset ==
    \A i, j \in 1 .. Len(cps) : i <= j =>
        /\ cps[i].used <= cps[j].used
        /\ cps[j].rem = "unknown" => cps[i].rem = "unknown"
=============================================================================
