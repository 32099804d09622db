---------------------- MODULE LongRunningMissionProofs -----------------------
(***************************************************************************)
(* Proofs about the lease manager, for any number of workers and threads,  *)
(* any ttl and an unbounded clock, and about the long-running mission      *)
(* service that holds its leases, for any number of checkpoints and budget *)
(* reports.                                                                *)
(***************************************************************************)
EXTENDS LongRunningMission, TLAPS

-----------------------------------------------------------------------------
(* The lease manager                                                       *)

(***************************************************************************)
(* A clock reading in flight is never ahead of the clock, so an entry that *)
(* looks expired to an operation really is; nor is a recorded one.  With   *)
(* it, the entry backs what every owning worker relies on.                 *)
(***************************************************************************)
ReadingsInThePast ==
    /\ \A t \in Threads : call[t] # Idle => call[t].at <= now
    /\ lease # NoLease => lease.acquired <= now

Backed ==
    \A w \in Workers : Owns(w) =>
        IsLive(lease, now) /\ lease.worker = w /\ held[w] <= lease.expires

LeaseInv == LeaseTypeOK /\ ReadingsInThePast /\ Backed

\* The invariant gives mutual exclusion: the entry names one worker.
LEMMA BackedIsSingle == LeaseInv => SingleOwner
BY DEF LeaseInv, Backed, SingleOwner

LEMMA InitLeaseInv == LeaseInit => LeaseInv
BY LeaseAssumption DEF LeaseInit, LeaseInv, LeaseTypeOK, ReadingsInThePast,
   Backed, Owns, Calls, Idle

\* The operation of a thread, when it has one, carries a clock reading.
LEMMA CallShape ==
    ASSUME LeaseTypeOK, NEW t \in Threads
    PROVE  /\ call[t].op = "acquire" =>
                call[t].at \in Nat /\ call[t].version \in Versions
           /\ call[t].op = "renew" =>
                /\ call[t].at \in Nat /\ call[t].version \in Versions
                /\ call[t].id \in LeaseIds
           /\ call[t].op = "release" =>
                call[t].at \in Nat /\ call[t].id \in LeaseIds
           /\ call[t] # Idle => call[t].at \in Nat
           /\ call[t].op \in {"acquire", "renew", "release"} => call[t] # Idle
BY DEF LeaseTypeOK, Calls, Idle

\* Handing a lease back ends the operation and touches no other reading.
LEMMA GrantKeepsInv ==
    ASSUME LeaseInv, NEW t \in Threads, call[t] # Idle,
           NEW l \in LeaseState, l.worker = WorkerOf[t],
           l.status \in {"ACQUIRED", "ACTIVE"}, l.acquired <= now,
           IsLive(lease, now) => lease.worker = WorkerOf[t],
           Grant(t, l), Return(t), now' = now
    PROVE  LeaseInv'
<1> USE LeaseAssumption DEF LeaseInv
<1>1. WorkerOf[t] \in Workers
  OBVIOUS
<1>2. LeaseTypeOK'
  BY <1>1 DEF LeaseTypeOK, Grant, Return, LeaseState, Calls
<1>3. ReadingsInThePast'
  BY DEF LeaseTypeOK, ReadingsInThePast, Grant, Return
<1>4. Backed'
  <2> SUFFICES ASSUME NEW w \in Workers, now < held'[w]
               PROVE  IsLive(lease', now) /\ lease'.worker = w /\ held'[w] <= lease'.expires
    BY DEF Backed, Owns, IsLive, IsExpired
  <2>1. lease' = l /\ held' = [held EXCEPT ![WorkerOf[t]] = l.expires]
    BY DEF Grant
  <2>2. l # NoLease /\ l.expires \in Nat
    BY DEF LeaseState
  <2>3. CASE w = WorkerOf[t]
    BY <1>1, <2>1, <2>2, <2>3 DEF IsLive, IsExpired, LeaseTypeOK
  <2>4. CASE w # WorkerOf[t]
    <3>1. held'[w] = held[w]
      BY <2>1, <2>4 DEF LeaseTypeOK
    <3>2. IsLive(lease, now) /\ lease.worker = w
      BY <3>1 DEF Backed, Owns
    <3> QED BY <2>4, <3>2
  <2> QED BY <2>3, <2>4
<1> QED BY <1>2, <1>3, <1>4

\* An entry that is live now was live at any earlier reading of the clock.
LEMMA LiveEarlier ==
    ASSUME LeaseTypeOK, NEW at \in Nat, at <= now, IsLive(lease, now)
    PROVE  IsLive(lease, at)
BY DEF LeaseTypeOK, LeaseState, IsLive, IsExpired

LEMMA CallKeepsInv ==
    ASSUME LeaseInv, NEW t \in Threads, LeaseCall(t)
    PROVE  LeaseInv'
<1> USE LeaseAssumption DEF LeaseInv
<1>1. PICK c \in Calls : c.at = now /\ call' = [call EXCEPT ![t] = c]
  BY DEF LeaseCall, CallAcquire, CallRenew, CallRelease, IssuedIds, LeaseIds,
     LeaseTypeOK, Calls
<1>2. UNCHANGED <<now, lease, held>>
  BY DEF LeaseCall, CallAcquire, CallRenew, CallRelease
<1>3. LeaseTypeOK'
  BY <1>1, <1>2 DEF LeaseTypeOK
<1>4. ReadingsInThePast'
  BY <1>1, <1>2 DEF LeaseTypeOK, ReadingsInThePast
<1>5. Backed'
  BY <1>2 DEF Backed, Owns, IsLive, IsExpired
<1> QED BY <1>3, <1>4, <1>5

LEMMA StepKeepsInv ==
    ASSUME LeaseInv, NEW t \in Threads, LeaseStep(t)
    PROVE  LeaseInv'
<1> USE LeaseAssumption DEF LeaseInv
<1>1. call[t] # Idle /\ call[t].at \in Nat /\ call[t].at <= now
  BY CallShape DEF LeaseStep, AcquireConflict, AcquireConfirm, AcquireNew,
     RenewRefused, RenewExpired, Renew, ReleaseRefused, Release,
     ReadingsInThePast
<1>2. CASE AcquireConflict(t) \/ RenewRefused(t) \/ ReleaseRefused(t)
  BY <1>2 DEF AcquireConflict, RenewRefused, ReleaseRefused, Return,
     LeaseTypeOK, ReadingsInThePast, Backed, Owns, IsLive, IsExpired, Calls
<1>3. CASE AcquireConfirm(t)
  <2> DEFINE l == [lease EXCEPT !.status = "ACTIVE",
                                !.expires = call[t].at + TTL,
                                !.version = call[t].version]
  <2>0. lease \in LeaseState /\ lease.worker = WorkerOf[t]
    BY <1>3 DEF AcquireConfirm, IsLive, Found, LeaseTypeOK
  <2>1. /\ call[t].at + TTL \in Nat
        /\ call[t].version \in Versions
    BY <1>1, <1>3, CallShape DEF AcquireConfirm
  <2>2. l \in LeaseState /\ l.worker = WorkerOf[t] /\ l.status = "ACTIVE"
    BY <2>0, <2>1 DEF LeaseState, Statuses
  <2>3. l.acquired <= now
    BY <2>0 DEF ReadingsInThePast, LeaseState
  <2> QED BY <1>1, <1>3, <2>2, <2>3, GrantKeepsInv DEF AcquireConfirm
<1>4. CASE AcquireNew(t)
  <2> DEFINE l == [worker |-> WorkerOf[t], status |-> "ACQUIRED",
                   acquired |-> call[t].at, expires |-> call[t].at + TTL,
                   version |-> call[t].version]
  <2>1. l \in LeaseState /\ l.worker = WorkerOf[t] /\ l.status = "ACQUIRED"
    BY <1>1, <1>4, CallShape DEF AcquireNew, LeaseState, Statuses
  <2>2. ~IsLive(lease, now)
    BY <1>1, <1>4, LiveEarlier DEF AcquireNew
  <2> QED BY <1>1, <1>4, <2>1, <2>2, GrantKeepsInv DEF AcquireNew
<1>5. CASE Renew(t)
  <2> DEFINE l == [lease EXCEPT !.status = "ACTIVE",
                                !.expires = call[t].at + TTL,
                                !.version = call[t].version]
  <2>0. lease \in LeaseState /\ lease.worker = WorkerOf[t]
    BY <1>5 DEF Renew, IsLive, Found, LeaseTypeOK
  <2>1. /\ call[t].at + TTL \in Nat
        /\ call[t].version \in Versions
    BY <1>1, <1>5, CallShape DEF Renew
  <2>2. l \in LeaseState /\ l.worker = WorkerOf[t] /\ l.status = "ACTIVE"
    BY <2>0, <2>1 DEF LeaseState, Statuses
  <2>3. l.acquired <= now
    BY <2>0 DEF ReadingsInThePast, LeaseState
  <2> QED BY <1>1, <1>5, <2>2, <2>3, GrantKeepsInv DEF Renew
<1>6. CASE RenewExpired(t)
  <2>1. LeaseTypeOK'
    BY <1>6 DEF RenewExpired, Found, Return, LeaseTypeOK, LeaseState, Statuses, Calls
  <2>2. ReadingsInThePast'
    BY <1>6 DEF RenewExpired, Found, Return, LeaseTypeOK, LeaseState,
       ReadingsInThePast
  <2>3. \A w \in Workers : ~Owns(w)
    BY <1>1, <1>6 DEF RenewExpired, Found, IsExpired, IsLive, Backed, Owns,
       LeaseTypeOK, LeaseState
  <2> QED BY <1>6, <2>1, <2>2, <2>3 DEF RenewExpired, Backed, Owns
<1>7. CASE Release(t)
  <2>1. LeaseTypeOK'
    BY <1>1, <1>7 DEF Release, Found, Return, LeaseTypeOK, LeaseState, Statuses, Calls
  <2>2. ReadingsInThePast'
    BY <1>7 DEF Release, Found, Return, LeaseTypeOK, LeaseState,
       ReadingsInThePast
  <2>3. \A w \in Workers : held'[w] = IF w = WorkerOf[t] THEN 0 ELSE held[w]
    BY <1>7 DEF Release, LeaseTypeOK
  <2>4. \A w \in Workers : ~(now < held'[w])
    BY <1>7, <2>3 DEF Release, Backed, Owns, LeaseTypeOK
  <2> QED BY <1>7, <2>1, <2>2, <2>4 DEF Release, Backed, Owns
<1> QED BY <1>2, <1>3, <1>4, <1>5, <1>6, <1>7 DEF LeaseStep

LEMMA NextLeaseInv == LeaseInv /\ [LeaseNext]_leaseVars => LeaseInv'
<1> SUFFICES ASSUME LeaseInv, [LeaseNext]_leaseVars PROVE LeaseInv'
  OBVIOUS
<1> USE DEF LeaseInv
<1>1. ASSUME NEW t \in Threads, LeaseCall(t) \/ LeaseStep(t) PROVE LeaseInv'
  BY <1>1, CallKeepsInv, StepKeepsInv
<1>2. CASE Tick
  BY <1>2 DEF Tick, LeaseTypeOK, ReadingsInThePast, Backed, Owns, IsLive,
     IsExpired, LeaseState, Calls
<1>3. CASE Restart
  BY <1>3 DEF Restart, LeaseTypeOK, ReadingsInThePast, Backed, Owns, Calls
<1>4. CASE UNCHANGED leaseVars
  BY <1>4 DEF leaseVars, LeaseTypeOK, ReadingsInThePast, Backed, Owns, IsLive,
     IsExpired
<1> QED BY <1>1, <1>2, <1>3, <1>4 DEF LeaseNext

THEOREM LeaseInvariant == LeaseSpec => []LeaseInv
BY InitLeaseInv, NextLeaseInv, PTL DEF LeaseSpec

(***************************************************************************)
(* At any instant at most one worker relies on owning the mission, and the *)
(* manager's entry backs it.                                               *)
(***************************************************************************)
THEOREM SingleOwnerAlways == LeaseSpec => []SingleOwner
BY LeaseInvariant, BackedIsSingle, PTL

(***************************************************************************)
(* The manager implements the exclusive lock of ExclusiveLease.            *)
(***************************************************************************)
\* The mapped owner is the one worker that relies on the lease, if any.
LEMMA HolderIs ==
    ASSUME SingleOwner
    PROVE  /\ \A w \in Workers : Owns(w) => Holder = w
           /\ (\A w \in Workers : ~Owns(w)) => Holder = NoOwner
           /\ Holder = NoOwner \/ (Holder \in Workers /\ Owns(Holder))
BY DEF SingleOwner, Holder

\* A step never makes a worker an owner while another one still is.
LEMMA NoHandOver ==
    ASSUME LeaseInv, LeaseInv', [LeaseNext]_leaseVars,
           NEW w \in Workers, NEW u \in Workers, Owns(w), Owns(u)'
    PROVE  u = w
<1> USE LeaseAssumption DEF LeaseInv
<1> SUFFICES ASSUME u # w PROVE FALSE
  OBVIOUS
<1>1. IsLive(lease, now) /\ lease.worker = w /\ ~Owns(u)
  BY BackedIsSingle DEF SingleOwner, Backed
<1>2. PICK t \in Threads : AcquireConfirm(t) \/ AcquireNew(t) \/ Renew(t)
  <2>1. now \in Nat /\ held \in [Workers -> Nat] /\ now' < held'[u]
    BY DEF LeaseTypeOK, Owns
  <2>2. ~(now < held[u])
    BY <1>1 DEF Owns
  <2>3. ~UNCHANGED <<now, held>>
    BY <2>1, <2>2
  <2>4. ~Tick /\ ~Restart
    BY <2>1, <2>2 DEF Tick, Restart
  <2>5. ASSUME NEW t \in Threads PROVE ~LeaseCall(t) /\ ~Release(t)
    BY <2>1, <2>2, <2>3 DEF LeaseCall, CallAcquire, CallRenew, CallRelease,
       Release
  <2> QED BY <2>3, <2>4, <2>5 DEF LeaseNext, LeaseStep, leaseVars,
          AcquireConflict, RenewRefused, RenewExpired, ReleaseRefused
<1>3. call[t].at \in Nat /\ call[t].at <= now
  BY <1>2, CallShape DEF AcquireConfirm, AcquireNew, Renew, ReadingsInThePast
<1>4. lease.worker = WorkerOf[t]
  BY <1>1, <1>2, <1>3, LiveEarlier DEF AcquireConfirm, AcquireNew, Renew
<1>5. held'[u] = held[u] /\ now' = now
  BY <1>1, <1>2, <1>4 DEF AcquireConfirm, AcquireNew, Renew, Grant, LeaseTypeOK
<1> QED BY <1>1, <1>5 DEF Owns

THEOREM LockImplemented == LeaseSpec => ImplementsLock
<1> USE DEF Lock!Spec, Lock!Init, Lock!Next, Lock!Take, Lock!Lose
<1>1. LeaseInit => Holder = NoOwner
  BY LeaseAssumption DEF LeaseInit, Holder, Owns
<1>2. LeaseInv /\ LeaseInv' /\ [LeaseNext]_leaseVars => [Lock!Next]_Holder
  <2> SUFFICES ASSUME LeaseInv, LeaseInv', [LeaseNext]_leaseVars,
                      Holder' # Holder
               PROVE  Lock!Next
    OBVIOUS
  <2>1. SingleOwner
    BY BackedIsSingle
  <2>2. Holder' = NoOwner \/ (Holder' \in Workers /\ now' < held'[Holder'])
    BY DEF Holder, Owns
  <2>3. CASE Holder = NoOwner
    BY <2>2, <2>3, LeaseAssumption
  <2>4. CASE Holder \in Workers /\ now < held[Holder]
    <3>1. Holder' \in Workers /\ now' < held'[Holder'] => Holder' = Holder
      BY <2>4, NoHandOver DEF Owns
    <3>2. Holder # NoOwner
      BY <2>4, LeaseAssumption
    <3> QED BY <2>2, <3>1, <3>2
  <2> QED BY <2>1, <2>3, <2>4, HolderIs DEF Owns
<1> QED BY <1>1, <1>2, LeaseInvariant, PTL DEF LeaseSpec, ImplementsLock

-----------------------------------------------------------------------------
(* The mission service                                                     *)

(***************************************************************************)
(* The lease ids a call carries were issued by the manager, which is what  *)
(* makes every lease operation of the service one of LeaseNext.            *)
(***************************************************************************)
IdsIssued ==
    \A t \in Threads :
        /\ loc[t].id # NoId => loc[t].id \in IssuedIds
        /\ pc[t] = "release" => loc[t].id # NoId
        /\ pc[t] = "renew" => loc[t].id # NoId /\ loc[t].version \in Versions

\* What a checkpoint waiting to be saved knows about the history: it was
\* built on some prefix of it, and if on all of it, it carries its budget on.
Draft(cp) ==
    /\ cp \in Checkpoints
    /\ cp.version \in 1 .. Len(cps) + 1
    /\ cp.version = Len(cps) + 1 =>
         \A i \in 1 .. Len(cps) :
            /\ cps[i].used <= cp.used
            /\ cp.rem = "unknown" => cps[i].rem = "unknown"

DraftsFollow == \A t \in Threads : pc[t] = "save" => Draft(loc[t].cp)

IInv == /\ LeaseInv
        /\ ServiceTypeOK
        /\ IdsIssued
        /\ VersionsAreGapless
        /\ BudgetNeverReset
        /\ DraftsFollow

LEMMA InitIInv == Init => IInv
<1> SUFFICES ASSUME Init PROVE IInv
  OBVIOUS
<1> USE DEF Init
<1>1. LeaseInv /\ lease = NoLease
  BY InitLeaseInv DEF LeaseInit
<1>2. ServiceTypeOK
  BY DEF ServiceTypeOK, Labels, Locals, Ops, NoLocals, MissionStatuses
<1>3. IdsIssued
  BY <1>1 DEF IdsIssued, NoLocals
<1>4. VersionsAreGapless /\ BudgetNeverReset /\ DraftsFollow
  BY DEF VersionsAreGapless, BudgetNeverReset, DraftsFollow
<1> QED BY <1>1, <1>2, <1>3, <1>4 DEF IInv

\* Every step of the service is a step of the lease manager, or none.
LEMMA StepOfManager ==
    ASSUME IInv, [Next]_vars
    PROVE  [LeaseNext]_leaseVars
<1> USE DEF IInv
<1>1. ASSUME NEW t \in Threads, ServiceStep(t) PROVE [LeaseNext]_leaseVars
  <2>1. ASSUME PauseCallRelease(t) PROVE LeaseCall(t)
    BY <2>1 DEF PauseCallRelease, IdsIssued, LeaseCall
  <2>2. ASSUME HeartbeatCallRenew(t) PROVE LeaseCall(t)
    BY <2>2 DEF HeartbeatCallRenew, IdsIssued, LeaseCall
  <2>3. ASSUME ResumeCallAcquire(t) PROVE LeaseCall(t)
    BY <2>3 DEF ResumeCallAcquire, LeaseCall
  <2>4. ASSUME \/ PauseRelease(t) \/ ResumeConflict(t) \/ ResumeGranted(t)
               \/ HeartbeatRefused(t) \/ HeartbeatRenewed(t)
        PROVE  LeaseStep(t)
    BY <2>4 DEF PauseRelease, ResumeConflict, ResumeGranted,
       HeartbeatRefused, HeartbeatRenewed, LeaseStep
  <2>5. ASSUME \/ \E op \in {"checkpoint", "complete"} : StartCheckpoint(t, op)
               \/ \E report \in Reports \cup {NoReport} : LoadLatest(t, report)
               \/ SaveCheckpoint(t) \/ SaveRefused(t)
               \/ StartPause(t) \/ PauseCheck(t) \/ PauseInRepository(t)
               \/ StartResume(t) \/ StartHeartbeat(t) \/ RecordHeartbeat(t)
        PROVE  UNCHANGED leaseVars
    BY <2>5 DEF StartCheckpoint, LoadLatest, SaveCheckpoint, SaveRefused,
       StartPause, PauseCheck, PauseInRepository, StartResume, StartHeartbeat,
       RecordHeartbeat
  <2> QED BY <1>1, <2>1, <2>2, <2>3, <2>4, <2>5 DEF ServiceStep, LeaseNext
<1>2. Time \/ ServiceRestart => LeaseNext
  BY DEF Time, ServiceRestart, LeaseNext
<1> QED BY <1>1, <1>2 DEF Next, vars

\* The budget a new checkpoint carries is well formed and covers the latest.
LEMMA NewCheckpoint ==
    ASSUME IInv, NEW t \in Threads,
           NEW report \in Reports \cup {NoReport}, LoadLatest(t, report)
    PROVE  loc'[t].cp \in Checkpoints /\ Draft(loc'[t].cp)
<1> USE ServiceAssumption, LeaseAssumption DEF IInv
<1> DEFINE n == Len(cps)
<1>1. /\ cps \in Seq(Checkpoints) /\ n \in Nat
      /\ cps # <<>> => n \in 1 .. n /\ Latest \in Checkpoints /\ Latest = cps[n]
      /\ cps = <<>> => n = 0
  BY DEF ServiceTypeOK, Latest
<1>2. LatestVersion = n
  BY <1>1 DEF LatestVersion, VersionsAreGapless
<1>3. report \in [used : Nat, rem : Remainders] /\ WorkerOf[t] \in Workers
  BY DEF NoReport, Remainders
<1>4. StatusFor(loc[t].op) \in MissionStatuses
  BY <1>1 DEF StatusFor, MissionStatuses, Checkpoints
<1> DEFINE before == IF cps = <<>> THEN 0 ELSE Latest.used
           known  == IF cps = <<>> THEN "unknown" ELSE Latest.rem
           c == [version |-> LatestVersion + 1,
                 status  |-> StatusFor(loc[t].op),
                 used    |-> IF report.used >= before THEN report.used ELSE before,
                 rem     |-> IF report.rem = "unknown" THEN known ELSE report.rem,
                 by      |-> WorkerOf[t]]
<1>5. loc'[t].cp = c
  BY DEF LoadLatest, ServiceTypeOK, Locals
<1>6. before \in Nat /\ known \in Remainders
  BY <1>1 DEF Checkpoints, Remainders
<1>7. c \in Checkpoints
  BY <1>1, <1>2, <1>3, <1>4, <1>6 DEF Checkpoints
<1>8. ASSUME NEW i \in 1 .. n
      PROVE  cps[i].used <= c.used /\ (c.rem = "unknown" => cps[i].rem = "unknown")
  <2>1. cps # <<>> /\ i \in 1 .. n /\ n \in 1 .. n /\ i <= n
    BY <1>1, <1>8
  <2>2. cps[i].used <= Latest.used /\ (Latest.rem = "unknown" => cps[i].rem = "unknown")
    <3>1. cps[i].used <= cps[n].used /\ (cps[n].rem = "unknown" => cps[i].rem = "unknown")
      BY <2>1 DEF BudgetNeverReset
    <3> QED BY <1>1, <2>1, <3>1
  <2>3. before = Latest.used /\ known = Latest.rem
    BY <2>1
  <2>4. cps[i].used \in Nat /\ before <= c.used /\ c.used \in Nat
    <3>1. cps[i] \in Checkpoints
      BY <1>1, <2>1
    <3>2. before \in Nat /\ report.used \in Nat
      BY <1>3, <1>6
    <3> HIDE DEF before
    <3>3. before <= c.used /\ c.used \in Nat
      BY <3>2
    <3> QED BY <3>1, <3>3 DEF Checkpoints
  <2> QED BY <1>6, <2>2, <2>3, <2>4
<1>9. c.version = n + 1
  BY <1>2
<1>10. Draft(c)
  BY <1>1, <1>7, <1>8, <1>9 DEF Draft
<1> QED BY <1>5, <1>7, <1>10

\* The locals of a call keep their shape.
LEMMA StepTypes ==
    ASSUME IInv, LeaseInv', NEW t \in Threads, ServiceStep(t)
    PROVE  ServiceTypeOK'
<1> USE ServiceAssumption, LeaseAssumption DEF IInv, LeaseInv
<1>1. WorkerOf[t] \in Workers /\ IdOf(lease) \in LeaseIds \cup {NoId}
  BY DEF LeaseTypeOK, LeaseState, IdOf, LeaseIds
<1>2. loc[t] \in Locals /\ NoLocals \in Locals
  BY DEF ServiceTypeOK, NoLocals, Locals, Ops
<1>3. ASSUME NEW op \in {"checkpoint", "complete"}, StartCheckpoint(t, op)
      PROVE  ServiceTypeOK'
  <2>1. [loc[t] EXCEPT !.op = op] \in Locals
    BY <1>2 DEF Locals, Ops
  <2> QED BY <1>3, <2>1 DEF StartCheckpoint, Goto, ServiceTypeOK, Labels
<1>4. ASSUME NEW report \in Reports \cup {NoReport}, LoadLatest(t, report)
      PROVE  ServiceTypeOK'
  <2>1. loc'[t].cp \in Checkpoints
    BY <1>4, NewCheckpoint
  <2>2. \A u \in Threads : u # t => loc'[u] = loc[u]
    BY <1>4 DEF LoadLatest, ServiceTypeOK
  <2>3. loc'[t] = [loc[t] EXCEPT !.cp = loc'[t].cp]
    BY <1>4, <1>2 DEF LoadLatest, ServiceTypeOK, Locals
  <2>4. loc'[t] \in Locals
    BY <1>2, <2>1, <2>3 DEF Locals
  <2>5. loc' \in [Threads -> Locals]
    BY <1>4, <2>2, <2>4 DEF LoadLatest, ServiceTypeOK
  <2> QED BY <1>4, <2>5 DEF LoadLatest, Goto, ServiceTypeOK, Labels
<1>5. CASE SaveCheckpoint(t)
  <2>1. loc[t].cp \in Checkpoints
    BY <1>5 DEF SaveCheckpoint, DraftsFollow, Draft
  <2>2. cps' \in Seq(Checkpoints)
    BY <1>5, <2>1 DEF SaveCheckpoint, ServiceTypeOK
  <2>3. pc' \in [Threads -> Labels] /\ loc' \in [Threads -> Locals]
    BY <1>2, <1>5 DEF SaveCheckpoint, Goto, Finish, ServiceTypeOK, Labels
  <2> QED BY <1>5, <2>2, <2>3 DEF SaveCheckpoint, ServiceTypeOK
<1>6. CASE \/ SaveRefused(t) \/ PauseCheck(t) \/ PauseInRepository(t)
           \/ PauseCallRelease(t) \/ PauseRelease(t)
           \/ ResumeCallAcquire(t) \/ ResumeConflict(t) \/ ResumeGranted(t)
           \/ HeartbeatCallRenew(t) \/ HeartbeatRefused(t)
  BY <1>2, <1>6 DEF SaveRefused, PauseCheck, PauseInRepository,
     PauseCallRelease, PauseRelease, ResumeCallAcquire, ResumeConflict,
     ResumeGranted, HeartbeatCallRenew, HeartbeatRefused, Goto, Finish,
     ServiceTypeOK, Labels
<1>7. CASE StartPause(t)
  BY <1>1, <1>2, <1>7 DEF StartPause, Goto, ServiceTypeOK, Locals, Ops, Labels
<1>8. CASE StartResume(t)
  BY <1>2, <1>8 DEF StartResume, Goto, ServiceTypeOK, Locals, Ops, Labels
<1>9. CASE StartHeartbeat(t)
  <2>1. lease.version \in Versions
    BY <1>9 DEF StartHeartbeat, LeaseTypeOK, LeaseState
  <2> QED BY <1>1, <1>2, <1>9, <2>1 DEF StartHeartbeat, Goto, ServiceTypeOK,
          Locals, Ops, Labels
<1>10. CASE HeartbeatRenewed(t)
  <2>1. lease'.expires \in Nat
    BY <1>10 DEF HeartbeatRenewed, Renew, Grant, Found, LeaseTypeOK, LeaseState
  <2> QED BY <1>2, <1>10, <2>1 DEF HeartbeatRenewed, Goto, ServiceTypeOK,
          Locals, Labels
<1>11. CASE RecordHeartbeat(t)
  <2>1. loc[t].until \in Nat
    BY <1>2 DEF Locals
  <2> QED BY <1>1, <1>2, <1>11, <2>1 DEF RecordHeartbeat, Finish, Goto,
          ServiceTypeOK, Labels
<1> QED BY <1>3, <1>4, <1>5, <1>6, <1>7, <1>8, <1>9, <1>10, <1>11
        DEF ServiceStep

LEMMA StepIds ==
    ASSUME IInv, LeaseInv', NEW t \in Threads, ServiceStep(t)
    PROVE  IdsIssued'
<1> USE LeaseAssumption DEF IInv, LeaseInv
<1>1. IdOf(lease) # NoId => IdOf(lease) \in IssuedIds
  BY DEF IdOf, IssuedIds, ReadingsInThePast, LeaseTypeOK, LeaseState
<1>2. IssuedIds' = IssuedIds
  <2>1. now' = now
    BY DEF ServiceStep, StartCheckpoint, LoadLatest, SaveCheckpoint,
       SaveRefused, StartPause, PauseCheck, PauseInRepository,
       PauseCallRelease, PauseRelease, StartResume, ResumeCallAcquire,
       ResumeConflict, ResumeGranted, StartHeartbeat, HeartbeatCallRenew,
       HeartbeatRefused, HeartbeatRenewed, RecordHeartbeat, leaseVars,
       CallRelease, CallAcquire, CallRenew, Release, ReleaseRefused,
       AcquireConflict, AcquireConfirm, AcquireNew, RenewRefused,
       RenewExpired, Renew
  <2> QED BY <2>1 DEF IssuedIds
<1>3. \A u \in Threads \ {t} : loc'[u] = loc[u] /\ pc'[u] = pc[u]
  BY DEF ServiceTypeOK, ServiceStep, StartCheckpoint, LoadLatest,
     SaveCheckpoint, SaveRefused, StartPause, PauseCheck, PauseInRepository,
     PauseCallRelease, PauseRelease, StartResume, ResumeCallAcquire,
     ResumeConflict, ResumeGranted, StartHeartbeat, HeartbeatCallRenew,
     HeartbeatRefused, HeartbeatRenewed, RecordHeartbeat, Goto, Finish
<1>4. \/ pc'[t] \notin {"release", "renew"} /\ loc'[t].id \in {loc[t].id, NoId}
      \/ StartPause(t) \/ PauseInRepository(t) \/ StartHeartbeat(t)
  <2>1. loc[t] \in Locals
    BY DEF ServiceTypeOK
  <2> QED BY <2>1 DEF ServiceTypeOK, ServiceStep, StartCheckpoint, LoadLatest,
     SaveCheckpoint, SaveRefused, PauseCheck, PauseCallRelease, PauseRelease,
     StartResume, ResumeCallAcquire, ResumeConflict, ResumeGranted,
     HeartbeatCallRenew, HeartbeatRefused, HeartbeatRenewed, RecordHeartbeat,
     Goto, Finish, NoLocals, Locals
<1>5. /\ loc'[t].id # NoId => loc'[t].id \in IssuedIds
      /\ pc'[t] = "release" => loc'[t].id # NoId
      /\ pc'[t] = "renew" => loc'[t].id # NoId /\ loc'[t].version \in Versions
  <2>1. loc[t] \in Locals /\ (loc[t].id # NoId => loc[t].id \in IssuedIds)
    BY DEF ServiceTypeOK, IdsIssued
  <2>2. CASE StartPause(t)
    BY <1>1, <2>1, <2>2 DEF StartPause, Goto, ServiceTypeOK, Locals
  <2>3. CASE PauseInRepository(t)
    BY <2>1, <2>3 DEF PauseInRepository, Goto, Finish, NoLocals, ServiceTypeOK
  <2>4. CASE StartHeartbeat(t)
    <3>1. IdOf(lease) # NoId /\ lease.version \in Versions
      BY <2>4 DEF StartHeartbeat, IdOf, LeaseTypeOK, LeaseState, LeaseIds
    <3> QED BY <1>1, <2>1, <2>4, <3>1 DEF StartHeartbeat, Goto, ServiceTypeOK,
            Locals
  <2> QED BY <1>4, <2>1, <2>2, <2>3, <2>4
<1> QED BY <1>2, <1>3, <1>5 DEF IdsIssued

(***************************************************************************)
(* A save that succeeds extends the history by the next version, and then  *)
(* the checkpoint was built on all of it; drafts built earlier can no      *)
(* longer be saved.                                                        *)
(***************************************************************************)
LEMMA SaveExtends ==
    ASSUME IInv, NEW t \in Threads, SaveCheckpoint(t)
    PROVE  VersionsAreGapless' /\ BudgetNeverReset' /\ DraftsFollow'
<1> USE DEF IInv
<1> DEFINE n == Len(cps)
           c == loc[t].cp
<1>1. /\ cps \in Seq(Checkpoints) /\ n \in Nat /\ c \in Checkpoints
      /\ Draft(c) /\ cps' = Append(cps, c)
  BY DEF SaveCheckpoint, ServiceTypeOK, DraftsFollow, Draft
<1>2. LatestVersion = n
  BY <1>1 DEF LatestVersion, Latest, VersionsAreGapless
<1>3. c.version = n + 1
  BY <1>1, <1>2 DEF SaveCheckpoint, Draft
<1>4. /\ Len(cps') = n + 1 /\ cps'[n + 1] = c
      /\ \A i \in 1 .. n : cps'[i] = cps[i]
  BY <1>1
<1>5. VersionsAreGapless'
  BY <1>1, <1>3, <1>4 DEF VersionsAreGapless
<1>6. BudgetNeverReset'
  <2> SUFFICES ASSUME NEW i \in 1 .. n + 1, NEW j \in 1 .. n + 1, i <= j
               PROVE  /\ cps'[i].used <= cps'[j].used
                      /\ cps'[j].rem = "unknown" => cps'[i].rem = "unknown"
    BY <1>4 DEF BudgetNeverReset
  <2>1. CASE j \in 1 .. n
    <3>1. i \in 1 .. n
      BY <1>1, <2>1
    <3> QED BY <1>4, <2>1, <3>1 DEF BudgetNeverReset
  <2>2. CASE j = n + 1 /\ i \in 1 .. n
    BY <1>1, <1>3, <1>4, <2>2 DEF Draft
  <2>3. CASE j = n + 1 /\ i = n + 1
    BY <1>1, <1>4, <2>3 DEF Checkpoints
  <2> QED BY <1>1, <2>1, <2>2, <2>3
<1>7. DraftsFollow'
  <2>1. ASSUME NEW u \in Threads, pc'[u] = "save"
        PROVE  /\ loc'[u].cp \in Checkpoints
               /\ loc'[u].cp.version \in 1 .. n + 1
    <3>1. u # t
      BY <2>1 DEF SaveCheckpoint, Goto, Finish, ServiceTypeOK
    <3>2. loc'[u] = loc[u] /\ pc'[u] = pc[u]
      BY <3>1 DEF SaveCheckpoint, Goto, Finish, ServiceTypeOK
    <3> QED BY <2>1, <3>2 DEF DraftsFollow, Draft
  <2> QED BY <1>1, <1>4, <2>1 DEF DraftsFollow, Draft
<1> QED BY <1>5, <1>6, <1>7

LEMMA StepHistory ==
    ASSUME IInv, NEW t \in Threads, ServiceStep(t)
    PROVE  VersionsAreGapless' /\ BudgetNeverReset' /\ DraftsFollow'
<1> USE DEF IInv
<1>1. CASE SaveCheckpoint(t)
  BY <1>1, SaveExtends
<1>2. ASSUME NEW report \in Reports \cup {NoReport}, LoadLatest(t, report)
      PROVE  VersionsAreGapless' /\ BudgetNeverReset' /\ DraftsFollow'
  <2>1. cps' = cps /\ Draft(loc'[t].cp)
    BY <1>2, NewCheckpoint DEF LoadLatest
  <2>2. \A u \in Threads \ {t} : loc'[u] = loc[u] /\ pc'[u] = pc[u]
    BY <1>2 DEF LoadLatest, Goto, ServiceTypeOK
  <2>3. DraftsFollow'
    BY <2>1, <2>2 DEF DraftsFollow, Draft
  <2> QED BY <2>1, <2>3 DEF VersionsAreGapless, BudgetNeverReset
<1>3. ASSUME ~SaveCheckpoint(t),
             ~\E report \in Reports \cup {NoReport} : LoadLatest(t, report)
      PROVE  VersionsAreGapless' /\ BudgetNeverReset' /\ DraftsFollow'
  <2>1. /\ cps' = cps /\ pc'[t] # "save"
        /\ \A u \in Threads \ {t} : loc'[u] = loc[u] /\ pc'[u] = pc[u]
    BY <1>3 DEF ServiceTypeOK, ServiceStep, StartCheckpoint, SaveRefused,
       StartPause, PauseCheck, PauseInRepository, PauseCallRelease,
       PauseRelease, StartResume, ResumeCallAcquire, ResumeConflict,
       ResumeGranted, StartHeartbeat, HeartbeatCallRenew, HeartbeatRefused,
       HeartbeatRenewed, RecordHeartbeat, Goto, Finish
  <2>2. DraftsFollow'
    BY <2>1 DEF DraftsFollow, Draft
  <2> QED BY <2>1, <2>2 DEF VersionsAreGapless, BudgetNeverReset
<1> QED BY <1>1, <1>2, <1>3

LEMMA NextIInv == IInv /\ [Next]_vars => IInv'
<1> SUFFICES ASSUME IInv, [Next]_vars PROVE IInv'
  OBVIOUS
<1>1. LeaseInv'
  BY StepOfManager, NextLeaseInv DEF IInv
<1>2. ASSUME NEW t \in Threads, ServiceStep(t) PROVE IInv'
  BY <1>1, <1>2, StepTypes, StepIds, StepHistory DEF IInv
<1>3. CASE Time
  BY <1>1, <1>3 DEF Time, Tick, serviceVars, IInv, LeaseInv, LeaseTypeOK,
     ServiceTypeOK, IdsIssued, IssuedIds, VersionsAreGapless,
     BudgetNeverReset, DraftsFollow, Draft
<1>4. CASE ServiceRestart
  <2>1. ServiceTypeOK'
    BY <1>4 DEF ServiceRestart, IInv, ServiceTypeOK, NoLocals, Locals, Ops, Labels
  <2>2. IdsIssued' /\ DraftsFollow'
    BY <1>4 DEF ServiceRestart, IdsIssued, DraftsFollow, NoLocals
  <2>3. VersionsAreGapless' /\ BudgetNeverReset'
    BY <1>4 DEF ServiceRestart, IInv, VersionsAreGapless, BudgetNeverReset
  <2> QED BY <1>1, <2>1, <2>2, <2>3 DEF IInv
<1>5. CASE UNCHANGED vars
  BY <1>1, <1>5 DEF vars, leaseVars, serviceVars, IInv, ServiceTypeOK,
     IdsIssued, IssuedIds, VersionsAreGapless, BudgetNeverReset, DraftsFollow,
     Draft
<1> QED BY <1>2, <1>3, <1>4, <1>5 DEF Next

THEOREM ServiceInvariant == Spec => []IInv
BY InitIInv, NextIInv, PTL DEF Spec

(***************************************************************************)
(* Type correctness of the service and of the manager below it.            *)
(***************************************************************************)
THEOREM TypeCorrect == Spec => []TypeOK
<1>1. IInv => TypeOK
  BY DEF IInv, LeaseInv, TypeOK
<1> QED BY <1>1, ServiceInvariant, PTL

(***************************************************************************)
(* The checkpoint history has neither gap nor repetition, whoever writes.  *)
(***************************************************************************)
THEOREM HistoryIsGapless == Spec => []VersionsAreGapless
<1>1. IInv => VersionsAreGapless
  BY DEF IInv
<1> QED BY <1>1, ServiceInvariant, PTL

(***************************************************************************)
(* No pause, resume, restart or racing checkpoint gives budget back.       *)
(***************************************************************************)
THEOREM BudgetIsKept == Spec => []BudgetNeverReset
<1>1. IInv => BudgetNeverReset
  BY DEF IInv
<1> QED BY <1>1, ServiceInvariant, PTL

(***************************************************************************)
(* The service uses the lease manager as its specification allows, so all  *)
(* that is proved of the manager holds of the composition.                 *)
(***************************************************************************)
THEOREM ServiceUsesManager == Spec => LeaseSpec
<1>1. Init => LeaseInit
  BY DEF Init
<1>2. IInv /\ [Next]_vars => [LeaseNext]_leaseVars
  BY StepOfManager
<1> QED BY <1>1, <1>2, ServiceInvariant, PTL DEF Spec, LeaseSpec

(***************************************************************************)
(* At most one worker runs the mission, under every interleaving of        *)
(* resumes, pauses, heartbeats, expiries and restarts.                     *)
(***************************************************************************)
THEOREM ServiceSingleOwner == Spec => []SingleOwner
BY ServiceUsesManager, SingleOwnerAlways, PTL
=============================================================================
