---------------------------- MODULE MissionLease ----------------------------
(***************************************************************************)
(* The lease manager of the long-running missions (R.6):                   *)
(* InMemoryLeaseManager, for one mission of one tenant.                    *)
(*                                                                         *)
(* Every operation reads the clock BEFORE it takes the lock, so the reading*)
(* may be old by the time the operation runs: an operation is two steps,   *)
(* the call (Call...), which reads the clock, and the critical section,    *)
(* which uses that reading.  A worker process has several threads (the one *)
(* that runs the mission and the one that sends heartbeats), all of which  *)
(* act under the worker's identity.                                        *)
(*                                                                         *)
(* A lease id is "lease-<mission>-<worker>-<int(acquired_at)>", so for one *)
(* mission it is the pair of the worker and the second of acquisition; one *)
(* unit of time is one second.                                             *)
(***************************************************************************)
EXTENDS Naturals

CONSTANTS
    Workers,        \* worker identities
    Threads,        \* the threads that call the lease manager
    WorkerOf,       \* the worker a thread belongs to
    TTL,            \* ttl_seconds of acquire_lease and renew_lease (60)
    Versions,       \* assignment versions
    MaxTime,        \* bound: the clock stops here
    NoLease,        \* the mission has no lease entry
    NoId,           \* current_lease.lease_id of a mission without lease
    NoOwner         \* nobody acts as the owner

VARIABLES
    now,            \* the wall clock (ClockPort)
    lease,          \* _leases[(tenant, mission)]
    held,           \* the expires_at each worker was last given, 0 if none
    call            \* the lease operation each thread is executing

leaseVars == <<now, lease, held, call>>

\* LeaseStatus; the manager never sets REVOKED.
Statuses == {"ACQUIRED", "ACTIVE", "EXPIRED", "RELEASED"}

LeaseState == [worker : Workers, status : Statuses, acquired : Nat,
               expires : Nat, version : Versions]

LeaseIds == [worker : Workers, at : Nat]

\* The ids that leases may have been given so far.
IssuedIds == [worker : Workers, at : 0 .. now]

Idle == [op |-> "none"]

\* An operation on its way to the lock, with its reading of the clock.
Calls == [op : {"acquire"}, at : Nat, version : Versions]
    \cup [op : {"renew"}, at : Nat, version : Versions, id : LeaseIds]
    \cup [op : {"release"}, at : Nat, id : LeaseIds]

ASSUME LeaseAssumption ==
    /\ WorkerOf \in [Threads -> Workers]
    /\ TTL \in Nat
    /\ Versions \subseteq Nat \ {0}
    /\ NoLease \notin LeaseState
    /\ NoId \notin LeaseIds
    /\ NoOwner \notin Workers

LeaseTypeOK ==
    /\ now \in Nat
    /\ lease \in LeaseState \cup {NoLease}
    /\ held \in [Workers -> Nat]
    /\ call \in [Threads -> Calls \cup {Idle}]

LeaseInit ==
    /\ now = 0
    /\ lease = NoLease
    /\ held = [w \in Workers |-> 0]
    /\ call = [t \in Threads |-> Idle]

-----------------------------------------------------------------------------
IdOf(l) == IF l = NoLease THEN NoId ELSE [worker |-> l.worker, at |-> l.acquired]

\* Wrong on purpose: a lease runs out a second early.
EarlyExpired(l, at) == at + 1 >= l.expires

\* LeaseState.is_expired
IsExpired(l, at) == at >= l.expires

\* The entry stands in the way of other workers.
IsLive(l, at) ==
    l # NoLease /\ ~IsExpired(l, at) /\ l.status \in {"ACQUIRED", "ACTIVE"}

\* The operation ends: it returns or raises.
Return(t) == call' = [call EXCEPT ![t] = Idle]

\* The new entry is stored and returned to the worker.
Grant(t, l) == /\ lease' = l
               /\ held' = [held EXCEPT ![WorkerOf[t]] = l.expires]

-----------------------------------------------------------------------------
\* acquire_lease
CallAcquire(t, v) ==
    /\ call[t] = Idle
    /\ call' = [call EXCEPT ![t] = [op |-> "acquire", at |-> now, version |-> v]]
    /\ UNCHANGED <<now, lease, held>>

\* ConcurrentResumeConflictError
AcquireConflict(t) ==
    /\ call[t].op = "acquire"
    /\ IsLive(lease, call[t].at)
    /\ lease.worker # WorkerOf[t]
    /\ Return(t)
    /\ UNCHANGED <<now, lease, held>>

\* The same worker confirms the lease it has.
AcquireConfirm(t) ==
    /\ call[t].op = "acquire"
    /\ IsLive(lease, call[t].at)
    /\ lease.worker = WorkerOf[t]
    /\ Grant(t, [lease EXCEPT !.status = "ACTIVE",
                              !.expires = call[t].at + TTL,
                              !.version = call[t].version])
    /\ Return(t)
    /\ UNCHANGED now

AcquireNew(t) ==
    /\ call[t].op = "acquire"
    /\ ~IsLive(lease, call[t].at)
    /\ Grant(t, [worker |-> WorkerOf[t], status |-> "ACQUIRED",
                 acquired |-> call[t].at, expires |-> call[t].at + TTL,
                 version |-> call[t].version])
    /\ Return(t)
    /\ UNCHANGED now

-----------------------------------------------------------------------------
\* renew_lease, with the id and the assignment version of a lease that was
\* given some time ago.
CallRenew(t, id, v) ==
    /\ call[t] = Idle
    /\ call' = [call EXCEPT ![t] = [op |-> "renew", at |-> now, version |-> v,
                                    id |-> id]]
    /\ UNCHANGED <<now, lease, held>>

\* The entry has the id the operation asks for.
Found(t) == lease # NoLease /\ IdOf(lease) = call[t].id

\* StaleWorkerError, the entry unchanged.
RenewRefused(t) ==
    /\ call[t].op = "renew"
    /\ \/ ~Found(t)
       \/ /\ Found(t)
          /\ ~IsExpired(lease, call[t].at)
          /\ \/ lease.worker # WorkerOf[t]
             \/ call[t].version < lease.version
    /\ Return(t)
    /\ UNCHANGED <<now, lease, held>>

\* StaleWorkerError, the entry marked EXPIRED, whatever its status was.
RenewExpired(t) ==
    /\ call[t].op = "renew"
    /\ Found(t)
    /\ IsExpired(lease, call[t].at)
    /\ lease' = [lease EXCEPT !.status = "EXPIRED"]
    /\ Return(t)
    /\ UNCHANGED <<now, held>>

\* Wrong on purpose: neither the id nor the worker is compared.
UnfencedRenew(t) ==
    /\ call[t].op = "renew"
    /\ lease # NoLease
    /\ ~IsExpired(lease, call[t].at)
    /\ call[t].version >= lease.version
    /\ Grant(t, [lease EXCEPT !.status = "ACTIVE",
                              !.expires = call[t].at + TTL,
                              !.version = call[t].version])
    /\ Return(t)
    /\ UNCHANGED now

\* The status is not looked at: a RELEASED entry whose expires_at is later
\* than an old clock reading becomes ACTIVE again.
Renew(t) ==
    /\ call[t].op = "renew"
    /\ Found(t)
    /\ ~IsExpired(lease, call[t].at)
    /\ lease.worker = WorkerOf[t]
    /\ call[t].version >= lease.version
    /\ Grant(t, [lease EXCEPT !.status = "ACTIVE",
                              !.expires = call[t].at + TTL,
                              !.version = call[t].version])
    /\ Return(t)
    /\ UNCHANGED now

-----------------------------------------------------------------------------
\* release_lease
CallRelease(t, id) ==
    /\ call[t] = Idle
    /\ call' = [call EXCEPT ![t] = [op |-> "release", at |-> now, id |-> id]]
    /\ UNCHANGED <<now, lease, held>>

\* False is returned.
ReleaseRefused(t) ==
    /\ call[t].op = "release"
    /\ ~(Found(t) /\ lease.worker = WorkerOf[t])
    /\ Return(t)
    /\ UNCHANGED <<now, lease, held>>

Release(t) ==
    /\ call[t].op = "release"
    /\ Found(t)
    /\ lease.worker = WorkerOf[t]
    /\ lease' = [lease EXCEPT !.status = "RELEASED", !.expires = call[t].at]
    /\ held' = [held EXCEPT ![WorkerOf[t]] = 0]
    /\ Return(t)
    /\ UNCHANGED now

-----------------------------------------------------------------------------
Tick ==
    /\ now < MaxTime
    /\ now' = now + 1
    /\ UNCHANGED <<lease, held, call>>

\* The leases are in the memory of the process the workers run in: they are
\* lost when it restarts, and so are the workers.
Restart ==
    /\ lease' = NoLease
    /\ held' = [w \in Workers |-> 0]
    /\ call' = [t \in Threads |-> Idle]
    /\ UNCHANGED now

LeaseCall(t) ==
    \/ \E v \in Versions : CallAcquire(t, v)
    \/ \E id \in IssuedIds, v \in Versions : CallRenew(t, id, v)
    \/ \E id \in IssuedIds : CallRelease(t, id)

LeaseStep(t) ==
    \/ AcquireConflict(t) \/ AcquireConfirm(t) \/ AcquireNew(t)
    \/ RenewRefused(t) \/ RenewExpired(t) \/ Renew(t)
    \/ ReleaseRefused(t) \/ Release(t)

LeaseNext == (\E t \in Threads : LeaseCall(t) \/ LeaseStep(t)) \/ Tick \/ Restart

LeaseSpec == LeaseInit /\ [][LeaseNext]_leaseVars

-----------------------------------------------------------------------------
\* A worker acts as the owner until the expires_at it was last given, or until
\* it releases the lease.
Owns(w) == now < held[w]

Holder == IF \E w \in Workers : Owns(w) THEN CHOOSE w \in Workers : Owns(w)
          ELSE NoOwner

(***************************************************************************)
(* "Single winner": however acquisitions, renewals, releases, expiries and *)
(* restarts interleave, and however old the clock readings are they act on,*)
(* no two workers act as the owner of the mission at the same time.        *)
(***************************************************************************)
SingleOwner == \A w, u \in Workers : Owns(w) /\ Owns(u) => w = u

Lock == INSTANCE ExclusiveLease WITH owner <- Holder

(***************************************************************************)
(* The manager implements an exclusive lock: no worker becomes the owner   *)
(* in the step in which another one stops being it.                        *)
(***************************************************************************)
ImplementsLock == Lock!Spec
=============================================================================
