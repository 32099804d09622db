----------------------------- MODULE Reliability -----------------------------
(***************************************************************************)
(* The reliability engine (K.7): ReliabilityEngine, its circuit breaker    *)
(* and its idempotency store.                                              *)
(*                                                                         *)
(* An engine runs one call at a time, under its _execution_lock; several   *)
(* engines share the breaker of a process and the store, each of which     *)
(* locks its own operations only.  The operation is somebody else's: it    *)
(* may raise before its effect or after it, with any text, which is what   *)
(* the failure is classified by.  A record may fail to be written or to be *)
(* read, and the process may crash; the store is on disk (the JSON one)    *)
(* and the breaker in memory.  Every call goes to one service and has an   *)
(* idempotency key.                                                        *)
(***************************************************************************)
EXTENDS Naturals, FiniteSets

CONSTANTS
    Engines,
    Keys,               \* idempotency keys
    SideEffects,        \* the keys whose operation has a side effect
    Payloads,           \* what each key may be called with
    None,               \* no record, no call
    MaxAttempts,        \* RetryPolicy.max_attempts
    FailureThreshold,   \* CircuitBreakerConfig.failure_threshold
    HalfOpenSuccesses,  \* CircuitBreakerConfig.half_open_success_threshold
    MaxFaults           \* bound: crashes, failed reads and failed writes in a run

VARIABLES
    saved,      \* the idempotency store: the payload each key succeeded with
    breaker,    \* the circuit breaker's entry for the service
    engine,     \* what each engine is doing
    faults,     \* how many faults there were
    \* the world
    effects,    \* how often the effect of each key was made, up to two, and up to
                \* one when more are accounted for
    \* history, read by the properties only
    excused,    \* keys whose effect the engine may not know it made
    unseen,     \* keys an engine executed without seeing what another had made of
                \* it: two worked on it at once, or its record could not be read
    hits        \* attempts made of an open circuit's service, up to MaxHits + 1

relVars == <<saved, breaker, engine, faults, effects, excused, unseen, hits>>
historyVars == <<excused, unseen>>

\* TRANSIENT stands for RATE_LIMIT and DEPENDENCY_UNAVAILABLE as well, PERMANENT
\* for AUTHORIZATION, VALIDATION, CORRUPTION, CONFLICT and CANCELLED: the engine
\* treats them alike.
Categories == {"TRANSIENT", "TIMEOUT", "PERMANENT", "UNKNOWN"}

\* An exception of these kinds tells the engine that the effect may have been made.
Doubtful == {"TIMEOUT", "UNKNOWN"}

AllPayloads == UNION {Payloads[k] : k \in Keys}

Stages == {"idle", "admit", "call", "returned", "save", "failed", "reconcile"}

Runs == [stage : Stages, key : Keys \cup {None}, payload : AllPayloads \cup {None},
         attempt : 0 .. MaxAttempts, category : Categories \cup {None}, made : BOOLEAN]

Idle == [stage |-> "idle", key |-> None, payload |-> None, attempt |-> 0,
         category |-> None, made |-> FALSE]

\* due: recovery_timeout_seconds have passed since last_failure_time.
Breakers == [state : {"CLOSED", "OPEN", "HALF_OPEN"}, failures : 0 .. FailureThreshold,
             successes : 0 .. HalfOpenSuccesses - 1, due : BOOLEAN]

\* What the engines may still attempt when one of them has opened the circuit.
MaxHits == Cardinality(Engines) * MaxAttempts - 1

Closed == [state |-> "CLOSED", failures |-> 0, successes |-> 0, due |-> FALSE]

ASSUME RelAssumption ==
    /\ IsFiniteSet(Engines) /\ Engines # {} /\ SideEffects \subseteq Keys
    /\ None \notin Keys \cup AllPayloads \cup Categories
    /\ MaxAttempts \in Nat \ {0}
    /\ FailureThreshold \in Nat \ {0}
    /\ HalfOpenSuccesses \in Nat \ {0}
    /\ MaxFaults \in Nat

RelTypeOK ==
    /\ saved \in [Keys -> AllPayloads \cup {None}]
    /\ breaker \in Breakers
    /\ engine \in [Engines -> Runs]
    /\ faults \in Nat
    /\ effects \in [SideEffects -> 0 .. 2]
    /\ excused \subseteq SideEffects
    /\ unseen \subseteq SideEffects
    /\ hits \in 0 .. MaxHits + 1

RelInit ==
    /\ saved = [k \in Keys |-> None]
    /\ breaker = Closed
    /\ engine = [e \in Engines |-> Idle]
    /\ faults = 0
    /\ effects = [k \in SideEffects |-> 0]
    /\ excused = {}
    /\ unseen = {}
    /\ hits = 0

Fault == faults < MaxFaults /\ faults' = faults + 1

-----------------------------------------------------------------------------
(* classify_failure, RetryPolicy.is_retryable                              *)

\* Wrong on purpose: a TIMEOUT is retried, whatever the operation does.
ClassifyByCategory(category, sideEffect) ==
    CASE category = "PERMANENT" -> "NON_RETRYABLE"
      [] category \in {"TRANSIENT", "TIMEOUT"} -> "RETRYABLE"
      [] category = "UNKNOWN" ->
            IF sideEffect THEN "RECONCILIATION_REQUIRED" ELSE "UNKNOWN"

Classify(category, sideEffect) ==
    CASE category = "PERMANENT" -> "NON_RETRYABLE"
      [] category = "TRANSIENT" -> "RETRYABLE"
      [] category = "TIMEOUT" ->
            IF sideEffect THEN "RECONCILIATION_REQUIRED" ELSE "RETRYABLE"
      [] category = "UNKNOWN" ->
            IF sideEffect THEN "RECONCILIATION_REQUIRED" ELSE "UNKNOWN"

-----------------------------------------------------------------------------
(* InMemoryCircuitBreaker                                                  *)

Monitored == {"TRANSIENT", "TIMEOUT"}

\* get_state, which half-opens a circuit that is due.
Observed(b) ==
    IF b.state = "OPEN" /\ b.due
    THEN [b EXCEPT !.state = "HALF_OPEN", !.successes = 0, !.due = FALSE] ELSE b

AfterSuccess(b) ==
    CASE b.state = "HALF_OPEN" ->
            IF b.successes + 1 >= HalfOpenSuccesses THEN Closed
            ELSE [b EXCEPT !.successes = @ + 1]
      [] b.state = "CLOSED" -> [b EXCEPT !.failures = 0]
      [] b.state = "OPEN" -> b

Opened == [state |-> "OPEN", failures |-> FailureThreshold, successes |-> 0, due |-> FALSE]

\* A failure counts, or opens the circuit, or only starts its timeout again.
AfterFailure(b, category) ==
    IF category \notin Monitored THEN b
    ELSE CASE b.state = "CLOSED" ->
                IF b.failures + 1 >= FailureThreshold THEN Opened
                ELSE [b EXCEPT !.failures = @ + 1]
           [] b.state = "HALF_OPEN" -> Opened
           [] b.state = "OPEN" -> [b EXCEPT !.due = FALSE]

RecoveryTimeout ==
    /\ breaker.state = "OPEN" /\ ~breaker.due
    /\ breaker' = [breaker EXCEPT !.due = TRUE]
    /\ UNCHANGED <<saved, engine, faults, effects, hits, historyVars>>

ResetBreaker ==
    /\ breaker' = Closed
    /\ hits' = 0
    /\ UNCHANGED <<saved, engine, faults, effects, historyVars>>

-----------------------------------------------------------------------------
(* execute_with_reliability                                                *)

Work(e) == engine[e].key

\* The engine does not know of an effect that it made.
Forget(e) ==
    excused' = IF engine[e].made THEN excused \cup {Work(e)} ELSE excused

Answer(e) == engine' = [engine EXCEPT ![e] = Idle]

\* A key on record is answered from the record, with its result or with a
\* conflict when the payload differs; another is executed, and so is one whose
\* record cannot be read, which the store takes for none.
Begin(e, k, p) ==
    /\ engine[e] = Idle
    /\ \/ saved[k] = None /\ UNCHANGED faults
       \/ saved[k] # None /\ Fault
    /\ engine' = [engine EXCEPT ![e] = [Idle EXCEPT !.stage = "admit", !.key = k,
                                                    !.payload = p, !.attempt = 1]]
    /\ unseen' = IF k \in SideEffects /\ (saved[k] # None \/ \E f \in Engines : Work(f) = k)
                 THEN unseen \cup {k} ELSE unseen
    /\ UNCHANGED <<saved, breaker, effects, excused, hits>>

\* Wrong on purpose: an open circuit lets a call try.
AdmitAny(e) ==
    /\ engine[e].stage = "admit"
    /\ breaker' = Observed(breaker)
    /\ engine' = [engine EXCEPT ![e].stage = "call"]
    /\ hits' = IF breaker'.state = "OPEN" THEN hits ELSE 0
    /\ UNCHANGED <<saved, faults, effects, historyVars>>

\* allow_request, once for all the attempts of the call.
Admit(e) ==
    /\ engine[e].stage = "admit"
    /\ breaker' = Observed(breaker)
    /\ IF breaker'.state = "OPEN"
       THEN engine' = [engine EXCEPT ![e] = Idle] /\ UNCHANGED hits
       ELSE engine' = [engine EXCEPT ![e].stage = "call"] /\ hits' = 0
    /\ UNCHANGED <<saved, faults, effects, historyVars>>

\* Keys whose effect may be made again, for a reason that is named.
Accounted == excused \cup unseen

\* The operation has its effect, if it is one that has.
MakeEffect(e) ==
    effects' = [k \in SideEffects |->
        IF k # Work(e) THEN effects[k]
        ELSE IF effects[k] = 0 THEN 1
        ELSE IF k \in Accounted THEN effects[k] ELSE 2]

\* The operation returns, or raises before its effect or after it.
CallOperation(e) ==
    /\ engine[e].stage = "call"
    /\ hits' = IF breaker.state = "OPEN" /\ hits <= MaxHits THEN hits + 1 ELSE hits
    /\ \/ /\ engine' = [engine EXCEPT ![e] = [@ EXCEPT !.stage = "returned",
                                                       !.made = Work(e) \in SideEffects]]
          /\ MakeEffect(e)
       \/ \E category \in Categories :
            /\ engine' = [engine EXCEPT ![e] = [@ EXCEPT !.stage = "failed", !.category = category]]
            /\ UNCHANGED effects
       \/ \E category \in Categories :
            /\ Work(e) \in SideEffects
            /\ engine' = [engine EXCEPT ![e] = [@ EXCEPT !.stage = "failed", !.category = category,
                                                         !.made = TRUE]]
            /\ MakeEffect(e)
    /\ UNCHANGED <<saved, breaker, faults, historyVars>>

RecordSuccess(e) ==
    /\ engine[e].stage = "returned"
    /\ engine' = [engine EXCEPT ![e].stage = "save"]
    /\ breaker' = AfterSuccess(breaker)
    /\ UNCHANGED <<saved, faults, effects, hits, historyVars>>

\* The record of the success.  It is inside the try: a write that fails is taken
\* for a failure of the operation, of whatever kind its text makes it.
SaveResult(e) ==
    /\ engine[e].stage = "save"
    /\ \/ /\ saved' = [saved EXCEPT ![Work(e)] = engine[e].payload]
          /\ Answer(e)
          /\ UNCHANGED faults
       \/ /\ Fault
          /\ \E category \in Categories :
                engine' = [engine EXCEPT ![e] = [@ EXCEPT !.stage = "failed",
                                                          !.category = category]]
          /\ UNCHANGED saved
    /\ UNCHANGED <<breaker, effects, hits, historyVars>>

CanRetry(recoverability, attempt) == recoverability = "RETRYABLE" /\ attempt < MaxAttempts

\* Wrong on purpose: the attempt is not counted.
SameAttempt(run) == [run EXCEPT !.stage = "call", !.category = None]

\* After the delay.
NextAttempt(run) == [run EXCEPT !.stage = "call", !.category = None, !.attempt = @ + 1]

\* The failure is classified: it must be reconciled, or it is tried again, or it
\* is the answer.
HandleFailure(e) ==
    LET me == engine[e]
        recoverability == Classify(me.category, Work(e) \in SideEffects)
    IN  /\ me.stage = "failed"
        /\ breaker' = AfterFailure(breaker, me.category)
        /\ hits' = IF breaker'.state # "OPEN" \/ breaker.state = "OPEN" THEN hits ELSE 0
        /\ IF recoverability = "RECONCILIATION_REQUIRED"
           THEN /\ engine' = [engine EXCEPT ![e] = [@ EXCEPT !.stage = "reconcile",
                                                            !.category = None]]
                /\ UNCHANGED excused
           ELSE /\ IF me.category \in Doubtful THEN UNCHANGED excused ELSE Forget(e)
                /\ IF CanRetry(recoverability, me.attempt)
                   THEN engine' = [engine EXCEPT ![e] = NextAttempt(@)]
                   ELSE Answer(e)
        /\ UNCHANGED <<saved, faults, effects, unseen>>

\* The caller's reconcile_func finds the effect, and the success is saved; or it
\* finds nothing, raises, is absent or the save fails, and nothing is saved.
Reconcile(e) ==
    /\ engine[e].stage = "reconcile"
    /\ \/ /\ effects[Work(e)] > 0
          /\ saved' = [saved EXCEPT ![Work(e)] = engine[e].payload]
          /\ Answer(e)
          /\ UNCHANGED excused
       \/ /\ Answer(e)
          /\ Forget(e)
          /\ UNCHANGED saved
    /\ UNCHANGED <<breaker, faults, effects, unseen, hits>>

\* The process ends and starts again: the store is on disk.
Crash ==
    /\ Fault
    /\ engine' = [e \in Engines |-> Idle]
    /\ breaker' = Closed
    /\ excused' = excused \cup {Work(e) : e \in {f \in Engines : engine[f].made}}
    /\ hits' = 0
    /\ UNCHANGED <<saved, effects, unseen>>

-----------------------------------------------------------------------------
\* What an engine does in a call, which the code leaves no way to stop at.
EngineStep(e) ==
    \/ Admit(e) \/ CallOperation(e) \/ RecordSuccess(e) \/ SaveResult(e)
    \/ HandleFailure(e) \/ Reconcile(e)

RelNext ==
    \/ \E e \in Engines :
        (\E k \in Keys : \E p \in Payloads[k] : Begin(e, k, p)) \/ EngineStep(e)
    \/ RecoveryTimeout \/ ResetBreaker \/ Crash

RelSpec == RelInit /\ [][RelNext]_relVars

\* The thread that runs a call goes on with it, and the operation ends.
FairRelSpec == RelSpec /\ \A e \in Engines : WF_relVars(EngineStep(e))

-----------------------------------------------------------------------------
\* "Duplicate prevented": the effect of a key is made a second time only when an
\* engine could not know of the first (an exception after the effect that tells of
\* neither a timeout nor doubt, a lost record, a reconciliation without an answer,
\* a crash), or the record of it could not be read, or two engines worked on the
\* key at once.
EffectOnceUnlessExcused ==
    \A k \in SideEffects \ Accounted : effects[k] <= 1

\* "Silent overwrite prohibited": over retries, reconciliations, other payloads
\* and crashes the record of a key stays what it was, but for two engines that
\* both found none and for an engine that could not read it.
SavedIsFinal ==
    [][\A k \in SideEffects \ unseen :
        saved[k] # None => saved'[k] = saved[k]]_relVars

\* No record tells of a success that did not happen, and a caller is told of a
\* success only with its record, by whichever of the three ways there are to come
\* to an answer.
SuccessWasMade == \A k \in SideEffects : saved[k] # None => effects[k] > 0

\* An open circuit spares the service: from when it opens until it half-opens
\* the service sees no more than what was left of the calls already admitted.
OpenCircuitIsQuiet == hits <= MaxHits

\* Retries, reconciliation and the breaker together never keep a call for ever.
CallsEnd == \A e \in Engines : engine[e] # Idle ~> engine[e] = Idle
=============================================================================
