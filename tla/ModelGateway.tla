---------------------------- MODULE ModelGateway ----------------------------
(***************************************************************************)
(* ModelGatewayService.execute (O.5) over quotas, cache and metering: what *)
(* a call reserves, asks of the cache and of the provider, settles and     *)
(* records, in threads of one process and across restarts of it.           *)
(*                                                                         *)
(* The gates before the quota change nothing and are one refusal.          *)
(***************************************************************************)
EXTENDS QuotaManagement, InferenceCache

CONSTANTS
    Requesters,     \* request.identity_id, and the identity the quota is asked for
    Answers,        \* the total tokens a provider's answer may count
    MaxFaults       \* bound: failed reads or writes, and crashes

VARIABLES
    calls,          \* the locals of each execute, and what its caller got
    faults,         \* failures so far
    \* history, read by the properties only
    blind,          \* windows in which a reservation was granted unseeing
    broken          \* reservations whose settling met a failure, and those made
                    \* beside another of their correlation

gatewayVars == <<now, usage, policy, held, cache, calls, faults, blind, broken>>

ASSUME GatewayAssumption ==
    /\ Requesters \subseteq {q \in Identities \X Identities : q[1] \in {q[2], Nobody}}
    /\ Answers \subseteq 0 .. MaxTokens
    /\ CacheTTL \in Nat
    /\ 0 .. MaxTokens \subseteq CacheTokens
    /\ 0 .. MaxTime + CacheTTL \subseteq CacheTimes
    /\ MaxFaults \in Nat

\* A stage is where the call is next.  What is local to a call between two uses
\* of what is shared is one step with the second.
Stages == {"NEW", "ADMITTED", "ALLOWED", "HIT", "MISS", "METERING",
           "FINALLY", "ENDED"}

\* named is request.identity_id; user may come from the session.  hold is
\* reservation_id, made provider_succeeded.
CallRecords == [stage : Stages, corr : Correlations \cup {"none"},
                named : Identities, user : Identities, prompt : Prompts \cup {"none"},
                start : 0 .. MaxTime, hold : Calls \cup {"none"},
                reconciled : BOOLEAN, made : BOOLEAN,
                tokens : 0 .. MaxTokens]

NewCall == [stage |-> "NEW", corr |-> "none", named |-> Nobody, user |-> Nobody,
            prompt |-> "none", start |-> 0, hold |-> "none", reconciled |-> FALSE,
            made |-> FALSE, tokens |-> 0]

At(c, stage) == calls[c].stage = stage

GatewayInit ==
    /\ QuotaInit
    /\ CacheInit
    /\ calls = [c \in Calls |-> NewCall]
    /\ faults = 0
    /\ blind = {}
    /\ broken = {}

Fault == faults < MaxFaults /\ faults' = faults + 1

\* Files that cannot be read are a failure of the operation that passes over them.
Reads(unread) == IF unread = {} THEN UNCHANGED faults ELSE Fault

Goto(c, stage) == calls' = [calls EXCEPT ![c].stage = stage]

\* Wrong on purpose: the finally clause acts on answered calls alone.
UnsettledIfMade(c) == calls[c].hold # "none" /\ ~calls[c].reconciled /\ calls[c].made

\* What the finally clause has to do.
Unsettled(c) == calls[c].hold # "none" /\ ~calls[c].reconciled

\* The call ends without an answer, and its locals are gone; of two of them the
\* properties speak.
Ended(call) == [NewCall EXCEPT !.stage = "ENDED", !.hold = call.hold, !.made = call.made]

\* The pipeline returns an error, or raises.
Leave(c) ==
    calls' = [calls EXCEPT ![c] = IF Unsettled(c) THEN [@ EXCEPT !.stage = "FINALLY"]
                                  ELSE Ended(@)]

-----------------------------------------------------------------------------
(* Admission                                                               *)

Arrive(c, corr, requester, prompt) ==
    /\ At(c, "NEW")
    /\ calls' = [calls EXCEPT ![c] = [NewCall EXCEPT !.stage = "ADMITTED", !.corr = corr,
                    !.named = requester[1], !.user = requester[2], !.prompt = prompt,
                    !.start = now]]
    /\ UNCHANGED <<now, usage, policy, held, cache, faults, blind, broken>>

\* Session, authorization, configuration, selection, routing, entitlement,
\* token budget or cost decision refuses, or raises.
RefuseAtGate(c) ==
    /\ At(c, "ADMITTED")
    /\ Leave(c)
    /\ UNCHANGED <<now, usage, policy, held, cache, faults, blind, broken>>

\* History: a call that counts in window w, because it was metered or may be.
InProgress(d) ==
    calls[d].stage \in {"ALLOWED", "HIT", "MISS", "METERING"}

WasMetered(d) == \E e \in usage : e.call = d

CountsIn(d, w) ==
    calls[d].start \div Window = w /\ (InProgress(d) \/ WasMetered(d))

\* History: whether the rules see call d when they are evaluated now.
SeenBy(d, w, unread) ==
    /\ w = WindowOf(now)
    /\ IF WasMetered(d)
       THEN calls[d].named = calls[d].user
       ELSE calls[d].hold = d /\ Active(d) /\ d \notin unread
            /\ WindowOf(held[d].created) = w

Blind(c, unread) ==
    LET w == WindowOf(calls[c].start)
    IN  IF \A d \in Calls \ {c} : CountsIn(d, w) => SeenBy(d, w, unread) THEN {} ELSE {w}

\* History: the active reservations that call c makes one beside, and its own.
Beside(c) ==
    LET others == {s \in OfCorrelation(calls[c].corr) \ {c} : Active(s)}
    IN  IF others = {} THEN {} ELSE others \cup {c}

Admit(c, hold) ==
    calls' = [calls EXCEPT ![c] = [@ EXCEPT !.stage = "ALLOWED", !.hold = hold,
                                            !.tokens = Estimate]]

\* An active reservation of the correlation is used again, unexamined.
ReplayReservation(c) ==
    /\ At(c, "ADMITTED")
    /\ \E found \in Found(calls[c].corr, {}) : Replays(found) /\ Admit(c, found)
    /\ blind' = blind \cup {WindowOf(calls[c].start)}
    /\ UNCHANGED <<now, usage, policy, held, cache, faults, broken>>

\* None is, or none can be read.
IsNew(c, unread) ==
    Reads(unread) /\ \E found \in Found(calls[c].corr, unread) : ~Replays(found)

AdmitUnlimited(c) ==
    /\ At(c, "ADMITTED")
    /\ \E unread \in SUBSET Files : IsNew(c, unread)
    /\ policy = "UNLIMITED"
    /\ Admit(c, "none")
    /\ blind' = blind \cup {WindowOf(calls[c].start)}
    /\ UNCHANGED <<now, usage, policy, held, cache, broken>>

Reserve(c) ==
    /\ At(c, "ADMITTED")
    /\ \E unread \in SUBSET Files :
          /\ IsNew(c, unread)
          /\ Allowed(calls[c].user, unread)
          /\ IF Savable(c, calls[c].corr, unread)
             THEN /\ SaveReservation(c, calls[c].corr, calls[c].user, unread)
                  /\ Admit(c, c)
                  /\ blind' = blind \cup Blind(c, unread)
                  /\ broken' = broken \cup Beside(c)
             ELSE /\ Leave(c)
                  /\ UNCHANGED <<held, blind, broken>>
    /\ UNCHANGED <<now, usage, policy, cache>>

\* No policy, a rule that does not pass, or one that cannot be evaluated: that
\* may be any of them, at any time.
RefuseByQuota(c) ==
    /\ At(c, "ADMITTED")
    /\ \E unread \in SUBSET Files : IsNew(c, unread)
    /\ policy \in {"MISSING", "RULES"}
    /\ Leave(c)
    /\ UNCHANGED <<now, usage, policy, held, cache, blind, broken>>

-----------------------------------------------------------------------------
(* The cache and the provider                                              *)

\* What the call will count, which may be more than was reserved.
Count(c, tokens) ==
    blind' = IF tokens > Estimate THEN blind \cup {WindowOf(calls[c].start)} ELSE blind

Hit(c) ==
    /\ At(c, "ALLOWED")
    /\ Fresh(calls[c].prompt, now)
    /\ calls' = [calls EXCEPT ![c] = [@ EXCEPT !.stage = "HIT",
                                               !.tokens = cache[calls[c].prompt].tokens]]
    /\ Count(c, cache[calls[c].prompt].tokens)
    /\ UNCHANGED <<now, usage, policy, held, cache, faults, broken>>

NoHit(c) ==
    /\ At(c, "ALLOWED")
    /\ \/ Miss(calls[c].prompt, now) /\ UNCHANGED faults
       \/ LookupFails /\ Fault
    /\ Goto(c, "MISS")
    /\ UNCHANGED <<now, usage, policy, held, blind, broken>>

-----------------------------------------------------------------------------
(* Settling and metering                                                   *)

\* reconcile_reservation in the pipeline, with what the call knows by then;
\* where it raises, the finally clause is next.  A reservation that cannot be
\* read is not settled, and the call takes it for settled.
Settle(c, status, tokens, known, after) ==
    LET r == calls[c].hold
    IN  \/ /\ r = "none"
           /\ calls' = [calls EXCEPT ![c] = after]
           /\ UNCHANGED <<held, faults, broken>>
        \/ /\ r # "none"
           /\ \/ /\ \E unread \in SUBSET Files :
                       Reads(unread) /\ Reconcile(r, status, tokens, unread)
                 /\ UNCHANGED broken
              \/ Fault /\ broken' = broken \cup {r} /\ UNCHANGED held
           /\ calls' = [calls EXCEPT ![c] = [after EXCEPT !.reconciled = after.stage # "ENDED"]]
        \/ /\ r # "none"
           /\ \/ ~Savable(r, held[r].corr, {}) /\ UNCHANGED faults
              \/ Fault
           /\ calls' = [calls EXCEPT ![c] = [known EXCEPT !.stage = "FINALLY"]]
           /\ UNCHANGED <<held, broken>>

SettleHit(c) ==
    /\ At(c, "HIT")
    /\ Settle(c, "CONSUMED", 0, calls[c], [calls[c] EXCEPT !.stage = "METERING"])
    /\ UNCHANGED <<now, usage, policy, cache, blind>>

\* A credential that cannot be resolved, or no adapter: what was reserved is
\* left to the finally clause.
RefuseBeforeProvider(c) ==
    /\ At(c, "MISS")
    /\ Leave(c)
    /\ UNCHANGED <<now, usage, policy, held, cache, faults, blind, broken>>

\* Sensitive data blocks the payload, or the provider fails: released at once.
ProviderFails(c) ==
    /\ At(c, "MISS")
    /\ LET r == calls[c].hold
       IN  Settle(c, "RELEASED", IF r = "none" THEN 0 ELSE held[r].tokens,
                  calls[c], Ended(calls[c]))
    /\ UNCHANGED <<now, usage, policy, cache, blind>>

\* The answer is kept; one without content is not, and a failure is logged.
StoreOrNot(c, tokens) == Store(calls[c].prompt, now, tokens) \/ UNCHANGED cache

\* Wrong on purpose: what was estimated is settled.
ProviderAnswersAsEstimated(c, tokens) ==
    LET call == [calls[c] EXCEPT !.made = TRUE, !.tokens = tokens]
    IN  /\ At(c, "MISS")
        /\ Settle(c, "CONSUMED", Estimate, call, [call EXCEPT !.stage = "METERING"])
        /\ IF calls'[c].stage = "METERING" THEN StoreOrNot(c, tokens) /\ Count(c, tokens)
           ELSE UNCHANGED <<cache, blind>>
        /\ UNCHANGED <<now, usage, policy>>

ProviderAnswers(c, tokens) ==
    LET call == [calls[c] EXCEPT !.made = TRUE, !.tokens = tokens]
    IN  /\ At(c, "MISS")
        /\ Settle(c, "CONSUMED", tokens, call, [call EXCEPT !.stage = "METERING"])
        /\ IF calls'[c].stage = "METERING" THEN StoreOrNot(c, tokens) /\ Count(c, tokens)
           ELSE UNCHANGED <<cache, blind>>
        /\ UNCHANGED <<now, usage, policy>>

\* The event is one of the instant the call began, and of request.identity_id.  An
\* earlier event of the reference is passed over only if it cannot be read.
Meter(c) ==
    /\ At(c, "METERING")
    /\ \/ /\ AppendEvent([call |-> c, corr |-> calls[c].corr, user |-> calls[c].named,
                          at |-> calls[c].start, tokens |-> calls[c].tokens])
          /\ calls' = [calls EXCEPT ![c] = [@ EXCEPT !.stage = "ENDED", !.reconciled = FALSE]]
          /\ IF Metered(calls[c].corr) THEN Fault ELSE UNCHANGED faults
       \/ /\ \/ Metered(calls[c].corr) /\ UNCHANGED faults
             \/ Fault
          /\ Leave(c)
          /\ UNCHANGED usage
    /\ UNCHANGED <<now, policy, held, cache, blind, broken>>

FinalStatus(c) == IF calls[c].made THEN "CONSUMED" ELSE "RELEASED"

Finally(c) ==
    LET r == calls[c].hold
    IN  /\ At(c, "FINALLY")
        /\ \/ /\ \E unread \in SUBSET Files :
                    Reads(unread) /\ Reconcile(r, FinalStatus(c), held[r].tokens, unread)
              /\ UNCHANGED broken
           \/ /\ ~Savable(r, held[r].corr, {})
              /\ UNCHANGED <<held, faults, broken>>
           \/ /\ Fault
              /\ broken' = broken \cup {r}
              /\ UNCHANGED held
        /\ calls' = [calls EXCEPT ![c] = Ended(@)]
        /\ UNCHANGED <<now, usage, policy, cache, blind>>

-----------------------------------------------------------------------------
(* Time, policies, and restarts of the process                             *)

Pass == Tick /\ UNCHANGED <<usage, policy, held, cache, calls, faults, blind, broken>>

ChangePolicy(p) ==
    SetPolicy(p) /\ UNCHANGED <<now, usage, cache, calls, faults, blind, broken>>

Crash ==
    LET lost == {c \in Calls : calls[c].stage \notin {"NEW", "ENDED"}}
    IN  /\ lost # {}
        /\ Fault
        /\ calls' = [c \in Calls |-> IF c \in lost
                        THEN Ended(calls[c]) ELSE calls[c]]
        /\ broken' = broken \cup ({calls[c].hold : c \in lost} \ {"none"})
        /\ UNCHANGED <<now, usage, policy, held, cache, blind>>

Execute(c) ==
    \/ \E corr \in Correlations, requester \in Requesters, prompt \in Prompts :
          Arrive(c, corr, requester, prompt)
    \/ RefuseAtGate(c) \/ ReplayReservation(c) \/ AdmitUnlimited(c) \/ Reserve(c)
    \/ RefuseByQuota(c) \/ Hit(c) \/ NoHit(c) \/ SettleHit(c)
    \/ RefuseBeforeProvider(c) \/ ProviderFails(c)
    \/ \E tokens \in Answers : ProviderAnswers(c, tokens)
    \/ Meter(c) \/ Finally(c)

GatewayNext ==
    \/ \E c \in Calls : Execute(c)
    \/ Pass \/ Crash
    \/ \E p \in Policies : ChangePolicy(p)

GatewaySpec == GatewayInit /\ [][GatewayNext]_gatewayVars

-----------------------------------------------------------------------------
(* Properties                                                              *)

\* Type correctness of quotas, cache and calls.
GatewayTypeOK ==
    /\ QuotaTypeOK
    /\ CacheTypeOK
    /\ calls \in [Calls -> CallRecords]
    /\ faults \in 0 .. MaxFaults
    /\ blind \subseteq 0 .. MaxTime
    /\ broken \subseteq Calls

\* What the answered calls of a window, and those that may still be answered,
\* count under a rule.
Committed(rule, user, w) ==
    SumFunctionOnSet([d \in Calls |-> Counted(rule, calls[d].tokens)],
        {d \in Calls : CountsIn(d, w) /\ (rule.scope = "USER" => calls[d].user = user)})

\* The calls of a window stay within every hard limit (evaluate_and_reserve),
\* unless a reservation was granted while a call that counts there could not be
\* seen: settled and not metered yet, its reservation expired, shared or not
\* readable, begun in another window than it reserved in, or metered under no
\* identity; or a call was admitted without limit or counted more tokens than it
\* had reserved.
WithinLimitUnlessBlind ==
    \A rule \in Rules, w \in 0 .. WindowOf(MaxTime), user \in Identities :
        rule.hard /\ w \notin blind => Committed(rule, user, w) <= rule.limit

Shared(r) == \E d \in Calls \ {r} : calls[d].hold = r

\* What quota and metering keep of one answered call agrees: the tokens that were
\* settled are those that were metered, unless the reservation could not be read
\* or written when it was settled.
SettledAsMetered ==
    \A e \in usage :
        LET c == e.call
        IN  calls[c].hold = c /\ calls[c].made /\ ~Shared(c) /\ c \notin broken =>
                held[c].status = "CONSUMED" /\ held[c].tokens = e.tokens

\* Capacity is not held for nobody: an active reservation belongs to a call that
\* is running, unless it could not be read or written when it was settled, the
\* process went down, or it and another of its correlation were made, one unseen.
NoOrphanHold ==
    \A r \in Calls : Active(r) =>
        r \in broken \/ \E d \in Calls : calls[d].hold = r /\ calls[d].stage # "ENDED"
=============================================================================
