---------------------------- MODULE UsageMetering ----------------------------
(***************************************************************************)
(* The usage events of one tenant (O.6), and the clock they are stamped    *)
(* with.  source_reference names the call by its correlation id.  The id   *)
(* of an event is random and part of its checksum, so that a second event  *)
(* of one reference is never the first one again: it is a conflict.        *)
(***************************************************************************)
EXTENDS Integers, FiniteSets, Functions

CONSTANTS
    Calls,          \* the calls of the gateway, each made once
    Correlations,   \* correlation ids, which two calls may share
    Users,          \* identities
    Nobody,         \* the identity of a request that has none
    Window,         \* the length of an accounting window, in ticks
    MaxTokens,      \* bound: what one answer may count
    Start, MaxTime  \* bounds of the clock

VARIABLES
    now,            \* the clock of every service
    usage           \* usage/events/*.json

ASSUME UsageAssumption ==
    /\ IsFiniteSet(Calls) /\ "none" \notin Calls
    /\ Nobody \notin Users
    /\ Window \in Nat \ {0}
    /\ MaxTokens \in Nat
    /\ Start \in Nat /\ MaxTime \in Nat /\ Start <= MaxTime

Identities == Users \cup {Nobody}

UsageEvents == [call : Calls, corr : Correlations, user : Identities,
                at : 0 .. MaxTime, tokens : 0 .. MaxTokens]

\* QuotaWindow.from_clock: minutes, hours, days and months are aligned.
WindowOf(t) == t \div Window

\* find_by_query over one window; a query with no identity matches them all.
Matching(user, w) ==
    {e \in usage : WindowOf(e.at) = w /\ (user = Nobody \/ e.user = user)}

Metered(corr) == \E e \in usage : e.corr = corr

\* append_event, where it reads no event of the reference.
AppendEvent(e) == usage' = usage \cup {e}

Tick == now < MaxTime /\ now' = now + 1

UsageInit == now = Start /\ usage = {}
==============================================================================
