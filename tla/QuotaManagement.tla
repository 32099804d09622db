--------------------------- MODULE QuotaManagement ---------------------------
(***************************************************************************)
(* QuotaManagementService (O.7) of one tenant: its policy, and the         *)
(* reservations that hold capacity while a call runs.  evaluate_and_reserve *)
(* and reconcile_reservation run under the lock of the one service, so each *)
(* is a step; the usage they read is appended under another lock.          *)
(*                                                                         *)
(* A call reserves once at most, so its reservation goes by the call.      *)
(***************************************************************************)
EXTENDS UsageMetering

CONSTANTS
    Changes,        \* bound: the changes of policy.json, each a pair of Policies
    Rules,          \* the rules of the policy
    ReservationTTL, \* default_reservation_ttl_seconds
    Estimate        \* estimated_total_tokens of every request

VARIABLES
    policy,         \* what policy.json says
    held            \* reservations/*.json, the one of each call

Policies == {"MISSING", "UNLIMITED", "RULES"}

quotaVars == <<policy, held>>

\* The rules that count money, input or output tokens work like those of
\* tokens, the scopes MODEL and PROVIDER like USER.
RuleRecords == [scope : {"TENANT", "USER"}, counts : {"REQUESTS", "TOKENS"},
                limit : Nat, hard : BOOLEAN]

NoReservation == [status |-> "NONE", corr |-> "none", user |-> Nobody,
                  created |-> 0, tokens |-> 0]

Reservations == [status : {"RESERVED", "CONSUMED", "RELEASED"}, corr : Correlations,
                 user : Identities, created : 0 .. MaxTime, tokens : 0 .. MaxTokens]
                \cup {NoReservation}

ASSUME QuotaAssumption ==
    /\ Changes \subseteq Policies \X Policies
    /\ Rules \subseteq RuleRecords
    /\ ReservationTTL \in Nat \ {0}
    /\ Estimate \in 0 .. MaxTokens

Exists(r) == held[r].status # "NONE"

Active(r) == held[r].status = "RESERVED" /\ now < held[r].created + ReservationTTL

Files == {r \in Calls : Exists(r)}

OfCorrelation(corr) == {r \in Files : held[r].corr = corr}

\* Below, unread are the files that one operation finds but cannot read: the
\* repository passes over them.

-----------------------------------------------------------------------------
(* The evaluation of a rule                                                *)

Counted(rule, tokens) == IF rule.counts = "REQUESTS" THEN 1 ELSE tokens

\* aggregate_usage: an event served by the cache is a request with tokens too.
Historical(rule, user, w) ==
    SumFunctionOnSet([e \in usage |-> Counted(rule, e.tokens)],
                     Matching(IF rule.scope = "USER" THEN user ELSE Nobody, w))

InScope(rule, r, user) == rule.scope = "TENANT" \/ held[r].user = user

InFlight(rule, user, w, unread) ==
    SumFunctionOnSet([r \in Calls |-> Counted(rule, held[r].tokens)],
                     {r \in Calls \ unread : /\ Active(r) /\ WindowOf(held[r].created) = w
                                             /\ InScope(rule, r, user)})

\* Wrong on purpose: what is in flight is left out.
RulePassesAlone(rule, user, unread) ==
    rule.hard => Historical(rule, user, WindowOf(now)) + Counted(rule, Estimate)
                    <= rule.limit

RulePasses(rule, user, unread) ==
    rule.hard => Historical(rule, user, WindowOf(now))
                    + InFlight(rule, user, WindowOf(now), unread)
                    + Counted(rule, Estimate) <= rule.limit

-----------------------------------------------------------------------------
(* The reservations                                                        *)

\* save_reservation raises where another file of the correlation is active,
\* whatever it is that is saved.
Savable(r, corr, unread) == \A s \in OfCorrelation(corr) \ (unread \cup {r}) : ~Active(s)

\* get_by_correlation_id gives the first file of the correlation that can be
\* read, in the order of the directory and whatever its status: any of them.
Found(corr, unread) ==
    LET read == OfCorrelation(corr) \ unread
    IN  IF read = {} THEN {"none"} ELSE read

Replays(found) == found # "none" /\ Active(found)

Allowed(user, unread) ==
    policy = "RULES" /\ \A rule \in Rules : RulePasses(rule, user, unread)

SaveReservation(c, corr, user, unread) ==
    /\ Savable(c, corr, unread)
    /\ held' = [held EXCEPT ![c] = [status |-> "RESERVED", corr |-> corr, user |-> user,
                                    created |-> now, tokens |-> Estimate]]

\* reconcile_reservation: whatever the status was, the new one is written.  Where
\* r itself cannot be read nothing is, and nothing is raised.
Reconcile(r, status, tokens, unread) ==
    /\ r \notin unread
    /\ Savable(r, held[r].corr, unread)
    /\ held' = [held EXCEPT ![r] = [@ EXCEPT !.status = status, !.tokens = tokens]]

QuotaInit ==
    /\ UsageInit
    /\ policy \in Policies
    /\ held = [c \in Calls |-> NoReservation]

SetPolicy(p) == <<policy, p>> \in Changes /\ policy' = p /\ UNCHANGED held

QuotaTypeOK ==
    /\ now \in 0 .. MaxTime
    /\ usage \subseteq UsageEvents
    /\ policy \in Policies
    /\ held \in [Calls -> Reservations]
==============================================================================
