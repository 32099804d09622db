------------------------- MODULE ModelGatewayProofs -------------------------
(***************************************************************************)
(* Proofs about the gateway, for any calls, correlation ids, users, rules, *)
(* windows and times to live: that limits hold except through what blind   *)
(* names, that quota and metering agree about an answered call, and that   *)
(* no capacity is held for a call that is over.                            *)
(***************************************************************************)
EXTENDS ModelGateway, SumLemmas

Open(call) == call.stage \in {"ALLOWED", "HIT", "MISS", "METERING"}

\* What a call knows of itself at each stage.
Sound(call) ==
    /\ call.stage \in {"NEW", "ADMITTED"} => call.hold = "none"
    /\ call.stage \notin {"NEW", "ENDED"} =>
          call.corr \in Correlations /\ call.prompt \in Prompts
    /\ call.stage \in {"NEW", "ADMITTED", "ALLOWED", "HIT", "MISS"} => ~call.made
    /\ call.reconciled <=> (call.stage = "METERING" /\ call.hold # "none")
    /\ call.stage = "FINALLY" => call.hold # "none"
    /\ call.stage \in {"ALLOWED", "MISS"} => call.tokens = Estimate

CallsAreSound == \A c \in Calls : Sound(calls[c])

\* An entry of the cache counts what an answer may count.
CacheIsBounded == \A p \in Prompts : cache[p].tokens \in 0 .. MaxTokens

\* An event says what its call was, and the call is over.
UsageOfEnded ==
    \A e \in usage :
        /\ calls[e.call].stage = "ENDED"
        /\ e = [call |-> e.call, corr |-> calls[e.call].corr, user |-> calls[e.call].named,
                at |-> calls[e.call].start, tokens |-> calls[e.call].tokens]

\* More than was reserved is counted in blind windows only.
OverrunIsBlind ==
    \A c \in Calls : Open(calls[c]) /\ calls[c].tokens > Estimate =>
        WindowOf(calls[c].start) \in blind

\* A reservation is made once, by its own call, and for the estimate.
NotReservedYet ==
    \A c \in Calls : calls[c].stage \in {"NEW", "ADMITTED"} => held[c] = NoReservation

HoldsExist == \A c \in Calls : calls[c].hold # "none" => Exists(calls[c].hold)

OwnHoldOfUser ==
    \A c \in Calls : Open(calls[c]) /\ calls[c].hold = c => held[c].user = calls[c].user

ReservedIsEstimate ==
    \A r \in Calls : held[r].status = "RESERVED" => held[r].tokens = Estimate

\* What makes a refused save harmless: one active reservation of a correlation,
\* but for those that were made beside each other unseen.
OneActive ==
    \A r, s \in Calls : Active(r) /\ Active(s) /\ held[r].corr = held[s].corr =>
        r = s \/ r \in broken

\* A call settles before it is metered, with the tokens it will be metered for,
\* unless its reservation could not be read.
SettledFirst ==
    \A c \in Calls : calls[c].stage = "METERING" /\ calls[c].hold # "none" =>
        held[calls[c].hold].status # "RESERVED" \/ calls[c].hold \in broken

SettledAlike ==
    \A c \in Calls :
        /\ calls[c].stage = "METERING" /\ calls[c].hold = c /\ calls[c].made
        /\ ~Shared(c) /\ c \notin broken
        =>  held[c].status = "CONSUMED" /\ held[c].tokens = calls[c].tokens

CallsInv ==
    /\ CallsAreSound /\ UsageOfEnded /\ OverrunIsBlind /\ IsFiniteSet(usage)
    /\ WithinLimitUnlessBlind

HoldsInv ==
    /\ NotReservedYet /\ HoldsExist /\ OwnHoldOfUser /\ ReservedIsEstimate /\ OneActive
    /\ SettledFirst /\ SettledAlike /\ SettledAsMetered /\ NoOrphanHold

GatewayInv == GatewayTypeOK /\ CacheIsBounded /\ CallsInv /\ HoldsInv

-----------------------------------------------------------------------------
(* Types                                                                   *)

LEMMA WindowTyped ==
    ASSUME NEW t \in 0 .. MaxTime
    PROVE  WindowOf(t) \in 0 .. MaxTime
BY UsageAssumption DEF WindowOf

LEMMA EndedTyped ==
    ASSUME NEW call \in CallRecords
    PROVE  /\ Ended(call) \in CallRecords
           /\ Ended(call).stage = "ENDED" /\ Ended(call).hold = call.hold
           /\ Ended(call).made = call.made /\ ~Ended(call).reconciled
<1>1. NewCall \in CallRecords
  BY UsageAssumption DEF NewCall, CallRecords, Stages, Identities
<1> DEFINE new == [NewCall EXCEPT !.stage = "ENDED", !.hold = call.hold, !.made = call.made]
<1>2. call.hold \in Calls \cup {"none"} /\ call.made \in BOOLEAN
  BY DEF CallRecords
<1>3. new \in CallRecords
  BY <1>1, <1>2 DEF CallRecords, Stages
<1>4. /\ new.stage = "ENDED" /\ new.hold = call.hold /\ new.made = call.made
      /\ ~new.reconciled
  BY DEF NewCall
<1> QED BY <1>3, <1>4 DEF Ended

LEMMA GatewayTypedInit ==
    ASSUME GatewayInit
    PROVE  GatewayTypeOK /\ CacheIsBounded
<1>1. NewCall \in CallRecords
  BY UsageAssumption DEF NewCall, CallRecords, Stages, Identities
<1>2. QuotaTypeOK
  BY UsageAssumption DEF GatewayInit, QuotaInit, UsageInit, QuotaTypeOK, Reservations
<1>3. CacheTypeOK /\ CacheIsBounded
  BY UsageAssumption DEF GatewayInit, CacheInit, CacheTypeOK, CacheIsBounded, Entries, Absent
<1> QED BY <1>1, <1>2, <1>3, GatewayAssumption DEF GatewayInit, GatewayTypeOK

-----------------------------------------------------------------------------
(* A step of one call                                                      *)

\* What is true of every step of call c but the reservation and the event: what
\* it makes of the call, and that no limit can be passed by it.
Moves(c, new) ==
    /\ calls' = [calls EXCEPT ![c] = new]
    /\ new \in CallRecords /\ Sound(new)
    /\ calls[c].stage # "ENDED"
    /\ new.stage \in {"NEW", "ADMITTED"} => calls[c].stage = "NEW"
    /\ Open(new) /\ WindowOf(new.start) \notin blind' =>
          /\ Open(calls[c]) /\ new.start = calls[c].start /\ new.user = calls[c].user
          /\ new.tokens <= calls[c].tokens /\ new.tokens <= Estimate
    /\ blind \subseteq blind'
    /\ usage' = usage

\* Under a rule, less is counted of fewer calls.
LEMMA CommittedShrinks ==
    ASSUME GatewayTypeOK, calls' \in [Calls -> CallRecords],
           NEW rule \in Rules, NEW w, NEW user,
           \A d \in Calls : CountsIn(d, w)' =>
               /\ CountsIn(d, w) /\ calls'[d].user = calls[d].user
               /\ calls'[d].tokens <= calls[d].tokens
    PROVE  /\ Committed(rule, user, w) \in Nat /\ Committed(rule, user, w)' \in Nat
           /\ Committed(rule, user, w)' <= Committed(rule, user, w)
<1> DEFINE S == {d \in Calls : CountsIn(d, w) /\ (rule.scope = "USER" => calls[d].user = user)}
           T == {d \in Calls : CountsIn(d, w)' /\ (rule.scope = "USER" => calls'[d].user = user)}
           f == [d \in Calls |-> Counted(rule, calls[d].tokens)]
           g == [d \in Calls |-> Counted(rule, calls'[d].tokens)]
<1>1. T \in SUBSET S /\ S \subseteq Calls
  OBVIOUS
<1>2. IsFiniteSet(S)
  BY <1>1, FS_Subset, UsageAssumption
<1>3. \A d \in Calls : /\ calls[d].tokens \in Nat /\ calls'[d].tokens \in Nat
  BY UsageAssumption DEF GatewayTypeOK, CallRecords
<1>4. \A d \in S : f[d] \in Nat
  BY <1>1, <1>3 DEF Counted
<1>5. \A d \in T : g[d] \in Nat /\ g[d] <= f[d]
  BY <1>1, <1>3 DEF Counted
<1>6. Committed(rule, user, w) = SumFunctionOnSet(f, S)
  BY DEF Committed
<1>7. Committed(rule, user, w)' = SumFunctionOnSet(g, T)
  BY DEF Committed, Counted
<1> HIDE DEF S, T, f, g
<1>8. SumFunctionOnSet(g, T) <= SumFunctionOnSet(f, S)
  BY <1>1, <1>2, <1>4, <1>5, SumGrows
<1>9. SumFunctionOnSet(f, S) \in Nat /\ SumFunctionOnSet(g, T) \in Nat
  <2>1. IsFiniteSet(T)
    BY <1>1, <1>2, FS_Subset
  <2> QED BY <1>2, <1>4, <1>5, <2>1, SumIsNat
<1> QED BY <1>6, <1>7, <1>8, <1>9

\* Where no more is counted in the windows that are not blind, limits still hold.
LEMMA LimitsKept ==
    ASSUME GatewayTypeOK, GatewayTypeOK', WithinLimitUnlessBlind, blind \subseteq blind',
           \A w \in 0 .. WindowOf(MaxTime), d \in Calls : w \notin blind' /\ CountsIn(d, w)' =>
               /\ CountsIn(d, w) /\ calls'[d].user = calls[d].user
               /\ calls'[d].tokens <= calls[d].tokens
    PROVE  WithinLimitUnlessBlind'
<1> SUFFICES ASSUME NEW rule \in Rules, NEW w \in 0 .. WindowOf(MaxTime),
                    NEW user \in Identities, rule.hard, w \notin blind'
             PROVE  Committed(rule, user, w)' <= rule.limit
  BY DEF WithinLimitUnlessBlind
<1>1. Committed(rule, user, w) <= rule.limit
  BY DEF WithinLimitUnlessBlind
<1>2. /\ Committed(rule, user, w) \in Nat /\ Committed(rule, user, w)' \in Nat
      /\ Committed(rule, user, w)' <= Committed(rule, user, w)
  <2>1. calls' \in [Calls -> CallRecords]
    BY DEF GatewayTypeOK
  <2> QED BY <2>1, CommittedShrinks
<1>3. rule.limit \in Nat
  BY QuotaAssumption DEF RuleRecords
<1> QED BY <1>1, <1>2, <1>3

LEMMA MovesKeepCalls ==
    ASSUME GatewayInv, GatewayTypeOK', NEW c \in Calls, NEW new, Moves(c, new)
    PROVE  CallsInv'
<1>1. calls'[c] = new /\ \A d \in Calls : d # c => calls'[d] = calls[d]
  BY DEF GatewayInv, GatewayTypeOK, Moves
<1>2. CallsAreSound'
  BY <1>1 DEF GatewayInv, CallsInv, CallsAreSound, Moves
<1>3. \A e \in usage : e.call \in Calls /\ e.call # c
  BY DEF GatewayInv, GatewayTypeOK, QuotaTypeOK, CallsInv, UsageOfEnded, UsageEvents, Moves
<1>4. UsageOfEnded'
  BY <1>1, <1>3 DEF GatewayInv, CallsInv, UsageOfEnded, Moves
<1>5. OverrunIsBlind'
  <2> SUFFICES ASSUME NEW d \in Calls, Open(calls'[d]), calls'[d].tokens > Estimate
               PROVE  WindowOf(calls'[d].start) \in blind'
    BY DEF OverrunIsBlind, WindowOf
  <2>1. CASE d = c
    <3>1. new.tokens \in Nat /\ Estimate \in Nat
      BY UsageAssumption, QuotaAssumption DEF Moves, CallRecords
    <3> QED BY <1>1, <2>1, <3>1 DEF Moves
  <2>2. CASE d # c
    BY <1>1, <2>2 DEF GatewayInv, CallsInv, OverrunIsBlind, Moves
  <2> QED BY <2>1, <2>2
<1>6. IsFiniteSet(usage)'
  BY DEF GatewayInv, CallsInv, Moves
<1>7. WithinLimitUnlessBlind'
  <2>1. ASSUME NEW w \in 0 .. WindowOf(MaxTime), NEW d \in Calls, w \notin blind',
               CountsIn(d, w)'
        PROVE  /\ CountsIn(d, w) /\ calls'[d].user = calls[d].user
               /\ calls'[d].tokens <= calls[d].tokens
    <3>1. CASE d = c
      <4>1. ~WasMetered(d)'
        BY <1>3, <3>1 DEF WasMetered, Moves
      <4>2. WindowOf(new.start) = w /\ Open(new)
        BY <1>1, <2>1, <3>1, <4>1 DEF CountsIn, InProgress, Open, WindowOf
      <4> QED BY <1>1, <2>1, <3>1, <4>2 DEF Moves, CountsIn, InProgress, Open, WindowOf
    <3>2. CASE d # c
      <4>1. calls[d].tokens \in Nat
        BY UsageAssumption DEF GatewayInv, GatewayTypeOK, CallRecords
      <4> QED BY <1>1, <2>1, <3>2, <4>1 DEF CountsIn, InProgress, WasMetered, Moves
    <3> QED BY <3>1, <3>2
  <2> QED BY <2>1, LimitsKept DEF GatewayInv, CallsInv, Moves
<1> QED BY <1>2, <1>4, <1>5, <1>6, <1>7 DEF CallsInv

\* Of what a call holds, a step changes nothing but that it may begin to share.
KeepsHold(c, new) ==
    /\ \/ new.hold = calls[c].hold
       \/ calls[c].stage = "ADMITTED" /\ new.hold \in Calls \ {c} /\ Exists(new.hold)
    /\ Open(new) /\ new.hold = c => Open(calls[c]) /\ new.user = calls[c].user

\* A step that writes no reservation.
LEMMA HoldsKept ==
    ASSUME GatewayInv, NEW c \in Calls, NEW new, Moves(c, new), KeepsHold(c, new),
           UNCHANGED <<now, held>>, broken \subseteq broken',
           new.stage = "METERING" => new.hold = "none" \/ new.hold \in broken',
           new.stage = "ENDED" /\ new.hold # "none" =>
               new.hold \in broken' \/ ~Active(new.hold)
    PROVE  HoldsInv'
<1>1. /\ calls'[c] = new /\ \A d \in Calls : d # c => calls'[d] = calls[d]
      /\ now' = now /\ held' = held /\ usage' = usage
  BY DEF GatewayInv, GatewayTypeOK, Moves
<1>2. calls[c].stage \in {"NEW", "ADMITTED"} => calls[c].hold = "none"
  BY DEF GatewayInv, CallsInv, CallsAreSound, Sound
<1>3. ASSUME NEW d \in Calls, Shared(d) PROVE Shared(d)'
  <2>1. "none" \notin Calls
    BY UsageAssumption
  <2> QED BY <1>1, <1>2, <1>3, <2>1 DEF Shared, KeepsHold
<1>4. NotReservedYet'
  BY <1>1 DEF GatewayInv, HoldsInv, NotReservedYet, Moves
<1>5. HoldsExist'
  BY <1>1 DEF GatewayInv, HoldsInv, HoldsExist, KeepsHold, Exists
<1>6. OwnHoldOfUser'
  BY <1>1 DEF GatewayInv, HoldsInv, OwnHoldOfUser, KeepsHold
<1>7. ReservedIsEstimate' /\ OneActive'
  BY <1>1 DEF GatewayInv, HoldsInv, ReservedIsEstimate, OneActive, Active
<1>8. SettledFirst'
  BY <1>1 DEF GatewayInv, HoldsInv, SettledFirst
<1>9. SettledAlike'
  <2> SUFFICES ASSUME NEW d \in Calls, calls'[d].stage = "METERING", calls'[d].hold = d,
                      calls'[d].made, ~Shared(d)', d \notin broken'
               PROVE  held'[d].status = "CONSUMED" /\ held'[d].tokens = calls'[d].tokens
    BY DEF SettledAlike
  <2>1. d # c
    BY <1>1, UsageAssumption
  <2> QED BY <1>1, <1>3, <2>1 DEF GatewayInv, HoldsInv, SettledAlike
<1>10. SettledAsMetered'
  <2> SUFFICES ASSUME NEW e \in usage, calls'[e.call].hold = e.call, calls'[e.call].made,
                      ~Shared(e.call)', e.call \notin broken'
               PROVE  held'[e.call].status = "CONSUMED" /\ held'[e.call].tokens = e.tokens
    BY <1>1 DEF SettledAsMetered
  <2>1. e.call \in Calls /\ e.call # c
    BY DEF GatewayInv, GatewayTypeOK, QuotaTypeOK, CallsInv, UsageOfEnded, UsageEvents, Moves
  <2> QED BY <1>1, <1>3, <2>1 DEF GatewayInv, HoldsInv, SettledAsMetered
<1>11. NoOrphanHold'
  <2> SUFFICES ASSUME NEW r \in Calls, Active(r)', r \notin broken'
               PROVE  \E d \in Calls : calls'[d].hold = r /\ calls'[d].stage # "ENDED"
    BY DEF NoOrphanHold
  <2>1. PICK d \in Calls : calls[d].hold = r /\ calls[d].stage # "ENDED"
    BY <1>1 DEF GatewayInv, HoldsInv, NoOrphanHold, Active
  <2>2. r # "none" /\ Active(r)
    BY <1>1, UsageAssumption DEF Active
  <2> QED BY <1>1, <1>2, <2>1, <2>2 DEF KeepsHold
<1> QED BY <1>4, <1>5, <1>6, <1>7, <1>8, <1>9, <1>10, <1>11 DEF HoldsInv

\* A step that settles what the call holds.
LEMMA HoldsSettled ==
    ASSUME GatewayInv, NEW c \in Calls, NEW new, Moves(c, new), new.hold = calls[c].hold,
           calls[c].hold # "none", calls[c].stage \notin {"NEW", "ADMITTED"},
           NEW status \in {"CONSUMED", "RELEASED"}, NEW tokens \in 0 .. MaxTokens,
           held' = [held EXCEPT ![calls[c].hold] = [@ EXCEPT !.status = status,
                                                             !.tokens = tokens]],
           now' = now, broken \subseteq broken', Open(new) => new.user = calls[c].user,
           Open(new) => Open(calls[c]),
           new.stage = "METERING" /\ new.made => status = "CONSUMED" /\ tokens = new.tokens
    PROVE  HoldsInv'
<1> DEFINE r == calls[c].hold
<1>1. /\ calls'[c] = new /\ \A d \in Calls : d # c => calls'[d] = calls[d]
      /\ now' = now /\ usage' = usage
  BY DEF GatewayInv, GatewayTypeOK, Moves
<1>2. r \in Calls /\ held[r] \in Reservations /\ Exists(r)
  BY DEF GatewayInv, GatewayTypeOK, QuotaTypeOK, CallRecords, HoldsInv, HoldsExist
<1>3. /\ held'[r].status = status /\ held'[r].tokens = tokens
      /\ held'[r].user = held[r].user /\ held'[r].corr = held[r].corr
      /\ held'[r].created = held[r].created
      /\ \A d \in Calls : d # r => held'[d] = held[d]
  BY <1>2 DEF GatewayInv, GatewayTypeOK, QuotaTypeOK, Reservations, NoReservation
<1>16. \A d \in Calls : calls[d].hold \in Calls \cup {"none"}
  BY DEF GatewayInv, GatewayTypeOK, CallRecords
<1> HIDE DEF r
<1>4. new.hold = r /\ calls[c].hold = r
  BY DEF r
<1>5. ASSUME NEW d \in Calls PROVE Shared(d) <=> Shared(d)'
  BY <1>1, <1>4 DEF Shared
<1>6. ASSUME NEW d \in Calls, Active(d)' PROVE d # r /\ Active(d)
  BY <1>1, <1>3, <1>6 DEF Active
<1>7. NotReservedYet'
  <2>1. calls[r].stage \notin {"NEW", "ADMITTED"}
    BY <1>2 DEF GatewayInv, HoldsInv, NotReservedYet, Exists, NoReservation
  <2> QED BY ZenonT(40), <1>1, <1>2, <1>3, <2>1 DEF GatewayInv, HoldsInv, NotReservedYet, Moves
<1>8. HoldsExist'
  <2>1. \A d \in Calls : Exists(d) => Exists(d)'
    BY <1>2, <1>3 DEF Exists
  <2>2. \A d \in Calls : calls'[d].hold = calls[d].hold
    BY <1>1, <1>4
  <2> QED BY <1>16, <2>1, <2>2 DEF GatewayInv, HoldsInv, HoldsExist, Exists
<1>9. OwnHoldOfUser'
  <2>1. \A d \in Calls : held'[d].user = held[d].user
    BY <1>2, <1>3
  <2>2. \A d \in Calls : Open(calls'[d]) /\ calls'[d].hold = d =>
           Open(calls[d]) /\ calls[d].hold = d /\ calls'[d].user = calls[d].user
    BY <1>1, <1>4
  <2> QED BY ZenonT(40), <2>1, <2>2 DEF GatewayInv, HoldsInv, OwnHoldOfUser
<1>10. ReservedIsEstimate'
  BY <1>3 DEF GatewayInv, HoldsInv, ReservedIsEstimate
<1>11. OneActive'
  BY <1>3, <1>6 DEF GatewayInv, HoldsInv, OneActive
<1>12. SettledFirst'
  <2> SUFFICES ASSUME NEW d \in Calls, calls'[d].stage = "METERING", calls'[d].hold # "none"
               PROVE  \/ held'[calls'[d].hold].status # "RESERVED"
                      \/ calls'[d].hold \in broken'
    BY DEF SettledFirst
  <2>1. CASE calls'[d].hold = r
    BY <1>3, <2>1
  <2>2. CASE calls'[d].hold # r
    <3>1. calls'[d] = calls[d] /\ calls[d].hold \in Calls
      BY <1>1, <1>4, <1>16, <2>2
    <3> QED BY ZenonT(40), <1>3, <2>2, <3>1 DEF GatewayInv, HoldsInv, SettledFirst
  <2> QED BY <2>1, <2>2
<1>13. SettledAlike'
  <2> SUFFICES ASSUME NEW d \in Calls, calls'[d].stage = "METERING", calls'[d].hold = d,
                      calls'[d].made, ~Shared(d)', d \notin broken'
               PROVE  held'[d].status = "CONSUMED" /\ held'[d].tokens = calls'[d].tokens
    BY DEF SettledAlike
  <2>1. CASE d = c
    <3>1. d = r /\ new.stage = "METERING" /\ new.made /\ calls'[d] = new
      BY <1>1, <1>4, <2>1
    <3>2. status = "CONSUMED" /\ tokens = new.tokens
      BY <3>1
    <3> QED BY <1>3, <3>1, <3>2
  <2>2. CASE d # c
    <3>1. d # r
      BY <1>1, <1>4, <2>2 DEF Shared
    <3>2. held'[d] = held[d] /\ calls'[d] = calls[d] /\ ~Shared(d)
      BY <1>1, <1>3, <1>5, <2>2, <3>1
    <3> QED BY <3>2 DEF GatewayInv, HoldsInv, SettledAlike
  <2> QED BY <2>1, <2>2
<1>14. SettledAsMetered'
  <2> SUFFICES ASSUME NEW e \in usage, calls'[e.call].hold = e.call, calls'[e.call].made,
                      ~Shared(e.call)', e.call \notin broken'
               PROVE  held'[e.call].status = "CONSUMED" /\ held'[e.call].tokens = e.tokens
    BY <1>1 DEF SettledAsMetered
  <2>1. e.call \in Calls /\ e.call # c
    BY DEF GatewayInv, GatewayTypeOK, QuotaTypeOK, CallsInv, UsageOfEnded, UsageEvents, Moves
  <2>2. e.call # r
    BY <1>1, <1>4, <2>1 DEF Shared
  <2> QED BY ZenonT(40), <1>1, <1>3, <1>5, <2>1, <2>2 DEF GatewayInv, HoldsInv, SettledAsMetered
<1>15. NoOrphanHold'
  <2> SUFFICES ASSUME NEW s \in Calls, Active(s)', s \notin broken'
               PROVE  \E d \in Calls : calls'[d].hold = s /\ calls'[d].stage # "ENDED"
    BY DEF NoOrphanHold
  <2>1. s # r /\ Active(s)
    BY <1>6
  <2>2. PICK d \in Calls : calls[d].hold = s /\ calls[d].stage # "ENDED"
    BY <2>1 DEF GatewayInv, HoldsInv, NoOrphanHold
  <2> QED BY <1>1, <1>4, <2>1, <2>2
<1> QED BY <1>7, <1>8, <1>9, <1>10, <1>11, <1>12, <1>13, <1>14, <1>15 DEF HoldsInv

-----------------------------------------------------------------------------
(* The steps of a call                                                     *)

\* The pipeline is left: to the finally clause, or for good with nothing active.
LEMMA LeaveKeeps ==
    ASSUME GatewayInv, NEW c \in Calls, Leave(c), calls[c].stage \notin {"NEW", "ENDED"},
           UNCHANGED <<now, usage, policy, held, cache, blind, broken>>,
           faults' \in 0 .. MaxFaults
    PROVE  GatewayInv'
<1> DEFINE new == IF Unsettled(c) THEN [calls[c] EXCEPT !.stage = "FINALLY"]
                  ELSE Ended(calls[c])
<1>1. calls[c] \in CallRecords /\ Sound(calls[c])
  BY DEF GatewayInv, GatewayTypeOK, CallsInv, CallsAreSound
<1>2. /\ new \in CallRecords /\ new.hold = calls[c].hold /\ new.stage \in {"FINALLY", "ENDED"}
      /\ ~Unsettled(c) => new.stage = "ENDED" /\ ~new.reconciled
      /\ Unsettled(c) => new = [calls[c] EXCEPT !.stage = "FINALLY"]
  BY <1>1, EndedTyped DEF CallRecords, Stages
<1>3. calls' = [calls EXCEPT ![c] = new]
  BY DEF Leave
<1> HIDE DEF new
<1>4. Sound(new)
  <2>1. CASE Unsettled(c)
    <3>1. /\ new.stage = "FINALLY" /\ new.hold = calls[c].hold /\ ~new.reconciled
          /\ new.corr = calls[c].corr /\ new.prompt = calls[c].prompt /\ new.hold # "none"
      BY <1>1, <1>2, <2>1 DEF Unsettled, CallRecords
    <3> QED BY <1>1, <3>1 DEF Sound
  <2>2. CASE ~Unsettled(c)
    BY <1>2, <2>2 DEF Sound
  <2> QED BY <2>1, <2>2
<1>5. Moves(c, new)
  BY <1>2, <1>3, <1>4 DEF Moves, Open
<1>6. KeepsHold(c, new)
  BY <1>2 DEF KeepsHold, Open
<1>7. new.stage = "ENDED" /\ new.hold # "none" => new.hold \in broken \/ ~Active(new.hold)
  <2> SUFFICES ASSUME new.stage = "ENDED", new.hold # "none"
               PROVE  new.hold \in broken \/ ~Active(new.hold)
    OBVIOUS
  <2>1. calls[c].reconciled
    <3>1. ~Unsettled(c)
      BY <1>1, <1>2 DEF CallRecords
    <3> QED BY <1>2, <3>1 DEF Unsettled
  <2> QED BY <1>1, <1>2, <2>1 DEF Sound, Active, GatewayInv, HoldsInv, SettledFirst
<1>8. (GatewayTypeOK /\ CacheIsBounded)'
  BY <1>2, <1>3 DEF GatewayInv, GatewayTypeOK, QuotaTypeOK, CacheTypeOK, CacheIsBounded
<1>9. CallsInv'
  BY <1>5, <1>8, MovesKeepCalls
<1>10. HoldsInv'
  BY <1>2, <1>5, <1>6, <1>7, HoldsKept
<1> QED BY <1>8, <1>9, <1>10 DEF GatewayInv

LEMMA ArriveKeeps ==
    ASSUME GatewayInv, NEW c \in Calls, NEW corr \in Correlations,
           NEW requester \in Requesters, NEW prompt \in Prompts,
           Arrive(c, corr, requester, prompt)
    PROVE  GatewayInv'
<1> DEFINE new == [NewCall EXCEPT !.stage = "ADMITTED", !.corr = corr,
                    !.named = requester[1], !.user = requester[2], !.prompt = prompt,
                    !.start = now]
<1>1. calls[c] \in CallRecords /\ Sound(calls[c]) /\ calls[c].stage = "NEW"
  BY DEF GatewayInv, GatewayTypeOK, CallsInv, CallsAreSound, Arrive, At
<1>2. new \in CallRecords
  <2>1. requester[1] \in Identities /\ requester[2] \in Identities
    BY GatewayAssumption
  <2>2. now \in 0 .. MaxTime
    BY DEF GatewayInv, GatewayTypeOK, QuotaTypeOK
  <2>3. NewCall \in CallRecords
    BY UsageAssumption DEF NewCall, CallRecords, Stages, Identities
  <2> QED BY <2>1, <2>2, <2>3 DEF CallRecords, Stages
<1>3. /\ new.stage = "ADMITTED" /\ new.hold = "none" /\ ~new.made /\ ~new.reconciled
      /\ new.corr = corr /\ new.prompt = prompt
  BY DEF NewCall
<1>4. calls' = [calls EXCEPT ![c] = new]
  BY DEF Arrive
<1> HIDE DEF new
<1>5. Sound(new)
  BY <1>3 DEF Sound
<1>6. Moves(c, new)
  BY <1>1, <1>2, <1>3, <1>4, <1>5 DEF Moves, Open, Arrive
<1>7. KeepsHold(c, new)
  BY <1>1, <1>3 DEF KeepsHold, Open, Sound
<1>8. (GatewayTypeOK /\ CacheIsBounded)'
  BY <1>2, <1>4
  DEF GatewayInv, GatewayTypeOK, QuotaTypeOK, CacheTypeOK, CacheIsBounded, Arrive
<1>9. CallsInv'
  BY <1>6, <1>8, MovesKeepCalls
<1>10. HoldsInv'
  BY <1>3, <1>6, <1>7, HoldsKept DEF Arrive
<1> QED BY <1>8, <1>9, <1>10 DEF GatewayInv

\* A call is admitted on no reservation of its own: its window is blind.
LEMMA AdmittedBlindly ==
    ASSUME GatewayInv, NEW c \in Calls, At(c, "ADMITTED"),
           NEW hold \in (Calls \ {c}) \cup {"none"}, Admit(c, hold),
           hold # "none" => Exists(hold),
           blind' = blind \cup {WindowOf(calls[c].start)},
           UNCHANGED <<now, usage, policy, held, cache, broken>>, faults' \in 0 .. MaxFaults
    PROVE  GatewayInv'
<1> DEFINE new == [calls[c] EXCEPT !.stage = "ALLOWED", !.hold = hold, !.tokens = Estimate]
<1>1. /\ calls[c] \in CallRecords /\ Sound(calls[c]) /\ calls[c].stage = "ADMITTED"
      /\ calls[c].hold = "none"
  BY DEF GatewayInv, GatewayTypeOK, CallsInv, CallsAreSound, At, Sound
<1>2. /\ new \in CallRecords /\ new.stage = "ALLOWED" /\ new.hold = hold
      /\ new.tokens = Estimate /\ new.made = calls[c].made /\ new.corr = calls[c].corr
      /\ new.prompt = calls[c].prompt /\ new.start = calls[c].start
      /\ new.reconciled = calls[c].reconciled
  BY <1>1, QuotaAssumption DEF CallRecords, Stages
<1>3. calls' = [calls EXCEPT ![c] = new]
  BY <1>1 DEF Admit, GatewayInv, GatewayTypeOK, CallRecords
<1> HIDE DEF new
<1>4. Sound(new)
  BY <1>1, <1>2 DEF Sound
<1>5. Moves(c, new)
  BY <1>1, <1>2, <1>3, <1>4 DEF Moves, Open
<1>6. KeepsHold(c, new)
  BY <1>1, <1>2, UsageAssumption DEF KeepsHold
<1>7. (GatewayTypeOK /\ CacheIsBounded)'
  <2>1. WindowOf(calls[c].start) \in 0 .. MaxTime
    BY <1>1, WindowTyped DEF CallRecords
  <2> QED BY <1>2, <1>3, <2>1
          DEF GatewayInv, GatewayTypeOK, QuotaTypeOK, CacheTypeOK, CacheIsBounded
<1>8. CallsInv'
  BY <1>5, <1>7, MovesKeepCalls
<1>9. HoldsInv'
  BY <1>2, <1>5, <1>6, HoldsKept
<1> QED BY <1>7, <1>8, <1>9 DEF GatewayInv

LEMMA ReplayKeeps ==
    ASSUME GatewayInv, NEW c \in Calls, ReplayReservation(c)
    PROVE  GatewayInv'
<1>1. PICK found \in Found(calls[c].corr, {}) : Replays(found) /\ Admit(c, found)
  BY DEF ReplayReservation
<1>2. found \in OfCorrelation(calls[c].corr)
  BY <1>1 DEF Found, Replays
<1>3. found \in Calls /\ Exists(found)
  BY <1>2 DEF OfCorrelation, Files
<1>4. ~Exists(c)
  BY DEF ReplayReservation, At, GatewayInv, HoldsInv, NotReservedYet, Exists, NoReservation
<1>5. faults' \in 0 .. MaxFaults
  BY DEF ReplayReservation, GatewayInv, GatewayTypeOK
<1> QED BY <1>1, <1>3, <1>4, <1>5, AdmittedBlindly DEF ReplayReservation

\* What cannot be read is paid for.
LEMMA ReadsTyped ==
    ASSUME GatewayTypeOK, NEW unread, Reads(unread)
    PROVE  faults' \in 0 .. MaxFaults
BY GatewayAssumption DEF Reads, Fault, GatewayTypeOK

LEMMA UnlimitedKeeps ==
    ASSUME GatewayInv, NEW c \in Calls, AdmitUnlimited(c)
    PROVE  GatewayInv'
<1>1. faults' \in 0 .. MaxFaults
  BY ReadsTyped DEF AdmitUnlimited, IsNew, GatewayInv
<1> QED BY <1>1, AdmittedBlindly DEF AdmitUnlimited

LEMMA RefuseKeeps ==
    ASSUME GatewayInv, NEW c \in Calls,
           RefuseAtGate(c) \/ RefuseByQuota(c) \/ RefuseBeforeProvider(c)
    PROVE  GatewayInv'
<1>1. /\ Leave(c) /\ calls[c].stage \notin {"NEW", "ENDED"}
      /\ UNCHANGED <<now, usage, policy, held, cache, blind, broken>>
  BY DEF RefuseAtGate, RefuseByQuota, RefuseBeforeProvider, At
<1>2. faults' \in 0 .. MaxFaults
  BY ReadsTyped
  DEF RefuseAtGate, RefuseByQuota, RefuseBeforeProvider, IsNew, GatewayInv, GatewayTypeOK
<1> QED BY <1>1, <1>2, LeaveKeeps

\* What the cache gives is counted, as blind where it is more than the estimate.
LEMMA HitKeeps ==
    ASSUME GatewayInv, NEW c \in Calls, Hit(c)
    PROVE  GatewayInv'
<1> DEFINE tokens == cache[calls[c].prompt].tokens
           new == [calls[c] EXCEPT !.stage = "HIT", !.tokens = tokens]
<1>1. /\ calls[c] \in CallRecords /\ Sound(calls[c]) /\ calls[c].stage = "ALLOWED"
      /\ calls[c].tokens = Estimate /\ tokens \in 0 .. MaxTokens /\ Estimate \in 0 .. MaxTokens
  BY QuotaAssumption
  DEF GatewayInv, GatewayTypeOK, CallsInv, CallsAreSound, CacheIsBounded, Hit, At, Sound
<1>2. /\ new \in CallRecords /\ new.stage = "HIT" /\ new.hold = calls[c].hold
      /\ new.tokens = tokens /\ new.made = calls[c].made /\ new.corr = calls[c].corr
      /\ new.prompt = calls[c].prompt /\ new.start = calls[c].start
      /\ new.reconciled = calls[c].reconciled /\ new.user = calls[c].user
  BY <1>1 DEF CallRecords, Stages
<1>3. /\ calls' = [calls EXCEPT ![c] = new]
      /\ blind' = IF tokens > Estimate THEN blind \cup {WindowOf(calls[c].start)} ELSE blind
      /\ UNCHANGED <<now, usage, policy, held, cache, faults, broken>>
  BY <1>1 DEF Hit, Count, GatewayInv, GatewayTypeOK, CallRecords
<1>4. WindowOf(calls[c].start) \in 0 .. MaxTime
  BY <1>1, WindowTyped DEF CallRecords
<1> HIDE DEF new, tokens
<1>5. Sound(new)
  BY <1>1, <1>2 DEF Sound
<1>6. Moves(c, new)
  <2>1. WindowOf(new.start) \notin blind' => new.tokens <= Estimate
    BY <1>1, <1>2, <1>3 DEF WindowOf
  <2> QED BY <1>1, <1>2, <1>3, <1>5, <2>1 DEF Moves, Open
<1>7. KeepsHold(c, new)
  BY <1>1, <1>2 DEF KeepsHold, Open
<1>8. (GatewayTypeOK /\ CacheIsBounded)'
  BY <1>2, <1>3, <1>4
  DEF GatewayInv, GatewayTypeOK, QuotaTypeOK, CacheTypeOK, CacheIsBounded
<1>9. CallsInv'
  BY <1>6, <1>8, MovesKeepCalls
<1>10. HoldsInv'
  BY <1>2, <1>3, <1>6, <1>7, HoldsKept
<1> QED BY <1>8, <1>9, <1>10 DEF GatewayInv

LEMMA NoHitKeeps ==
    ASSUME GatewayInv, NEW c \in Calls, NoHit(c)
    PROVE  GatewayInv'
<1> DEFINE new == [calls[c] EXCEPT !.stage = "MISS"]
<1>1. /\ calls[c] \in CallRecords /\ Sound(calls[c]) /\ calls[c].stage = "ALLOWED"
      /\ calls[c].tokens = Estimate /\ Estimate \in Nat
  BY QuotaAssumption, UsageAssumption
  DEF GatewayInv, GatewayTypeOK, CallsInv, CallsAreSound, NoHit, At, Sound
<1>2. /\ new \in CallRecords /\ new.stage = "MISS" /\ new.hold = calls[c].hold
      /\ new.tokens = calls[c].tokens /\ new.made = calls[c].made /\ new.corr = calls[c].corr
      /\ new.prompt = calls[c].prompt /\ new.start = calls[c].start
      /\ new.reconciled = calls[c].reconciled /\ new.user = calls[c].user
  BY <1>1 DEF CallRecords, Stages
<1>3. /\ calls' = [calls EXCEPT ![c] = new]
      /\ UNCHANGED <<now, usage, policy, held, blind, broken>>
  BY DEF NoHit, Goto
<1> HIDE DEF new
<1>4. (CacheTypeOK /\ CacheIsBounded)'
  <2>1. CASE UNCHANGED cache
    BY <2>1 DEF GatewayInv, GatewayTypeOK, CacheTypeOK, CacheIsBounded
  <2>2. CASE Miss(calls[c].prompt, now)
    <3>1. Absent \in Entries /\ Absent.tokens \in 0 .. MaxTokens
      BY UsageAssumption DEF Absent, Entries
    <3>2. cache \in [Prompts -> Entries] /\ \A p \in Prompts : cache[p].tokens \in 0 .. MaxTokens
      BY DEF GatewayInv, GatewayTypeOK, CacheTypeOK, CacheIsBounded
    <3>3. cache' = [cache EXCEPT ![calls[c].prompt] = Absent]
      BY <2>2 DEF Miss
    <3> QED BY <3>1, <3>2, <3>3 DEF CacheTypeOK, CacheIsBounded
  <2> QED BY <2>1, <2>2 DEF NoHit, LookupFails
<1>5. faults' \in 0 .. MaxFaults
  BY GatewayAssumption DEF NoHit, Fault, GatewayInv, GatewayTypeOK
<1>6. Moves(c, new)
  BY <1>1, <1>2, <1>3 DEF Moves, Open, Sound
<1>7. KeepsHold(c, new)
  BY <1>1, <1>2 DEF KeepsHold, Open
<1>8. GatewayTypeOK'
  BY <1>2, <1>3, <1>4, <1>5 DEF GatewayInv, GatewayTypeOK, QuotaTypeOK
<1>9. CallsInv'
  BY <1>6, <1>8, MovesKeepCalls
<1>10. HoldsInv'
  BY <1>2, <1>3, <1>6, <1>7, HoldsKept
<1> QED BY <1>4, <1>8, <1>9, <1>10 DEF GatewayInv

\* What settling makes of a reservation is typed.
LEMMA ReconcileTyped ==
    ASSUME QuotaTypeOK, NEW r \in Calls, Exists(r), NEW status \in {"CONSUMED", "RELEASED"},
           NEW tokens \in 0 .. MaxTokens
    PROVE  [held EXCEPT ![r] = [@ EXCEPT !.status = status,
                                          !.tokens = tokens]] \in [Calls -> Reservations]
<1>1. held[r] \in [status : {"RESERVED", "CONSUMED", "RELEASED"}, corr : Correlations,
                   user : Identities, created : 0 .. MaxTime, tokens : 0 .. MaxTokens]
  BY DEF QuotaTypeOK, Reservations, Exists, NoReservation
<1>2. [held[r] EXCEPT !.status = status, !.tokens = tokens] \in Reservations
  BY <1>1 DEF Reservations
<1> QED BY <1>1, <1>2 DEF QuotaTypeOK

\* Settling in the pipeline, whatever comes of it.
LEMMA SettleKeeps ==
    ASSUME GatewayInv, NEW c \in Calls, calls[c].stage \in {"HIT", "MISS"},
           NEW status \in {"CONSUMED", "RELEASED"}, NEW tokens \in 0 .. MaxTokens,
           NEW known \in CallRecords, NEW after \in CallRecords,
           Settle(c, status, tokens, known, after),
           known.hold = calls[c].hold, known.corr = calls[c].corr,
           known.prompt = calls[c].prompt, ~known.reconciled,
           after.hold = calls[c].hold, after.stage \in {"METERING", "ENDED"},
           ~after.reconciled,
           after.stage = "METERING" =>
               /\ after.corr = calls[c].corr /\ after.prompt = calls[c].prompt
               /\ after.user = calls[c].user /\ after.start = calls[c].start
               /\ after.made => status = "CONSUMED" /\ tokens = after.tokens,
           UNCHANGED <<now, usage, policy>>, (CacheTypeOK /\ CacheIsBounded)',
           blind \subseteq blind', blind' \subseteq 0 .. MaxTime,
           calls'[c].stage = "METERING" /\ WindowOf(calls[c].start) \notin blind' =>
               after.tokens <= calls[c].tokens /\ after.tokens <= Estimate
    PROVE  GatewayInv'
<1>1. calls[c] \in CallRecords /\ Sound(calls[c])
  BY DEF GatewayInv, GatewayTypeOK, CallsInv, CallsAreSound
<1>2. calls[c].corr \in Correlations /\ calls[c].prompt \in Prompts
  BY <1>1 DEF Sound
<1>3. calls \in [Calls -> CallRecords] /\ QuotaTypeOK
  BY DEF GatewayInv, GatewayTypeOK
<1>4. CASE calls[c].hold = "none"
  <2>1. /\ calls' = [calls EXCEPT ![c] = after] /\ held' = held /\ faults' = faults
        /\ broken' = broken
    BY <1>4 DEF Settle
  <2>2. calls'[c] = after
    BY <1>3, <2>1
  <2>3. Sound(after)
    BY <1>2, <1>4 DEF Sound
  <2>4. Moves(c, after)
    BY <2>1, <2>2, <2>3 DEF Moves, Open, WindowOf
  <2>5. KeepsHold(c, after)
    BY <1>4, UsageAssumption DEF KeepsHold
  <2>6. GatewayTypeOK'
    BY <2>1 DEF GatewayInv, GatewayTypeOK, QuotaTypeOK
  <2>7. CallsInv'
    BY <2>4, <2>6, MovesKeepCalls
  <2>8. HoldsInv'
    BY <1>4, <2>1, <2>4, <2>5, HoldsKept
  <2> QED BY <2>6, <2>7, <2>8 DEF GatewayInv
<1>5. CASE /\ calls[c].hold # "none"
           /\ \/ /\ \E unread \in SUBSET Files :
                       Reads(unread) /\ Reconcile(calls[c].hold, status, tokens, unread)
                 /\ UNCHANGED broken
              \/ Fault /\ broken' = broken \cup {calls[c].hold} /\ UNCHANGED held
           /\ calls' = [calls EXCEPT ![c] =
                           [after EXCEPT !.reconciled = after.stage # "ENDED"]]
  <2> DEFINE new == [after EXCEPT !.reconciled = after.stage # "ENDED"]
  <2>1. /\ new \in CallRecords /\ new.stage = after.stage /\ new.hold = calls[c].hold
        /\ new.corr = after.corr /\ new.prompt = after.prompt /\ new.user = after.user
        /\ new.start = after.start /\ new.made = after.made /\ new.tokens = after.tokens
        /\ new.reconciled <=> after.stage # "ENDED"
    BY DEF CallRecords
  <2>2. calls' = [calls EXCEPT ![c] = new]
    BY <1>5
  <2> HIDE DEF new
  <2>3. calls'[c] = new
    BY <1>3, <2>2
  <2>4. Sound(new)
    BY <1>2, <1>5, <2>1 DEF Sound
  <2>5. Moves(c, new)
    BY <2>1, <2>2, <2>3, <2>4 DEF Moves, Open, WindowOf
  <2>6. calls[c].hold \in Calls /\ Exists(calls[c].hold)
    BY <1>1, <1>5 DEF CallRecords, GatewayInv, HoldsInv, HoldsExist
  <2>7. faults' \in 0 .. MaxFaults
    BY <1>5, ReadsTyped, GatewayAssumption DEF Fault, GatewayInv, GatewayTypeOK
  <2>8. CASE Fault /\ broken' = broken \cup {calls[c].hold} /\ UNCHANGED held
    <3>1. GatewayTypeOK'
      BY <2>1, <2>2, <2>6, <2>7, <2>8 DEF GatewayInv, GatewayTypeOK, QuotaTypeOK
    <3>2. CallsInv'
      BY <2>5, <3>1, MovesKeepCalls
    <3>3. KeepsHold(c, new)
      BY <2>1 DEF KeepsHold, Open
    <3>4. HoldsInv'
      BY <2>1, <2>5, <2>8, <3>3, HoldsKept
    <3> QED BY <3>1, <3>2, <3>4 DEF GatewayInv
  <2>9. CASE /\ \E unread \in SUBSET Files : Reconcile(calls[c].hold, status, tokens, unread)
             /\ UNCHANGED broken
    <3>1. held' = [held EXCEPT ![calls[c].hold] = [@ EXCEPT !.status = status,
                                                            !.tokens = tokens]]
      BY <2>9 DEF Reconcile
    <3>2. held' \in [Calls -> Reservations]
      BY <1>3, <2>6, <3>1, ReconcileTyped
    <3>3. GatewayTypeOK'
      BY <2>1, <2>2, <2>7, <2>9, <3>2 DEF GatewayInv, GatewayTypeOK, QuotaTypeOK
    <3>4. CallsInv'
      BY <2>5, <3>3, MovesKeepCalls
    <3>5. HoldsInv'
      <4>1. Open(new) => new.user = calls[c].user /\ Open(calls[c])
        BY <2>1 DEF Open
      <4>2. new.stage = "METERING" /\ new.made => status = "CONSUMED" /\ tokens = new.tokens
        BY <2>1
      <4>3. now' = now /\ broken \subseteq broken'
        BY <2>9
      <4> QED BY ZenonT(40), <1>5, <2>1, <2>5, <3>1, <4>1, <4>2, <4>3, HoldsSettled
    <3> QED BY <3>3, <3>4, <3>5 DEF GatewayInv
  <2> QED BY <1>5, <2>8, <2>9
<1>6. CASE /\ calls[c].hold # "none" /\ (UNCHANGED faults \/ Fault)
           /\ calls' = [calls EXCEPT ![c] = [known EXCEPT !.stage = "FINALLY"]]
           /\ UNCHANGED <<held, broken>>
  <2> DEFINE new == [known EXCEPT !.stage = "FINALLY"]
  <2>1. /\ new \in CallRecords /\ new.stage = "FINALLY" /\ new.hold = calls[c].hold
        /\ new.corr = calls[c].corr /\ new.prompt = calls[c].prompt /\ ~new.reconciled
    BY DEF CallRecords, Stages
  <2>2. calls' = [calls EXCEPT ![c] = new]
    BY <1>6
  <2> HIDE DEF new
  <2>3. Sound(new)
    BY <1>2, <1>6, <2>1 DEF Sound
  <2>4. Moves(c, new)
    BY <2>1, <2>2, <2>3 DEF Moves, Open
  <2>5. KeepsHold(c, new)
    BY <2>1 DEF KeepsHold, Open
  <2>6. faults' \in 0 .. MaxFaults
    BY <1>6, GatewayAssumption DEF Fault, GatewayInv, GatewayTypeOK
  <2>7. GatewayTypeOK'
    BY <1>6, <2>1, <2>2, <2>6 DEF GatewayInv, GatewayTypeOK, QuotaTypeOK
  <2>8. CallsInv'
    BY <2>4, <2>7, MovesKeepCalls
  <2>9. HoldsInv'
    BY <1>6, <2>1, <2>4, <2>5, HoldsKept
  <2> QED BY <2>7, <2>8, <2>9 DEF GatewayInv
<1> QED BY <1>4, <1>5, <1>6 DEF Settle

LEMMA SettleHitKeeps ==
    ASSUME GatewayInv, NEW c \in Calls, SettleHit(c)
    PROVE  GatewayInv'
<1> DEFINE after == [calls[c] EXCEPT !.stage = "METERING"]
<1>1. /\ calls[c] \in CallRecords /\ Sound(calls[c]) /\ calls[c].stage = "HIT"
      /\ ~calls[c].made /\ ~calls[c].reconciled
  BY DEF GatewayInv, GatewayTypeOK, CallsInv, CallsAreSound, SettleHit, At, Sound
<1>2. /\ after \in CallRecords /\ after.stage = "METERING" /\ after.hold = calls[c].hold
      /\ after.corr = calls[c].corr /\ after.prompt = calls[c].prompt
      /\ after.user = calls[c].user /\ after.start = calls[c].start
      /\ after.tokens = calls[c].tokens /\ ~after.made /\ ~after.reconciled
  BY <1>1 DEF CallRecords, Stages
<1>3. Settle(c, "CONSUMED", 0, calls[c], after)
  BY DEF SettleHit
<1> HIDE DEF after
<1>4. UNCHANGED <<now, usage, policy, cache, blind>>
  BY DEF SettleHit
<1>5. (CacheTypeOK /\ CacheIsBounded)' /\ blind' \subseteq 0 .. MaxTime /\ blind' = blind
  BY <1>4 DEF GatewayInv, GatewayTypeOK, CacheTypeOK, CacheIsBounded
<1>6. calls[c].tokens \in Nat /\ 0 \in 0 .. MaxTokens /\ Estimate \in Nat
  BY <1>1, UsageAssumption, QuotaAssumption DEF CallRecords
<1>7. WindowOf(calls[c].start) \notin blind' => calls[c].tokens <= Estimate
  BY <1>1, <1>5, <1>6 DEF GatewayInv, CallsInv, OverrunIsBlind, Open
<1>8. calls'[c].stage = "METERING" /\ WindowOf(calls[c].start) \notin blind' =>
         after.tokens <= calls[c].tokens /\ after.tokens <= Estimate
  BY <1>2, <1>6, <1>7
<1>9. after.stage = "METERING" =>
         /\ after.corr = calls[c].corr /\ after.prompt = calls[c].prompt
         /\ after.user = calls[c].user /\ after.start = calls[c].start
         /\ after.made => "CONSUMED" = "CONSUMED" /\ 0 = after.tokens
  BY <1>2
<1>10. blind \subseteq blind' /\ 0 \in 0 .. MaxTokens /\ calls[c].stage \in {"HIT", "MISS"}
  BY <1>1, <1>5, <1>6
<1> QED BY <1>1, <1>2, <1>3, <1>4, <1>5, <1>8, <1>9, <1>10, SettleKeeps

LEMMA ProviderFailsKeeps ==
    ASSUME GatewayInv, NEW c \in Calls, ProviderFails(c)
    PROVE  GatewayInv'
<1> DEFINE after == Ended(calls[c])
           r == calls[c].hold
           tokens == IF r = "none" THEN 0 ELSE held[r].tokens
<1>1. /\ calls[c] \in CallRecords /\ Sound(calls[c]) /\ calls[c].stage = "MISS"
      /\ ~calls[c].reconciled
  BY DEF GatewayInv, GatewayTypeOK, CallsInv, CallsAreSound, ProviderFails, At, Sound
<1>2. /\ after \in CallRecords /\ after.stage = "ENDED" /\ after.hold = calls[c].hold
      /\ ~after.reconciled
  BY <1>1, EndedTyped
<1>3. Settle(c, "RELEASED", tokens, calls[c], after)
  BY DEF ProviderFails
<1>4. tokens \in 0 .. MaxTokens
  <2>1. r # "none" => r \in Calls /\ held[r] \in Reservations
    BY <1>1 DEF CallRecords, GatewayInv, GatewayTypeOK, QuotaTypeOK
  <2> QED BY <2>1, UsageAssumption DEF Reservations, NoReservation
<1>5. calls'[c].stage # "METERING"
  <2>1. c \in DOMAIN calls
    BY DEF GatewayInv, GatewayTypeOK
  <2>2. [after EXCEPT !.reconciled = after.stage # "ENDED"].stage = "ENDED"
    BY <1>2 DEF CallRecords
  <2>3. [calls[c] EXCEPT !.stage = "FINALLY"].stage = "FINALLY"
    BY <1>1 DEF CallRecords
  <2> HIDE DEF after, tokens
  <2> QED BY <1>2, <1>3, <2>1, <2>2, <2>3 DEF Settle
<1> HIDE DEF after, tokens, r
<1>6. UNCHANGED <<now, usage, policy, cache, blind>>
  BY DEF ProviderFails
<1>7. (CacheTypeOK /\ CacheIsBounded)' /\ blind' \subseteq 0 .. MaxTime /\ blind' = blind
  BY <1>6 DEF GatewayInv, GatewayTypeOK, CacheTypeOK, CacheIsBounded
<1> QED BY <1>1, <1>2, <1>3, <1>4, <1>5, <1>6, <1>7, SettleKeeps

LEMMA ProviderAnswersKeeps ==
    ASSUME GatewayInv, NEW c \in Calls, NEW tokens \in Answers, ProviderAnswers(c, tokens)
    PROVE  GatewayInv'
<1> DEFINE call == [calls[c] EXCEPT !.made = TRUE, !.tokens = tokens]
           after == [call EXCEPT !.stage = "METERING"]
<1>1. /\ calls[c] \in CallRecords /\ Sound(calls[c]) /\ calls[c].stage = "MISS"
      /\ ~calls[c].reconciled /\ calls[c].tokens = Estimate /\ calls[c].prompt \in Prompts
  BY DEF GatewayInv, GatewayTypeOK, CallsInv, CallsAreSound, ProviderAnswers, At, Sound
<1>2. tokens \in 0 .. MaxTokens /\ tokens \in Nat /\ Estimate \in Nat
  BY GatewayAssumption, UsageAssumption, QuotaAssumption
<1>3. /\ call \in CallRecords /\ call.hold = calls[c].hold /\ call.corr = calls[c].corr
      /\ call.prompt = calls[c].prompt /\ ~call.reconciled /\ call.stage = "MISS"
      /\ call.user = calls[c].user /\ call.start = calls[c].start /\ call.tokens = tokens
      /\ call.made
  BY <1>1, <1>2 DEF CallRecords
<1>4. Settle(c, "CONSUMED", tokens, call, after)
  BY DEF ProviderAnswers
<1> HIDE DEF call
<1>5. /\ after \in CallRecords /\ after.stage = "METERING" /\ after.hold = calls[c].hold
      /\ after.corr = calls[c].corr /\ after.prompt = calls[c].prompt
      /\ after.user = calls[c].user /\ after.start = calls[c].start
      /\ after.tokens = tokens /\ ~after.reconciled
  BY <1>3 DEF CallRecords, Stages
<1> HIDE DEF after
<1>6. UNCHANGED <<now, usage, policy>>
  BY DEF ProviderAnswers
<1>7. /\ calls'[c].stage = "METERING" => StoreOrNot(c, tokens) /\ Count(c, tokens)
      /\ calls'[c].stage # "METERING" => UNCHANGED <<cache, blind>>
  BY DEF ProviderAnswers
<1>8. (CacheTypeOK /\ CacheIsBounded)'
  <2>1. CASE UNCHANGED cache
    BY <2>1 DEF GatewayInv, GatewayTypeOK, CacheTypeOK, CacheIsBounded
  <2>2. CASE Store(calls[c].prompt, now, tokens)
    <3> DEFINE entry == [present |-> TRUE, tokens |-> tokens, expires |-> now + CacheTTL]
    <3>1. now \in 0 .. MaxTime
      BY DEF GatewayInv, GatewayTypeOK, QuotaTypeOK
    <3>2. now + CacheTTL \in CacheTimes /\ tokens \in CacheTokens
      BY <1>2, <3>1, GatewayAssumption, UsageAssumption
    <3>3. entry \in Entries /\ entry.tokens \in 0 .. MaxTokens
      BY <1>2, <3>2 DEF Entries
    <3>4. cache \in [Prompts -> Entries] /\ \A p \in Prompts : cache[p].tokens \in 0 .. MaxTokens
      BY DEF GatewayInv, GatewayTypeOK, CacheTypeOK, CacheIsBounded
    <3>5. cache' = [cache EXCEPT ![calls[c].prompt] = entry]
      BY <2>2 DEF Store
    <3> HIDE DEF entry
    <3> QED BY <3>3, <3>4, <3>5 DEF CacheTypeOK, CacheIsBounded
  <2> QED BY <1>7, <2>1, <2>2 DEF StoreOrNot
<1>9. WindowOf(calls[c].start) \in 0 .. MaxTime
  BY <1>1, WindowTyped DEF CallRecords
<1>10. blind \subseteq blind' /\ blind' \subseteq 0 .. MaxTime
  BY <1>7, <1>9 DEF Count, GatewayInv, GatewayTypeOK
<1>11. calls'[c].stage = "METERING" /\ WindowOf(calls[c].start) \notin blind' =>
          after.tokens <= calls[c].tokens /\ after.tokens <= Estimate
  BY <1>1, <1>2, <1>5, <1>7 DEF Count
<1> QED BY <1>1, <1>2, <1>3, <1>4, <1>5, <1>6, <1>8, <1>10, <1>11, SettleKeeps

\* The finally clause settles, or finds another active reservation of the
\* correlation, so that this one is not, or fails.
LEMMA FinallyKeeps ==
    ASSUME GatewayInv, NEW c \in Calls, Finally(c)
    PROVE  GatewayInv'
<1> DEFINE new == Ended(calls[c])
           r == calls[c].hold
<1>1. calls[c] \in CallRecords /\ Sound(calls[c]) /\ calls[c].stage = "FINALLY"
  BY DEF GatewayInv, GatewayTypeOK, CallsInv, CallsAreSound, Finally, At
<1>2. r \in Calls /\ r # "none" /\ Exists(r) /\ held[r] \in Reservations
  BY <1>1 DEF Sound, CallRecords, GatewayInv, HoldsInv, HoldsExist, GatewayTypeOK, QuotaTypeOK
<1>3. /\ new \in CallRecords /\ new.stage = "ENDED" /\ new.hold = r /\ ~new.reconciled
  BY <1>1, EndedTyped
<1>4. /\ calls' = [calls EXCEPT ![c] = new]
      /\ UNCHANGED <<now, usage, policy, cache, blind>>
  BY DEF Finally
<1>5. \/ /\ \E unread \in SUBSET Files :
               Reads(unread) /\ Reconcile(r, FinalStatus(c), held[r].tokens, unread)
         /\ UNCHANGED broken
      \/ /\ ~Savable(r, held[r].corr, {})
         /\ UNCHANGED <<held, faults, broken>>
      \/ /\ Fault
         /\ broken' = broken \cup {r}
         /\ UNCHANGED held
  BY DEF Finally
<1> HIDE DEF new
<1>6. Sound(new)
  BY <1>3 DEF Sound
<1>7. Moves(c, new)
  BY <1>1, <1>3, <1>4, <1>6 DEF Moves, Open
<1>8. KeepsHold(c, new)
  BY <1>3 DEF KeepsHold, Open
<1>9. CASE /\ \E unread \in SUBSET Files :
                 Reads(unread) /\ Reconcile(r, FinalStatus(c), held[r].tokens, unread)
           /\ UNCHANGED broken
  <2>1. FinalStatus(c) \in {"CONSUMED", "RELEASED"}
    BY DEF FinalStatus
  <2>2. held[r].tokens \in 0 .. MaxTokens
    BY <1>2, UsageAssumption DEF Reservations, NoReservation
  <2>3. held' = [held EXCEPT ![calls[c].hold] = [@ EXCEPT !.status = FinalStatus(c),
                                                          !.tokens = held[r].tokens]]
    BY <1>9 DEF Reconcile
  <2>4. held' \in [Calls -> Reservations]
    <3>1. QuotaTypeOK
      BY DEF GatewayInv, GatewayTypeOK
    <3> QED BY <1>2, <2>1, <2>2, <2>3, <3>1, ReconcileTyped
  <2>5. (GatewayTypeOK /\ CacheIsBounded)'
    <3>1. faults' \in 0 .. MaxFaults
      BY <1>9, ReadsTyped DEF GatewayInv
    <3> QED BY <1>3, <1>4, <1>9, <2>4, <3>1
    DEF GatewayInv, GatewayTypeOK, QuotaTypeOK, CacheTypeOK, CacheIsBounded
  <2>6. CallsInv'
    BY <1>7, <2>5, MovesKeepCalls
  <2>7. HoldsInv'
    <3>1. ~Open(new) /\ new.stage # "METERING"
      BY <1>3 DEF Open
    <3>2. calls[c].hold # "none" /\ new.hold = calls[c].hold
      BY <1>2, <1>3
    <3> HIDE DEF r
    <3> QED BY <1>1, <1>4, <1>7, <1>9, <2>1, <2>2, <2>3, <3>1, <3>2, HoldsSettled
  <2> QED BY <2>5, <2>6, <2>7 DEF GatewayInv
<1>10. CASE \/ ~Savable(r, held[r].corr, {}) /\ UNCHANGED <<held, faults, broken>>
            \/ Fault /\ broken' = broken \cup {r} /\ UNCHANGED held
  <2>1. new.hold \in broken' \/ ~Active(new.hold)
    <3>1. CASE ~Savable(r, held[r].corr, {}) /\ UNCHANGED broken
      BY <1>2, <1>3, <3>1 DEF Savable, OfCorrelation, Files, GatewayInv, HoldsInv, OneActive
    <3> QED BY <1>3, <1>10, <3>1
  <2>2. faults' \in 0 .. MaxFaults /\ held' = held
    BY <1>10, GatewayAssumption DEF Fault, GatewayInv, GatewayTypeOK
  <2>3. broken \subseteq broken' /\ broken' \subseteq Calls
    BY <1>2, <1>10 DEF GatewayInv, GatewayTypeOK
  <2>4. (GatewayTypeOK /\ CacheIsBounded)'
    BY <1>3, <1>4, <2>2, <2>3
    DEF GatewayInv, GatewayTypeOK, QuotaTypeOK, CacheTypeOK, CacheIsBounded
  <2>5. CallsInv'
    BY <1>7, <2>4, MovesKeepCalls
  <2>6. HoldsInv'
    BY <1>3, <1>4, <1>7, <1>8, <2>1, <2>2, <2>3, HoldsKept
  <2> QED BY <2>4, <2>5, <2>6 DEF GatewayInv
<1> QED BY <1>5, <1>9, <1>10

-----------------------------------------------------------------------------
(***************************************************************************)
(* Why a reservation passes no limit: where every other call of the window *)
(* can be seen, each that counts is an event of its own or an active        *)
(* reservation of its own, that counts no less.                             *)
(***************************************************************************)
LEMMA EventsOfCalls ==
    ASSUME GatewayInv
    PROVE  /\ \A e \in usage : /\ e.call \in Calls /\ e.tokens = calls[e.call].tokens
                               /\ e.at = calls[e.call].start /\ e.user = calls[e.call].named
                               /\ e.tokens \in Nat /\ e.at \in 0 .. MaxTime
           /\ \A d, e \in usage : d.call = e.call => d = e
<1>1. \A e \in usage : e \in UsageEvents
  BY DEF GatewayInv, GatewayTypeOK, QuotaTypeOK
<1>2. \A e \in usage :
        e = [call |-> e.call, corr |-> calls[e.call].corr, user |-> calls[e.call].named,
             at |-> calls[e.call].start, tokens |-> calls[e.call].tokens]
  BY DEF GatewayInv, CallsInv, UsageOfEnded
<1>3. ASSUME NEW e \in usage
      PROVE  /\ e.call \in Calls /\ e.tokens = calls[e.call].tokens
             /\ e.at = calls[e.call].start /\ e.user = calls[e.call].named
             /\ e.tokens \in Nat /\ e.at \in 0 .. MaxTime
  <2>1. e.call \in Calls /\ e.tokens \in Nat /\ e.at \in 0 .. MaxTime
    BY <1>1, UsageAssumption DEF UsageEvents
  <2>2. /\ e.tokens = calls[e.call].tokens /\ e.at = calls[e.call].start
        /\ e.user = calls[e.call].named
    BY <1>2
  <2> QED BY <2>1, <2>2
<1>4. ASSUME NEW d \in usage, NEW e \in usage, d.call = e.call PROVE d = e
  BY <1>2, <1>4
<1> QED BY <1>3, <1>4

LEMMA SeenAreCounted ==
    ASSUME GatewayInv, NEW c \in Calls, NEW rule \in Rules, NEW w, NEW user, NEW unread,
           w \notin blind, ~CountsIn(c, w),
           \A d \in Calls \ {c} : CountsIn(d, w) => SeenBy(d, w, unread)
    PROVE  /\ Historical(rule, user, w) \in Nat /\ InFlight(rule, user, w, unread) \in Nat
           /\ Committed(rule, user, w) \in Nat
           /\ Committed(rule, user, w)
                <= Historical(rule, user, w) + InFlight(rule, user, w, unread)
<1> DEFINE S == {d \in Calls : CountsIn(d, w) /\ (rule.scope = "USER" => calls[d].user = user)}
           f == [d \in Calls |-> Counted(rule, calls[d].tokens)]
           T == {d \in S : WasMetered(d)}
           M == Matching(IF rule.scope = "USER" THEN user ELSE Nobody, w)
           E == {e \in M : e.call \in T}
           g == [e \in usage |-> Counted(rule, e.tokens)]
           h == [e \in usage |-> e.call]
           A == {r \in Calls \ unread : /\ Active(r) /\ WindowOf(held[r].created) = w
                                        /\ InScope(rule, r, user)}
           k == [r \in Calls |-> Counted(rule, held[r].tokens)]
<1>1. /\ Committed(rule, user, w) = SumFunctionOnSet(f, S)
      /\ Historical(rule, user, w) = SumFunctionOnSet(g, M)
      /\ InFlight(rule, user, w, unread) = SumFunctionOnSet(k, A)
  BY DEF Committed, Historical, InFlight
<1>2. /\ IsFiniteSet(S) /\ IsFiniteSet(A) /\ IsFiniteSet(S \ T) /\ IsFiniteSet(T)
      /\ IsFiniteSet(usage) /\ IsFiniteSet(M) /\ IsFiniteSet(E)
  <2>1. IsFiniteSet(S) /\ IsFiniteSet(A) /\ IsFiniteSet(S \ T) /\ IsFiniteSet(T)
    <3>1. S \subseteq Calls /\ A \subseteq Calls /\ S \ T \subseteq Calls /\ T \subseteq Calls
      OBVIOUS
    <3> HIDE DEF S, A, T
    <3> QED BY <3>1, FS_Subset, UsageAssumption
  <2>2. IsFiniteSet(usage)
    BY DEF GatewayInv, CallsInv
  <2>3. M \subseteq usage /\ E \subseteq usage
    BY DEF Matching
  <2> HIDE DEF M, E
  <2> QED BY <2>1, <2>2, <2>3, FS_Subset
<1>3. /\ \A e \in usage : /\ e.call \in Calls /\ e.tokens = calls[e.call].tokens
                          /\ e.at = calls[e.call].start /\ e.user = calls[e.call].named
                          /\ e.tokens \in Nat /\ e.at \in 0 .. MaxTime
      /\ \A d, e \in usage : d.call = e.call => d = e
  BY EventsOfCalls
<1>4. ASSUME NEW d \in S PROVE d \in Calls \ {c} /\ CountsIn(d, w) /\ SeenBy(d, w, unread)
  OBVIOUS
<1>5. /\ \A d \in Calls : f[d] \in Nat /\ k[d] \in Nat
      /\ \A e \in usage : g[e] \in Nat
  <2>1. \A d \in Calls : calls[d].tokens \in Nat
    BY UsageAssumption DEF GatewayInv, GatewayTypeOK, CallRecords
  <2>2. \A d \in Calls : held[d].tokens \in Nat
    BY UsageAssumption DEF GatewayInv, GatewayTypeOK, QuotaTypeOK, Reservations, NoReservation
  <2> QED BY <1>3, <2>1, <2>2 DEF Counted
<1>6. SumFunctionOnSet(f, T) <= SumFunctionOnSet(g, M)
  <2>1. {h[e] : e \in E} = T
    <3>1. ASSUME NEW d \in T PROVE \E e \in E : h[e] = d
      <4>1. PICK e \in usage : e.call = d
        BY DEF WasMetered
      <4>2. d \in Calls /\ CountsIn(d, w) /\ SeenBy(d, w, unread) /\ WasMetered(d)
            /\ (rule.scope = "USER" => calls[d].user = user)
        BY <1>4
      <4>3. WindowOf(e.at) = w
        BY <1>3, <4>1, <4>2 DEF CountsIn, WindowOf
      <4>4. e.user = calls[d].user
        BY <1>3, <4>1, <4>2 DEF SeenBy
      <4>5. e \in M
        BY <4>2, <4>3, <4>4 DEF Matching
      <4> HIDE DEF M, T
      <4> QED BY <4>1, <4>5
    <3>2. ASSUME NEW e \in E PROVE h[e] \in T
      BY DEF Matching
    <3> HIDE DEF E, T, h
    <3> QED BY <3>1, <3>2
  <2>2. /\ \A e \in E : g[e] \in Nat /\ f[h[e]] = g[e] /\ e \in usage
        /\ \A d, e \in E : h[d] = h[e] => d = e
    <3>1. E \subseteq usage
      BY DEF Matching
    <3>2. \A e \in usage : f[h[e]] = g[e] /\ h[e] = e.call
      BY <1>3 DEF Counted
    <3> HIDE DEF E, g, h, f
    <3> QED BY <1>3, <1>5, <3>1, <3>2
  <2>3. E \in SUBSET M /\ M \subseteq usage
    BY DEF Matching
  <2> HIDE DEF E, M, T, f, g, h
  <2>4. SumFunctionOnSet(f, {h[e] : e \in E}) = SumFunctionOnSet(g, E)
    <3>1. /\ IsFiniteSet(E)
          /\ \A x \in E : g[x] \in Nat /\ f[h[x]] = g[x]
          /\ \A x, y \in E : h[x] = h[y] => x = y
      BY <1>2, <2>2
    <3> QED BY ONLY <3>1, SumRenamed
  <2>5. SumFunctionOnSet(g, E) <= SumFunctionOnSet(g, M)
    <3>1. \A e \in M : g[e] \in Nat
      BY <1>5, <2>3
    <3>2. \A e \in E : g[e] \in Nat /\ g[e] <= g[e]
      BY <2>2
    <3> QED BY <1>2, <2>3, <3>1, <3>2, SumGrows
  <2>6. SumFunctionOnSet(f, {h[e] : e \in E}) = SumFunctionOnSet(f, T)
    BY <2>1, Zenon
  <2> QED BY <2>4, <2>5, <2>6
<1>7. SumFunctionOnSet(f, S \ T) <= SumFunctionOnSet(k, A)
  <2>1. ASSUME NEW d \in S \ T PROVE d \in A /\ f[d] <= k[d]
    <3>1. /\ d \in Calls /\ d # c /\ CountsIn(d, w) /\ SeenBy(d, w, unread)
          /\ ~WasMetered(d)
          /\ rule.scope = "USER" => calls[d].user = user
      BY <1>4
    <3>2. /\ Open(calls[d]) /\ WindowOf(calls[d].start) = w /\ calls[d].hold = d
          /\ Active(d) /\ d \notin unread /\ WindowOf(held[d].created) = w
      BY <3>1 DEF CountsIn, SeenBy, InProgress, Open, WindowOf
    <3>3. held[d].user = calls[d].user /\ held[d].tokens = Estimate
      BY <3>1, <3>2
      DEF GatewayInv, HoldsInv, OwnHoldOfUser, ReservedIsEstimate, Active
    <3>4. calls[d].tokens \in Nat /\ Estimate \in Nat /\ ~(calls[d].tokens > Estimate)
      <4>1. calls[d].tokens \in Nat /\ Estimate \in Nat
        BY <3>1, UsageAssumption, QuotaAssumption DEF GatewayInv, GatewayTypeOK, CallRecords
      <4>2. ~(calls[d].tokens > Estimate)
        BY <3>1, <3>2 DEF GatewayInv, CallsInv, OverrunIsBlind
      <4> QED BY <4>1, <4>2
    <3>5. d \in A
      <4>1. rule.scope \in {"USER", "TENANT"}
        BY QuotaAssumption DEF RuleRecords
      <4> QED BY <3>1, <3>2, <3>3, <4>1 DEF InScope
    <3>6. f[d] <= k[d]
      BY <3>1, <3>3, <3>4 DEF Counted
    <3> QED BY <3>5, <3>6
  <2>2. \A d \in S \ T : d \in Calls
    OBVIOUS
  <2>3. \A d \in A : d \in Calls
    OBVIOUS
  <2> HIDE DEF S, T, A, f, k
  <2> QED BY <1>2, <1>5, <2>1, <2>2, <2>3, SumGrows
<1>8. SumFunctionOnSet(f, S) = SumFunctionOnSet(f, T) + SumFunctionOnSet(f, S \ T)
  <2>1. T \in SUBSET S /\ \A d \in S : f[d] \in Nat
    BY <1>5
  <2> HIDE DEF S, T, f
  <2> QED BY <1>2, <2>1, SumSplits
<1>9. /\ SumFunctionOnSet(f, T) \in Nat /\ SumFunctionOnSet(f, S \ T) \in Nat
      /\ SumFunctionOnSet(g, M) \in Nat /\ SumFunctionOnSet(k, A) \in Nat
  <2>1. /\ \A d \in T : f[d] \in Nat
        /\ \A d \in S \ T : f[d] \in Nat
        /\ \A d \in A : k[d] \in Nat
    BY <1>5
  <2>2. \A e \in M : g[e] \in Nat
    BY <1>5 DEF Matching
  <2> HIDE DEF S, T, A, M, f, g, k
  <2> QED BY <1>2, <2>1, <2>2, SumIsNat
<1> HIDE DEF S, T, A, M, f, g, k, E, h
<1> QED BY <1>1, <1>6, <1>7, <1>8, <1>9

\* What a rule adds up is a number.
LEMMA SumsOfRuleAreNat ==
    ASSUME GatewayInv, NEW rule, NEW user, NEW w, NEW unread
    PROVE  Historical(rule, user, w) \in Nat /\ InFlight(rule, user, w, unread) \in Nat
<1> DEFINE M == Matching(IF rule.scope = "USER" THEN user ELSE Nobody, w)
           g == [e \in usage |-> Counted(rule, e.tokens)]
           A == {r \in Calls \ unread : /\ Active(r) /\ WindowOf(held[r].created) = w
                                        /\ InScope(rule, r, user)}
           k == [r \in Calls |-> Counted(rule, held[r].tokens)]
<1>1. /\ Historical(rule, user, w) = SumFunctionOnSet(g, M)
      /\ InFlight(rule, user, w, unread) = SumFunctionOnSet(k, A)
  BY DEF Historical, InFlight
<1>2. M \subseteq usage /\ A \subseteq Calls
  BY DEF Matching
<1>3. \A e \in M : g[e] \in Nat
  BY <1>2, EventsOfCalls DEF Counted
<1>4. \A r \in A : k[r] \in Nat
  BY <1>2, UsageAssumption
  DEF Counted, GatewayInv, GatewayTypeOK, QuotaTypeOK, Reservations, NoReservation
<1>5. IsFiniteSet(usage)
  BY DEF GatewayInv, CallsInv
<1> HIDE DEF M, g, A, k
<1>6. IsFiniteSet(M) /\ IsFiniteSet(A)
  BY <1>2, <1>5, FS_Subset, UsageAssumption
<1> QED BY <1>1, <1>3, <1>4, <1>6, SumIsNat

\* The reservation that was examined: what it adds was room for.
LEMMA ReservedWithinLimit ==
    ASSUME GatewayInv, GatewayTypeOK', NEW c \in Calls, NEW unread, At(c, "ADMITTED"),
           Allowed(calls[c].user, unread), Admit(c, c), blind' = blind \cup Blind(c, unread),
           usage' = usage
    PROVE  WithinLimitUnlessBlind'
<1> SUFFICES ASSUME NEW rule \in Rules, NEW w \in 0 .. WindowOf(MaxTime),
                    NEW user \in Identities, rule.hard, w \notin blind'
             PROVE  Committed(rule, user, w)' <= rule.limit
  BY DEF WithinLimitUnlessBlind
<1> DEFINE S == {d \in Calls : CountsIn(d, w) /\ (rule.scope = "USER" => calls[d].user = user)}
           T == {d \in Calls : CountsIn(d, w)' /\ (rule.scope = "USER" => calls'[d].user = user)}
           f == [d \in Calls |-> Counted(rule, calls[d].tokens)]
           g == [d \in Calls |-> Counted(rule, calls'[d].tokens)]
<1>1. /\ calls[c] \in CallRecords /\ calls[c].stage = "ADMITTED" /\ calls \in [Calls -> CallRecords]
  BY DEF GatewayInv, GatewayTypeOK, At
<1>2. /\ calls'[c].stage = "ALLOWED" /\ calls'[c].tokens = Estimate
      /\ calls'[c].start = calls[c].start /\ calls'[c].user = calls[c].user
      /\ \A d \in Calls : d # c => calls'[d] = calls[d]
  BY <1>1 DEF Admit, CallRecords
<1>3. ~WasMetered(c) /\ ~CountsIn(c, w)
  BY <1>1 DEF WasMetered, GatewayInv, CallsInv, UsageOfEnded, CountsIn, InProgress
<1>4. \A d \in Calls : WasMetered(d)' <=> WasMetered(d)
  BY DEF WasMetered
<1>5. \A d \in Calls : d # c => (CountsIn(d, w)' <=> CountsIn(d, w))
  BY <1>2, <1>4 DEF CountsIn, InProgress
<1>6. CountsIn(c, w)' <=> WindowOf(calls[c].start) = w
  BY <1>2, <1>3, <1>4 DEF CountsIn, InProgress, WindowOf
<1>7. /\ Committed(rule, user, w) = SumFunctionOnSet(f, S)
      /\ Committed(rule, user, w)' = SumFunctionOnSet(g, T)
  BY DEF Committed, Counted
<1>8. Committed(rule, user, w) <= rule.limit /\ rule.limit \in Nat
  BY QuotaAssumption DEF GatewayInv, CallsInv, WithinLimitUnlessBlind, RuleRecords
<1>9. /\ c \notin S /\ IsFiniteSet(S) /\ S \subseteq Calls
  <2>1. c \notin S /\ S \subseteq Calls
    BY <1>3
  <2> HIDE DEF S
  <2> QED BY <2>1, FS_Subset, UsageAssumption
<1>10. \A d \in S : g[d] = f[d] /\ f[d] \in Nat
  <2>1. \A d \in Calls : calls[d].tokens \in Nat
    BY UsageAssumption DEF GatewayInv, GatewayTypeOK, CallRecords
  <2> QED BY <1>2, <1>3, <2>1 DEF Counted
<1>11. SumFunctionOnSet(g, S) = SumFunctionOnSet(f, S)
  <2> HIDE DEF S, f, g
  <2> QED BY <1>9, <1>10, SumReads
<1>12. CASE WindowOf(calls[c].start) = w /\ (rule.scope = "USER" => calls[c].user = user)
  <2>1. T = S \cup {c}
    BY <1>2, <1>3, <1>5, <1>6, <1>12
  <2>2. g[c] = Counted(rule, Estimate) /\ g[c] \in Nat
    BY <1>2, UsageAssumption, QuotaAssumption DEF Counted
  <2>3. Committed(rule, user, w)' = Committed(rule, user, w) + Counted(rule, Estimate)
    <3>1. \A d \in S : g[d] \in Nat
      BY <1>10
    <3>2. SumFunctionOnSet(g, T) = SumFunctionOnSet(g, S \cup {c})
      BY <2>1, Zenon
    <3> HIDE DEF S, f, g, T
    <3>3. SumFunctionOnSet(g, S \cup {c}) = SumFunctionOnSet(g, S) + g[c]
      BY <1>9, <2>2, <3>1, SumAdds
    <3> QED BY <1>7, <1>11, <2>2, <3>2, <3>3
  <2>4. /\ w \notin blind
        /\ \A d \in Calls \ {c} : CountsIn(d, w) => SeenBy(d, w, unread)
    BY <1>12 DEF Blind
  <2>5. /\ Historical(rule, calls[c].user, WindowOf(now)) \in Nat
        /\ InFlight(rule, calls[c].user, WindowOf(now), unread) \in Nat
        /\ S # {} => Committed(rule, user, w)
                        <= Historical(rule, calls[c].user, WindowOf(now))
                              + InFlight(rule, calls[c].user, WindowOf(now), unread)
        /\ S = {} => Committed(rule, user, w) = 0
    <3>1. CASE S = {}
      <4>1. Committed(rule, user, w) = 0
        <5>1. SumFunctionOnSet(f, S) = SumFunctionOnSet(f, {})
          BY <3>1, Zenon
        <5> QED BY <1>7, <5>1, SumOfNone
      <4>2. /\ Historical(rule, calls[c].user, WindowOf(now)) \in Nat
            /\ InFlight(rule, calls[c].user, WindowOf(now), unread) \in Nat
        BY SumsOfRuleAreNat
      <4> QED BY <3>1, <4>1, <4>2
    <3>2. CASE S # {}
      <4>1. w = WindowOf(now)
        BY <1>3, <2>4, <3>2 DEF SeenBy
      <4>2. /\ Committed(rule, calls[c].user, w) = Committed(rule, user, w)
        <5>1. {d \in Calls : CountsIn(d, w)
                  /\ (rule.scope = "USER" => calls[d].user = calls[c].user)} = S
          BY <1>12
        <5> QED BY <1>7, <5>1, Zenon DEF Committed
      <4>3. /\ Historical(rule, calls[c].user, w) \in Nat
            /\ InFlight(rule, calls[c].user, w, unread) \in Nat
            /\ Committed(rule, calls[c].user, w)
                 <= Historical(rule, calls[c].user, w) + InFlight(rule, calls[c].user, w, unread)
        BY <1>3, <2>4, SeenAreCounted
      <4> QED BY <3>2, <4>1, <4>2, <4>3
    <3> QED BY <3>1, <3>2
  <2>6. Historical(rule, calls[c].user, WindowOf(now))
           + InFlight(rule, calls[c].user, WindowOf(now), unread) + Counted(rule, Estimate)
              <= rule.limit
    BY DEF Allowed, RulePasses
  <2>7. Committed(rule, user, w) \in Nat
    <3>1. \A d \in S : f[d] \in Nat
      BY <1>10
    <3> HIDE DEF S, f
    <3> QED BY <1>7, <1>9, <3>1, SumIsNat
  <2> HIDE DEF S, f, g, T
  <2> QED BY <1>8, <2>2, <2>3, <2>5, <2>6, <2>7
<1>13. CASE ~(WindowOf(calls[c].start) = w /\ (rule.scope = "USER" => calls[c].user = user))
  <2>1. T = S
    BY <1>2, <1>3, <1>5, <1>6, <1>13
  <2>2. SumFunctionOnSet(g, T) = SumFunctionOnSet(g, S)
    BY <2>1, Zenon
  <2> HIDE DEF S, f, g, T
  <2> QED BY <1>7, <1>8, <1>11, <2>2
<1> QED BY <1>12, <1>13

LEMMA ReserveKeeps ==
    ASSUME GatewayInv, NEW c \in Calls, Reserve(c)
    PROVE  GatewayInv'
<1> DEFINE new == [calls[c] EXCEPT !.stage = "ALLOWED", !.hold = c, !.tokens = Estimate]
           made == [status |-> "RESERVED", corr |-> calls[c].corr, user |-> calls[c].user,
                    created |-> now, tokens |-> Estimate]
<1>1. /\ calls[c] \in CallRecords /\ Sound(calls[c]) /\ calls[c].stage = "ADMITTED"
      /\ calls[c].hold = "none" /\ calls[c].corr \in Correlations
      /\ calls[c].prompt \in Prompts /\ ~calls[c].made /\ ~calls[c].reconciled
  BY DEF GatewayInv, GatewayTypeOK, CallsInv, CallsAreSound, Reserve, At, Sound
<1> PICK unread \in SUBSET Files :
       /\ IsNew(c, unread)
       /\ Allowed(calls[c].user, unread)
       /\ IF Savable(c, calls[c].corr, unread)
          THEN /\ SaveReservation(c, calls[c].corr, calls[c].user, unread)
               /\ Admit(c, c)
               /\ blind' = blind \cup Blind(c, unread)
               /\ broken' = broken \cup Beside(c)
          ELSE /\ Leave(c)
               /\ UNCHANGED <<held, blind, broken>>
  BY DEF Reserve
<1>4. faults' \in 0 .. MaxFaults
  BY ReadsTyped DEF IsNew, GatewayInv
<1>2. CASE ~Savable(c, calls[c].corr, unread)
  <2>1. Leave(c) /\ UNCHANGED <<now, usage, policy, held, cache, blind, broken>>
    BY <1>2 DEF Reserve
  <2> QED BY <1>1, <1>4, <2>1, LeaveKeeps
<1>3. CASE Savable(c, calls[c].corr, unread)
  <2>1. /\ new \in CallRecords /\ new.stage = "ALLOWED" /\ new.hold = c
        /\ new.tokens = Estimate /\ ~new.made /\ new.corr = calls[c].corr
        /\ new.prompt = calls[c].prompt /\ new.start = calls[c].start
        /\ ~new.reconciled /\ new.user = calls[c].user
    BY <1>1, QuotaAssumption DEF CallRecords, Stages
  <2>2. /\ calls' = [calls EXCEPT ![c] = new] /\ held' = [held EXCEPT ![c] = made]
        /\ blind' = blind \cup Blind(c, unread) /\ broken' = broken \cup Beside(c)
        /\ Admit(c, c)
        /\ UNCHANGED <<now, usage, policy, cache>>
    BY <1>1, <1>3
    DEF Reserve, Admit, SaveReservation, GatewayInv, GatewayTypeOK, CallRecords
  <2>3. /\ made \in Reservations /\ made.status = "RESERVED" /\ made.corr = calls[c].corr
        /\ made.user = calls[c].user /\ made.tokens = Estimate /\ made # NoReservation
    BY <1>1, QuotaAssumption
    DEF Reservations, NoReservation, GatewayInv, GatewayTypeOK, QuotaTypeOK, CallRecords
  <2>4. Sound(new)
    BY <1>1, <2>1, UsageAssumption DEF Sound
  <2> HIDE DEF new, made
  <2>5. /\ calls'[c] = new /\ held'[c] = made
        /\ \A d \in Calls : d # c => calls'[d] = calls[d] /\ held'[d] = held[d]
    BY <2>2 DEF GatewayInv, GatewayTypeOK, QuotaTypeOK
  <2>6. held[c] = NoReservation /\ ~Exists(c)
    BY <1>1 DEF GatewayInv, HoldsInv, NotReservedYet, Exists, NoReservation
  <2>7. \A d \in Calls : calls[d].hold # c
    BY <2>6, UsageAssumption DEF GatewayInv, HoldsInv, HoldsExist
  <2>8. (GatewayTypeOK /\ CacheIsBounded)'
    <3>1. Blind(c, unread) \subseteq 0 .. MaxTime
      BY <1>1, WindowTyped DEF Blind, CallRecords
    <3>2. Beside(c) \subseteq Calls
      BY DEF Beside, OfCorrelation, Files
    <3> QED BY <1>4, <2>1, <2>2, <2>3, <3>1, <3>2
            DEF GatewayInv, GatewayTypeOK, QuotaTypeOK, CacheTypeOK, CacheIsBounded
  <2>9. CallsInv'
    <3>1. \A e \in usage : e.call \in Calls /\ e.call # c
      BY <1>1 DEF GatewayInv, GatewayTypeOK, QuotaTypeOK, CallsInv, UsageOfEnded, UsageEvents
    <3>2. CallsAreSound' /\ UsageOfEnded' /\ IsFiniteSet(usage)'
      BY <2>2, <2>4, <2>5, <3>1 DEF GatewayInv, CallsInv, CallsAreSound, UsageOfEnded
    <3>3. OverrunIsBlind'
      <4>1. Estimate \in Nat
        BY UsageAssumption, QuotaAssumption
      <4> QED BY <2>1, <2>2, <2>5, <4>1 DEF GatewayInv, CallsInv, OverrunIsBlind, WindowOf
    <3>4. WithinLimitUnlessBlind'
      <4>1. At(c, "ADMITTED") /\ Allowed(calls[c].user, unread)
        BY DEF Reserve
      <4> QED BY <2>2, <2>8, <4>1, ReservedWithinLimit
    <3> QED BY <3>2, <3>3, <3>4 DEF CallsInv
  <2>10. ASSUME NEW d \in Calls, d # c PROVE Active(d)' <=> Active(d)
    BY <2>2, <2>5, <2>10 DEF Active
  <2>11. NotReservedYet' /\ HoldsExist'
    BY <2>1, <2>3, <2>5, <2>7
    DEF GatewayInv, HoldsInv, NotReservedYet, HoldsExist, Exists, GatewayTypeOK, CallRecords
  <2>12. OwnHoldOfUser' /\ ReservedIsEstimate'
    BY <2>1, <2>3, <2>5 DEF GatewayInv, HoldsInv, OwnHoldOfUser, ReservedIsEstimate
  <2>13. OneActive'
    <3>1. \A s \in Calls : Active(s) => Exists(s)
      BY DEF Active, Exists
    <3>2. ASSUME NEW s \in Calls \ {c}, held[s].corr = calls[c].corr, Active(s)
          PROVE  s \in broken' /\ c \in broken'
      BY <2>2, <3>1, <3>2 DEF Beside, OfCorrelation, Files
    <3>3. broken \subseteq broken'
      BY <2>2
    <3> QED BY <2>3, <2>5, <2>10, <3>2, <3>3 DEF GatewayInv, HoldsInv, OneActive
  <2>14. SettledFirst'
    <3> SUFFICES ASSUME NEW d \in Calls, calls'[d].stage = "METERING", calls'[d].hold # "none"
                 PROVE  \/ held'[calls'[d].hold].status # "RESERVED"
                        \/ calls'[d].hold \in broken'
      BY DEF SettledFirst
    <3>1. d # c /\ calls'[d] = calls[d] /\ calls[d].hold \in Calls /\ calls[d].hold # c
      BY <2>1, <2>5, <2>7 DEF GatewayInv, GatewayTypeOK, CallRecords
    <3> QED BY <2>2, <2>5, <3>1 DEF GatewayInv, HoldsInv, SettledFirst
  <2>15. ASSUME NEW d \in Calls, d # c PROVE Shared(d)' <=> Shared(d)
    BY <1>1, <2>1, <2>5, <2>15, UsageAssumption DEF Shared
  <2>16. SettledAlike'
    BY <2>1, <2>2, <2>5, <2>15 DEF GatewayInv, HoldsInv, SettledAlike
  <2>17. SettledAsMetered'
    <3> SUFFICES ASSUME NEW e \in usage, calls'[e.call].hold = e.call, calls'[e.call].made,
                        ~Shared(e.call)', e.call \notin broken'
                 PROVE  held'[e.call].status = "CONSUMED" /\ held'[e.call].tokens = e.tokens
      BY <2>2 DEF SettledAsMetered
    <3>1. e.call \in Calls /\ e.call # c
      BY <1>1 DEF GatewayInv, GatewayTypeOK, QuotaTypeOK, CallsInv, UsageOfEnded, UsageEvents
    <3> QED BY <2>2, <2>5, <2>15, <3>1 DEF GatewayInv, HoldsInv, SettledAsMetered
  <2>18. NoOrphanHold'
    <3> SUFFICES ASSUME NEW r \in Calls, Active(r)', r \notin broken'
                 PROVE  \E d \in Calls : calls'[d].hold = r /\ calls'[d].stage # "ENDED"
      BY DEF NoOrphanHold
    <3>1. CASE r = c
      BY <2>1, <2>5, <3>1
    <3>2. CASE r # c
      <4>1. PICK d \in Calls : calls[d].hold = r /\ calls[d].stage # "ENDED"
        BY <2>2, <2>10, <3>2 DEF GatewayInv, HoldsInv, NoOrphanHold
      <4> QED BY <1>1, <2>5, <4>1, UsageAssumption
    <3> QED BY <3>1, <3>2
  <2> QED BY <2>8, <2>9, <2>11, <2>12, <2>13, <2>14, <2>16, <2>17, <2>18 DEF GatewayInv, HoldsInv
<1> QED BY <1>2, <1>3

\* The event that is appended counts what the call counted, and what it settled.
LEMMA MeterKeeps ==
    ASSUME GatewayInv, NEW c \in Calls, Meter(c)
    PROVE  GatewayInv'
<1> DEFINE event == [call |-> c, corr |-> calls[c].corr, user |-> calls[c].named,
                     at |-> calls[c].start, tokens |-> calls[c].tokens]
           new == [calls[c] EXCEPT !.stage = "ENDED", !.reconciled = FALSE]
<1>1. /\ calls[c] \in CallRecords /\ Sound(calls[c]) /\ calls[c].stage = "METERING"
      /\ calls[c].corr \in Correlations
      /\ UNCHANGED <<now, policy, held, cache, blind, broken>>
  BY DEF GatewayInv, GatewayTypeOK, CallsInv, CallsAreSound, Meter, At, Sound
<1>2. CASE Leave(c) /\ UNCHANGED usage /\ (UNCHANGED faults \/ Fault)
  <2>1. faults' \in 0 .. MaxFaults
    BY <1>2, GatewayAssumption DEF Fault, GatewayInv, GatewayTypeOK
  <2> QED BY <1>1, <1>2, <2>1, LeaveKeeps
<1>3. CASE AppendEvent(event) /\ calls' = [calls EXCEPT ![c] = [@ EXCEPT !.stage = "ENDED",
                                                                       !.reconciled = FALSE]]
           /\ (UNCHANGED faults \/ Fault)
  <2>1. /\ new \in CallRecords /\ new.stage = "ENDED" /\ ~new.reconciled
        /\ new.hold = calls[c].hold /\ new.start = calls[c].start /\ new.user = calls[c].user
        /\ new.tokens = calls[c].tokens /\ new.corr = calls[c].corr
        /\ new.named = calls[c].named /\ new.made = calls[c].made
    BY <1>1 DEF CallRecords, Stages
  <2>2. calls' = [calls EXCEPT ![c] = new] /\ usage' = usage \cup {event}
    BY <1>1, <1>3 DEF AppendEvent, GatewayInv, GatewayTypeOK, CallRecords
  <2>3. event \in UsageEvents /\ event.call = c /\ event.tokens = calls[c].tokens
    BY <1>1 DEF UsageEvents, CallRecords
  <2> HIDE DEF new
  <2>4. calls'[c] = new /\ \A d \in Calls : d # c => calls'[d] = calls[d]
    BY <2>2 DEF GatewayInv, GatewayTypeOK
  <2>5. (GatewayTypeOK /\ CacheIsBounded)'
    <3>1. faults' \in 0 .. MaxFaults
      BY <1>3, GatewayAssumption DEF Fault, GatewayInv, GatewayTypeOK
    <3> QED BY <1>1, <2>1, <2>2, <2>3, <3>1
    DEF GatewayInv, GatewayTypeOK, QuotaTypeOK, CacheTypeOK, CacheIsBounded
  <2>6. \A e \in usage : e.call \in Calls /\ e.call # c
    BY <1>1 DEF GatewayInv, GatewayTypeOK, QuotaTypeOK, CallsInv, UsageOfEnded, UsageEvents
  <2>7. CallsAreSound'
    BY <2>1, <2>4 DEF GatewayInv, CallsInv, CallsAreSound, Sound
  <2>8. UsageOfEnded'
    <3> SUFFICES ASSUME NEW e \in usage'
                 PROVE  /\ calls'[e.call].stage = "ENDED"
                        /\ e = [call |-> e.call, corr |-> calls'[e.call].corr,
                                user |-> calls'[e.call].named, at |-> calls'[e.call].start,
                                tokens |-> calls'[e.call].tokens]
      BY DEF UsageOfEnded
    <3>1. CASE e \in usage
      BY <2>4, <2>6, <3>1 DEF GatewayInv, CallsInv, UsageOfEnded
    <3>2. CASE e = event
      BY <2>1, <2>4, <3>2
    <3> QED BY <2>2, <3>1, <3>2
  <2> HIDE DEF event
  <2>9. OverrunIsBlind'
    BY <1>1, <2>1, <2>4 DEF GatewayInv, CallsInv, OverrunIsBlind, Open, WindowOf
  <2>10. IsFiniteSet(usage)'
    BY <2>2, FS_AddElement DEF GatewayInv, CallsInv
  <2>11. WithinLimitUnlessBlind'
    <3>1. ASSUME NEW w \in 0 .. WindowOf(MaxTime), NEW d \in Calls, w \notin blind',
                 CountsIn(d, w)'
          PROVE  /\ CountsIn(d, w) /\ calls'[d].user = calls[d].user
                 /\ calls'[d].tokens <= calls[d].tokens
      <4>1. calls[d].tokens \in Nat
        BY UsageAssumption DEF GatewayInv, GatewayTypeOK, CallRecords
      <4>2. CASE d = c
        BY <1>1, <2>1, <2>4, <3>1, <4>1, <4>2 DEF CountsIn, InProgress
      <4>3. CASE d # c
        <5>1. WasMetered(d)' => WasMetered(d)
          BY <2>2, <2>3, <4>3 DEF WasMetered
        <5> QED BY <2>4, <3>1, <4>1, <4>3, <5>1 DEF CountsIn, InProgress
      <4> QED BY <4>2, <4>3
    <3>2. blind' = blind
      BY <1>1
    <3> QED BY <2>5, <3>1, <3>2, LimitsKept DEF GatewayInv, CallsInv
  <2>12. CallsInv'
    BY <2>7, <2>8, <2>9, <2>10, <2>11 DEF CallsInv
  <2>13. ASSUME NEW d \in Calls PROVE (Active(d)' <=> Active(d)) /\ (Shared(d)' <=> Shared(d))
    BY <1>1, <2>1, <2>4 DEF Active, Shared
  <2>14. NotReservedYet' /\ HoldsExist' /\ OwnHoldOfUser'
    BY <1>1, <2>1, <2>4
    DEF GatewayInv, HoldsInv, NotReservedYet, HoldsExist, OwnHoldOfUser, Exists, Open
  <2>15. ReservedIsEstimate' /\ OneActive'
    BY <1>1, <2>13 DEF GatewayInv, HoldsInv, ReservedIsEstimate, OneActive
  <2>16. SettledFirst' /\ SettledAlike'
    BY <1>1, <2>1, <2>4, <2>13 DEF GatewayInv, HoldsInv, SettledFirst, SettledAlike
  <2>17. SettledAsMetered'
    <3> SUFFICES ASSUME NEW e \in usage', calls'[e.call].hold = e.call, calls'[e.call].made,
                        ~Shared(e.call)', e.call \notin broken'
                 PROVE  held'[e.call].status = "CONSUMED" /\ held'[e.call].tokens = e.tokens
      BY DEF SettledAsMetered
    <3>1. CASE e \in usage
      BY <1>1, <2>4, <2>6, <2>13, <3>1 DEF GatewayInv, HoldsInv, SettledAsMetered
    <3>2. CASE e = event
      BY <1>1, <2>1, <2>3, <2>4, <2>13, <3>2 DEF GatewayInv, HoldsInv, SettledAlike
    <3> QED BY <2>2, <3>1, <3>2
  <2>18. NoOrphanHold'
    <3> SUFFICES ASSUME NEW r \in Calls, Active(r)', r \notin broken'
                 PROVE  \E d \in Calls : calls'[d].hold = r /\ calls'[d].stage # "ENDED"
      BY DEF NoOrphanHold
    <3>1. PICK d \in Calls : calls[d].hold = r /\ calls[d].stage # "ENDED"
      BY <1>1, <2>13 DEF GatewayInv, HoldsInv, NoOrphanHold
    <3>2. d # c
      BY <1>1, <2>13, <3>1, UsageAssumption DEF GatewayInv, HoldsInv, SettledFirst, Active
    <3> QED BY <2>4, <3>1, <3>2
  <2> QED BY <2>5, <2>12, <2>14, <2>15, <2>16, <2>17, <2>18 DEF GatewayInv, HoldsInv
<1> QED BY <1>2, <1>3 DEF Meter

\* Reservations expire, policies change.
LEMMA PassKeeps ==
    ASSUME GatewayInv,
           Pass \/ (\E p \in Policies : ChangePolicy(p)) \/ UNCHANGED gatewayVars
    PROVE  GatewayInv'
<1>1. /\ UNCHANGED <<usage, held, cache, calls, faults, blind, broken>>
      /\ now' = now \/ (now' = now + 1 /\ now < MaxTime)
      /\ policy' \in Policies
  BY DEF Pass, Tick, ChangePolicy, SetPolicy, gatewayVars, GatewayInv, GatewayTypeOK, QuotaTypeOK
<1>2. now \in 0 .. MaxTime /\ now' \in 0 .. MaxTime /\ now <= now'
  BY <1>1, UsageAssumption DEF GatewayInv, GatewayTypeOK, QuotaTypeOK
<1>3. (GatewayTypeOK /\ CacheIsBounded)'
  BY <1>1, <1>2 DEF GatewayInv, GatewayTypeOK, QuotaTypeOK, CacheTypeOK, CacheIsBounded
<1>4. ASSUME NEW r \in Calls, Active(r)' PROVE Active(r)
  <2>1. held[r].created \in Nat /\ ReservationTTL \in Nat /\ now \in Nat /\ now' \in Nat
    BY <1>2, UsageAssumption, QuotaAssumption
    DEF GatewayInv, GatewayTypeOK, QuotaTypeOK, Reservations, NoReservation
  <2> QED BY <1>1, <1>2, <1>4, <2>1 DEF Active
<1>5. WithinLimitUnlessBlind'
  BY <1>1
  DEF GatewayInv, CallsInv, WithinLimitUnlessBlind, Committed, CountsIn, InProgress, WasMetered,
      WindowOf, Counted
<1>6. CallsInv'
  BY <1>1, <1>5
  DEF GatewayInv, CallsInv, CallsAreSound, UsageOfEnded, OverrunIsBlind, WindowOf
<1>7. NotReservedYet' /\ HoldsExist' /\ OwnHoldOfUser' /\ ReservedIsEstimate' /\ SettledFirst'
  BY <1>1 DEF GatewayInv, HoldsInv, NotReservedYet, HoldsExist, OwnHoldOfUser, Exists,
              ReservedIsEstimate, SettledFirst
<1>8. SettledAlike' /\ SettledAsMetered'
  BY <1>1 DEF GatewayInv, HoldsInv, SettledAlike, SettledAsMetered, Shared
<1>9. OneActive' /\ NoOrphanHold'
  BY <1>1, <1>4 DEF GatewayInv, HoldsInv, OneActive, NoOrphanHold
<1> QED BY <1>3, <1>6, <1>7, <1>8, <1>9 DEF GatewayInv, HoldsInv

\* A restart ends what runs, and what it held is broken.
LEMMA CrashKeeps ==
    ASSUME GatewayInv, Crash
    PROVE  GatewayInv'
<1> DEFINE lost == {c \in Calls : calls[c].stage \notin {"NEW", "ENDED"}}
<1>1. /\ UNCHANGED <<now, usage, policy, held, cache, blind>> /\ Fault
      /\ calls' = [c \in Calls |-> IF c \in lost THEN Ended(calls[c]) ELSE calls[c]]
      /\ broken' = broken \cup ({calls[c].hold : c \in lost} \ {"none"})
  BY DEF Crash
<1>2. \A c \in Calls : calls[c] \in CallRecords
  BY DEF GatewayInv, GatewayTypeOK
<1>3. ASSUME NEW c \in Calls
      PROVE  /\ calls'[c] \in CallRecords /\ calls'[c].hold = calls[c].hold
             /\ calls'[c].made = calls[c].made
             /\ c \in lost => calls'[c].stage = "ENDED" /\ ~calls'[c].reconciled
             /\ c \notin lost => calls'[c] = calls[c]
  BY <1>1, <1>2, EndedTyped
<1>4. \A c \in Calls : c \in lost <=> calls[c].stage \notin {"NEW", "ENDED"}
  OBVIOUS
<1>5. /\ \A c \in lost : c \in Calls /\ (calls[c].hold # "none" => calls[c].hold \in broken')
      /\ broken \subseteq broken' /\ broken' \subseteq Calls
  BY <1>1, <1>2 DEF CallRecords, GatewayInv, GatewayTypeOK
<1>6. faults' \in 0 .. MaxFaults
  BY <1>1, GatewayAssumption DEF Fault, GatewayInv, GatewayTypeOK
<1>7. calls' \in [Calls -> CallRecords]
  BY <1>1, <1>3
<1> HIDE DEF lost
<1>8. (GatewayTypeOK /\ CacheIsBounded)'
  BY <1>1, <1>5, <1>6, <1>7
  DEF GatewayInv, GatewayTypeOK, QuotaTypeOK, CacheTypeOK, CacheIsBounded
<1>9. \A e \in usage : e.call \in Calls /\ e.call \notin lost
  BY <1>4 DEF GatewayInv, GatewayTypeOK, QuotaTypeOK, CallsInv, UsageOfEnded, UsageEvents
<1>10. ASSUME NEW c \in Calls PROVE Sound(calls'[c])
  BY <1>3 DEF GatewayInv, CallsInv, CallsAreSound, Sound
<1>11. UsageOfEnded' /\ IsFiniteSet(usage)'
  BY <1>1, <1>3, <1>9 DEF GatewayInv, CallsInv, UsageOfEnded
<1>12. OverrunIsBlind'
  BY <1>1, <1>3 DEF GatewayInv, CallsInv, OverrunIsBlind, Open, WindowOf
<1>13. WithinLimitUnlessBlind'
  <2>1. ASSUME NEW w \in 0 .. WindowOf(MaxTime), NEW d \in Calls, w \notin blind',
               CountsIn(d, w)'
        PROVE  /\ CountsIn(d, w) /\ calls'[d].user = calls[d].user
               /\ calls'[d].tokens <= calls[d].tokens
    <3>1. calls[d].tokens \in Nat
      BY <1>2, UsageAssumption DEF CallRecords
    <3>2. WasMetered(d)' <=> WasMetered(d)
      BY <1>1 DEF WasMetered
    <3>3. d \notin lost
      BY <1>3, <1>9, <2>1, <3>2 DEF CountsIn, InProgress, WasMetered
    <3> QED BY <1>3, <2>1, <3>1, <3>2, <3>3 DEF CountsIn, InProgress
  <2>2. blind' = blind
    BY <1>1
  <2> QED BY <1>8, <2>1, <2>2, LimitsKept DEF GatewayInv, CallsInv
<1>14. CallsInv'
  BY <1>10, <1>11, <1>12, <1>13 DEF CallsInv, CallsAreSound
<1>15. ASSUME NEW d \in Calls PROVE (Active(d)' <=> Active(d)) /\ (Shared(d)' <=> Shared(d))
  BY <1>1, <1>3 DEF Active, Shared
<1>16. NotReservedYet' /\ HoldsExist' /\ OwnHoldOfUser'
  BY <1>1, <1>3
  DEF GatewayInv, HoldsInv, NotReservedYet, HoldsExist, OwnHoldOfUser, Exists, Open
<1>17. ReservedIsEstimate' /\ OneActive'
  BY <1>1, <1>15 DEF GatewayInv, HoldsInv, ReservedIsEstimate, OneActive
<1>18. SettledFirst' /\ SettledAlike'
  BY <1>1, <1>3, <1>15 DEF GatewayInv, HoldsInv, SettledFirst, SettledAlike
<1>19. SettledAsMetered'
  BY <1>1, <1>3, <1>9, <1>15 DEF GatewayInv, HoldsInv, SettledAsMetered
<1>20. NoOrphanHold'
  <2> SUFFICES ASSUME NEW r \in Calls, Active(r)', r \notin broken'
               PROVE  \E d \in Calls : calls'[d].hold = r /\ calls'[d].stage # "ENDED"
    BY DEF NoOrphanHold
  <2>1. PICK d \in Calls : calls[d].hold = r /\ calls[d].stage # "ENDED"
    BY <1>5, <1>15 DEF GatewayInv, HoldsInv, NoOrphanHold
  <2>2. d \notin lost
    BY <1>5, <2>1, UsageAssumption
  <2> QED BY <1>3, <2>1, <2>2
<1> QED BY <1>8, <1>14, <1>16, <1>17, <1>18, <1>19, <1>20 DEF GatewayInv, HoldsInv

LEMMA InvAtFirst ==
    ASSUME GatewayInit
    PROVE  GatewayInv
<1>1. GatewayTypeOK /\ CacheIsBounded
  BY GatewayTypedInit
<1>2. /\ \A c \in Calls : calls[c] = NewCall /\ held[c] = NoReservation
      /\ usage = {} /\ blind = {} /\ broken = {}
  BY DEF GatewayInit, QuotaInit, UsageInit
<1>3. /\ NewCall.stage = "NEW" /\ NewCall.hold = "none" /\ ~NewCall.made /\ ~NewCall.reconciled
      /\ NoReservation.status = "NONE"
  BY DEF NewCall, NoReservation
<1>4. CallsAreSound /\ UsageOfEnded /\ OverrunIsBlind /\ IsFiniteSet(usage)
  BY <1>2, <1>3, FS_EmptySet DEF CallsAreSound, Sound, UsageOfEnded, OverrunIsBlind, Open
<1>5. WithinLimitUnlessBlind
  <2> SUFFICES ASSUME NEW rule \in Rules, NEW w \in 0 .. WindowOf(MaxTime),
                      NEW user \in Identities
               PROVE  Committed(rule, user, w) <= rule.limit
    BY DEF WithinLimitUnlessBlind
  <2> DEFINE S == {d \in Calls : CountsIn(d, w) /\ (rule.scope = "USER" => calls[d].user = user)}
             f == [d \in Calls |-> Counted(rule, calls[d].tokens)]
  <2>1. S = {}
    BY <1>2, <1>3 DEF CountsIn, InProgress, WasMetered
  <2>2. Committed(rule, user, w) = SumFunctionOnSet(f, S)
    BY DEF Committed
  <2> HIDE DEF S, f
  <2>3. SumFunctionOnSet(f, S) = SumFunctionOnSet(f, {})
    BY <2>1, Zenon
  <2>4. rule.limit \in Nat
    BY QuotaAssumption DEF RuleRecords
  <2> QED BY <2>2, <2>3, <2>4, SumOfNone
<1>6. \A r \in Calls : ~Active(r)
  BY <1>2, <1>3 DEF Active
<1>7. HoldsInv
  BY <1>2, <1>3, <1>6
  DEF HoldsInv, NotReservedYet, HoldsExist, OwnHoldOfUser, ReservedIsEstimate, OneActive,
      SettledFirst, SettledAlike, SettledAsMetered, NoOrphanHold, Open
<1> QED BY <1>1, <1>4, <1>5, <1>7 DEF GatewayInv, CallsInv

-----------------------------------------------------------------------------
(* The theorems                                                            *)

\* Types, what each call knows, what is settled before it is metered, and one
\* active reservation of a correlation: the invariant the others follow from.
THEOREM GatewayInvariant == GatewaySpec => []GatewayInv
<1>1. GatewayInit => GatewayInv
  BY InvAtFirst
<1>2. GatewayInv /\ [GatewayNext]_gatewayVars => GatewayInv'
  <2> SUFFICES ASSUME GatewayInv, [GatewayNext]_gatewayVars PROVE GatewayInv'
    OBVIOUS
  <2>1. ASSUME NEW c \in Calls, Execute(c) PROVE GatewayInv'
    BY <2>1, ArriveKeeps, RefuseKeeps, ReplayKeeps, UnlimitedKeeps, ReserveKeeps, HitKeeps,
       NoHitKeeps, SettleHitKeeps, ProviderFailsKeeps, ProviderAnswersKeeps, MeterKeeps,
       FinallyKeeps
    DEF Execute
  <2>2. CASE Crash
    BY <2>2, CrashKeeps
  <2>3. CASE Pass \/ (\E p \in Policies : ChangePolicy(p)) \/ UNCHANGED gatewayVars
    BY <2>3, PassKeeps
  <2> QED BY <2>1, <2>2, <2>3 DEF GatewayNext
<1> QED BY <1>1, <1>2, PTL DEF GatewaySpec

\* Quotas, usage, cache and calls stay well-typed.
THEOREM GatewayTyped == GatewaySpec => []GatewayTypeOK
<1>1. GatewayInv => GatewayTypeOK
  BY DEF GatewayInv
<1> QED BY <1>1, GatewayInvariant, PTL

\* evaluate_and_reserve keeps every hard limit, except in the windows that blind
\* lists.
THEOREM LimitsHold == GatewaySpec => []WithinLimitUnlessBlind
<1>1. GatewayInv => WithinLimitUnlessBlind
  BY DEF GatewayInv, CallsInv
<1> QED BY <1>1, GatewayInvariant, PTL

\* reconcile_reservation and record_gateway_usage tell the same tokens of an
\* answered call that shared its reservation with no other.
THEOREM QuotaAgreesWithUsage == GatewaySpec => []SettledAsMetered
<1>1. GatewayInv => SettledAsMetered
  BY DEF GatewayInv, HoldsInv
<1> QED BY <1>1, GatewayInvariant, PTL

\* The finally clause leaves no capacity held for a call that is over, unless its
\* settling failed or the process went down.
THEOREM HoldsAreOwned == GatewaySpec => []NoOrphanHold
<1>1. GatewayInv => NoOrphanHold
  BY DEF GatewayInv, HoldsInv
<1> QED BY <1>1, GatewayInvariant, PTL
=============================================================================
