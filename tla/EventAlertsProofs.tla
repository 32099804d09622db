-------------------------- MODULE EventAlertsProofs --------------------------
(***************************************************************************)
(* Proofs about the event bus and the alerts raised on it, for any number  *)
(* of threads, events and handlers, any rules' input and any faults.       *)
(***************************************************************************)
EXTENDS EventAlerts, FiniteSetTheorems, TLAPS

\* The stages of one delivery.
Delivering == {"look", "handle", "returned", "raised"}

\* What a thread goes over is there.
WorkersReady ==
    \A w \in Workers :
        /\ worker[w].stage # "idle" => worker[w].events # <<>>
        /\ worker[w].stage \in Delivering => worker[w].handlers # <<>>

BusInv == /\ BusTypeOK
          /\ WorkersReady
          /\ IsFiniteSet(store)
          /\ IsFiniteSet(registered)

\* A finite set can be listed, so the registry is gone over as a sequence of
\* handlers.
LEMMA ListingIsSeq ==
    ASSUME NEW S, IsFiniteSet(S)
    PROVE  Listing(S) \in Seq(S)
<1> DEFINE n == Cardinality(S)
           Lists(s) == s \in [1 .. n -> S] /\ \A i, j \in DOMAIN s : s[i] = s[j] => i = j
<1>1. n \in Nat /\ ExistsBijection(1 .. n, S)
  BY FS_CardinalityType
<1>2. \E s : Lists(s)
  <2>1. PICK f : f \in Bijection(1 .. n, S)
    BY <1>1 DEF ExistsBijection
  <2>2. f \in [1 .. n -> S] /\ DOMAIN f = 1 .. n
    BY <2>1 DEF Bijection, Injection
  <2>3. \A i, j \in 1 .. n : f[i] = f[j] => i = j
    BY <2>1 DEF Bijection, Injection, IsInjective
  <2> QED BY <2>2, <2>3
<1>3. Listing(S) \in [1 .. n -> S]
  BY <1>2 DEF Listing
<1> QED BY <1>1, <1>3

LEMMA ListedAreSeqs ==
    ASSUME NEW S, IsFiniteSet(S), NEW t \in Listed(S)
    PROVE  t \in Seq(S)
<1> DEFINE n == Cardinality(S)
           k == IF MaxListed < n THEN MaxListed ELSE n
<1>1. n \in Nat /\ MaxListed \in Nat /\ k \in Nat /\ k <= n
  BY FS_CardinalityType, BusAssumption
<1> HIDE DEF n
<1>2. PICK s \in [1 .. n -> S] : t = SubSeq(s, 1, k)
  BY DEF Listed, n
<1> HIDE DEF k
<1>3. t = [i \in 1 .. k |-> s[i]]
  BY <1>1, <1>2
<1>4. t \in [1 .. k -> S]
  <2>1. \A i \in 1 .. k : i \in 1 .. n
    BY <1>1
  <2>2. \A i \in 1 .. k : s[i] \in S
    BY <1>2, <2>1
  <2> QED BY <1>3, <2>2
<1> QED BY <1>1, <1>4

-----------------------------------------------------------------------------
(* The loops keep the threads well typed                                   *)

\* Thread w leaves the delivery it was at, or none, for the next thing to do.
MovesOn(w) ==
    /\ worker' \in [Workers -> BusWorkers]
    /\ \A v \in Workers \ {w} : worker'[v] = worker[v]
    /\ worker'[w].stage \in {"idle", "append", "event", "look"}
    /\ worker'[w].stage # "idle" => worker'[w].events # <<>>
    /\ worker'[w].stage = "look" => worker'[w].handlers # <<>>

\* Thread w stays with its delivery, at another stage of it.
TurnsTo(w, stage) ==
    /\ worker' \in [Workers -> BusWorkers]
    /\ \A v \in Workers \ {w} : worker'[v] = worker[v]
    /\ worker'[w] = [worker[w] EXCEPT !.stage = stage]

LEMMA IdleTyped == IdleWorker \in BusWorkers
BY DEF IdleWorker, BusWorkers, Stages

LEMMA GoesIdle ==
    ASSUME BusInv, NEW w \in Workers, worker' = [worker EXCEPT ![w] = IdleWorker]
    PROVE  MovesOn(w)
BY IdleTyped DEF BusInv, BusTypeOK, MovesOn, IdleWorker

LEMMA VisitMovesOn ==
    ASSUME BusInv, NEW w \in Workers, NEW mode \in {"publish", "all"} \cup Handlers,
           NEW force \in BOOLEAN, NEW events \in Seq(Events), events # <<>>,
           NEW hs \in Seq(Handlers), Visit(w, mode, force, events, hs)
    PROVE  MovesOn(w)
<1>0. worker \in [Workers -> BusWorkers] /\ registered \subseteq Handlers
  BY DEF BusInv, BusTypeOK
<1>1. CASE hs = <<>> /\ Tail(events) = <<>>
  <2>1. worker' = [worker EXCEPT ![w] = IdleWorker]
    BY <1>1 DEF Visit
  <2> QED BY <2>1, GoesIdle
<1>2. CASE hs = <<>> /\ Tail(events) # <<>>
  <2> DEFINE t == [worker[w] EXCEPT !.stage = "event", !.mode = mode, !.force = force,
                      !.events = Tail(events), !.handlers = <<>>, !.seen = {}]
  <2>1. worker' = [worker EXCEPT ![w] = t]
    BY <1>0, <1>2 DEF Visit
  <2>2. Tail(events) \in Seq(Events) /\ <<>> \in Seq(Handlers)
    OBVIOUS
  <2>3. t \in BusWorkers /\ t.stage = "event" /\ t.events # <<>>
    BY <1>0, <1>2, <2>2 DEF BusWorkers, Stages
  <2> HIDE DEF t
  <2> QED BY <1>0, <2>1, <2>3 DEF MovesOn
<1>3. CASE hs # <<>>
  <2> DEFINE t == [stage |-> "look", mode |-> mode, force |-> force, events |-> events,
                   handlers |-> hs, seen |-> registered]
  <2>1. worker' = [worker EXCEPT ![w] = t]
    BY <1>3 DEF Visit
  <2>2. t \in BusWorkers /\ t.stage = "look" /\ t.events # <<>> /\ t.handlers # <<>>
    BY <1>0, <1>3 DEF BusWorkers, Stages
  <2> HIDE DEF t
  <2> QED BY <1>0, <2>1, <2>2 DEF MovesOn
<1> QED BY <1>1, <1>2, <1>3

LEMMA NextDeliveryMovesOn ==
    ASSUME BusInv, NEW w \in Workers, worker[w].stage \in Delivering, NextDelivery(w)
    PROVE  MovesOn(w)
<1>0. /\ worker \in [Workers -> BusWorkers] /\ worker[w] \in BusWorkers
      /\ worker[w].events # <<>> /\ worker[w].handlers # <<>>
      /\ worker[w].events \in Seq(Events) /\ worker[w].handlers \in Seq(Handlers)
      /\ worker[w].force \in BOOLEAN /\ worker[w].mode \in {"publish", "all"} \cup Handlers
  BY DEF BusInv, BusTypeOK, WorkersReady, Delivering, BusWorkers
<1>1. CASE worker' = [worker EXCEPT ![w] = IdleWorker]
  BY <1>1, GoesIdle
<1>2. CASE Visit(w, worker[w].mode, worker[w].force, worker[w].events, <<>>)
  <2>1. <<>> \in Seq(Handlers)
    OBVIOUS
  <2> QED BY ONLY <1>0, <1>2, <2>1, VisitMovesOn, BusInv
<1>3. CASE /\ Len(worker[w].handlers) # 1
           /\ worker' = [worker EXCEPT ![w] = [@ EXCEPT
                 !.stage = "look", !.handlers = Tail(worker[w].handlers)]]
  <2> DEFINE hs == Tail(worker[w].handlers)
             t == [worker[w] EXCEPT !.stage = "look", !.handlers = hs]
  <2>1. hs \in Seq(Handlers) /\ hs # <<>>
    <3>1. Len(worker[w].handlers) \in Nat /\ Len(worker[w].handlers) # 0
      BY <1>0
    <3>2. hs \in Seq(Handlers) /\ Len(hs) = Len(worker[w].handlers) - 1
      BY <1>0
    <3>3. Len(hs) # 0
      BY <1>3, <3>1, <3>2
    <3> HIDE DEF hs
    <3>4. Len(<<>>) = 0
      OBVIOUS
    <3> QED BY <3>2, <3>3, <3>4
  <2>2. worker' = [worker EXCEPT ![w] = t]
    BY <1>0, <1>3
  <2> HIDE DEF hs
  <2>3. t \in BusWorkers /\ t.stage = "look" /\ t.events = worker[w].events /\ t.handlers = hs
    BY <1>0, <2>1 DEF BusWorkers, Stages
  <2> HIDE DEF t
  <2> QED BY <1>0, <2>1, <2>2, <2>3 DEF MovesOn
<1> QED BY <1>1, <1>2, <1>3 DEF NextDelivery

LEMMA StageTurns ==
    ASSUME BusInv, NEW w \in Workers, NEW stage \in Stages,
           worker' = [worker EXCEPT ![w].stage = stage]
    PROVE  TurnsTo(w, stage)
BY DEF BusInv, BusTypeOK, TurnsTo, BusWorkers

LEMMA MovedReady ==
    ASSUME BusInv, NEW w \in Workers,
           \/ MovesOn(w)
           \/ \E stage \in Delivering : TurnsTo(w, stage) /\ worker[w].stage \in Delivering
    PROVE  WorkersReady' /\ worker' \in [Workers -> BusWorkers]
<1>0. worker[w] \in BusWorkers
  BY DEF BusInv, BusTypeOK
<1>1. CASE MovesOn(w)
  BY <1>1 DEF BusInv, WorkersReady, MovesOn, Delivering
<1>2. ASSUME NEW stage \in Delivering, TurnsTo(w, stage), worker[w].stage \in Delivering
      PROVE  WorkersReady' /\ worker' \in [Workers -> BusWorkers]
  <2>1. /\ worker'[w].events = worker[w].events /\ worker'[w].handlers = worker[w].handlers
        /\ worker'[w].stage = stage /\ worker[w].stage # "idle"
    BY <1>0, <1>2 DEF TurnsTo, BusWorkers, Delivering
  <2> QED BY ZenonT(40), <1>2, <2>1 DEF BusInv, WorkersReady, TurnsTo
<1> QED BY <1>1, <1>2

-----------------------------------------------------------------------------
(* What a step of the bus does                                             *)

\* w has no delivery under way that counts: it is moved on, and the records and
\* what is remembered of the deliveries stay.
QuietMove(w) ==
    /\ ~Busy(w)
    /\ MovesOn(w)
    /\ UNCHANGED <<delivery, ran, again>>

\* The handler is called.
CallMove(w) ==
    /\ worker[w].stage = "look"
    /\ TurnsTo(w, "handle")
    /\ worker[w].force \/ delivery[Current(w)] # "DELIVERED"
    /\ again' = IF Repeatable(w) THEN again \cup {Current(w)} ELSE again
    /\ UNCHANGED <<delivery, ran>>

\* The delivery of w is over, with a record or, when the write fails, without.
EndMove(w) ==
    /\ MovesOn(w)
    /\ \/ /\ worker[w].stage = "returned"
          /\ delivery' = [delivery EXCEPT ![Current(w)] = "DELIVERED"]
       \/ /\ worker[w].stage = "raised"
          /\ \/ delivery' = [delivery EXCEPT ![Current(w)] = "FAILED"]
             \/ delivery' = delivery
    /\ UNCHANGED <<ran, again>>

\* The record of a delivery that was made cannot be written.
LoseMove(w) ==
    /\ worker[w].stage = "returned"
    /\ TurnsTo(w, "raised")
    /\ again' = again \cup {Current(w)}
    /\ UNCHANGED <<delivery, ran>>

ReturnMove(w) ==
    /\ worker[w].stage = "handle"
    /\ TurnsTo(w, "returned")
    /\ ran' = [ran EXCEPT ![Current(w)] = Counted(@, Current(w) \in again)]
    /\ UNCHANGED <<delivery, again>>

RaiseMove(w) ==
    /\ worker[w].stage = "handle"
    /\ TurnsTo(w, "raised")
    /\ UNCHANGED <<delivery, ran, again>>

\* The process goes down.
DownMove ==
    /\ worker' = [w \in Workers |-> IdleWorker]
    /\ again' = again \cup
         {Current(w) : w \in {v \in Workers : worker[v].stage = "returned"}}
    /\ UNCHANGED <<delivery, ran>>

\* A step of the bus as the deliveries see it, and any step.
BusMove ==
    \/ \E w \in Workers : QuietMove(w) \/ CallMove(w) \/ EndMove(w) \/ LoseMove(w)
    \/ UNCHANGED <<delivery, worker, ran, again>>

Move ==
    \/ BusMove
    \/ \E w \in Workers : ReturnMove(w) \/ RaiseMove(w)
    \/ DownMove

\* The files and the registry stay finite, and nothing is untyped.
Files ==
    /\ store' \subseteq Events /\ IsFiniteSet(store')
    /\ registered' \subseteq Handlers /\ IsFiniteSet(registered')
    /\ faults' \in Nat

LEMMA CurrentTyped ==
    ASSUME BusInv, NEW w \in Workers, worker[w].stage \in Delivering
    PROVE  /\ Current(w) \in Deliveries
           /\ Current(w)[1] \in Events /\ Current(w)[2] \in Handlers
           /\ Current(w) = <<Current(w)[1], Current(w)[2]>>
<1>1. /\ worker[w].events \in Seq(Events) /\ worker[w].events # <<>>
      /\ worker[w].handlers \in Seq(Handlers) /\ worker[w].handlers # <<>>
  BY DEF BusInv, BusTypeOK, WorkersReady, BusWorkers, Delivering
<1>2. Head(worker[w].events) \in Events /\ Head(worker[w].handlers) \in Handlers
  BY <1>1
<1> QED BY <1>2 DEF Current, Deliveries

LEMMA BusStepMoves ==
    ASSUME BusInv, BusStep
    PROVE  BusMove /\ Files
<1>0. /\ worker \in [Workers -> BusWorkers] /\ registered \subseteq Handlers
      /\ store \subseteq Events /\ faults \in Nat
      /\ IsFiniteSet(store) /\ IsFiniteSet(registered)
  BY DEF BusInv, BusTypeOK
<1>1. ASSUME NEW h \in Handlers, Register(h) \/ Unregister(h) PROVE BusMove /\ Files
  <2>1. registered' \subseteq Handlers /\ IsFiniteSet(registered')
    BY <1>0, <1>1, FS_AddElement, FS_RemoveElement DEF Register, Unregister
  <2> QED BY <1>0, <1>1, <2>1 DEF Register, Unregister, BusMove, Files
<1>2. ASSUME NEW w \in Workers, NEW e \in Events, Publish(w, e) PROVE BusMove /\ Files
  <2> DEFINE t == [worker[w] EXCEPT !.stage = "append", !.events = <<e>>]
  <2>1. worker' = [worker EXCEPT ![w] = t] /\ worker[w].stage = "idle"
    BY <1>0, <1>2 DEF Publish
  <2>2. <<e>> \in Seq(Events) /\ <<e>> # <<>>
    OBVIOUS
  <2>3. t \in BusWorkers /\ t.stage = "append" /\ t.events = <<e>>
    BY <1>0, <2>2 DEF BusWorkers, Stages
  <2> HIDE DEF t
  <2>4. MovesOn(w) /\ ~Busy(w)
    BY <1>0, <2>1, <2>2, <2>3 DEF MovesOn, Busy
  <2>5. QuietMove(w) /\ Files
    BY <1>0, <1>2, <2>4 DEF Publish, QuietMove, Files
  <2> QED BY <2>5 DEF BusMove
<1>3. ASSUME NEW w \in Workers, AppendEvent(w) PROVE BusMove /\ Files
  <2> DEFINE e == Head(worker[w].events)
  <2>1. worker[w].stage = "append" /\ e \in Events
    BY <1>3 DEF AppendEvent, BusInv, BusTypeOK, WorkersReady, BusWorkers
  <2>2. MovesOn(w)
    <3>1. CASE worker' = [worker EXCEPT ![w] = IdleWorker]
      BY <3>1, GoesIdle
    <3>2. CASE Visit(w, "publish", FALSE, <<e>>, Listing(registered \cap CanHandle[e]))
      <4>1. Listing(registered \cap CanHandle[e]) \in Seq(registered \cap CanHandle[e])
        BY <1>0, FS_Intersection, ListingIsSeq
      <4>2. Listing(registered \cap CanHandle[e]) \in Seq(Handlers)
        BY <1>0, <4>1
      <4>3. <<e>> \in Seq(Events) /\ <<e>> # <<>>
        BY <2>1
      <4> QED BY ONLY <3>2, <4>2, <4>3, VisitMovesOn, BusInv, w \in Workers
    <3> QED BY <1>3, <3>1, <3>2 DEF AppendEvent
  <2>3. Files
    <3>1. store' = store \cup {e} \/ store' = store
      BY <1>3 DEF AppendEvent
    <3>2. store' \subseteq Events /\ IsFiniteSet(store')
      BY <1>0, <2>1, <3>1, FS_AddElement
    <3>3. registered' = registered /\ (faults' = faults \/ Fault)
      BY <1>3 DEF AppendEvent
    <3>4. faults' \in Nat
      BY <1>0, <3>3 DEF Fault
    <3> QED BY <1>0, <3>2, <3>3, <3>4 DEF Files
  <2>4. QuietMove(w)
    BY <1>3, <2>1, <2>2 DEF QuietMove, AppendEvent, Busy
  <2> QED BY <2>3, <2>4 DEF BusMove
<1>4. ASSUME NEW w \in Workers, NEW mode \in {"all"} \cup Handlers, NEW force \in BOOLEAN,
             Replay(w, mode, force)
      PROVE  BusMove /\ Files
  <2>1. PICK S \in SUBSET store \ {{}} : \E events \in Listed(S) :
          /\ events # <<>>
          /\ worker' = [worker EXCEPT ![w] =
                [IdleWorker EXCEPT !.stage = "event", !.mode = mode,
                                   !.force = force, !.events = events]]
    BY <1>4 DEF Replay
  <2>2. PICK events \in Listed(S) :
          /\ events # <<>>
          /\ worker' = [worker EXCEPT ![w] =
                [IdleWorker EXCEPT !.stage = "event", !.mode = mode,
                                   !.force = force, !.events = events]]
    BY <2>1
  <2>3. events \in Seq(Events)
    <3>1. IsFiniteSet(S) /\ S \subseteq Events
      BY <1>0, FS_Subset
    <3>2. events \in Seq(S)
      BY <3>1, ListedAreSeqs
    <3> QED BY <3>1, <3>2
  <2> DEFINE t == [IdleWorker EXCEPT !.stage = "event", !.mode = mode,
                                     !.force = force, !.events = events]
  <2>4. t \in BusWorkers /\ t.stage = "event" /\ t.events = events
    BY <2>3, IdleTyped DEF IdleWorker, BusWorkers, Stages
  <2>5. worker' = [worker EXCEPT ![w] = t]
    BY <2>2
  <2> HIDE DEF t
  <2>6. MovesOn(w)
    BY <1>0, <2>2, <2>4, <2>5 DEF MovesOn
  <2>7. QuietMove(w) /\ Files
    BY <1>0, <1>4, <2>6 DEF Replay, QuietMove, Files, Busy
  <2> QED BY <2>7 DEF BusMove
<1>5. ASSUME NEW w \in Workers, ReplayEvent(w) PROVE BusMove /\ Files
  <2> DEFINE me == worker[w]
             wanted == (IF me.mode = "all" THEN registered ELSE registered \cap {me.mode})
                          \cap CanHandle[Head(me.events)]
  <2>1. /\ me.stage = "event" /\ Visit(w, me.mode, me.force, me.events, Listing(wanted))
        /\ UNCHANGED <<store, delivery, registered, faults, ran, again>>
    BY <1>5 DEF ReplayEvent
  <2>2. IsFiniteSet(wanted) /\ wanted \subseteq Handlers
    <3>1. wanted \in SUBSET registered
      OBVIOUS
    <3> QED BY <1>0, <3>1, FS_Subset
  <2> HIDE DEF wanted
  <2>3. Listing(wanted) \in Seq(wanted)
    BY <2>2, ListingIsSeq
  <2>4. Listing(wanted) \in Seq(Handlers)
    BY <2>2, <2>3
  <2>5. /\ me.mode \in {"publish", "all"} \cup Handlers /\ me.force \in BOOLEAN
        /\ me.events \in Seq(Events) /\ me.events # <<>>
    BY <1>0, <2>1 DEF BusWorkers, BusInv, WorkersReady
  <2>6. MovesOn(w)
    BY ONLY <2>1, <2>4, <2>5, VisitMovesOn, BusInv, w \in Workers
  <2>7. QuietMove(w) /\ Files
    BY <1>0, <2>1, <2>6 DEF QuietMove, Files, Busy
  <2> QED BY <2>7 DEF BusMove
<1>6. ASSUME NEW w \in Workers, Look(w) PROVE BusMove /\ Files
  <2>1. Files /\ worker[w].stage = "look"
    BY <1>0, <1>6 DEF Look, Files
  <2>2. CASE NextDelivery(w) /\ UNCHANGED <<delivery, ran, again>>
    <3>1. MovesOn(w)
      BY <2>1, <2>2, NextDeliveryMovesOn DEF Delivering
    <3>2. QuietMove(w)
      BY <2>1, <2>2, <3>1 DEF QuietMove, Busy
    <3> QED BY <2>1, <3>2 DEF BusMove
  <2>3. CASE /\ CallHandler(w) /\ UNCHANGED <<delivery, ran>>
             /\ ~(delivery[Current(w)] = "DELIVERED" /\ ~worker[w].force)
    <3>1. TurnsTo(w, "handle")
      BY <2>3, StageTurns DEF CallHandler, Stages
    <3>2. CallMove(w)
      BY <2>1, <2>3, <3>1 DEF CallMove, CallHandler
    <3> QED BY <2>1, <3>2 DEF BusMove
  <2> QED BY <1>6, <2>2, <2>3 DEF Look
<1>7. ASSUME NEW w \in Workers, RecordDelivered(w) PROVE BusMove /\ Files
  <2>1. Files /\ worker[w].stage = "returned"
    BY <1>0, <1>7 DEF RecordDelivered, Files, Fault
  <2>2. CASE /\ delivery' = [delivery EXCEPT ![Current(w)] = "DELIVERED"]
             /\ NextDelivery(w) /\ UNCHANGED again
    <3>1. MovesOn(w)
      BY <2>1, <2>2, NextDeliveryMovesOn DEF Delivering
    <3> QED BY <1>7, <2>1, <2>2, <3>1 DEF EndMove, BusMove, RecordDelivered
  <2>3. CASE worker' = [worker EXCEPT ![w].stage = "raised"] /\
             again' = again \cup {Current(w)} /\ UNCHANGED delivery
    <3>1. TurnsTo(w, "raised")
      BY <2>3, StageTurns DEF Stages
    <3> QED BY <1>7, <2>1, <2>3, <3>1 DEF LoseMove, BusMove, RecordDelivered
  <2> QED BY <1>7, <2>2, <2>3 DEF RecordDelivered
<1>8. ASSUME NEW w \in Workers, RecordFailed(w) PROVE BusMove /\ Files
  <2>1. Files /\ worker[w].stage = "raised"
    BY <1>0, <1>8 DEF RecordFailed, Files, Fault
  <2>2. MovesOn(w)
    BY <1>8, <2>1, NextDeliveryMovesOn, GoesIdle DEF Delivering, RecordFailed
  <2> QED BY <1>8, <2>1, <2>2 DEF EndMove, BusMove, RecordFailed
<1> QED BY <1>1, <1>2, <1>3, <1>4, <1>5, <1>6, <1>7, <1>8 DEF BusStep, Workers

LEMMA HandlerMoves ==
    ASSUME BusInv, NEW w \in Workers
    PROVE  /\ HandlerReturns(w) => ReturnMove(w)
           /\ HandlerRaises(w) => RaiseMove(w)
<1>1. ASSUME HandlerReturns(w) PROVE ReturnMove(w)
  <2>1. TurnsTo(w, "returned")
    BY <1>1, StageTurns DEF HandlerReturns, Stages
  <2> QED BY <1>1, <2>1 DEF HandlerReturns, ReturnMove
<1>2. ASSUME HandlerRaises(w) PROVE RaiseMove(w)
  <2>1. TurnsTo(w, "raised")
    BY <1>2, StageTurns DEF HandlerRaises, Stages
  <2> QED BY <1>2, <2>1 DEF HandlerRaises, RaiseMove
<1> QED BY <1>1, <1>2

LEMMA BusInvStep ==
    ASSUME BusInv, Move, Files
    PROVE  BusInv'
<1>0. /\ worker \in [Workers -> BusWorkers] /\ ran \in [Deliveries -> 0 .. 2]
      /\ delivery \in [Deliveries -> DeliveryStatuses] /\ again \subseteq Deliveries
  BY DEF BusInv, BusTypeOK
<1>1. WorkersReady' /\ worker' \in [Workers -> BusWorkers]
  <2>1. ASSUME NEW w \in Workers,
               \/ QuietMove(w) \/ CallMove(w) \/ EndMove(w) \/ LoseMove(w)
               \/ ReturnMove(w) \/ RaiseMove(w)
        PROVE  WorkersReady' /\ worker' \in [Workers -> BusWorkers]
    <3>1. \/ MovesOn(w)
          \/ \E stage \in Delivering : TurnsTo(w, stage) /\ worker[w].stage \in Delivering
      BY <2>1 DEF QuietMove, CallMove, EndMove, LoseMove, ReturnMove, RaiseMove, Delivering
    <3> QED BY <3>1, MovedReady
  <2>2. CASE DownMove
    BY <2>2, IdleTyped DEF DownMove, WorkersReady, IdleWorker, Delivering
  <2>3. CASE worker' = worker
    BY <2>3, <1>0 DEF BusInv, WorkersReady
  <2> QED BY <2>1, <2>2, <2>3 DEF Move, BusMove
<1>2. \A w \in Workers : worker[w].stage \in Delivering => Current(w) \in Deliveries
  BY CurrentTyped
<1>3. again' \subseteq Deliveries
  BY <1>0, <1>2 DEF Move, BusMove, QuietMove, CallMove, EndMove, LoseMove, ReturnMove, RaiseMove,
     DownMove, Delivering
<1>4. delivery' \in [Deliveries -> DeliveryStatuses]
  BY <1>0 DEF Move, BusMove, QuietMove, CallMove, EndMove, LoseMove, ReturnMove, RaiseMove,
     DownMove, DeliveryStatuses
<1>5. ran' \in [Deliveries -> 0 .. 2]
  <2>1. ASSUME NEW n \in 0 .. 2, NEW b PROVE Counted(n, b) \in 0 .. 2
    BY DEF Counted
  <2>2. ASSUME NEW w \in Workers, ReturnMove(w) PROVE ran' \in [Deliveries -> 0 .. 2]
    <3>1. Current(w) \in Deliveries
      BY <1>2, <2>2 DEF ReturnMove, Delivering
    <3> QED BY <1>0, <2>1, <2>2, <3>1 DEF ReturnMove
  <2> QED BY <1>0, <2>2 DEF Move, BusMove, QuietMove, CallMove, EndMove, LoseMove, RaiseMove,
             DownMove
<1> QED BY <1>1, <1>3, <1>4, <1>5 DEF BusInv, BusTypeOK, Files

-----------------------------------------------------------------------------
(***************************************************************************)
(* One delivery that there is no reason to repeat.  Its handler has        *)
(* returned once at most; when it has, that is recorded or about to be; a  *)
(* thread in the call finds no record, and is alone there.                 *)
(***************************************************************************)
OnceFor(d) ==
    /\ ran[d] <= 1
    /\ ran[d] # 0 =>
          \/ delivery[d] = "DELIVERED"
          \/ \E w \in Workers : worker[w].stage = "returned" /\ Current(w) = d
    /\ \A w \in Workers : Busy(w) /\ Current(w) = d =>
          /\ delivery[d] # "DELIVERED"
          /\ worker[w].stage # "returned" => ran[d] = 0
    /\ \A v, w \in Workers :
          Busy(v) /\ Busy(w) /\ Current(v) = d /\ Current(w) = d => v = w

OnceInv == \A d \in Deliveries \ again : OnceFor(d)

\* The other threads stay where they are.
LEMMA OthersStay ==
    ASSUME NEW w \in Workers, \A v \in Workers \ {w} : worker'[v] = worker[v],
           NEW v \in Workers \ {w}
    PROVE  /\ worker'[v].stage = worker[v].stage
           /\ Busy(v)' <=> Busy(v)
           /\ Current(v)' = Current(v)
BY DEF Busy, Current

LEMMA TurnKeepsCurrent ==
    ASSUME BusInv, NEW w \in Workers, NEW stage \in Stages, TurnsTo(w, stage)
    PROVE  /\ worker'[w].stage = stage
           /\ Current(w)' = Current(w)
           /\ Busy(w)' <=> stage \in {"handle", "returned", "raised"}
<1>1. worker[w] \in BusWorkers
  BY DEF BusInv, BusTypeOK
<1>2. /\ worker'[w].stage = stage /\ worker'[w].events = worker[w].events
      /\ worker'[w].handlers = worker[w].handlers
  BY <1>1 DEF TurnsTo, BusWorkers
<1> QED BY <1>2 DEF Current, Busy

LEMMA MovesOnRests ==
    ASSUME NEW w \in Workers, MovesOn(w)
    PROVE  ~Busy(w)'
BY DEF MovesOn, Busy

LEMMA OnceInvStep ==
    ASSUME BusInv, OnceInv, Move
    PROVE  OnceInv'
<1> SUFFICES ASSUME NEW d \in Deliveries, d \notin again' PROVE OnceFor(d)'
  BY DEF OnceInv
<1>0. d \notin again /\ OnceFor(d) /\ ran[d] \in 0 .. 2
  <2>1. again \subseteq again'
    BY DEF Move, BusMove, QuietMove, CallMove, EndMove, LoseMove, ReturnMove, RaiseMove, DownMove
  <2> QED BY <2>1 DEF OnceInv, BusInv, BusTypeOK
<1>1. ASSUME NEW w \in Workers, QuietMove(w) PROVE OnceFor(d)'
  <2>1. ~Busy(w) /\ ~Busy(w)' /\ worker'[w].stage # "returned" /\ worker[w].stage # "returned"
    BY <1>1, MovesOnRests DEF QuietMove, Busy
  <2>2. \A v \in Workers \ {w} : /\ worker'[v].stage = worker[v].stage
                                 /\ Busy(v)' <=> Busy(v)
                                 /\ Current(v)' = Current(v)
    BY <1>1, OthersStay DEF QuietMove, MovesOn
  <2> QED BY <1>0, <1>1, <2>1, <2>2 DEF QuietMove, OnceFor
<1>2. ASSUME NEW w \in Workers, CallMove(w) PROVE OnceFor(d)'
  <2>1. /\ worker'[w].stage = "handle" /\ Current(w)' = Current(w) /\ Busy(w)'
        /\ ~Busy(w) /\ worker[w].stage # "returned"
    BY <1>2, TurnKeepsCurrent DEF CallMove, Stages, Busy
  <2>2. \A v \in Workers \ {w} : /\ worker'[v].stage = worker[v].stage
                                 /\ Busy(v)' <=> Busy(v)
                                 /\ Current(v)' = Current(v)
    BY <1>2, OthersStay DEF CallMove, TurnsTo
  <2>3. CASE Current(w) # d
    BY <1>0, <1>2, <2>1, <2>2, <2>3 DEF CallMove, OnceFor
  <2>4. CASE Current(w) = d
    <3>1. ~Repeatable(w)
      BY <1>2, <2>4 DEF CallMove
    <3>2. /\ delivery[d] # "DELIVERED"
          /\ \A v \in Workers \ {w} : ~(Busy(v) /\ Current(v) = d)
      BY <1>2, <2>4, <3>1 DEF CallMove, Repeatable
    <3>3. ran[d] = 0
      BY <1>0, <2>1, <3>2 DEF OnceFor, Busy
    <3> QED BY <1>0, <1>2, <2>1, <2>2, <3>2, <3>3 DEF CallMove, OnceFor
  <2> QED BY <2>3, <2>4
<1>3. ASSUME NEW w \in Workers, EndMove(w) PROVE OnceFor(d)'
  <2>1. ~Busy(w)' /\ Busy(w) /\ worker'[w].stage # "returned" /\ ran' = ran
    BY <1>3, MovesOnRests DEF EndMove, Busy
  <2>2. \A v \in Workers \ {w} : /\ worker'[v].stage = worker[v].stage
                                 /\ Busy(v)' <=> Busy(v)
                                 /\ Current(v)' = Current(v)
    BY <1>3, OthersStay DEF EndMove, MovesOn
  <2>3. CASE Current(w) # d
    <3>1. delivery'[d] = delivery[d]
      BY <1>3, <2>3 DEF EndMove, BusInv, BusTypeOK
    <3> QED BY <1>0, <2>1, <2>2, <2>3, <3>1 DEF OnceFor
  <2>4. CASE Current(w) = d
    <3>1. \A v \in Workers \ {w} : ~(Busy(v) /\ Current(v) = d)
      BY <1>0, <2>1, <2>4 DEF OnceFor
    <3>2. \A v \in Workers : ~(Busy(v)' /\ Current(v)' = d)
      BY <2>1, <2>2, <3>1
    <3>3. CASE worker[w].stage = "returned"
      <4>1. delivery'[d] = "DELIVERED"
        BY <1>3, <2>4, <3>3 DEF EndMove, BusInv, BusTypeOK
      <4> QED BY <1>0, <2>1, <3>2, <4>1 DEF OnceFor
    <3>4. CASE worker[w].stage # "returned"
      <4>1. ran[d] = 0
        BY <1>0, <2>1, <2>4, <3>4 DEF OnceFor
      <4> QED BY <1>0, <2>1, <3>2, <4>1 DEF OnceFor
    <3> QED BY <3>3, <3>4
  <2> QED BY <2>3, <2>4
<1>4. ASSUME NEW w \in Workers, LoseMove(w) PROVE OnceFor(d)'
  <2>1. /\ worker'[w].stage = "raised" /\ Current(w)' = Current(w) /\ Busy(w)' /\ Busy(w)
        /\ Current(w) # d
    BY <1>4, TurnKeepsCurrent DEF LoseMove, Stages, Busy
  <2>2. \A v \in Workers \ {w} : /\ worker'[v].stage = worker[v].stage
                                 /\ Busy(v)' <=> Busy(v)
                                 /\ Current(v)' = Current(v)
    BY <1>4, OthersStay DEF LoseMove, TurnsTo
  <2> QED BY <1>0, <1>4, <2>1, <2>2 DEF LoseMove, OnceFor
<1>5. ASSUME NEW w \in Workers, ReturnMove(w) PROVE OnceFor(d)'
  <2>1. /\ worker'[w].stage = "returned" /\ Current(w)' = Current(w) /\ Busy(w)' /\ Busy(w)
        /\ worker[w].stage # "returned" /\ delivery' = delivery
    BY <1>5, TurnKeepsCurrent DEF ReturnMove, Stages, Busy
  <2>2. \A v \in Workers \ {w} : /\ worker'[v].stage = worker[v].stage
                                 /\ Busy(v)' <=> Busy(v)
                                 /\ Current(v)' = Current(v)
    BY <1>5, OthersStay DEF ReturnMove, TurnsTo
  <2>3. CASE Current(w) # d
    <3>1. ran'[d] = ran[d]
      BY <1>5, <2>3 DEF ReturnMove, BusInv, BusTypeOK
    <3> QED BY <1>0, <2>1, <2>2, <2>3, <3>1 DEF OnceFor
  <2>4. CASE Current(w) = d
    <3>1. ran[d] = 0 /\ delivery[d] # "DELIVERED"
      BY <1>0, <2>1, <2>4 DEF OnceFor
    <3>2. ran'[d] = 1
      BY <1>5, <2>4, <3>1 DEF ReturnMove, BusInv, BusTypeOK, Counted
    <3> QED BY <1>0, <2>1, <2>2, <2>4, <3>1, <3>2 DEF OnceFor
  <2> QED BY <2>3, <2>4
<1>6. ASSUME NEW w \in Workers, RaiseMove(w) PROVE OnceFor(d)'
  <2>1. /\ worker'[w].stage = "raised" /\ Current(w)' = Current(w) /\ Busy(w)' /\ Busy(w)
        /\ worker[w].stage # "returned" /\ UNCHANGED <<delivery, ran>>
    BY <1>6, TurnKeepsCurrent DEF RaiseMove, Stages, Busy
  <2>2. \A v \in Workers \ {w} : /\ worker'[v].stage = worker[v].stage
                                 /\ Busy(v)' <=> Busy(v)
                                 /\ Current(v)' = Current(v)
    BY <1>6, OthersStay DEF RaiseMove, TurnsTo
  <2> QED BY <1>0, <2>1, <2>2 DEF OnceFor
<1>7. CASE DownMove
  <2>1. \A v \in Workers : ~Busy(v)' /\ worker'[v].stage = "idle"
    BY <1>7 DEF DownMove, Busy, IdleWorker
  <2>2. ~\E w \in Workers : worker[w].stage = "returned" /\ Current(w) = d
    BY <1>7 DEF DownMove
  <2> QED BY <1>0, <1>7, <2>1, <2>2 DEF DownMove, OnceFor
<1>8. CASE UNCHANGED <<delivery, worker, ran, again>>
  BY <1>0, <1>8 DEF OnceFor, Busy, Current
<1> QED BY <1>1, <1>2, <1>3, <1>4, <1>5, <1>6, <1>7, <1>8 DEF Move, BusMove

-----------------------------------------------------------------------------
(* The alerts                                                              *)

AlertsTyped ==
    /\ alerts \in [Events -> Seq(AlertStatuses)]
    /\ stamped \subseteq {Subject[e] : e \in Events} \X AlertTypes
    /\ call \in [Workers -> Calls]
    /\ port \in BOOLEAN
    /\ sent \in [Events -> 0 .. 2]
    /\ unseen \subseteq Events
    /\ broken \subseteq Events
    /\ undecided \subseteq Events

Sending == {"send", "record", "told", "failed"}

\* Thread w is in process_event and has not found the alert there.
Past(w) == InAlertCall(w) /\ call[w].at # "start"

\* A thread that is not in process_event has no place in it; one that is has an
\* eligible event, and a file once it is past its writing; only an event whose
\* alert is undecided is to be PENDING after the port was asked.
CallFits(w) ==
    /\ ~InAlertCall(w) => call[w] = NoCall
    /\ Past(w) => EventOf(w) \in Eligible
    /\ At(w, Sending) => call[w].file \in DOMAIN alerts[EventOf(w)]
    /\ At(w, {"record"}) => /\ call[w].result \in PortResults
                            /\ call[w].result = "PENDING" => EventOf(w) \in undecided

EventInv == /\ BusInv
            /\ AlertsTyped
            /\ \A w \in Workers : CallFits(w)

LEMMA InCallTyped ==
    ASSUME BusInv, NEW w \in Workers, InAlertCall(w)
    PROVE  EventOf(w) \in Events /\ Current(w) = <<EventOf(w), AlertHandler>>
BY CurrentTyped DEF InAlertCall, EventOf, Delivering

\* w stays in process_event, or its handler ends.
Stays(w) == worker' = worker

Ends(w) == /\ ReturnMove(w) \/ RaiseMove(w)
           /\ call' = [call EXCEPT ![w] = NoCall]

\* What a step of process_event leaves alone.
AlertFrame(w) ==
    /\ InAlertCall(w)
    /\ Stays(w) \/ Ends(w)
    /\ \A v \in Workers \ {w} : worker'[v] = worker[v] /\ call'[v] = call[v]
    /\ \A e \in Events \ {EventOf(w)} : /\ alerts'[e] = alerts[e] /\ sent'[e] = sent[e]
                                        /\ e \in unseen' <=> e \in unseen
                                        /\ e \in broken' <=> e \in broken
    /\ \A e \in Events \ {EventOf(w)} : e \in undecided' <=> e \in undecided
    /\ unseen \subseteq unseen' /\ broken \subseteq broken' /\ undecided \subseteq undecided'
    /\ DOMAIN alerts[EventOf(w)] \subseteq DOMAIN alerts'[EventOf(w)]

\* The steps of process_event, as its thread and its event see them.
FindMove(w) ==
    /\ At(w, {"start"})
    /\ EventOf(w) \notin Eligible \/ alerts[EventOf(w)] # <<>>
    /\ ReturnMove(w) /\ call' = [call EXCEPT ![w] = NoCall]
    /\ UNCHANGED <<alerts, sent, unseen, broken>>

\* No alert of its event is found: there is none, and nobody else is to write
\* one, or the event is unseen from now on.
NoneMove(w) ==
    /\ unseen' \in {unseen, unseen \cup {EventOf(w)}}
    /\ EventOf(w) \notin unseen' => alerts[EventOf(w)] = <<>> /\ ~Racing(w)

EnterMove(w) ==
    /\ At(w, {"start"})
    /\ EventOf(w) \in Eligible
    /\ NoneMove(w)
    /\ UNCHANGED worker
    /\ \E at \in {"save", "suppress"} : Goto(w, at)
    /\ UNCHANGED <<alerts, sent, broken>>

SaveMove(w) ==
    /\ UNCHANGED <<alerts, sent, broken>>
    /\ \/ /\ At(w, {"save", "suppress"})
          /\ NoneMove(w)
          /\ UNCHANGED worker
          /\ \E at \in {"write", "writeSuppressed"} : Goto(w, at)
       \/ /\ At(w, {"suppress"}) /\ alerts[EventOf(w)] # <<>>
          /\ UNCHANGED unseen
          /\ ReturnMove(w) /\ call' = [call EXCEPT ![w] = NoCall]
       \/ /\ At(w, {"save"})
          /\ UNCHANGED <<worker, unseen>>
          /\ \E i \in DOMAIN alerts[EventOf(w)] :
                call' = [call EXCEPT ![w] = [@ EXCEPT !.at = "send", !.file = i,
                                                      !.result = alerts[EventOf(w)][i]]]

WriteMove(w) ==
    /\ UNCHANGED <<sent, unseen>>
    /\ \/ /\ At(w, {"write"}) /\ UNCHANGED <<worker, broken>>
          /\ alerts' = [alerts EXCEPT ![EventOf(w)] = Append(@, "PENDING")]
          /\ call' = [call EXCEPT ![w] = [@ EXCEPT !.at = "send",
                                                   !.file = Len(alerts[EventOf(w)]) + 1,
                                                   !.result = "PENDING"]]
       \/ /\ At(w, {"writeSuppressed"}) /\ UNCHANGED broken
          /\ alerts' = [alerts EXCEPT ![EventOf(w)] = Append(@, "SUPPRESSED")]
          /\ ReturnMove(w) /\ call' = [call EXCEPT ![w] = NoCall]
       \/ /\ At(w, {"write", "writeSuppressed"}) /\ UNCHANGED alerts
          /\ RaiseMove(w) /\ call' = [call EXCEPT ![w] = NoCall]
          /\ broken' = broken \cup {EventOf(w)}

\* The port is asked, and its answer leaves a PENDING alert alone only when the
\* event is undecided; or there is no port.
AskMove(w, at, result) ==
    /\ call' = [call EXCEPT ![w] = [@ EXCEPT !.at = at, !.result = result]]
    /\ at = "record" => /\ result \in PortResults
                        /\ result = "PENDING" => EventOf(w) \in undecided'
    /\ at = "told" /\ call[w].result = "PENDING" => EventOf(w) \in undecided'

SendMove(w) ==
    /\ At(w, {"send"})
    /\ UNCHANGED <<alerts, unseen, broken>>
    /\ \/ /\ UNCHANGED worker
          /\ \E at \in {"record", "told", "failed"}, result \in AlertStatuses :
                AskMove(w, at, result)
       \/ /\ EventOf(w) \in undecided'
          /\ ReturnMove(w) /\ call' = [call EXCEPT ![w] = NoCall]
    /\ \/ sent' = sent
       \/ EventOf(w) \notin unseen /\ sent' = [sent EXCEPT ![EventOf(w)] = Counted(@, FALSE)]

EndAlertMove(w) ==
    /\ UNCHANGED <<sent, unseen>>
    /\ \/ /\ At(w, {"record", "failed"}) /\ UNCHANGED broken
          /\ \E result \in PortResults :
                /\ alerts' = [alerts EXCEPT ![EventOf(w)][call[w].file] = result]
                /\ result = "PENDING" => EventOf(w) \in undecided
          /\ ReturnMove(w) /\ call' = [call EXCEPT ![w] = NoCall]
       \/ /\ At(w, {"told"}) /\ UNCHANGED <<alerts, broken>>
          /\ ReturnMove(w) /\ call' = [call EXCEPT ![w] = NoCall]
       \/ /\ At(w, {"record", "told"}) /\ UNCHANGED <<worker, alerts, broken>>
          /\ Fail(w)
       \/ /\ At(w, {"failed"}) /\ UNCHANGED alerts
          /\ RaiseMove(w) /\ call' = [call EXCEPT ![w] = NoCall]
          /\ broken' = broken \cup {EventOf(w)}

AlertMove(w) ==
    /\ \/ FindMove(w) \/ EnterMove(w) \/ SaveMove(w) \/ WriteMove(w) \/ SendMove(w)
       \/ EndAlertMove(w)
    /\ port' = port
    /\ undecided' \in {undecided, undecided \cup {EventOf(w)}}

LEMMA AlertStepMoves ==
    ASSUME EventInv, NEW w \in Workers, AlertStep(w)
    PROVE  AlertMove(w) /\ Move /\ Files
<1> USE DEF EventInv
<1>0. /\ store \subseteq Events /\ registered \subseteq Handlers /\ faults \in Nat
      /\ IsFiniteSet(store) /\ IsFiniteSet(registered) /\ CallFits(w)
  BY DEF BusInv, BusTypeOK
<1>1. ASSUME Return(w) PROVE /\ ReturnMove(w) /\ call' = [call EXCEPT ![w] = NoCall]
                             /\ Move /\ Files
  BY <1>0, <1>1, HandlerMoves DEF Return, HandlerReturns, Move, Files
<1>2. ASSUME Raise(w) PROVE /\ RaiseMove(w) /\ call' = [call EXCEPT ![w] = NoCall]
                            /\ broken' = broken \cup {EventOf(w)}
                            /\ Move /\ Files
  <2>1. /\ Fault /\ HandlerRaises(w) /\ call' = [call EXCEPT ![w] = NoCall]
        /\ broken' = broken \cup {EventOf(w)}
    BY <1>2 DEF Raise
  <2>2. RaiseMove(w)
    BY <2>1, HandlerMoves
  <2>3. Files
    BY <1>0, <2>1 DEF HandlerRaises, Fault, Files
  <2> QED BY <2>1, <2>2, <2>3 DEF Move
<1>3. ASSUME UNCHANGED <<store, delivery, registered, worker, ran, again>>,
             faults' = faults \/ Fault
      PROVE  UNCHANGED worker /\ Move /\ Files
  BY <1>0, <1>3 DEF Fault, Move, BusMove, Files
<1>4. UNCHANGED busVars =>
        UNCHANGED <<store, delivery, registered, worker, ran, again>> /\ faults' = faults
  BY DEF busVars
<1>5. port' = port /\ undecided' \in {undecided, undecided \cup {EventOf(w)}}
  BY DEF AlertStep, CheckAlert, SaveAlert, WriteAlert, SendAlert, RecordResult, RecordFailure
<1>6. ASSUME FindsNone(w) PROVE NoneMove(w) /\ UNCHANGED worker /\ Move /\ Files
  <2>1. CASE UNCHANGED busVars
    BY <1>3, <1>4, <1>6, <2>1 DEF FindsNone, NoneMove
  <2>2. CASE /\ Fault /\ UNCHANGED <<store, delivery, registered, worker, ran, again>>
             /\ unseen' = unseen \cup {EventOf(w)}
    BY <1>3, <2>2 DEF NoneMove
  <2> QED BY <1>6, <2>1, <2>2 DEF FindsNone
<1>11. CASE CheckAlert(w)
  <2>1. At(w, {"start"}) /\ UNCHANGED <<alerts, sent, broken>>
    BY <1>11 DEF CheckAlert
  <2>2. CASE /\ EventOf(w) \notin Eligible \/ alerts[EventOf(w)] # <<>>
             /\ Return(w) /\ UNCHANGED unseen
    <3>1. FindMove(w)
      BY <1>1, <2>1, <2>2 DEF FindMove
    <3> QED BY <1>1, <1>5, <2>2, <3>1 DEF AlertMove
  <2>3. CASE EventOf(w) \in Eligible /\ FindsNone(w) /\ Throttle(w)
    <3>1. \E at \in {"save", "suppress"} : Goto(w, at)
      BY <2>3 DEF Throttle
    <3>2. EnterMove(w)
      BY <1>6, <2>1, <2>3, <3>1 DEF EnterMove
    <3> QED BY <1>5, <1>6, <2>3, <3>2 DEF AlertMove
  <2> QED BY <1>11, <2>2, <2>3 DEF CheckAlert
<1>12. CASE SaveAlert(w)
  <2>1. At(w, {"save", "suppress"}) /\ UNCHANGED <<alerts, sent, broken>>
    BY <1>12 DEF SaveAlert
  <2>2. CASE /\ FindsNone(w)
             /\ Goto(w, IF call[w].at = "save" THEN "write" ELSE "writeSuppressed")
    <3>1. \E at \in {"write", "writeSuppressed"} : Goto(w, at)
      BY <2>2
    <3>2. SaveMove(w)
      BY <1>6, <2>1, <2>2, <3>1 DEF SaveMove
    <3> QED BY <1>5, <1>6, <2>2, <3>2 DEF AlertMove
  <2>3. CASE /\ alerts[EventOf(w)] # <<>> /\ call[w].at = "suppress" /\ Return(w)
             /\ UNCHANGED unseen
    <3>1. At(w, {"suppress"})
      BY <2>1, <2>3 DEF At
    <3>2. SaveMove(w)
      BY <1>1, <2>1, <2>3, <3>1 DEF SaveMove
    <3> QED BY <1>1, <1>5, <2>3, <3>2 DEF AlertMove
  <2>4. CASE /\ call[w].at = "save" /\ UNCHANGED <<busVars, unseen>>
             /\ \E i \in DOMAIN alerts[EventOf(w)] :
                   call' = [call EXCEPT ![w] = [@ EXCEPT !.at = "send", !.file = i,
                                                         !.result = alerts[EventOf(w)][i]]]
    <3>1. At(w, {"save"})
      BY <2>1, <2>4 DEF At
    <3>2. SaveMove(w)
      BY <1>4, <2>1, <2>4, <3>1 DEF SaveMove
    <3> QED BY <1>3, <1>4, <1>5, <2>4, <3>2 DEF AlertMove
  <2> QED BY <1>12, <2>2, <2>3, <2>4 DEF SaveAlert
<1>7. CASE WriteAlert(w)
  <2>1. WriteMove(w) /\ Move /\ Files
    BY <1>1, <1>2, <1>3, <1>4, <1>7 DEF WriteAlert, WriteMove
  <2> QED BY <1>5, <2>1 DEF AlertMove
<1>8. CASE SendAlert(w)
  <2>1. /\ At(w, {"send"}) /\ UNCHANGED <<alerts, unseen, broken>>
        /\ \/ sent' = sent
           \/ /\ EventOf(w) \notin unseen
              /\ sent' = [sent EXCEPT ![EventOf(w)] = Counted(@, FALSE)]
    BY <1>8 DEF SendAlert
  <2>2. CASE Return(w) /\ undecided' = undecided \cup {EventOf(w)}
    <3>1. SendMove(w)
      BY <1>1, <2>1, <2>2 DEF SendMove
    <3> QED BY <1>1, <1>5, <2>2, <3>1 DEF AlertMove
  <2>3. ASSUME NEW result \in PortResults,
               NEW rewrites \in Rewrites(call[w].result, result),
               call' = [call EXCEPT ![w] = [@ EXCEPT !.at = IF rewrites THEN "record" ELSE "told",
                                                     !.result = result]],
               undecided' = IF result = "PENDING" THEN undecided \cup {EventOf(w)}
                                                  ELSE undecided,
               UNCHANGED busVars
        PROVE  AlertMove(w) /\ Move /\ Files
    <3>1. /\ ~rewrites /\ call[w].result = "PENDING" => result = "PENDING"
          /\ result \in AlertStatuses
      BY DEF Rewrites, PortResults, AlertStatuses
    <3>2. AskMove(w, IF rewrites THEN "record" ELSE "told", result)
      BY <2>3, <3>1 DEF AskMove
    <3>3. SendMove(w)
      BY <1>4, <2>1, <2>3, <3>1, <3>2 DEF SendMove
    <3> QED BY <1>3, <1>4, <1>5, <2>3, <3>3 DEF AlertMove
  <2>4. CASE Fail(w) /\ UNCHANGED busVars
    <3>1. AskMove(w, "failed", "PENDING") /\ "PENDING" \in AlertStatuses
      BY <2>4 DEF Fail, AskMove, AlertStatuses
    <3>2. SendMove(w)
      BY <1>4, <2>1, <2>4, <3>1 DEF SendMove
    <3> QED BY <1>3, <1>4, <1>5, <2>4, <3>2 DEF AlertMove
  <2> QED BY <1>8, <2>2, <2>3, <2>4 DEF SendAlert
<1>9. CASE RecordResult(w)
  <2>1. /\ At(w, {"record", "told"}) /\ UNCHANGED <<sent, unseen, broken>>
        /\ At(w, {"record"}) => /\ At(w, {"record", "failed"})
                                /\ call[w].result \in PortResults
                                /\ call[w].result = "PENDING" => EventOf(w) \in undecided
    BY <1>0, <1>9 DEF RecordResult, CallFits, At
  <2>2. CASE /\ call[w].at = "record" /\ Return(w)
             /\ alerts' = [alerts EXCEPT ![EventOf(w)][call[w].file] = call[w].result]
    <3>1. At(w, {"record"})
      BY <2>1, <2>2 DEF At
    <3>2. EndAlertMove(w)
      BY <1>1, <2>1, <2>2, <3>1 DEF EndAlertMove
    <3> QED BY <1>1, <1>5, <2>2, <3>2 DEF AlertMove
  <2>3. CASE call[w].at = "told" /\ Return(w) /\ UNCHANGED alerts
    <3>1. At(w, {"told"})
      BY <2>1, <2>3 DEF At
    <3>2. EndAlertMove(w)
      BY <1>1, <2>1, <2>3, <3>1 DEF EndAlertMove
    <3> QED BY <1>1, <1>5, <2>3, <3>2 DEF AlertMove
  <2>4. CASE Fault /\ Fail(w)
             /\ UNCHANGED <<store, delivery, registered, worker, ran, again, alerts>>
    <3>1. EndAlertMove(w)
      BY <2>1, <2>4 DEF EndAlertMove
    <3> QED BY <1>3, <1>5, <2>4, <3>1 DEF AlertMove
  <2> QED BY <1>9, <2>2, <2>3, <2>4 DEF RecordResult
<1>10. CASE RecordFailure(w)
  <2>1. /\ At(w, {"failed"}) /\ At(w, {"record", "failed"})
        /\ "ATTEMPTED" \in PortResults /\ "ATTEMPTED" # "PENDING"
    BY <1>10 DEF RecordFailure, At, PortResults
  <2>2. EndAlertMove(w) /\ Move /\ Files
    BY <1>1, <1>2, <1>10, <2>1 DEF RecordFailure, EndAlertMove
  <2> QED BY <1>5, <2>2 DEF AlertMove
<1> QED BY <1>7, <1>8, <1>9, <1>10, <1>11, <1>12 DEF AlertStep

LEMMA AlertMoveFrame ==
    ASSUME EventInv, NEW w \in Workers, AlertMove(w)
    PROVE  AlertFrame(w)
<1>0. /\ alerts \in [Events -> Seq(AlertStatuses)] /\ call \in [Workers -> Calls]
      /\ sent \in [Events -> 0 .. 2] /\ InAlertCall(w)
  BY DEF EventInv, AlertsTyped, AlertMove, FindMove, EnterMove, SaveMove, WriteMove,
     SendMove, EndAlertMove, At
<1>1. EventOf(w) \in Events
  BY <1>0, InCallTyped DEF EventInv
<1>2. Stays(w) \/ Ends(w)
  BY DEF AlertMove, FindMove, EnterMove, SaveMove, WriteMove, SendMove, EndAlertMove,
     Stays, Ends
<1>3. \A v \in Workers \ {w} : worker'[v] = worker[v]
  BY <1>2 DEF Stays, Ends, ReturnMove, RaiseMove, TurnsTo
<1>4. \A v \in Workers \ {w} : call'[v] = call[v]
  BY <1>0 DEF AlertMove, FindMove, EnterMove, SaveMove, WriteMove, SendMove, EndAlertMove,
     Goto, Fail, AskMove
<1>5. /\ \A e \in Events \ {EventOf(w)} : alerts'[e] = alerts[e]
      /\ DOMAIN alerts[EventOf(w)] \subseteq DOMAIN alerts'[EventOf(w)]
  <2>1. CASE alerts' = alerts
    BY <2>1
  <2>2. ASSUME NEW status, alerts' = [alerts EXCEPT ![EventOf(w)] = Append(@, status)]
        PROVE  <1>5!1 /\ <1>5!2
    <3>1. alerts[EventOf(w)] \in Seq(AlertStatuses)
      BY <1>0, <1>1
    <3>2. alerts'[EventOf(w)] = Append(alerts[EventOf(w)], status)
      BY <1>0, <1>1, <2>2
    <3>3. DOMAIN alerts'[EventOf(w)] = 1 .. Len(alerts[EventOf(w)]) + 1
      BY <3>1, <3>2
    <3> QED BY <1>0, <2>2, <3>1, <3>3
  <2>3. ASSUME NEW status,
               alerts' = [alerts EXCEPT ![EventOf(w)][call[w].file] = status]
        PROVE  <1>5!1 /\ <1>5!2
    BY <1>0, <1>1, <2>3
  <2> QED BY <2>1, <2>2, <2>3 DEF AlertMove, FindMove, EnterMove, SaveMove, WriteMove,
     SendMove, EndAlertMove
<1>6. \A e \in Events \ {EventOf(w)} :
        sent'[e] = sent[e] /\ (e \in unseen' <=> e \in unseen) /\ (e \in broken' <=> e \in broken)
  BY <1>0 DEF AlertMove, FindMove, EnterMove, SaveMove, WriteMove, SendMove, EndAlertMove,
     NoneMove
<1>7. unseen \subseteq unseen' /\ broken \subseteq broken'
  BY DEF AlertMove, FindMove, EnterMove, SaveMove, WriteMove, SendMove, EndAlertMove, NoneMove
<1>8. /\ \A e \in Events \ {EventOf(w)} : e \in undecided' <=> e \in undecided
      /\ undecided \subseteq undecided'
  BY DEF AlertMove
<1> QED BY <1>0, <1>2, <1>3, <1>4, <1>5, <1>6, <1>7, <1>8 DEF AlertFrame

-----------------------------------------------------------------------------
(* Every step keeps the alerts typed and the threads in their places       *)

LEMMA OthersInCall ==
    ASSUME NEW w \in Workers, AlertFrame(w), NEW v \in Workers \ {w}
    PROVE  /\ InAlertCall(v)' <=> InAlertCall(v)
           /\ EventOf(v)' = EventOf(v) /\ call'[v] = call[v]
           /\ \A places : At(v, places)' <=> At(v, places)
           /\ Past(v)' <=> Past(v)
BY OthersStay DEF AlertFrame, InAlertCall, EventOf, At, Past

LEMMA StaysInCall ==
    ASSUME NEW w \in Workers, AlertFrame(w), Stays(w)
    PROVE  InAlertCall(w)' /\ EventOf(w)' = EventOf(w)
BY DEF AlertFrame, Stays, InAlertCall, EventOf, Current

LEMMA EndsCall ==
    ASSUME EventInv, NEW w \in Workers, AlertFrame(w), Ends(w)
    PROVE  /\ ~InAlertCall(w)' /\ call'[w] = NoCall
           /\ Current(w)' = Current(w) /\ worker'[w].stage \in {"returned", "raised"}
<1>1. PICK stage \in {"returned", "raised"} : TurnsTo(w, stage)
  BY DEF Ends, ReturnMove, RaiseMove
<1>2. worker'[w].stage = stage /\ Current(w)' = Current(w)
  BY <1>1, TurnKeepsCurrent DEF EventInv, Stages
<1> QED BY <1>1, <1>2 DEF Ends, InAlertCall, EventInv, AlertsTyped

LEMMA AlertMoveTyped ==
    ASSUME EventInv, NEW w \in Workers, AlertMove(w)
    PROVE  /\ alerts' \in [Events -> Seq(AlertStatuses)]
           /\ call' \in [Workers -> Calls]
           /\ sent' \in [Events -> 0 .. 2]
           /\ unseen' \subseteq Events
           /\ broken' \subseteq Events
           /\ port' \in BOOLEAN /\ undecided' \subseteq Events
<1>0. /\ alerts \in [Events -> Seq(AlertStatuses)] /\ call \in [Workers -> Calls]
      /\ sent \in [Events -> 0 .. 2] /\ unseen \subseteq Events /\ broken \subseteq Events
      /\ AlertFrame(w) /\ InAlertCall(w)
  BY AlertMoveFrame DEF EventInv, AlertsTyped, AlertFrame
<1>1. EventOf(w) \in Events
  BY <1>0, InCallTyped DEF EventInv
<1>2. alerts' \in [Events -> Seq(AlertStatuses)]
  <2>1. PortResults \cup {"PENDING", "SUPPRESSED"} \subseteq AlertStatuses
    BY DEF PortResults, AlertStatuses
  <2>2. ASSUME NEW status \in AlertStatuses
        PROVE  /\ [alerts EXCEPT ![EventOf(w)] = Append(@, status)]
                      \in [Events -> Seq(AlertStatuses)]
               /\ [alerts EXCEPT ![EventOf(w)][call[w].file] = status]
                      \in [Events -> Seq(AlertStatuses)]
    <3> DEFINE files == alerts[EventOf(w)]
    <3>1. files \in Seq(AlertStatuses)
      BY <1>0, <1>1
    <3>2. Append(files, status) \in Seq(AlertStatuses)
      BY <3>1
    <3>3. [files EXCEPT ![call[w].file] = status] \in Seq(AlertStatuses)
      <4>1. Len(files) \in Nat /\ files \in [1 .. Len(files) -> AlertStatuses]
        BY <3>1
      <4>2. [files EXCEPT ![call[w].file] = status] \in [1 .. Len(files) -> AlertStatuses]
        BY <4>1
      <4> HIDE DEF files
      <4> QED BY <4>1, <4>2
    <3> QED BY <1>0, <3>2, <3>3
  <2>3. \/ alerts' = alerts
        \/ \E status \in PortResults \cup {"PENDING", "SUPPRESSED"} :
              \/ alerts' = [alerts EXCEPT ![EventOf(w)] = Append(@, status)]
              \/ alerts' = [alerts EXCEPT ![EventOf(w)][call[w].file] = status]
    BY DEF AlertMove, FindMove, EnterMove, SaveMove, WriteMove, SendMove, EndAlertMove
  <2>4. CASE alerts' = alerts
    BY <1>0, <2>4
  <2>5. ASSUME NEW status \in PortResults \cup {"PENDING", "SUPPRESSED"},
               \/ alerts' = [alerts EXCEPT ![EventOf(w)] = Append(@, status)]
               \/ alerts' = [alerts EXCEPT ![EventOf(w)][call[w].file] = status]
        PROVE  alerts' \in [Events -> Seq(AlertStatuses)]
    <3>1. status \in AlertStatuses
      BY <2>1
    <3> QED BY ONLY <2>2, <2>5, <3>1
  <2> QED BY ONLY <2>3, <2>4, <2>5
<1>3. call' \in [Workers -> Calls]
  <2>1. NoCall \in Calls /\ call[w] \in Calls
    BY <1>0 DEF NoCall, Calls, Places, AlertStatuses
  <2>2. ASSUME NEW at \in Places
        PROVE  [call EXCEPT ![w].at = at] \in [Workers -> Calls]
    BY <1>0, <2>1 DEF Calls
  <2>4. ASSUME NEW at \in Places, NEW r \in AlertStatuses
        PROVE  [call EXCEPT ![w] = [@ EXCEPT !.at = at, !.result = r]] \in [Workers -> Calls]
    BY <1>0, <2>1 DEF Calls
  <2>5. /\ DOMAIN alerts[EventOf(w)] \subseteq Nat /\ Len(alerts[EventOf(w)]) + 1 \in Nat
        /\ \A i \in DOMAIN alerts[EventOf(w)] : alerts[EventOf(w)][i] \in AlertStatuses
        /\ "PENDING" \in AlertStatuses
    BY <1>0, <1>1 DEF AlertStatuses
  <2>6. {"save", "suppress", "write", "writeSuppressed", "send", "record", "told", "failed"}
           \subseteq Places
    BY DEF Places
  <2>7. \/ call' = [call EXCEPT ![w] = NoCall]
        \/ \E at \in Places : call' = [call EXCEPT ![w].at = at]
        \/ \E at \in Places, i \in Nat, r \in AlertStatuses :
              call' = [call EXCEPT ![w] = [@ EXCEPT !.at = at, !.file = i, !.result = r]]
        \/ \E at \in Places, r \in AlertStatuses :
              call' = [call EXCEPT ![w] = [@ EXCEPT !.at = at, !.result = r]]
    <3>1. CASE FindMove(w) \/ EnterMove(w)
      BY <2>6, <3>1 DEF FindMove, EnterMove, Goto
    <3>2. CASE SaveMove(w)
      <4>1. CASE \E i \in DOMAIN alerts[EventOf(w)] :
                   call' = [call EXCEPT ![w] = [@ EXCEPT !.at = "send", !.file = i,
                                                         !.result = alerts[EventOf(w)][i]]]
        BY <2>5, <2>6, <4>1
      <4>2. CASE ~<4>1!1
        BY <2>6, <3>2, <4>2 DEF SaveMove, Goto
      <4> QED BY <4>1, <4>2
    <3>3. CASE WriteMove(w)
      <4>1. CASE call' = [call EXCEPT ![w] = [@ EXCEPT !.at = "send",
                                                       !.file = Len(alerts[EventOf(w)]) + 1,
                                                       !.result = "PENDING"]]
        BY <2>5, <2>6, <4>1
      <4>2. CASE call' = [call EXCEPT ![w] = NoCall]
        BY <4>2
      <4> QED BY <3>3, <4>1, <4>2 DEF WriteMove
    <3>4. CASE SendMove(w)
      BY <2>6, <3>4 DEF SendMove, AskMove
    <3>5. CASE EndAlertMove(w)
      BY <2>5, <2>6, <3>5 DEF EndAlertMove, Fail
    <3> QED BY <3>1, <3>2, <3>3, <3>4, <3>5 DEF AlertMove
  <2>8. CASE call' = [call EXCEPT ![w] = NoCall]
    BY <1>0, <2>1, <2>8
  <2>9. CASE \E at \in Places : call' = [call EXCEPT ![w].at = at]
    BY ONLY <2>2, <2>9
  <2>10. CASE \E at \in Places, i \in Nat, r \in AlertStatuses :
                call' = [call EXCEPT ![w] = [@ EXCEPT !.at = at, !.file = i, !.result = r]]
    <3>1. PICK at \in Places, i \in Nat, r \in AlertStatuses :
            call' = [call EXCEPT ![w] = [@ EXCEPT !.at = at, !.file = i, !.result = r]]
      BY <2>10
    <3> DEFINE next == [call EXCEPT ![w] = [@ EXCEPT !.at = at, !.file = i, !.result = r]]
    <3>2. call' = next
      BY <3>1
    <3>3. next \in [Workers -> Calls]
      BY <1>0, <2>1 DEF Calls
    <3> HIDE DEF next
    <3> QED BY <3>2, <3>3
  <2>11. CASE \E at \in Places, r \in AlertStatuses :
                call' = [call EXCEPT ![w] = [@ EXCEPT !.at = at, !.result = r]]
    BY ONLY <2>4, <2>11
  <2> QED BY ONLY <2>7, <2>8, <2>9, <2>10, <2>11
<1>4. sent' \in [Events -> 0 .. 2]
  <2>1. \A n \in 0 .. 2 : Counted(n, FALSE) \in 0 .. 2
    BY DEF Counted
  <2>2. sent' = sent \/ sent' = [sent EXCEPT ![EventOf(w)] = Counted(@, FALSE)]
    BY DEF AlertMove, FindMove, EnterMove, SaveMove, WriteMove, SendMove, EndAlertMove
  <2>3. sent[EventOf(w)] \in 0 .. 2
    BY <1>0, <1>1
  <2> QED BY ZenonT(40), <1>0, <2>1, <2>2, <2>3
<1>5. /\ unseen' \subseteq Events /\ broken' \subseteq Events
      /\ port' \in BOOLEAN /\ undecided' \subseteq Events
  BY <1>0, <1>1 DEF AlertMove, FindMove, EnterMove, SaveMove, WriteMove, SendMove,
     EndAlertMove, NoneMove, EventInv, AlertsTyped
<1> QED BY <1>2, <1>3, <1>4, <1>5

LEMMA AlertMoveFits ==
    ASSUME EventInv, NEW w \in Workers, AlertMove(w), NEW v \in Workers
    PROVE  CallFits(v)'
<1>0. /\ alerts \in [Events -> Seq(AlertStatuses)] /\ call \in [Workers -> Calls]
      /\ AlertFrame(w) /\ InAlertCall(w) /\ CallFits(v) /\ CallFits(w)
  BY AlertMoveFrame DEF EventInv, AlertsTyped, AlertFrame
<1>1. EventOf(w) \in Events /\ \A u \in Workers : InAlertCall(u) => EventOf(u) \in Events
  BY <1>0, InCallTyped DEF EventInv
<1>2. CASE v # w
  <2>1. /\ InAlertCall(v)' <=> InAlertCall(v)
        /\ EventOf(v)' = EventOf(v) /\ call'[v] = call[v]
        /\ At(v, Sending)' <=> At(v, Sending)
        /\ At(v, {"record"})' <=> At(v, {"record"})
        /\ Past(v)' <=> Past(v)
    BY <1>0, <1>2, OthersInCall
  <2>2. At(v, Sending) => DOMAIN alerts[EventOf(v)] \subseteq DOMAIN alerts'[EventOf(v)]
    BY <1>0, <1>1 DEF AlertFrame, At
  <2>3. undecided \subseteq undecided'
    BY <1>0 DEF AlertFrame
  <2> QED BY <1>0, <2>1, <2>2, <2>3 DEF CallFits
<1>3. CASE v = w /\ Ends(w)
  <2>1. ~InAlertCall(w)' /\ call'[w] = NoCall
    BY <1>0, <1>3, EndsCall
  <2> QED BY <1>3, <2>1 DEF CallFits, Past, At
<1>4. CASE v = w /\ ~Ends(w)
  <2>1. InAlertCall(w)' /\ EventOf(w)' = EventOf(w)
    BY <1>0, <1>4, StaysInCall DEF AlertFrame
  <2>2. /\ EventOf(w) \in Eligible
        /\ \/ call'[w].at \in {"save", "suppress", "write", "writeSuppressed"}
           \/ /\ call'[w].at \in {"send", "told", "failed"}
              /\ call'[w].file \in DOMAIN alerts'[EventOf(w)]
           \/ /\ call'[w].at = "record" /\ call'[w].result \in PortResults
              /\ call'[w].result = "PENDING" => EventOf(w) \in undecided'
              /\ call'[w].file \in DOMAIN alerts'[EventOf(w)]
    <3>1. CASE FindMove(w)
      BY <1>4, <3>1 DEF FindMove, Ends
    <3>2. CASE EnterMove(w)
      BY <1>0, <3>2 DEF EnterMove, Goto, Calls
    <3>3. CASE SaveMove(w)
      <4>1. EventOf(w) \in Eligible /\ alerts' = alerts
        BY <1>0, <3>3 DEF SaveMove, CallFits, Past, At
      <4>2. CASE \E at \in {"write", "writeSuppressed"} : Goto(w, at)
        BY <1>0, <4>1, <4>2 DEF Goto, Calls
      <4>3. ASSUME NEW i \in DOMAIN alerts[EventOf(w)],
                   call' = [call EXCEPT ![w] = [@ EXCEPT !.at = "send", !.file = i,
                                                         !.result = alerts[EventOf(w)][i]]]
            PROVE  call'[w].at = "send" /\ call'[w].file = i
        BY <1>0, <4>3 DEF Calls
      <4> QED BY <1>4, <3>3, <4>1, <4>2, <4>3 DEF SaveMove, Ends
    <3>4. CASE WriteMove(w)
      <4>1. /\ At(w, {"write"}) /\ alerts' = [alerts EXCEPT ![EventOf(w)] = Append(@, "PENDING")]
            /\ call' = [call EXCEPT ![w] = [@ EXCEPT !.at = "send",
                                                     !.file = Len(alerts[EventOf(w)]) + 1,
                                                     !.result = "PENDING"]]
        BY <1>4, <3>4 DEF WriteMove, Ends
      <4>2. EventOf(w) \in Eligible
        BY <1>0, <4>1 DEF CallFits, Past, At
      <4>3. alerts'[EventOf(w)] = Append(alerts[EventOf(w)], "PENDING")
        BY <1>0, <1>1, <4>1
      <4>4. alerts[EventOf(w)] \in Seq(AlertStatuses)
        BY <1>0, <1>1
      <4>5. Len(alerts[EventOf(w)]) + 1 \in DOMAIN alerts'[EventOf(w)]
        BY <4>3, <4>4
      <4>6. call'[w].at = "send" /\ call'[w].file = Len(alerts[EventOf(w)]) + 1
        BY <1>0, <4>1 DEF Calls
      <4> QED BY <4>2, <4>5, <4>6
    <3>5. CASE SendMove(w)
      <4>1. EventOf(w) \in Eligible /\ call[w].file \in DOMAIN alerts[EventOf(w)]
        BY <1>0, <3>5 DEF SendMove, CallFits, Past, At, Sending
      <4>2. PICK at \in {"record", "told", "failed"}, result \in AlertStatuses :
              alerts' = alerts /\ AskMove(w, at, result)
        BY <1>4, <3>5 DEF SendMove, Ends
      <4>3. /\ call'[w].at = at /\ call'[w].result = result
            /\ call'[w].file = call[w].file
        BY <1>0, <4>2 DEF AskMove, Calls
      <4> QED BY <4>1, <4>2, <4>3 DEF AskMove
    <3>6. CASE EndAlertMove(w)
      <4>1. EventOf(w) \in Eligible /\ call[w].file \in DOMAIN alerts[EventOf(w)]
        BY <1>0, <3>6 DEF EndAlertMove, CallFits, Past, At, Sending
      <4>2. alerts' = alerts /\ Fail(w)
        BY <1>4, <3>6 DEF EndAlertMove, Ends
      <4>3. call'[w].at = "failed" /\ call'[w].file = call[w].file
        BY <1>0, <4>2 DEF Fail, Calls
      <4> QED BY <4>1, <4>2, <4>3
    <3> QED BY <3>1, <3>2, <3>3, <3>4, <3>5, <3>6 DEF AlertMove
  <2> QED BY <1>4, <2>1, <2>2 DEF CallFits, Past, At, Sending
<1> QED BY <1>2, <1>3, <1>4

LEMMA CoolingTyped ==
    ASSUME NEW e \in Events
    PROVE  ThrottleKey(e) \in {Subject[f] : f \in Events} \X AlertTypes
<1>1. Payload[e] \in Payloads
  BY AlertAssumption
<1>2. AlertType(Payload[e]) \in AlertTypes
  BY <1>1 DEF Payloads, AlertType, AlertTypes
<1> QED BY <1>2 DEF ThrottleKey

\* A step outside of process_event: threads may come to it, and none leaves it.
Outside ==
    /\ UNCHANGED <<alerts, call, port, sent, unseen, broken, undecided>>
    /\ \A v \in Workers :
        /\ InAlertCall(v) => InAlertCall(v)' /\ EventOf(v)' = EventOf(v)
        /\ InAlertCall(v)' => \/ InAlertCall(v) /\ EventOf(v)' = EventOf(v)
                              \/ call[v] = NoCall
        /\ worker'[v].stage = "returned" /\ Current(v)'[2] = AlertHandler =>
              worker[v].stage = "returned" /\ Current(v)' = Current(v)

LEMMA BusMoveOutside ==
    ASSUME EventInv, BusMove, UNCHANGED alertVars
    PROVE  Outside
<1>1. CASE UNCHANGED <<delivery, worker, ran, again>>
  BY <1>1 DEF Outside, alertVars, InAlertCall, EventOf, Current
<1>2. ASSUME NEW w \in Workers,
             QuietMove(w) \/ CallMove(w) \/ EndMove(w) \/ LoseMove(w)
      PROVE  Outside
  <2>1. ~InAlertCall(w) /\ call[w] = NoCall
    BY <1>2 DEF QuietMove, CallMove, EndMove, LoseMove, InAlertCall, Busy, EventInv, CallFits
  <2>2. worker'[w].stage # "returned"
    BY <1>2, TurnKeepsCurrent DEF QuietMove, CallMove, EndMove, LoseMove, MovesOn, EventInv,
       Stages
  <2>3. ASSUME NEW v \in Workers \ {w}
        PROVE  /\ InAlertCall(v)' <=> InAlertCall(v)
               /\ EventOf(v)' = EventOf(v) /\ Current(v)' = Current(v)
               /\ worker'[v].stage = worker[v].stage
    BY <1>2, OthersStay DEF QuietMove, CallMove, EndMove, LoseMove, MovesOn, TurnsTo,
       InAlertCall, EventOf
  <2> QED BY <2>1, <2>2, <2>3 DEF Outside, alertVars
<1> QED BY <1>1, <1>2 DEF BusMove

LEMMA OtherEndOutside ==
    ASSUME EventInv, NEW w \in Workers, worker[w].stage = "handle", OtherHandlerEnds(w),
           UNCHANGED alertVars
    PROVE  Outside /\ Move /\ Files
<1>1. ReturnMove(w) \/ RaiseMove(w)
  BY HandlerMoves DEF OtherHandlerEnds, EventInv
<1>2. Files
  BY DEF OtherHandlerEnds, HandlerReturns, HandlerRaises, Files, EventInv, BusInv, BusTypeOK
<1>3. PICK stage \in {"returned", "raised"} : TurnsTo(w, stage)
  BY <1>1 DEF ReturnMove, RaiseMove
<1>4. /\ worker'[w].stage = stage /\ Current(w)' = Current(w)
      /\ Current(w)[2] # AlertHandler
  BY <1>3, TurnKeepsCurrent DEF EventInv, Stages, OtherHandlerEnds
<1>5. ASSUME NEW v \in Workers \ {w}
      PROVE  /\ InAlertCall(v)' <=> InAlertCall(v)
             /\ EventOf(v)' = EventOf(v) /\ Current(v)' = Current(v)
             /\ worker'[v].stage = worker[v].stage
  BY <1>3, OthersStay DEF TurnsTo, InAlertCall, EventOf
<1>6. Outside
  BY <1>4, <1>5 DEF Outside, alertVars, InAlertCall
<1> QED BY <1>1, <1>2, <1>6 DEF Move

\* Every step is one outside of process_event, one inside of it, or a crash.
LEMMA NextMoves ==
    ASSUME EventInv, [EventAlertsNext]_eaVars
    PROVE  /\ Move /\ Files
           /\ \/ Outside /\ stamped' = stamped
              \/ \E w \in Workers : AlertStep(w)
              \/ CrashAll
<1> USE DEF EventInv
<1>0. /\ store \subseteq Events /\ registered \subseteq Handlers /\ faults \in Nat
      /\ IsFiniteSet(store) /\ IsFiniteSet(registered)
  BY DEF BusInv, BusTypeOK
<1>1. CASE BusStep /\ UNCHANGED alertVars
  BY <1>1, BusStepMoves, BusMoveOutside DEF Move, alertVars
<1>2. ASSUME NEW w \in Workers, worker[w].stage = "handle", OtherHandlerEnds(w),
             UNCHANGED alertVars
      PROVE  Move /\ Files /\ Outside /\ stamped' = stamped
  BY <1>2, OtherEndOutside DEF alertVars
<1>3. ASSUME NEW w \in Workers, AlertStep(w) PROVE Move /\ Files
  BY <1>3, AlertStepMoves
<1>4. ASSUME UNCHANGED eaVars
      PROVE  Move /\ Files /\ Outside /\ stamped' = stamped
  <2>1. UNCHANGED busVars /\ UNCHANGED alertVars /\ stamped' = stamped
    BY <1>4 DEF eaVars, alertVars
  <2>2. Outside
    BY <2>1 DEF Outside, busVars, alertVars, InAlertCall, EventOf, Current
  <2> QED BY <1>0, <2>1, <2>2 DEF Move, BusMove, Files, busVars
<1>5. CASE CrashAll
  <2>1. DownMove
    BY <1>5 DEF CrashAll, Crash, DownMove
  <2>2. Files
    BY <1>0, <1>5, FS_EmptySet DEF CrashAll, Crash, Fault, Files
  <2> QED BY <1>5, <2>1, <2>2 DEF Move
<1> QED BY <1>1, <1>2, <1>3, <1>4, <1>5 DEF EventAlertsNext

LEMMA AlertStepCools ==
    ASSUME EventInv, NEW w \in Workers, AlertStep(w)
    PROVE  stamped' \subseteq {Subject[e] : e \in Events} \X AlertTypes
<1>1. InAlertCall(w)
  BY DEF AlertStep, CheckAlert, SaveAlert, WriteAlert, SendAlert, RecordResult,
     RecordFailure, At
<1>2. EventOf(w) \in Events
  BY <1>1, InCallTyped DEF EventInv
<1>3. stamped' = stamped \/ stamped' = stamped \cup {ThrottleKey(EventOf(w))}
  BY DEF AlertStep, CheckAlert, SaveAlert, WriteAlert, SendAlert, RecordResult,
     RecordFailure, Throttle
<1> QED BY <1>2, <1>3, CoolingTyped DEF EventInv, AlertsTyped

LEMMA CrashKeeps ==
    ASSUME EventInv, CrashAll
    PROVE  AlertsTyped' /\ \A v \in Workers : ~InAlertCall(v)' /\ call'[v] = NoCall
<1>1. \A v \in Workers : worker'[v].stage = "idle" /\ call'[v] = NoCall
  BY DEF CrashAll, Crash, IdleWorker
<1>2. \A w \in Workers : InAlertCall(w) => EventOf(w) \in Events
  BY InCallTyped DEF EventInv
<1>3. NoCall \in Calls
  BY DEF NoCall, Calls, Places, AlertStatuses
<1>4. AlertsTyped'
  BY <1>2, <1>3 DEF CrashAll, EventInv, AlertsTyped
<1> QED BY <1>1, <1>4 DEF InAlertCall

LEMMA NextEventInv ==
    ASSUME EventInv, [EventAlertsNext]_eaVars
    PROVE  EventInv'
<1>1. BusInv'
  BY NextMoves, BusInvStep DEF EventInv
<1>2. CASE Outside /\ stamped' = stamped
  <2>1. AlertsTyped'
    BY <1>2 DEF EventInv, AlertsTyped, Outside
  <2>2. \A v \in Workers : CallFits(v)'
    BY <1>2 DEF EventInv, Outside, CallFits, Past, At, NoCall, Sending
  <2> QED BY <1>1, <2>1, <2>2 DEF EventInv
<1>3. ASSUME NEW w \in Workers, AlertStep(w) PROVE EventInv'
  <2>1. AlertMove(w)
    BY <1>3, AlertStepMoves
  <2>2. AlertsTyped'
    BY <1>3, <2>1, AlertMoveTyped, AlertStepCools DEF AlertsTyped
  <2>3. \A v \in Workers : CallFits(v)'
    BY <2>1, AlertMoveFits
  <2> QED BY <1>1, <2>2, <2>3 DEF EventInv
<1>4. CASE CrashAll
  BY <1>1, <1>4, CrashKeeps DEF EventInv, CallFits, Past, At
<1> QED BY <1>2, <1>3, <1>4, NextMoves

LEMMA InitEventInv == EventAlertsInit => EventInv
<1> SUFFICES ASSUME EventAlertsInit PROVE EventInv
  OBVIOUS
<1>1. BusTypeOK
  BY IdleTyped DEF EventAlertsInit, BusInit, BusTypeOK, DeliveryStatuses
<1>2. WorkersReady /\ \A w \in Workers : ~InAlertCall(w)
  BY DEF EventAlertsInit, BusInit, WorkersReady, IdleWorker, Delivering, InAlertCall
<1>3. IsFiniteSet(store) /\ IsFiniteSet(registered)
  BY FS_EmptySet DEF EventAlertsInit, BusInit
<1>4. AlertsTyped
  <2>1. NoCall \in Calls /\ <<>> \in Seq(AlertStatuses)
    BY DEF NoCall, Calls, Places, AlertStatuses
  <2> QED BY <2>1 DEF EventAlertsInit, AlertsTyped
<1>5. \A w \in Workers : CallFits(w)
  BY <1>2 DEF EventAlertsInit, CallFits, Past, At
<1> QED BY <1>1, <1>2, <1>3, <1>4, <1>5 DEF EventInv, BusInv

(***************************************************************************)
(* Type correctness of the bus, its threads and the alerts.                *)
(***************************************************************************)
THEOREM EventAlertsTyped == EventAlertsSpec => []EventAlertsTypeOK
<1>1. EventInv /\ [EventAlertsNext]_eaVars => EventInv'
  BY NextEventInv
<1>2. EventInv => EventAlertsTypeOK
  BY DEF EventInv, BusInv, AlertsTyped, EventAlertsTypeOK
<1> QED BY <1>1, <1>2, InitEventInv, PTL DEF EventAlertsSpec

(***************************************************************************)
(* Every thread in process_event has an eligible event once it is past its *)
(* first look, and an alert file once it is past its writing; outside of   *)
(* process_event it has neither.                                           *)
(***************************************************************************)
THEOREM EventInvariant == EventAlertsSpec => []EventInv
<1>1. EventInv /\ [EventAlertsNext]_eaVars => EventInv'
  BY NextEventInv
<1> QED BY <1>1, InitEventInv, PTL DEF EventAlertsSpec

(***************************************************************************)
(* "Idempotencia de consumo": a handler returns from an event twice only   *)
(* when there was a reason to deliver it again, whatever the handlers do,  *)
(* the alert handler among them.                                           *)
(***************************************************************************)
THEOREM ConsumedOnce == EventAlertsSpec => []ConsumedOnceUnlessAgain
<1>1. EventAlertsInit => OnceInv
  BY DEF EventAlertsInit, BusInit, OnceInv, OnceFor, Busy, IdleWorker
<1>2. EventInv /\ OnceInv /\ [EventAlertsNext]_eaVars => OnceInv'
  BY NextMoves, OnceInvStep DEF EventInv
<1>3. OnceInv => ConsumedOnceUnlessAgain
  BY DEF OnceInv, OnceFor, ConsumedOnceUnlessAgain
<1> QED BY <1>1, <1>2, <1>3, EventInvariant, PTL DEF EventAlertsSpec

-----------------------------------------------------------------------------
(* An eligible event that was handled has its alert                        *)

LEMMA NotEmpty ==
    ASSUME NEW S, NEW s \in Seq(S)
    PROVE  /\ s # <<>> <=> \E i \in Nat : i \in DOMAIN s
           /\ Len(s) \in Nat /\ DOMAIN s = 1 .. Len(s)
           /\ s = <<>> <=> Len(s) = 0
<1>1. Len(s) \in Nat /\ DOMAIN s = 1 .. Len(s) /\ (s = <<>> <=> Len(s) = 0)
  OBVIOUS
<1>2. Len(s) # 0 => 1 \in DOMAIN s
  BY <1>1
<1> QED BY <1>1, <1>2

\* Alerts are never taken off file.
LEMMA AlertsStay ==
    ASSUME EventInv, [EventAlertsNext]_eaVars, NEW e \in Events, alerts[e] # <<>>
    PROVE  alerts'[e] # <<>>
<1>0. alerts \in [Events -> Seq(AlertStatuses)] /\ alerts' \in [Events -> Seq(AlertStatuses)]
  BY NextEventInv DEF EventInv, AlertsTyped
<1>1. CASE alerts' = alerts
  BY <1>1
<1>2. ASSUME NEW w \in Workers, AlertStep(w) PROVE alerts'[e] # <<>>
  <2>1. AlertFrame(w)
    BY <1>2, AlertStepMoves, AlertMoveFrame
  <2>2. DOMAIN alerts[e] \subseteq DOMAIN alerts'[e]
    BY <2>1 DEF AlertFrame
  <2> QED BY <1>0, <2>2, NotEmpty
<1> QED BY <1>1, <1>2, NextMoves DEF Outside, CrashAll

\* A delivery becomes DELIVERED only after its handler has returned.
LEMMA DeliveredWasReturned ==
    ASSUME BusInv, Move, NEW d \in Deliveries, delivery'[d] = "DELIVERED"
    PROVE  \/ delivery[d] = "DELIVERED"
           \/ \E w \in Workers : worker[w].stage = "returned" /\ Current(w) = d
<1>1. ASSUME NEW w \in Workers, EndMove(w)
      PROVE  delivery[d] = "DELIVERED" \/ (worker[w].stage = "returned" /\ Current(w) = d)
  BY <1>1 DEF EndMove, BusInv, BusTypeOK
<1> QED BY <1>1 DEF Move, BusMove, QuietMove, CallMove, LoseMove, ReturnMove, RaiseMove,
       DownMove

\* The handler of w returned from an event, which has its alert if it is eligible.
HandledHasAlert(w) ==
    worker[w].stage = "returned" /\ Current(w)[2] = AlertHandler /\ EventOf(w) \in Eligible
        => alerts[EventOf(w)] # <<>>

HandledInv == DeliveredHasAlert /\ \A w \in Workers : HandledHasAlert(w)

LEMMA AlertStepHandled ==
    ASSUME EventInv, NEW w \in Workers, AlertStep(w), worker'[w].stage = "returned",
           EventOf(w)' \in Eligible
    PROVE  alerts'[EventOf(w)'] # <<>>
<1>0. AlertMove(w) /\ AlertFrame(w) /\ CallFits(w) /\ InAlertCall(w)
  BY AlertStepMoves, AlertMoveFrame DEF EventInv, AlertFrame
<1>1. Ends(w) /\ worker[w].stage = "handle"
  BY <1>0 DEF AlertFrame, Stays, InAlertCall
<1>2. EventOf(w)' = EventOf(w) /\ EventOf(w) \in Events
  BY <1>0, <1>1, EndsCall, InCallTyped DEF EventOf, EventInv
<1>3. ~RaiseMove(w)
  BY TurnKeepsCurrent DEF RaiseMove, Stages, EventInv
<1>4. alerts \in [Events -> Seq(AlertStatuses)] /\ alerts' \in [Events -> Seq(AlertStatuses)]
  BY <1>0, AlertMoveTyped DEF EventInv, AlertsTyped
<1>5. alerts[EventOf(w)] # <<>> => alerts'[EventOf(w)] # <<>>
  BY <1>0, <1>2, <1>4, NotEmpty DEF AlertFrame
<1>6. worker' # worker
  BY <1>1
<1>7. CASE FindMove(w)
  BY <1>2, <1>5, <1>7 DEF FindMove
<1>8. CASE SaveMove(w)
  BY <1>2, <1>5, <1>6, <1>8 DEF SaveMove
<1>9. CASE WriteMove(w)
  <2>1. alerts'[EventOf(w)] = Append(alerts[EventOf(w)], "SUPPRESSED")
    BY <1>2, <1>3, <1>4, <1>6, <1>9 DEF WriteMove
  <2>2. alerts[EventOf(w)] \in Seq(AlertStatuses)
    BY <1>2, <1>4
  <2>3. "SUPPRESSED" \in AlertStatuses
    BY DEF AlertStatuses
  <2>4. Append(alerts[EventOf(w)], "SUPPRESSED") # <<>>
    BY <2>2, <2>3
  <2> QED BY <1>2, <2>1, <2>4
<1>10. CASE EndAlertMove(w) \/ SendMove(w)
  <2>1. At(w, Sending)
    BY <1>10 DEF EndAlertMove, SendMove, At, Sending
  <2>2. call[w].file \in DOMAIN alerts[EventOf(w)]
    BY <1>0, <2>1 DEF CallFits
  <2>3. alerts[EventOf(w)] # <<>>
    BY <1>2, <1>4, <2>2, NotEmpty
  <2> QED BY <1>2, <1>5, <2>3
<1>11. ~EnterMove(w)
  BY <1>6 DEF EnterMove
<1> QED BY <1>0, <1>7, <1>8, <1>9, <1>10, <1>11 DEF AlertMove

LEMMA HandledInvStep ==
    ASSUME EventInv, HandledInv, [EventAlertsNext]_eaVars
    PROVE  HandledInv'
<1>1. DeliveredHasAlert'
  <2> SUFFICES ASSUME NEW e \in Eligible, delivery'[<<e, AlertHandler>>] = "DELIVERED"
               PROVE  alerts'[e] # <<>>
    BY DEF DeliveredHasAlert
  <2> DEFINE d == <<e, AlertHandler>>
  <2>1. e \in Events /\ d \in Deliveries
    BY AlertAssumption DEF Eligible, Deliveries
  <2>2. \/ delivery[d] = "DELIVERED"
        \/ \E w \in Workers : worker[w].stage = "returned" /\ Current(w) = d
    BY <2>1, NextMoves, DeliveredWasReturned DEF EventInv
  <2>3. alerts[e] # <<>>
    BY <2>2 DEF HandledInv, DeliveredHasAlert, HandledHasAlert, EventOf
  <2> QED BY <2>1, <2>3, AlertsStay
<1>2. ASSUME NEW v \in Workers PROVE HandledHasAlert(v)'
  <2> SUFFICES ASSUME worker'[v].stage = "returned", Current(v)'[2] = AlertHandler,
                      EventOf(v)' \in Eligible
               PROVE  alerts'[EventOf(v)'] # <<>>
    BY DEF HandledHasAlert
  <2>1. CASE worker[v].stage = "returned" /\ Current(v)' = Current(v)
    <3>1. EventOf(v)' = EventOf(v) /\ EventOf(v) \in Events
      BY <2>1 DEF EventOf, Eligible
    <3>2. alerts[EventOf(v)] # <<>>
      BY <2>1, <3>1 DEF HandledInv, HandledHasAlert
    <3> QED BY <3>1, <3>2, AlertsStay
  <2>2. CASE Outside
    BY <2>1, <2>2 DEF Outside
  <2>3. ASSUME NEW w \in Workers, AlertStep(w) PROVE alerts'[EventOf(v)'] # <<>>
    <3>1. CASE v = w
      BY <2>3, <3>1, AlertStepHandled
    <3>2. CASE v # w
      <4>1. worker'[v] = worker[v]
        BY <2>3, <3>2, AlertStepMoves, AlertMoveFrame DEF AlertFrame
      <4> QED BY <2>1, <4>1 DEF Current
    <3> QED BY <3>1, <3>2
  <2>4. ~CrashAll
    BY DEF CrashAll, Crash, IdleWorker
  <2> QED BY <2>2, <2>3, <2>4, NextMoves
<1> QED BY <1>1, <1>2 DEF HandledInv

(***************************************************************************)
(* The bus takes an eligible event off the alert handler only when its     *)
(* alert is on file: the handler returns from it only then, and a delivery *)
(* is recorded as made only when the handler has returned.                 *)
(***************************************************************************)
THEOREM DeliveredAlerted == EventAlertsSpec => []DeliveredHasAlert
<1>1. EventAlertsInit => HandledInv
  <2> SUFFICES ASSUME EventAlertsInit PROVE HandledInv
    OBVIOUS
  <2>1. \A e \in Eligible : <<e, AlertHandler>> \in Deliveries
    BY AlertAssumption DEF Eligible, Deliveries
  <2> QED BY <2>1 DEF EventAlertsInit, BusInit, HandledInv, DeliveredHasAlert,
             HandledHasAlert, IdleWorker
<1>2. EventInv /\ HandledInv /\ [EventAlertsNext]_eaVars => HandledInv'
  BY HandledInvStep
<1>3. HandledInv => DeliveredHasAlert
  BY DEF HandledInv
<1> QED BY <1>1, <1>2, <1>3, EventInvariant, PTL DEF EventAlertsSpec

-----------------------------------------------------------------------------
(***************************************************************************)
(* One event whose alert was never unseen: it has one alert at most, and    *)
(* the port was given it once at most; one thread at most is past the look *)
(* for its alert, there is none on file before that thread is past its     *)
(* writing, and the port was not given it before that thread has sent it.  *)
(***************************************************************************)
AlertOnce(e) ==
    /\ Len(alerts[e]) <= 1
    /\ sent[e] <= 1
    /\ alerts[e] = <<>> => sent[e] = 0
    /\ \A w \in Workers : Past(w) /\ EventOf(w) = e =>
          /\ call[w].at \notin Sending => alerts[e] = <<>>
          /\ call[w].at = "send" => sent[e] = 0
    /\ \A v, w \in Workers :
          Past(v) /\ Past(w) /\ EventOf(v) = e /\ EventOf(w) = e => v = w

OnceAlertedInv == \A e \in Events \ unseen : AlertOnce(e)

\* Nobody comes past the look for the alert of e, and nothing changes for it.
LEMMA AlertOnceKept ==
    ASSUME NEW e \in Events, AlertOnce(e),
           alerts'[e] = alerts[e], sent'[e] = sent[e],
           \A v \in Workers : Past(v)' /\ EventOf(v)' = e =>
               Past(v) /\ EventOf(v) = e /\ call'[v] = call[v]
    PROVE  AlertOnce(e)'
BY DEF AlertOnce

LEMMA AlertMoveOnce ==
    ASSUME EventInv, NEW w \in Workers, AlertMove(w), EventOf(w) \notin unseen',
           AlertOnce(EventOf(w)), NEW e, e = EventOf(w)
    PROVE  AlertOnce(e)'
<1>0. /\ AlertFrame(w) /\ CallFits(w) /\ InAlertCall(w) /\ e \in Events
      /\ alerts \in [Events -> Seq(AlertStatuses)] /\ call \in [Workers -> Calls]
      /\ sent \in [Events -> 0 .. 2] /\ alerts[e] \in Seq(AlertStatuses)
  BY AlertMoveFrame, InCallTyped DEF EventInv, AlertsTyped, AlertFrame
<1>1. AlertOnce(e)
  OBVIOUS
<1>2. \A v \in Workers \ {w} : /\ Past(v)' <=> Past(v)
                               /\ EventOf(v)' = EventOf(v) /\ call'[v] = call[v]
  BY <1>0, OthersInCall
<1>3. Ends(w) => ~Past(w)'
  BY <1>0, EndsCall DEF Past
<1>4. Stays(w) => InAlertCall(w)' /\ EventOf(w)' = e
  BY <1>0, StaysInCall
<1>5. CASE FindMove(w)
  <2>1. ~Past(w)'
    BY <1>3, <1>5 DEF FindMove, Ends
  <2> QED BY <1>0, <1>1, <1>2, <1>5, <2>1, AlertOnceKept DEF FindMove
<1>6. CASE EnterMove(w)
  <2>1. \A v \in Workers \ {w} : ~(Past(v) /\ EventOf(v) = e)
    BY <1>6 DEF EnterMove, NoneMove, Racing, Past
  <2>2. /\ alerts' = alerts /\ sent' = sent /\ alerts[e] = <<>>
        /\ call'[w].at \in {"save", "suppress"}
    BY <1>0, <1>6 DEF EnterMove, NoneMove, Goto, Calls
  <2>3. sent[e] = 0
    BY <1>1, <2>2 DEF AlertOnce
  <2> QED BY <1>1, <1>2, <2>1, <2>2, <2>3 DEF AlertOnce, Sending
<1>7. CASE SaveMove(w)
  <2>1. alerts' = alerts /\ sent' = sent
    BY <1>7 DEF SaveMove
  <2>2. CASE Ends(w)
    BY <1>0, <1>1, <1>2, <1>3, <2>1, <2>2, AlertOnceKept
  <2>3. CASE /\ At(w, {"save", "suppress"}) /\ NoneMove(w)
             /\ \E at \in {"write", "writeSuppressed"} : Goto(w, at)
             /\ UNCHANGED worker
    <3>1. Past(w) /\ EventOf(w)' = e /\ call'[w].at \in {"write", "writeSuppressed"}
      BY <1>0, <1>4, <2>3 DEF Past, At, Goto, Calls, Stays
    <3>2. alerts[e] = <<>>
      BY <2>3 DEF NoneMove
    <3> QED BY <1>1, <1>2, <2>1, <2>3, <3>1, <3>2 DEF AlertOnce, Sending
  <2>4. CASE At(w, {"save"}) /\ \E i \in DOMAIN alerts[e] : TRUE
    <3>1. Past(w) /\ call[w].at \notin Sending
      BY <2>4 DEF Past, At, Sending
    <3>2. alerts[e] = <<>>
      BY <1>1, <3>1 DEF AlertOnce
    <3> QED BY <1>0, <2>4, <3>2, NotEmpty
  <2> QED BY <1>7, <2>2, <2>3, <2>4 DEF SaveMove, Ends
<1>8. CASE WriteMove(w)
  <2>1. sent' = sent /\ Past(w) /\ call[w].at \notin Sending
    BY <1>8 DEF WriteMove, At, Past, Sending
  <2>2. /\ alerts[e] = <<>> /\ sent[e] = 0
        /\ \A v \in Workers \ {w} : ~(Past(v) /\ EventOf(v) = e)
    BY <1>1, <2>1 DEF AlertOnce
  <2>3. CASE alerts' = alerts /\ Ends(w)
    BY <1>0, <1>1, <1>2, <1>3, <2>1, <2>3, AlertOnceKept
  <2>4. ASSUME NEW status \in {"PENDING", "SUPPRESSED"},
               alerts' = [alerts EXCEPT ![EventOf(w)] = Append(@, status)]
        PROVE  Len(alerts'[e]) = 1 /\ alerts'[e] # <<>>
    <3>1. alerts'[e] = Append(<<>>, status)
      BY <1>0, <2>2, <2>4
    <3> QED BY <3>1
  <2>5. CASE /\ alerts' = [alerts EXCEPT ![EventOf(w)] = Append(@, "SUPPRESSED")]
             /\ Ends(w)
    BY <1>2, <1>3, <2>1, <2>2, <2>4, <2>5 DEF AlertOnce
  <2>6. CASE /\ alerts' = [alerts EXCEPT ![EventOf(w)] = Append(@, "PENDING")]
             /\ call' = [call EXCEPT ![w] = [@ EXCEPT !.at = "send",
                                                      !.file = Len(alerts[EventOf(w)]) + 1,
                                                      !.result = "PENDING"]]
    <3>1. call'[w].at = "send"
      BY <1>0, <2>6 DEF Calls
    <3>2. Len(alerts'[e]) = 1 /\ alerts'[e] # <<>> /\ sent'[e] = 0
      BY <2>1, <2>2, <2>4, <2>6
    <3>3. \A v \in Workers \ {w} : ~(Past(v)' /\ EventOf(v)' = e)
      BY <1>2, <2>2
    <3> QED BY ONLY <3>1, <3>2, <3>3 DEF AlertOnce, Sending
  <2> QED BY <1>8, <2>3, <2>5, <2>6 DEF WriteMove, Ends
<1>9. CASE SendMove(w)
  <2>1. /\ Past(w) /\ call[w].at = "send" /\ alerts' = alerts
        /\ call[w].file \in DOMAIN alerts[e]
    BY <1>0, <1>9 DEF SendMove, At, Past, CallFits, Sending
  <2>2. /\ alerts[e] # <<>> /\ sent[e] = 0
        /\ \A v \in Workers \ {w} : ~(Past(v) /\ EventOf(v) = e)
    BY <1>0, <1>1, <2>1, NotEmpty DEF AlertOnce
  <2>3. sent'[e] <= 1
    BY <1>0, <1>9, <2>2 DEF SendMove, Counted
  <2>4. CASE Ends(w)
    BY <1>1, <1>2, <1>3, <2>1, <2>2, <2>3, <2>4 DEF AlertOnce
  <2>5. CASE \E at \in {"record", "told", "failed"}, result \in AlertStatuses :
                AskMove(w, at, result)
    <3>1. call'[w].at \in {"record", "told", "failed"}
      BY <1>0, <2>5 DEF AskMove, Calls
    <3> QED BY <1>1, <1>2, <2>1, <2>2, <2>3, <3>1 DEF AlertOnce, Sending
  <2> QED BY <1>9, <2>4, <2>5 DEF SendMove, Ends
<1>10. CASE EndAlertMove(w)
  <2>1. /\ sent' = sent /\ Past(w) /\ At(w, Sending)
        /\ call[w].file \in DOMAIN alerts[e]
    BY <1>0, <1>10 DEF EndAlertMove, At, Past, CallFits, Sending
  <2>2. alerts[e] # <<>>
    BY <1>0, <2>1, NotEmpty
  <2>3. CASE alerts' = alerts /\ Ends(w)
    BY <1>0, <1>1, <1>2, <1>3, <2>1, <2>3, AlertOnceKept
  <2>4. CASE alerts' = alerts /\ Fail(w) /\ UNCHANGED worker
    <3>1. call'[w].at = "failed" /\ EventOf(w)' = e
      BY <1>0, <1>4, <2>4 DEF Fail, Calls, Stays
    <3> QED BY <1>1, <1>2, <2>1, <2>2, <2>4, <3>1 DEF AlertOnce, Sending
  <2>5. ASSUME Ends(w), NEW result \in PortResults,
               alerts' = [alerts EXCEPT ![EventOf(w)][call[w].file] = result]
        PROVE  AlertOnce(e)'
    <3>1. alerts'[e] = [alerts[e] EXCEPT ![call[w].file] = result]
      BY <1>0, <2>5
    <3>2. alerts'[e] \in Seq(AlertStatuses)
      BY <1>0, AlertMoveTyped
    <3>3. DOMAIN alerts'[e] = DOMAIN alerts[e]
      BY <3>1
    <3>4. Len(alerts'[e]) = Len(alerts[e])
      BY <1>0, <3>2, <3>3, NotEmpty
    <3>5. alerts'[e] # <<>>
      BY <1>0, <2>2, <3>2, <3>4, NotEmpty
    <3> QED BY <1>1, <1>2, <1>3, <2>1, <2>5, <3>4, <3>5 DEF AlertOnce
  <2> QED BY <1>10, <2>3, <2>4, <2>5 DEF EndAlertMove, Ends
<1> QED BY <1>5, <1>6, <1>7, <1>8, <1>9, <1>10 DEF AlertMove

LEMMA OnceAlertedStep ==
    ASSUME EventInv, OnceAlertedInv, [EventAlertsNext]_eaVars
    PROVE  OnceAlertedInv'
<1> SUFFICES ASSUME NEW e \in Events, e \notin unseen' PROVE AlertOnce(e)'
  BY DEF OnceAlertedInv
<1>1. CASE Outside
  <2>1. AlertOnce(e)
    BY <1>1 DEF Outside, OnceAlertedInv
  <2>2. ASSUME NEW v \in Workers, Past(v)', EventOf(v)' = e
        PROVE  Past(v) /\ EventOf(v) = e /\ call'[v] = call[v]
    BY <1>1, <2>2 DEF Outside, Past, NoCall
  <2> QED BY <1>1, <2>1, <2>2, AlertOnceKept DEF Outside
<1>2. ASSUME NEW w \in Workers, AlertStep(w) PROVE AlertOnce(e)'
  <2>1. AlertMove(w) /\ AlertFrame(w)
    BY <1>2, AlertStepMoves, AlertMoveFrame
  <2>2. AlertOnce(e)
    BY <2>1 DEF AlertFrame, OnceAlertedInv
  <2>3. CASE e = EventOf(w)
    BY <2>1, <2>2, <2>3, AlertMoveOnce
  <2>4. CASE e # EventOf(w)
    <3>1. alerts'[e] = alerts[e] /\ sent'[e] = sent[e]
      BY <2>1, <2>4 DEF AlertFrame
    <3>2. ~(Past(w)' /\ EventOf(w)' = e)
      <4>1. CASE Ends(w)
        BY <2>1, <4>1, EndsCall DEF Past
      <4>2. CASE Stays(w)
        BY <2>1, <2>4, <4>2, StaysInCall
      <4> QED BY <2>1, <4>1, <4>2 DEF AlertFrame
    <3>3. ASSUME NEW v \in Workers, Past(v)', EventOf(v)' = e
          PROVE  Past(v) /\ EventOf(v) = e /\ call'[v] = call[v]
      BY <2>1, <3>2, <3>3, OthersInCall
    <3> QED BY <2>2, <3>1, <3>3, AlertOnceKept
  <2> QED BY <2>3, <2>4
<1>3. CASE CrashAll
  <2>1. AlertOnce(e) /\ alerts' = alerts /\ sent' = sent
    BY <1>3 DEF CrashAll, OnceAlertedInv
  <2>2. \A v \in Workers : ~Past(v)'
    BY <1>3, CrashKeeps DEF Past
  <2> QED BY <2>1, <2>2, AlertOnceKept
<1> QED BY <1>1, <1>2, <1>3, NextMoves

(***************************************************************************)
(* "Replay seguro": whatever is replayed, forced, redelivered or lost in a *)
(* crash, the port is given the alert of an event at most once, and there  *)
(* is one alert for it at most, unless a thread did not see the one there  *)
(* was or was to be: two were in process_event with the event at once, or  *)
(* the file could not be read.                                             *)
(***************************************************************************)
THEOREM AlertedOnce == EventAlertsSpec => []AlertedOnceUnlessUnseen
<1>1. EventAlertsInit => OnceAlertedInv
  <2> SUFFICES ASSUME EventAlertsInit PROVE OnceAlertedInv
    OBVIOUS
  <2>1. \A w \in Workers : ~Past(w)
    BY DEF EventAlertsInit, BusInit, IdleWorker, Past, InAlertCall
  <2> QED BY <2>1 DEF EventAlertsInit, OnceAlertedInv, AlertOnce
<1>2. EventInv /\ OnceAlertedInv /\ [EventAlertsNext]_eaVars => OnceAlertedInv'
  BY OnceAlertedStep
<1>3. OnceAlertedInv => AlertedOnceUnlessUnseen
  BY DEF OnceAlertedInv, AlertOnce, AlertedOnceUnlessUnseen
<1> QED BY <1>1, <1>2, <1>3, EventInvariant, PTL DEF EventAlertsSpec

-----------------------------------------------------------------------------
\* Thread w is to write file i of e: what the port said, or that it failed.  One
\* that has yet to ask the port will, if it found the alert PENDING.
Holds(w, e, i) ==
    /\ At(w, {"send", "record", "failed"}) /\ EventOf(w) = e /\ call[w].file = i
    /\ call[w].at = "send" => call[w].result = "PENDING"

\* Every file of e that is PENDING is in the hands of a thread that will write it.
PendingHeld(e) ==
    \A i \in DOMAIN alerts[e] : alerts[e][i] = "PENDING" => \E w \in Workers : Holds(w, e, i)

PendingInv == \A e \in Events \ (broken \cup undecided) : PendingHeld(e)

\* Who holds a file of e goes on to hold it, and nothing is written.
LEMMA PendingKept ==
    ASSUME NEW e \in Events, PendingHeld(e), alerts'[e] = alerts[e],
           \A v \in Workers : \A i : Holds(v, e, i) => Holds(v, e, i)'
    PROVE  PendingHeld(e)'
BY DEF PendingHeld

LEMMA AlertMovePending ==
    ASSUME EventInv, NEW w \in Workers, AlertMove(w), EventOf(w) \notin broken',
           EventOf(w) \notin undecided', PendingHeld(EventOf(w)), NEW e, e = EventOf(w)
    PROVE  PendingHeld(e)'
<1>0. /\ AlertFrame(w) /\ CallFits(w) /\ InAlertCall(w) /\ e \in Events
      /\ alerts \in [Events -> Seq(AlertStatuses)] /\ call \in [Workers -> Calls]
      /\ alerts[e] \in Seq(AlertStatuses) /\ e \notin undecided
  BY AlertMoveFrame, InCallTyped DEF EventInv, AlertsTyped, AlertFrame
<1>1. PendingHeld(e)
  OBVIOUS
<1>2. \A v \in Workers \ {w} : \A i : Holds(v, e, i) => Holds(v, e, i)'
  BY <1>0, OthersInCall DEF Holds
<1>3. Stays(w) => InAlertCall(w)' /\ EventOf(w)' = e
  BY <1>0, StaysInCall
<1>4. CASE FindMove(w) \/ EnterMove(w) \/ SaveMove(w)
  <2>1. alerts' = alerts /\ \A i : ~Holds(w, e, i)
    BY <1>4 DEF FindMove, EnterMove, SaveMove, At, Holds
  <2> QED BY <1>0, <1>1, <1>2, <2>1, PendingKept
<1>5. CASE WriteMove(w)
  <2>1. \A i : ~Holds(w, e, i)
    BY <1>5 DEF WriteMove, At, Holds
  <2>2. ASSUME NEW status \in {"PENDING", "SUPPRESSED"},
               alerts' = [alerts EXCEPT ![EventOf(w)] = Append(@, status)],
               NEW i \in DOMAIN alerts'[e], alerts'[e][i] = "PENDING"
        PROVE  \/ i \in DOMAIN alerts[e] /\ alerts[e][i] = "PENDING"
               \/ i = Len(alerts[e]) + 1 /\ status = "PENDING"
    <3>1. alerts'[e] = Append(alerts[e], status)
      BY <1>0, <2>2
    <3>2. Len(alerts[e]) \in Nat /\ DOMAIN alerts'[e] = 1 .. Len(alerts[e]) + 1
          /\ DOMAIN alerts[e] = 1 .. Len(alerts[e])
      BY <1>0, <3>1
    <3> QED BY <1>0, <2>2, <3>1, <3>2
  <2>3. CASE alerts' = [alerts EXCEPT ![EventOf(w)] = Append(@, "SUPPRESSED")]
    BY SMTT(40), <1>1, <1>2, <2>1, <2>2, <2>3 DEF PendingHeld
  <2>4. CASE /\ alerts' = [alerts EXCEPT ![EventOf(w)] = Append(@, "PENDING")]
             /\ call' = [call EXCEPT ![w] = [@ EXCEPT !.at = "send",
                                                      !.file = Len(alerts[EventOf(w)]) + 1,
                                                      !.result = "PENDING"]]
             /\ UNCHANGED worker
    <3>1. PICK n : n = Len(alerts[e]) + 1
      OBVIOUS
    <3>3. Holds(w, e, n)'
      <4>1. /\ call'[w].at = "send" /\ call'[w].result = "PENDING"
            /\ call'[w].file = n
        BY <1>0, <2>4, <3>1 DEF Calls
      <4> QED BY <1>3, <2>4, <4>1 DEF Stays, At, Holds
    <3>2. ASSUME NEW i \in DOMAIN alerts'[e], alerts'[e][i] = "PENDING"
          PROVE  (i \in DOMAIN alerts[e] /\ alerts[e][i] = "PENDING") \/ i = n
      BY <2>2, <2>4, <3>1, <3>2
    <3> QED BY ONLY w \in Workers, <1>1, <1>2, <2>1, <3>2, <3>3 DEF PendingHeld
  <2> QED BY <1>0, <1>5, <2>3, <2>4 DEF WriteMove, EventInv, AlertsTyped
<1>6. CASE SendMove(w)
  <2>1. alerts' = alerts /\ call[w].at = "send"
    BY <1>6 DEF SendMove, At
  <2>2. PICK at \in {"record", "told", "failed"}, result \in AlertStatuses :
          AskMove(w, at, result) /\ UNCHANGED worker
    BY <1>6 DEF SendMove
  <2>3. /\ call'[w].at = at /\ call'[w].file = call[w].file
        /\ call[w].result = "PENDING" => at # "told"
    BY <1>0, <2>2 DEF AskMove, Calls
  <2>4. InAlertCall(w)' /\ EventOf(w)' = e
    BY <1>3, <2>2 DEF Stays
  <2>5. \A i : Holds(w, e, i) => Holds(w, e, i)'
    BY <2>1, <2>3, <2>4 DEF Holds, At
  <2> QED BY <1>0, <1>1, <1>2, <2>1, <2>5, PendingKept
<1>7. CASE EndAlertMove(w)
  <2>1. CASE alerts' = alerts /\ Fail(w) /\ UNCHANGED worker
    <3>1. /\ InAlertCall(w)' /\ EventOf(w)' = e
          /\ call'[w].at = "failed" /\ call'[w].file = call[w].file
      BY <1>0, <1>3, <2>1 DEF Fail, Calls, Stays
    <3>2. \A i : Holds(w, e, i) => Holds(w, e, i)'
      BY <3>1 DEF Holds, At
    <3> QED BY <1>0, <1>1, <1>2, <2>1, <3>2, PendingKept
  <2>2. CASE alerts' = alerts /\ At(w, {"told"})
    <3>1. \A i : ~Holds(w, e, i)
      BY <2>2 DEF Holds, At
    <3> QED BY <1>0, <1>1, <1>2, <2>2, <3>1, PendingKept
  <2>3. ASSUME NEW result \in PortResults, result # "PENDING",
               alerts' = [alerts EXCEPT ![EventOf(w)][call[w].file] = result]
        PROVE  PendingHeld(e)'
    <3>1. alerts'[e] = [alerts[e] EXCEPT ![call[w].file] = result]
      BY <1>0, <2>3
    <3>2. ASSUME NEW i \in DOMAIN alerts'[e], alerts'[e][i] = "PENDING"
          PROVE  i \in DOMAIN alerts[e] /\ alerts[e][i] = "PENDING" /\ ~Holds(w, e, i)
      BY <2>3, <3>1, <3>2 DEF Holds
    <3> QED BY <1>1, <1>2, <3>2 DEF PendingHeld
  <2> QED BY <1>0, <1>7, <2>1, <2>2, <2>3 DEF EndAlertMove, EventInv, AlertsTyped
<1> QED BY <1>4, <1>5, <1>6, <1>7 DEF AlertMove

LEMMA PendingStep ==
    ASSUME EventInv, PendingInv, [EventAlertsNext]_eaVars
    PROVE  PendingInv'
<1> SUFFICES ASSUME NEW e \in Events, e \notin broken', e \notin undecided'
             PROVE  PendingHeld(e)'
  BY DEF PendingInv
<1>1. CASE Outside
  <2>1. PendingHeld(e) /\ alerts'[e] = alerts[e]
    BY <1>1 DEF Outside, PendingInv
  <2>2. \A v \in Workers : \A i : Holds(v, e, i) => Holds(v, e, i)'
    BY <1>1 DEF Outside, Holds, At
  <2> QED BY <2>1, <2>2, PendingKept
<1>2. ASSUME NEW w \in Workers, AlertStep(w) PROVE PendingHeld(e)'
  <2>1. AlertMove(w) /\ AlertFrame(w)
    BY <1>2, AlertStepMoves, AlertMoveFrame
  <2>2. PendingHeld(e)
    BY <2>1 DEF AlertFrame, PendingInv
  <2>3. CASE e = EventOf(w)
    BY <2>1, <2>2, <2>3, AlertMovePending
  <2>4. CASE e # EventOf(w)
    <3>1. alerts'[e] = alerts[e]
      BY <2>1, <2>4 DEF AlertFrame
    <3>2. ASSUME NEW v \in Workers, NEW i, Holds(v, e, i)
          PROVE  Holds(v, e, i)'
      <4>1. v # w
        BY <2>4, <3>2 DEF Holds
      <4> QED BY <2>1, <3>2, <4>1, OthersInCall DEF Holds
    <3> QED BY <2>2, <3>1, <3>2, PendingKept
  <2> QED BY <2>3, <2>4
<1>3. CASE CrashAll
  <2>1. PendingHeld(e) /\ alerts' = alerts
    BY <1>3 DEF CrashAll, PendingInv
  <2>2. \A v \in Workers : \A i : ~Holds(v, e, i)
    BY <1>3 DEF CrashAll, At, Holds
  <2> QED BY <2>1, <2>2, PendingKept
<1> QED BY <1>1, <1>2, <1>3, NextMoves

(***************************************************************************)
(* An alert is PENDING only while a thread is delivering it: one left      *)
(* PENDING with nobody at it, which no later delivery takes up, is the     *)
(* doing of a crash, of a failed write, or of a port that is not there or  *)
(* answers PENDING.                                                        *)
(***************************************************************************)
THEOREM PendingExplained == EventAlertsSpec => []PendingIsExplained
<1>1. EventAlertsInit => PendingInv
  BY DEF EventAlertsInit, PendingInv, PendingHeld
<1>2. EventInv /\ PendingInv /\ [EventAlertsNext]_eaVars => PendingInv'
  BY PendingStep
<1>3. PendingInv => PendingIsExplained
  BY DEF PendingInv, PendingHeld, PendingIsExplained, Holds, At
<1> QED BY <1>1, <1>2, <1>3, EventInvariant, PTL DEF EventAlertsSpec
=============================================================================
