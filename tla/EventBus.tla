------------------------------ MODULE EventBus ------------------------------
(***************************************************************************)
(* The event bus (J.5): EventBusService over JsonEventStore.               *)
(*                                                                         *)
(* publish() stores the event and delivers it to the handlers registered;  *)
(* replay_events() delivers stored events again.  A delivery reads the     *)
(* delivery record, calls the handler and writes the record: three steps,  *)
(* with no lock, that other callers of the bus come between.  A write may  *)
(* fail, and the process may crash anywhere; the files survive, the        *)
(* registry of handlers does not.                                          *)
(*                                                                         *)
(* An event stands for its id and its idempotency key, which is derived    *)
(* from the same record.  What a handler does is left open: it takes any   *)
(* time, and returns or raises.                                            *)
(***************************************************************************)
EXTENDS Naturals, Sequences, FiniteSets

CONSTANTS
    Publishers,     \* threads that publish
    Replayers,      \* threads that replay
    Events,         \* what may be published
    When,           \* occurred_at of each event
    Handlers,       \* the handlers there are
    CanHandle,      \* the handlers that take the type of an event
    MaxListed,      \* the limit of list_events
    Removable,      \* bound: the handlers that are unregistered in a run
    MaxFaults       \* bound: crashes and failed writes in a run

VARIABLES
    store,          \* events/*.json
    delivery,       \* deliveries/*.json: the status of each, "none" without a file
    registered,     \* _handlers
    worker,         \* what each thread is doing
    faults,         \* how many of them there were
    \* history, read by the properties only
    ran,            \* returns of the handler from each delivery, up to two, and
                    \* up to one where there is a reason for more
    again           \* deliveries there was a reason to make again

busVars == <<store, delivery, registered, worker, faults, ran, again>>

Workers == Publishers \cup Replayers

DeliveryStatuses == {"none", "FAILED", "DELIVERED"}
Deliveries == Events \X Handlers

\* "handle" is the call of the handler, "returned" and "raised" its two ends.
Stages == {"idle", "append", "event", "look", "handle", "returned", "raised"}

\* mode tells the loop the thread is in: over a copy of the registry, over the
\* registry itself, or with one handler.  seen is the registry its loop is over.
BusWorkers == [stage : Stages, mode : {"publish", "all"} \cup Handlers,
               force : BOOLEAN, events : Seq(Events), handlers : Seq(Handlers),
               seen : SUBSET Handlers]

IdleWorker == [stage |-> "idle", mode |-> "publish", force |-> FALSE,
               events |-> <<>>, handlers |-> <<>>, seen |-> {}]

ASSUME BusAssumption ==
    /\ When \in [Events -> Nat]
    /\ CanHandle \in [Events -> SUBSET Handlers]
    /\ {"publish", "all"} \cap Handlers = {}
    /\ MaxListed \in Nat
    /\ MaxFaults \in Nat

BusTypeOK ==
    /\ store \subseteq Events
    /\ delivery \in [Deliveries -> DeliveryStatuses]
    /\ registered \subseteq Handlers
    /\ worker \in [Workers -> BusWorkers]
    /\ faults \in Nat
    /\ ran \in [Deliveries -> 0 .. 2]
    /\ again \subseteq Deliveries

BusInit ==
    /\ store = {}
    /\ delivery = [d \in Deliveries |-> "none"]
    /\ registered = {}
    /\ worker = [w \in Workers |-> IdleWorker]
    /\ faults = 0
    /\ ran = [d \in Deliveries |-> 0]
    /\ again = {}

\* A write fails, or the process.
Fault == faults < MaxFaults /\ faults' = faults + 1

-----------------------------------------------------------------------------
Register(h) ==
    /\ registered' = registered \cup {h}
    /\ UNCHANGED <<store, delivery, worker, faults, ran, again>>

Unregister(h) ==
    /\ h \in registered
    /\ registered' = registered \ {h}
    /\ UNCHANGED <<store, delivery, worker, faults, ran, again>>

-----------------------------------------------------------------------------
(* The two loops.                                                          *)

Current(w) == <<Head(worker[w].events), Head(worker[w].handlers)>>

\* The members of S in one order: that of their registration.
Listing(S) ==
    CHOOSE s \in [1 .. Cardinality(S) -> S] :
        \A i, j \in DOMAIN s : s[i] = s[j] => i = j

\* The thread goes over the handlers in hs with its first event, or has no more
\* to do for that event.
Visit(w, mode, force, events, hs) ==
    worker' = [worker EXCEPT ![w] =
      IF hs = <<>>
      THEN IF Tail(events) = <<>> THEN IdleWorker
           ELSE [@ EXCEPT !.stage = "event", !.mode = mode, !.force = force,
                          !.events = Tail(events), !.handlers = <<>>, !.seen = {}]
      ELSE [stage |-> "look", mode |-> mode, force |-> force, events |-> events,
            handlers |-> hs, seen |-> registered]]

\* A delivery is over.  A loop over the registry itself ends with an exception
\* when the registry has changed.  (Python compares the sizes only: a handler
\* swapped for another between two deliveries goes unnoticed there.)
NextDelivery(w) ==
    LET me == worker[w]
    IN  IF me.mode = "all" /\ registered # me.seen
        THEN worker' = [worker EXCEPT ![w] = IdleWorker]
        ELSE IF Len(me.handlers) = 1
        THEN Visit(w, me.mode, me.force, me.events, <<>>)
        ELSE worker' = [worker EXCEPT ![w] = [@ EXCEPT !.stage = "look",
                                                       !.handlers = Tail(worker[w].handlers)]]

Publish(w, e) ==
    /\ worker[w].stage = "idle"
    /\ worker' = [worker EXCEPT ![w] = [@ EXCEPT !.stage = "append", !.events = <<e>>]]
    /\ UNCHANGED <<store, delivery, registered, faults, ran, again>>

\* append() writes the event unless it is there, and publish() copies the
\* registry.  A write that fails ends publish() with an exception.
AppendEvent(w) ==
    LET e == Head(worker[w].events)
    IN  /\ worker[w].stage = "append"
        /\ \/ /\ store' = store \cup {e}
              /\ Visit(w, "publish", FALSE, <<e>>, Listing(registered \cap CanHandle[e]))
              /\ UNCHANGED faults
           \/ /\ e \notin store
              /\ Fault
              /\ worker' = [worker EXCEPT ![w] = IdleWorker]
              /\ UNCHANGED store
        /\ UNCHANGED <<delivery, registered, ran, again>>

\* list_events: the first MaxListed events of S, if it has as many, by
\* occurred_at.
Listed(S) ==
    {SubSeq(s, 1, IF MaxListed < Cardinality(S) THEN MaxListed ELSE Cardinality(S)) : s \in
        {t \in [1 .. Cardinality(S) -> S] :
            /\ {t[i] : i \in DOMAIN t} = S
            /\ \A i, j \in DOMAIN t : i < j => When[t[i]] <= When[t[j]]}}

\* replay_events of the events of a type, a subject or a correlation, with one
\* handler or with all.
Replay(w, mode, force) ==
    /\ worker[w].stage = "idle"
    /\ \E S \in SUBSET store \ {{}} : \E events \in Listed(S) :
        /\ events # <<>>
        /\ worker' = [worker EXCEPT ![w] =
                        [IdleWorker EXCEPT !.stage = "event", !.mode = mode,
                                           !.force = force, !.events = events]]
    /\ UNCHANGED <<store, delivery, registered, faults, ran, again>>

\* The replay comes to its next event, with the handlers registered by now.
ReplayEvent(w) ==
    LET me == worker[w]
        wanted == (IF me.mode = "all" THEN registered ELSE registered \cap {me.mode})
                    \cap CanHandle[Head(me.events)]
    IN  /\ me.stage = "event"
        /\ Visit(w, me.mode, me.force, me.events, Listing(wanted))
        /\ UNCHANGED <<store, delivery, registered, faults, ran, again>>

-----------------------------------------------------------------------------
(* _deliver_to_handler                                                     *)

Busy(w) == worker[w].stage \in {"handle", "returned", "raised"}

\* The call may repeat what was done: it is forced, or another thread is at it.
Repeatable(w) ==
    \/ worker[w].force
    \/ \E v \in Workers \ {w} : Busy(v) /\ Current(v) = Current(w)

CallHandler(w) ==
    /\ worker' = [worker EXCEPT ![w].stage = "handle"]
    /\ again' = IF Repeatable(w) THEN again \cup {Current(w)} ELSE again

\* Wrong on purpose: the record of the delivery is not looked at.
LookNever(w) ==
    /\ worker[w].stage = "look"
    /\ CallHandler(w)
    /\ UNCHANGED <<store, delivery, registered, faults, ran>>

\* get_delivery: a delivery that was made is not made again, unless forced.
Look(w) ==
    /\ worker[w].stage = "look"
    /\ IF delivery[Current(w)] = "DELIVERED" /\ ~worker[w].force
       THEN NextDelivery(w) /\ UNCHANGED again
       ELSE CallHandler(w)
    /\ UNCHANGED <<store, delivery, registered, faults, ran>>

\* One more, counted up to two, or to one when more are accounted for.
Counted(n, excused) == IF n = 0 THEN 1 ELSE IF excused THEN n ELSE 2

HandlerReturns(w) ==
    /\ worker[w].stage = "handle"
    /\ worker' = [worker EXCEPT ![w].stage = "returned"]
    /\ ran' = [ran EXCEPT ![Current(w)] = Counted(@, Current(w) \in again)]
    /\ UNCHANGED <<store, delivery, registered, faults, again>>

HandlerRaises(w) ==
    /\ worker[w].stage = "handle"
    /\ worker' = [worker EXCEPT ![w].stage = "raised"]
    /\ UNCHANGED <<store, delivery, registered, ran, again>>

\* record_delivery(DELIVERED) is inside the try: a write that fails counts as an
\* exception of the handler, which returned.
RecordDelivered(w) ==
    /\ worker[w].stage = "returned"
    /\ \/ /\ delivery' = [delivery EXCEPT ![Current(w)] = "DELIVERED"]
          /\ NextDelivery(w)
          /\ UNCHANGED <<again, faults>>
       \/ /\ Fault
          /\ worker' = [worker EXCEPT ![w].stage = "raised"]
          /\ again' = again \cup {Current(w)}
          /\ UNCHANGED delivery
    /\ UNCHANGED <<store, registered, ran>>

\* A second failure leaves the loop, and publish() or replay_events() with it.
RecordFailed(w) ==
    /\ worker[w].stage = "raised"
    /\ \/ /\ delivery' = [delivery EXCEPT ![Current(w)] = "FAILED"]
          /\ NextDelivery(w)
          /\ UNCHANGED faults
       \/ /\ Fault
          /\ worker' = [worker EXCEPT ![w] = IdleWorker]
          /\ UNCHANGED delivery
    /\ UNCHANGED <<store, registered, ran, again>>

\* What was handled and not recorded will be handled again.
Crash ==
    /\ Fault
    /\ registered' = {}
    /\ worker' = [w \in Workers |-> IdleWorker]
    /\ again' = again \cup
         {Current(w) : w \in {v \in Workers : worker[v].stage = "returned"}}
    /\ UNCHANGED <<store, delivery, ran>>

-----------------------------------------------------------------------------
\* What the bus does itself, its handlers left aside.
BusStep ==
    \/ \E h \in Handlers : Register(h) \/ (h \in Removable /\ Unregister(h))
    \/ \E w \in Publishers, e \in Events : Publish(w, e)
    \/ \E w \in Replayers, mode \in {"all"} \cup Handlers, force \in BOOLEAN :
        Replay(w, mode, force)
    \/ \E w \in Workers :
        \/ AppendEvent(w) \/ ReplayEvent(w) \/ Look(w)
        \/ RecordDelivered(w) \/ RecordFailed(w)

BusNext ==
    \/ BusStep
    \/ \E w \in Workers : HandlerReturns(w) \/ (HandlerRaises(w) /\ UNCHANGED faults)
    \/ Crash

BusSpec == BusInit /\ [][BusNext]_busVars

-----------------------------------------------------------------------------
\* "Idempotencia de consumo por (event_id, handler_id)": a handler returns from
\* an event a second time only when there was a reason to deliver it again: force,
\* two threads delivering it at once, a crash or a failed write after it returned.
ConsumedOnceUnlessAgain == \A d \in Deliveries \ again : ran[d] <= 1

=============================================================================
