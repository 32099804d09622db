--------------------------- MODULE OrderProcessing ---------------------------
(***************************************************************************)
(* Order ingestion and its effect on stock (G.6): OrderProcessingService,  *)
(* the in-memory order repository, and the sales channel behind the order  *)
(* and inventory ports.                                                    *)
(*                                                                         *)
(* A worker is a thread inside the service: it handles a notice of the     *)
(* channel (process_order_event), or it polls (sync_orders_from_channel)   *)
(* and reconciles orders.  The repository locks each of its operations; the *)
(* service locks nothing, and every call to the channel may fail or end    *)
(* without a known result.  Notices may be repeated, late or out of order. *)
(* Repository and service live in memory: a restart of the process forgets *)
(* both, the channel remembers.                                            *)
(*                                                                         *)
(* The channel numbers its notices, so that a notice and its idempotency   *)
(* key are one: the order and the status it tells of.  A poll uses the one *)
(* key it has for the order.  "paid" is is_confirmed_and_paid, "ended" is  *)
(* any of the statuses that come after it.                                 *)
(***************************************************************************)
EXTENDS Naturals, Sequences, FiniteSets

CONSTANTS
    Receivers,      \* threads that hand the service the channel's notices
    Pollers,        \* threads that poll the channel and reconcile
    Orders,         \* the external orders of one channel
    Listings,       \* what is for sale there
    Items,          \* the line items of each order: listing and quantity
    InitialStock,   \* the available quantity of each listing at first
    Denied,         \* listings the policy engine lets nobody change
    NoOrder,        \* the order is absent: from a notice, from the repository
    NoImpact,       \* an order without an entry in _inventory_impacts_by_order
    Unexplained,    \* the deductions of a listing do not explain its stock
    Ending,         \* bound: the orders that the channel may bring to an end
    MaxRestarts     \* bound: restarts of the process in a run

VARIABLES
    market,         \* the status of each order in the channel
    notices,        \* what the channel has sent, and may send again
    stock,          \* the available quantity of each listing in the channel
    saved,          \* the order repository
    processed,      \* _processed_idempotency_keys of the repository
    impacts,        \* _inventory_impacts_by_order of the service
    worker,         \* what each thread is doing
    restarts,       \* how many restarts there were
    \* history, read by the properties only
    applied,        \* units of each listing whose deduction was APPLIED,
                    \* until its stock is no longer explained by them
    deductions,     \* how often each order was deducted, in all
    forgotten,      \* how many restarts forgot that each order was deducted
    overlapped,     \* orders two threads were deducting at once
    paidSeen        \* orders handled as paid since the restart

channelVars == <<market, notices, stock>>
serviceVars == <<saved, processed, impacts>>
historyVars == <<applied, deductions, forgotten, overlapped, paidSeen>>
orderVars == <<channelVars, serviceVars, worker, restarts, historyVars>>

Workers == Receivers \cup Pollers

Statuses == {"open", "paid", "ended"}
Keys == Orders \X (Statuses \cup {"sync"})
LineItems == [listing : Listings, quantity : Nat \ {0}]

Notices == [order : Orders, status : Statuses]

Stages == {"idle", "fetch", "save", "check", "read", "update", "keep",
           "reconcile"}

Threads == [stage : Stages, order : Orders \cup {NoOrder},
            snap : Statuses \cup {NoOrder}, item : Nat, current : Nat,
            impacted : BOOLEAN, polled : [Orders -> Statuses \cup {NoOrder}]]

NothingPolled == [o \in Orders |-> NoOrder]

Idle == [stage |-> "idle", order |-> NoOrder, snap |-> NoOrder, item |-> 0,
         current |-> 0, impacted |-> FALSE, polled |-> NothingPolled]

ASSUME OrderAssumption ==
    /\ Items \in [Orders -> Seq(LineItems)]
    /\ InitialStock \in [Listings -> Nat]
    /\ NoOrder \notin Statuses \cup Orders
    /\ NoImpact \notin BOOLEAN
    /\ Unexplained \notin Nat
    /\ Ending \subseteq Orders
    /\ MaxRestarts \in Nat

OrderTypeOK ==
    /\ market \in [Orders -> Statuses]
    /\ notices \subseteq Notices
    /\ stock \in [Listings -> Nat]
    /\ saved \in [Orders -> Statuses \cup {NoOrder}]
    /\ processed \subseteq Keys
    /\ impacts \in [Orders -> BOOLEAN \cup {NoImpact}]
    /\ worker \in [Workers -> Threads]
    /\ restarts \in Nat
    /\ applied \in [Listings -> Nat \cup {Unexplained}]
    /\ deductions \in [Orders -> Nat]
    /\ forgotten \in [Orders -> Nat]
    /\ overlapped \subseteq Orders
    /\ paidSeen \subseteq Orders

OrderInit ==
    /\ market = [o \in Orders |-> "open"]
    /\ notices = {}
    /\ stock = InitialStock
    /\ saved = [o \in Orders |-> NoOrder]
    /\ processed = {}
    /\ impacts = [o \in Orders |-> NoImpact]
    /\ worker = [w \in Workers |-> Idle]
    /\ restarts = 0
    /\ applied = [l \in Listings |-> 0]
    /\ deductions = [o \in Orders |-> 0]
    /\ forgotten = [o \in Orders |-> 0]
    /\ overlapped = {}
    /\ paidSeen = {}

-----------------------------------------------------------------------------
(* The channel.  An order may be paid, and it ends; it tells of each.      *)

Successors == [open |-> {"paid", "ended"}, paid |-> {"ended"}, ended |-> {}]

OrderMoves(o) ==
    \E s \in Successors[market[o]] :
        /\ s = "ended" => o \in Ending
        /\ market' = [market EXCEPT ![o] = s]
        /\ notices' = notices \cup {[order |-> o, status |-> s]}
        /\ UNCHANGED <<stock, serviceVars, worker, restarts, historyVars>>

-----------------------------------------------------------------------------
(* process_order_event                                                     *)

\* The thread is done with an event, and has the rest of its poll to go on with.
Done(w) == [Idle EXCEPT !.polled = worker[w].polled]

\* record_processed_event: of two calls with one key the second returns False,
\* and the caller has nothing more to do.
RecordEvent(w, key, next, polled) ==
    /\ processed' = processed \cup {key}
    /\ worker' = [worker EXCEPT ![w] =
                    IF key \in processed THEN [Idle EXCEPT !.polled = polled]
                    ELSE next]
    /\ UNCHANGED <<channelVars, saved, impacts, restarts, historyVars>>

\* A notice arrives, for the first time or again.  The event made of it carries
\* the order as it was then, or only its id.
ReceiveNotice(w) ==
    /\ worker[w] = Idle
    /\ \E n \in notices, full \in BOOLEAN :
        RecordEvent(w, <<n.order, n.status>>,
                    [Idle EXCEPT !.stage = IF full THEN "save" ELSE "fetch",
                                 !.order = n.order,
                                 !.snap = IF full THEN n.status ELSE NoOrder],
                    NothingPolled)

\* fetch_orders: every order as it is now, or nothing.  An order whose key is
\* recorded would be passed over, and is left out.
Poll(w) ==
    LET New == {o \in Orders : <<o, "sync">> \notin processed}
    IN  /\ worker[w] = Idle
        /\ New # {}
        /\ worker' = [worker EXCEPT ![w].polled =
                        [o \in Orders |-> IF o \in New THEN market[o] ELSE NoOrder]]
        /\ UNCHANGED <<channelVars, serviceVars, restarts, historyVars>>

\* The next order of the poll, as it was when it was polled.
HandlePolled(w, o) ==
    /\ worker[w].stage = "idle"
    /\ worker[w].polled[o] # NoOrder
    /\ LET rest == [worker[w].polled EXCEPT ![o] = NoOrder]
       IN  RecordEvent(w, <<o, "sync">>,
                       [Idle EXCEPT !.stage = "save", !.order = o,
                                    !.snap = worker[w].polled[o], !.polled = rest],
                       rest)

\* get_order_by_external_id.  A query that fails ends the handling: the event
\* stays recorded as processed.
FetchOrder(w) ==
    /\ worker[w].stage = "fetch"
    /\ \/ worker' = [worker EXCEPT ![w] = [@ EXCEPT !.stage = "save",
                                                    !.snap = market[worker[w].order]]]
       \/ worker' = [worker EXCEPT ![w] = Done(w)]
    /\ UNCHANGED <<channelVars, serviceVars, restarts, historyVars>>

\* save_order, over whatever was saved before.
SaveOrder(w) ==
    LET o == worker[w].order
    IN  /\ worker[w].stage = "save"
        /\ saved' = [saved EXCEPT ![o] = worker[w].snap]
        /\ IF worker[w].snap = "paid"
           THEN /\ worker' = [worker EXCEPT ![w].stage = "check"]
                /\ paidSeen' = paidSeen \cup {o}
           ELSE /\ worker' = [worker EXCEPT ![w] = Done(w)]
                /\ UNCHANGED paidSeen
        /\ UNCHANGED <<channelVars, processed, impacts, restarts,
                       applied, deductions, forgotten, overlapped>>

-----------------------------------------------------------------------------
(* _apply_inventory_deduction_if_needed                                    *)

Deducting(w, o) ==
    worker[w].order = o /\ worker[w].stage \in {"read", "update", "keep"}

\* Where the loop over the items stands after i of them.
AfterItem(o, i) == IF i < Len(Items[o]) THEN "read" ELSE "keep"

\* Wrong on purpose: the idempotency key of the event is thought to be enough.
CheckNothing(w) ==
    LET o == worker[w].order
    IN  /\ worker[w].stage = "check"
        /\ worker' = [worker EXCEPT ![w].stage = AfterItem(o, 0)]
        /\ deductions' = [deductions EXCEPT ![o] = @ + 1]
        /\ overlapped' = IF \E v \in Workers : Deducting(v, o)
                         THEN overlapped \cup {o} ELSE overlapped
        /\ UNCHANGED <<channelVars, serviceVars, restarts, applied, forgotten, paidSeen>>

\* The order has its entry, or this thread starts to deduct.
CheckImpacts(w) ==
    LET o == worker[w].order
    IN  /\ worker[w].stage = "check"
        /\ IF impacts[o] # NoImpact
           THEN /\ worker' = [worker EXCEPT ![w] = Done(w)]
                /\ UNCHANGED <<deductions, overlapped>>
           ELSE /\ worker' = [worker EXCEPT ![w].stage = AfterItem(o, 0)]
                /\ deductions' = [deductions EXCEPT ![o] = @ + 1]
                /\ overlapped' = IF \E v \in Workers : Deducting(v, o)
                                 THEN overlapped \cup {o} ELSE overlapped
        /\ UNCHANGED <<channelVars, serviceVars, restarts, applied, forgotten, paidSeen>>

ItemOf(w) == Items[worker[w].order][worker[w].item + 1]

AtItem(w) == worker[w].item < Len(Items[worker[w].order])

\* The thread adds the result of an item and goes on to the next.  Of the
\* results it matters whether one of them is a success.
Conclude(w, success) ==
    worker' = [worker EXCEPT ![w] = [@ EXCEPT
        !.stage = AfterItem(worker[w].order, worker[w].item + 1),
        !.item = worker[w].item + 1,
        !.current = 0,
        !.impacted = worker[w].impacted \/ success]]

Obscure(l) == applied' = [applied EXCEPT ![l] = Unexplained]

Explain(l, quantity) ==
    applied' = [applied EXCEPT ![l] = IF @ = Unexplained THEN @ ELSE @ + quantity]

\* Another thread has read the stock of l and is about to set it.
Racing(w, l) ==
    \E v \in Workers \ {w} :
        worker[v].stage = "update" /\ AtItem(v) /\ ItemOf(v).listing = l

\* get_current_stock: the quantity that it returns, and 0 when it fails.
\* The policy engine is asked with what was read.
ReadStock(w) ==
    LET l == ItemOf(w).listing
    IN  /\ worker[w].stage = "read" /\ AtItem(w)
        /\ \E ok \in BOOLEAN :
            LET quantity == IF ok THEN stock[l] ELSE 0
            IN  IF l \in Denied
                THEN Conclude(w, FALSE) /\ UNCHANGED applied
                ELSE /\ worker' = [worker EXCEPT ![w] = [@ EXCEPT !.stage = "update",
                                                                  !.current = quantity]]
                     /\ IF ~ok \/ Racing(w, l) THEN Obscure(l) ELSE UNCHANGED applied
        /\ UNCHANGED <<channelVars, serviceVars, restarts,
                       deductions, forgotten, overlapped, paidSeen>>

\* Wrong on purpose: the last unit is never sold.
ProposedAllButLast(current, quantity) ==
    IF quantity >= current THEN current ELSE current - quantity

\* max(0, current_qty - deduct_qty)
Proposed(current, quantity) == IF quantity > current THEN 0 ELSE current - quantity

\* update_inventory sets the listing to the proposed quantity, refuses, or
\* ends without a known result, before or after the listing was set.
UpdateStock(w) ==
    LET l == ItemOf(w).listing
        quantity == ItemOf(w).quantity
        put == [stock EXCEPT ![l] = Proposed(worker[w].current, quantity)]
    IN  /\ worker[w].stage = "update" /\ AtItem(w)
        /\ \/ /\ stock' = put
              /\ Conclude(w, TRUE)
              /\ IF quantity > worker[w].current THEN Obscure(l) ELSE Explain(l, quantity)
           \/ /\ Conclude(w, FALSE)
              /\ UNCHANGED <<stock, applied>>
           \/ /\ stock' \in {stock, put}
              /\ Conclude(w, FALSE)
              /\ Obscure(l)
        /\ UNCHANGED <<market, notices, serviceVars, restarts,
                       deductions, forgotten, overlapped, paidSeen>>

\* Wrong on purpose: the results are kept only when something was applied.
KeepSuccess(w) ==
    /\ worker[w].stage = "keep"
    /\ impacts' = [impacts EXCEPT ![worker[w].order] =
                     IF worker[w].impacted THEN TRUE ELSE @]
    /\ worker' = [worker EXCEPT ![w] = Done(w)]
    /\ UNCHANGED <<channelVars, saved, processed, restarts, historyVars>>

\* The results are kept for the order, whatever they are.
KeepResults(w) ==
    /\ worker[w].stage = "keep"
    /\ impacts' = [impacts EXCEPT ![worker[w].order] = worker[w].impacted]
    /\ worker' = [worker EXCEPT ![w] = Done(w)]
    /\ UNCHANGED <<channelVars, saved, processed, restarts, historyVars>>

-----------------------------------------------------------------------------
(* reconcile_order: the channel's answer, when there is one and it differs, *)
(* replaces the local order.  Nothing is deducted.                          *)

QueryForReconcile(w, o) ==
    /\ worker[w] = Idle
    /\ saved[o] \notin {NoOrder, market[o]}
    /\ worker' = [worker EXCEPT ![w] = [@ EXCEPT !.stage = "reconcile", !.order = o,
                                                 !.snap = market[o]]]
    /\ UNCHANGED <<channelVars, serviceVars, restarts, historyVars>>

SaveReconciled(w) ==
    /\ worker[w].stage = "reconcile"
    /\ saved' = [saved EXCEPT ![worker[w].order] = worker[w].snap]
    /\ worker' = [worker EXCEPT ![w] = Idle]
    /\ UNCHANGED <<channelVars, processed, impacts, restarts, historyVars>>

\* The service knows that the order was deducted, or is deducting it.
Begun(o) == impacts[o] # NoImpact \/ \E w \in Workers : Deducting(w, o)

\* The process ends and starts again, with an empty repository: the next poll
\* finds the order paid, and without an entry.
RestartService ==
    /\ restarts < MaxRestarts
    /\ restarts' = restarts + 1
    /\ saved' = [o \in Orders |-> NoOrder]
    /\ processed' = {}
    /\ impacts' = [o \in Orders |-> NoImpact]
    /\ worker' = [w \in Workers |-> Idle]
    /\ forgotten' = [o \in Orders |-> IF Begun(o) THEN forgotten[o] + 1
                                                  ELSE forgotten[o]]
    /\ paidSeen' = {}
    /\ UNCHANGED <<channelVars, applied, deductions, overlapped>>

-----------------------------------------------------------------------------
\* What a thread does once it has begun.
WorkerStep(w) ==
    \/ \E o \in Orders : HandlePolled(w, o)
    \/ FetchOrder(w) \/ SaveOrder(w) \/ CheckImpacts(w) \/ ReadStock(w)
    \/ UpdateStock(w) \/ KeepResults(w) \/ SaveReconciled(w)

OrderNext ==
    \/ \E o \in Orders : OrderMoves(o)
    \/ \E w \in Receivers : ReceiveNotice(w)
    \/ \E w \in Pollers : Poll(w) \/ \E o \in Orders : QueryForReconcile(w, o)
    \/ \E w \in Workers : WorkerStep(w)
    \/ RestartService

OrderSpec == OrderInit /\ [][OrderNext]_orderVars

-----------------------------------------------------------------------------
\* What is left of "exactly-once guaranteed": the stock of an order is deducted
\* again only after a restart that forgot that it was, once for each of them, or
\* when two threads were deducting it at once, because neither had kept its
\* results when the other looked.
DeductedAgainIsExplained ==
    \A o \in Orders \ overlapped : deductions[o] <= forgotten[o] + 1

\* Exactly once from below: an order handled as paid has its results kept as
\* soon as nobody is working on it, so a duplicate that is ignored and a second
\* thread that turns back both leave it to somebody who finishes.
PaidHasImpact ==
    \A o \in paidSeen :
        \/ impacts[o] # NoImpact
        \/ \E w \in Workers :
            worker[w].order = o
            /\ worker[w].stage \in {"check", "read", "update", "keep"}

\* The channel's stock is the initial one less what the results say was applied,
\* but for listings with a failed query, an unknown result, a quantity beyond
\* the stock or two threads between reading and setting it.
StockIsExplained ==
    \A l \in Listings :
        applied[l] # Unexplained => stock[l] + applied[l] = InitialStock[l]
=============================================================================
