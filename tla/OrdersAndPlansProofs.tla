------------------------ MODULE OrdersAndPlansProofs -------------------------
(***************************************************************************)
(* Proofs about two components that share no state.  Order processing, for *)
(* any threads, orders, listings, items and stock.  Multi-step plans and   *)
(* the sub-missions that carry them out, for any plan and repairs, any     *)
(* number of threads, calls and faults.                                    *)
(***************************************************************************)
EXTENDS OrderProcessing, SubMissions, SumLemmas, SequenceTheorems

-----------------------------------------------------------------------------
(* Order processing                                                        *)

\* The stages before an order is looked at, and after it was: they touch no stock.
QuietStages == {"idle", "fetch", "save", "reconcile"}

\* A thread that has begun has an order.
BusyHaveOrders ==
    \A w \in Workers : worker[w].stage # "idle" => worker[w].order \in Orders

\* Who began to deduct an order is still at it or has kept the results, unless a
\* restart has forgotten it.
DeductionsLast ==
    \A o \in Orders \ overlapped : deductions[o] > forgotten[o] => Begun(o)

\* A thread that is about to set an explained listing.
Setting(w, l) ==
    /\ worker[w].stage = "update" /\ AtItem(w) /\ ItemOf(w).listing = l
    /\ applied[l] # Unexplained

\* It is alone, and what it read still holds.
SettersAgree ==
    \A w \in Workers, l \in Listings : Setting(w, l) =>
        /\ worker[w].current = stock[l]
        /\ \A v \in Workers : Setting(v, l) => v = w

OrderInv ==
    /\ OrderTypeOK
    /\ BusyHaveOrders
    /\ DeductionsLast
    /\ DeductedAgainIsExplained
    /\ PaidHasImpact
    /\ SettersAgree
    /\ StockIsExplained

-----------------------------------------------------------------------------
LEMMA IdleIsThread == Idle \in Threads /\ Idle.stage = "idle"
BY OrderAssumption DEF Idle, Threads, Stages, NothingPolled

LEMMA DoneIsThread ==
    ASSUME OrderTypeOK, NEW w \in Workers
    PROVE  Done(w) \in Threads /\ Done(w).stage = "idle"
BY OrderAssumption DEF Done, Idle, Threads, Stages, NothingPolled, OrderTypeOK

\* The items of an order are line items.
LEMMA ItemIsLine ==
    ASSUME OrderTypeOK, NEW w \in Workers, worker[w].order \in Orders, AtItem(w)
    PROVE  /\ ItemOf(w).listing \in Listings
           /\ ItemOf(w).quantity \in Nat
<1>1. Items[worker[w].order] \in Seq(LineItems)
  BY OrderAssumption
<1>2. worker[w].item \in Nat
  BY DEF OrderTypeOK, Threads
<1>3. worker[w].item + 1 \in 1 .. Len(Items[worker[w].order])
  BY <1>1, <1>2 DEF AtItem
<1>4. ItemOf(w) \in LineItems
  BY <1>1, <1>3 DEF ItemOf
<1> QED
  BY <1>4 DEF LineItems

LEMMA ProposedIsNat ==
    ASSUME NEW current \in Nat, NEW quantity \in Nat
    PROVE  Proposed(current, quantity) \in Nat
BY DEF Proposed

LEMMA OrderInitially == OrderInit => OrderInv
<1> SUFFICES ASSUME OrderInit PROVE OrderInv
  OBVIOUS
<1>1. OrderTypeOK
  BY OrderAssumption, IdleIsThread DEF OrderInit, OrderTypeOK, Statuses
<1>2. BusyHaveOrders /\ DeductionsLast /\ DeductedAgainIsExplained /\ PaidHasImpact
  BY DEF OrderInit, BusyHaveOrders, DeductionsLast, DeductedAgainIsExplained,
         PaidHasImpact, Idle
<1>3. SettersAgree
  BY DEF OrderInit, SettersAgree, Setting, Idle
<1>4. StockIsExplained
  BY OrderAssumption DEF OrderInit, StockIsExplained
<1> QED
  BY <1>1, <1>2, <1>3, <1>4 DEF OrderInv

\* A thread that goes from one quiet stage to another.
LEMMA QuietStep ==
    ASSUME OrderInv, NEW w \in Workers, NEW r \in Threads,
           worker[w].stage \in QuietStages, r.stage \in QuietStages,
           r.stage # "idle" => r.order \in Orders,
           worker' = [worker EXCEPT ![w] = r],
           saved' \in [Orders -> Statuses \cup {NoOrder}], processed' \subseteq Keys,
           UNCHANGED <<channelVars, impacts, restarts, historyVars>>
    PROVE  OrderInv'
<1> USE DEF OrderInv, channelVars, historyVars, QuietStages
<1>1. OrderTypeOK'
  BY DEF OrderTypeOK
<1>2. \A v \in Workers : v # w => worker'[v] = worker[v]
  BY DEF OrderTypeOK
<1>3. worker'[w] = r
  BY DEF OrderTypeOK
<1>4. BusyHaveOrders'
  BY <1>2, <1>3 DEF BusyHaveOrders
<1>5. \A v \in Workers, o \in Orders : Deducting(v, o)' <=> Deducting(v, o)
  BY <1>2, <1>3 DEF Deducting
<1>6. DeductionsLast' /\ DeductedAgainIsExplained'
  BY <1>5 DEF DeductionsLast, Begun, DeductedAgainIsExplained
<1>7. PaidHasImpact'
  BY <1>2, <1>3 DEF PaidHasImpact
<1>8. \A v \in Workers, l \in Listings : Setting(v, l)' <=> Setting(v, l)
  BY <1>2, <1>3 DEF Setting, AtItem, ItemOf
<1>9. \A v \in Workers, l \in Listings : Setting(v, l)' => worker'[v].current = worker[v].current
  BY <1>2, <1>3 DEF Setting
<1>10. SettersAgree' /\ StockIsExplained'
  BY <1>8, <1>9 DEF SettersAgree, StockIsExplained
<1> QED
  BY <1>1, <1>4, <1>6, <1>7, <1>10

LEMMA RecordKeeps ==
    ASSUME OrderInv, NEW w \in Workers, NEW key \in Keys, NEW next \in Threads,
           NEW polled \in [Orders -> Statuses \cup {NoOrder}],
           worker[w].stage = "idle", next.stage \in QuietStages, next.order \in Orders,
           RecordEvent(w, key, next, polled)
    PROVE  OrderInv'
<1> DEFINE r == IF key \in processed THEN [Idle EXCEPT !.polled = polled] ELSE next
<1>1. /\ processed' = processed \cup {key}
      /\ worker' = [worker EXCEPT ![w] = r]
      /\ UNCHANGED <<channelVars, saved, impacts, restarts, historyVars>>
  BY DEF RecordEvent
<1>2. r \in Threads /\ r.stage \in QuietStages /\ (r.stage # "idle" => r.order \in Orders)
  BY IdleIsThread DEF Idle, Threads, QuietStages
<1>3. processed' \subseteq Keys /\ saved' \in [Orders -> Statuses \cup {NoOrder}]
  BY <1>1 DEF OrderInv, OrderTypeOK
<1> HIDE DEF r
<1> QED
  BY <1>1, <1>2, <1>3, QuietStep DEF QuietStages

LEMMA QuietActionsKeep ==
    ASSUME OrderInv, NEW w \in Workers,
           \/ ReceiveNotice(w) \/ Poll(w) \/ \E o \in Orders : HandlePolled(w, o)
           \/ FetchOrder(w) \/ \E o \in Orders : QueryForReconcile(w, o)
           \/ SaveReconciled(w)
    PROVE  OrderInv'
<1> USE DEF QuietStages
<1>0. worker[w] \in Threads /\ NothingPolled \in [Orders -> Statuses \cup {NoOrder}]
      /\ market \in [Orders -> Statuses] /\ Done(w) \in Threads
      /\ saved \in [Orders -> Statuses \cup {NoOrder}] /\ processed \subseteq Keys
  BY DoneIsThread DEF OrderInv, OrderTypeOK, NothingPolled
<1>1. CASE ReceiveNotice(w)
  <2>1. PICK n \in notices, full \in BOOLEAN :
          RecordEvent(w, <<n.order, n.status>>,
                      [Idle EXCEPT !.stage = IF full THEN "save" ELSE "fetch",
                                   !.order = n.order,
                                   !.snap = IF full THEN n.status ELSE NoOrder],
                      NothingPolled)
    BY <1>1 DEF ReceiveNotice
  <2>2. n.order \in Orders /\ n.status \in Statuses
    BY DEF OrderInv, OrderTypeOK, Notices
  <2>3. <<n.order, n.status>> \in Keys
    BY <2>2 DEF Keys
  <2> DEFINE next == [Idle EXCEPT !.stage = IF full THEN "save" ELSE "fetch",
                                  !.order = n.order,
                                  !.snap = IF full THEN n.status ELSE NoOrder]
  <2>4. next \in Threads /\ next.stage \in QuietStages /\ next.order \in Orders
    BY <2>2, IdleIsThread DEF Idle, Threads, Stages
  <2>5. worker[w].stage = "idle"
    <3>1. worker[w] = Idle
      BY <1>1 DEF ReceiveNotice
    <3> QED
      BY <3>1, IdleIsThread
  <2> HIDE DEF next
  <2>6. RecordEvent(w, <<n.order, n.status>>, next, NothingPolled)
    BY <2>1 DEF next
  <2> QED
    BY <1>0, <2>3, <2>4, <2>5, <2>6, RecordKeeps
<1>2. CASE Poll(w)
  <2> DEFINE polled == [o \in Orders |-> IF <<o, "sync">> \notin processed
                                        THEN market[o] ELSE NoOrder]
             r == [worker[w] EXCEPT !.polled = polled]
  <2>0. worker[w] = Idle
    BY <1>2 DEF Poll
  <2>3. worker[w].stage = "idle"
    BY <2>0, IdleIsThread
  <2>1. r \in Threads /\ r.stage = "idle"
    <3>1. polled \in [Orders -> Statuses \cup {NoOrder}]
      BY <1>0
    <3> QED
      BY <1>0, <2>3, <3>1 DEF Threads
  <2>2. /\ worker' = [worker EXCEPT ![w] = r]
        /\ UNCHANGED <<channelVars, serviceVars, restarts, historyVars>>
    <3>1. polled = [o \in Orders |->
                      IF o \in {x \in Orders : <<x, "sync">> \notin processed}
                      THEN market[o] ELSE NoOrder]
      OBVIOUS
    <3> HIDE DEF polled
    <3> QED
      BY <1>2, <3>1 DEF Poll
  <2> HIDE DEF r
  <2> QED
    BY <1>0, <2>1, <2>2, <2>3, QuietStep DEF serviceVars
<1>3. ASSUME NEW o \in Orders, HandlePolled(w, o)
      PROVE  OrderInv'
  <2> DEFINE rest == [worker[w].polled EXCEPT ![o] = NoOrder]
             next == [Idle EXCEPT !.stage = "save", !.order = o,
                                  !.snap = worker[w].polled[o], !.polled = rest]
  <2>1. rest \in [Orders -> Statuses \cup {NoOrder}] /\ <<o, "sync">> \in Keys
    <3>1. worker[w].polled \in [Orders -> Statuses \cup {NoOrder}]
      BY <1>0 DEF Threads
    <3> QED
      BY <3>1 DEF Keys
  <2>2. next \in Threads /\ next.stage \in QuietStages /\ next.order \in Orders
    BY <1>0, <2>1, IdleIsThread DEF Idle, Threads, Stages
  <2>3. worker[w].stage = "idle" /\ RecordEvent(w, <<o, "sync">>, next, rest)
    BY <1>3 DEF HandlePolled
  <2> HIDE DEF next, rest
  <2> QED
    BY <2>1, <2>2, <2>3, RecordKeeps
<1>4. CASE FetchOrder(w)
  <2> DEFINE r == [worker[w] EXCEPT !.stage = "save", !.snap = market[worker[w].order]]
  <2>1. worker[w].stage = "fetch" /\ worker[w].order \in Orders
    BY <1>4 DEF FetchOrder, OrderInv, BusyHaveOrders
  <2>2. r \in Threads /\ r.stage = "save" /\ r.order \in Orders
    BY <1>0, <2>1 DEF Threads, Stages
  <2>3. worker' = [worker EXCEPT ![w] = r] \/ worker' = [worker EXCEPT ![w] = Done(w)]
    BY <1>4 DEF FetchOrder
  <2>4. UNCHANGED <<channelVars, serviceVars, restarts, historyVars>>
    BY <1>4 DEF FetchOrder
  <2> HIDE DEF r
  <2> QED
    BY <1>0, <2>1, <2>2, <2>3, <2>4, DoneIsThread, QuietStep DEF serviceVars, OrderInv
<1>5. ASSUME NEW o \in Orders, QueryForReconcile(w, o)
      PROVE  OrderInv'
  <2> DEFINE r == [worker[w] EXCEPT !.stage = "reconcile", !.order = o, !.snap = market[o]]
  <2>1. r \in Threads /\ r.stage = "reconcile" /\ r.order \in Orders
    BY <1>0 DEF Threads, Stages
  <2>2. worker[w].stage = "idle"
    <3>1. worker[w] = Idle
      BY <1>5 DEF QueryForReconcile
    <3> QED
      BY <3>1, IdleIsThread
  <2>3. worker' = [worker EXCEPT ![w] = r]
        /\ UNCHANGED <<channelVars, serviceVars, restarts, historyVars>>
    BY <1>5 DEF QueryForReconcile
  <2> HIDE DEF r
  <2> QED
    BY <1>0, <2>1, <2>2, <2>3, QuietStep DEF serviceVars
<1>6. CASE SaveReconciled(w)
  <2>1. /\ worker[w].stage = "reconcile" /\ worker' = [worker EXCEPT ![w] = Idle]
        /\ saved' = [saved EXCEPT ![worker[w].order] = worker[w].snap]
        /\ UNCHANGED <<channelVars, processed, impacts, restarts, historyVars>>
    BY <1>6 DEF SaveReconciled
  <2>2. saved' \in [Orders -> Statuses \cup {NoOrder}]
    <3>1. worker[w].snap \in Statuses \cup {NoOrder}
      BY <1>0 DEF Threads
    <3> QED
      BY <1>0, <2>1, <3>1
  <2> QED
    BY <1>0, <2>1, <2>2, IdleIsThread, QuietStep DEF Idle
<1> QED
  BY <1>1, <1>2, <1>3, <1>4, <1>5, <1>6

LEMMA SaveOrderKeeps ==
    ASSUME OrderInv, NEW w \in Workers, SaveOrder(w)
    PROVE  OrderInv'
<1> DEFINE o == worker[w].order
           checking == [worker[w] EXCEPT !.stage = "check"]
<1>0. /\ worker[w] \in Threads /\ worker[w].stage = "save" /\ o \in Orders
      /\ saved' = [saved EXCEPT ![o] = worker[w].snap]
      /\ UNCHANGED <<channelVars, processed, impacts, restarts, applied,
                     deductions, forgotten, overlapped>>
  BY DEF SaveOrder, OrderInv, OrderTypeOK, BusyHaveOrders
<1>1. saved' \in [Orders -> Statuses \cup {NoOrder}] /\ processed \subseteq Keys
  <2>1. worker[w].snap \in Statuses \cup {NoOrder}
    BY <1>0 DEF Threads
  <2> QED
    BY <1>0, <2>1 DEF OrderInv, OrderTypeOK
<1>2. CASE worker[w].snap # "paid"
  <2>1. worker' = [worker EXCEPT ![w] = Done(w)] /\ UNCHANGED paidSeen
    BY <1>2 DEF SaveOrder
  <2> QED
    BY <1>0, <1>1, <2>1, DoneIsThread, QuietStep DEF QuietStages, OrderInv, historyVars
<1>3. CASE worker[w].snap = "paid"
  <2>1. worker' = [worker EXCEPT ![w] = checking] /\ paidSeen' = paidSeen \cup {o}
    BY <1>3 DEF SaveOrder
  <2>2. checking \in Threads /\ checking.stage = "check" /\ checking.order = o
    BY <1>0 DEF Threads, Stages
  <2> HIDE DEF checking
  <2> USE DEF OrderInv, channelVars
  <2>3. OrderTypeOK'
    BY <1>0, <1>1, <2>1, <2>2 DEF OrderTypeOK
  <2>4. worker'[w] = checking /\ \A v \in Workers : v # w => worker'[v] = worker[v]
    BY <2>1 DEF OrderTypeOK
  <2>5. BusyHaveOrders'
    BY <1>0, <2>2, <2>4 DEF BusyHaveOrders
  <2>6. \A v \in Workers, x \in Orders : Deducting(v, x)' <=> Deducting(v, x)
    BY <1>0, <2>2, <2>4 DEF Deducting
  <2>7. DeductionsLast' /\ DeductedAgainIsExplained'
    BY <1>0, <2>6 DEF DeductionsLast, Begun, DeductedAgainIsExplained
  <2>8. PaidHasImpact'
    BY <1>0, <2>1, <2>2, <2>4 DEF PaidHasImpact
  <2>9. \A v \in Workers, l \in Listings : Setting(v, l)' =>
            Setting(v, l) /\ worker'[v].current = worker[v].current
    BY <1>0, <2>2, <2>4 DEF Setting, AtItem, ItemOf
  <2>10. SettersAgree' /\ StockIsExplained'
    BY <1>0, <2>9 DEF SettersAgree, StockIsExplained
  <2> QED
    BY <2>3, <2>5, <2>7, <2>8, <2>10
<1> QED
  BY <1>2, <1>3

LEMMA AfterItemStage ==
    ASSUME NEW o, NEW i
    PROVE  AfterItem(o, i) \in {"read", "keep"}
BY DEF AfterItem

LEMMA CheckKeeps ==
    ASSUME OrderInv, NEW w \in Workers, CheckImpacts(w)
    PROVE  OrderInv'
<1> DEFINE o == worker[w].order
           begun == [worker[w] EXCEPT !.stage = AfterItem(o, 0)]
<1> USE DEF OrderInv, channelVars, serviceVars
<1>0. /\ worker[w] \in Threads /\ worker[w].stage = "check" /\ o \in Orders
      /\ UNCHANGED <<channelVars, serviceVars, restarts, applied, forgotten, paidSeen>>
  BY DEF CheckImpacts, OrderTypeOK, BusyHaveOrders
<1>1. CASE impacts[o] # NoImpact
  <2>1. worker' = [worker EXCEPT ![w] = Done(w)] /\ UNCHANGED <<deductions, overlapped>>
    BY <1>1 DEF CheckImpacts
  <2>2. OrderTypeOK'
    BY <1>0, <2>1, DoneIsThread DEF OrderTypeOK
  <2>3. worker'[w] = Done(w) /\ \A v \in Workers : v # w => worker'[v] = worker[v]
    BY <2>1 DEF OrderTypeOK
  <2>4. Done(w).stage = "idle"
    BY DoneIsThread
  <2>5. BusyHaveOrders'
    BY <2>3, <2>4 DEF BusyHaveOrders
  <2>6. \A v \in Workers, x \in Orders : Deducting(v, x) => Deducting(v, x)'
    BY <1>0, <2>3 DEF Deducting
  <2>7. DeductionsLast' /\ DeductedAgainIsExplained'
    BY <1>0, <2>1, <2>6 DEF DeductionsLast, Begun, DeductedAgainIsExplained
  <2>8. PaidHasImpact'
    BY <1>0, <1>1, <2>3 DEF PaidHasImpact
  <2>9. \A v \in Workers, l \in Listings : Setting(v, l)' =>
            Setting(v, l) /\ worker'[v].current = worker[v].current
    BY <1>0, <2>3, <2>4 DEF Setting, AtItem, ItemOf
  <2>10. SettersAgree' /\ StockIsExplained'
    BY <1>0, <2>9 DEF SettersAgree, StockIsExplained
  <2> QED
    BY <2>2, <2>5, <2>7, <2>8, <2>10
<1>2. CASE impacts[o] = NoImpact
  <2>1. /\ worker' = [worker EXCEPT ![w] = begun]
        /\ deductions' = [deductions EXCEPT ![o] = @ + 1]
        /\ overlapped' = IF \E v \in Workers : Deducting(v, o)
                         THEN overlapped \cup {o} ELSE overlapped
    BY <1>2 DEF CheckImpacts
  <2>2. begun \in Threads /\ begun.stage \in {"read", "keep"} /\ begun.order = o
    BY <1>0, AfterItemStage DEF Threads, Stages
  <2> HIDE DEF begun
  <2>3. OrderTypeOK'
    BY <1>0, <2>1, <2>2 DEF OrderTypeOK
  <2>4. worker'[w] = begun /\ \A v \in Workers : v # w => worker'[v] = worker[v]
    BY <2>1 DEF OrderTypeOK
  <2>5. BusyHaveOrders'
    BY <1>0, <2>2, <2>4 DEF BusyHaveOrders
  <2>6. \A v \in Workers, x \in Orders : Deducting(v, x) => Deducting(v, x)'
    BY <1>0, <2>4 DEF Deducting
  <2>7. worker'[w].order = o /\ worker'[w].stage \in {"read", "update", "keep"}
    BY <2>2, <2>4
  <2>8. DeductionsLast'
    <3> SUFFICES ASSUME NEW x \in Orders \ overlapped', deductions'[x] > forgotten'[x]
                 PROVE  impacts'[x] # NoImpact \/ \E v \in Workers : Deducting(v, x)'
      BY DEF DeductionsLast, Begun
    <3>1. CASE x = o
      BY <2>7, <3>1 DEF Deducting
    <3>2. CASE x # o
      <4>1. deductions[x] > forgotten[x] /\ x \notin overlapped
        BY <1>0, <2>1, <3>2 DEF OrderTypeOK
      <4> QED
        BY <1>0, <2>6, <4>1 DEF DeductionsLast, Begun
    <3> QED
      BY <3>1, <3>2
  <2>9. DeductedAgainIsExplained'
    <3> SUFFICES ASSUME NEW x \in Orders \ overlapped'
                 PROVE  deductions'[x] <= forgotten'[x] + 1
      BY DEF DeductedAgainIsExplained
    <3>1. CASE x = o
      <4>1. ~\E v \in Workers : Deducting(v, o)
        BY <2>1, <3>1
      <4>2. /\ deductions[o] \in Nat /\ forgotten[o] \in Nat
            /\ ~(deductions[o] > forgotten[o])
        BY <1>0, <1>2, <2>1, <3>1, <4>1 DEF DeductionsLast, Begun, OrderTypeOK
      <4> QED
        BY <1>0, <2>1, <3>1, <4>2 DEF OrderTypeOK
    <3>2. CASE x # o
      <4>1. deductions'[x] = deductions[x] /\ forgotten'[x] = forgotten[x] /\ x \notin overlapped
        BY <1>0, <2>1, <3>2 DEF OrderTypeOK
      <4> QED
        BY <1>0, <4>1 DEF DeductedAgainIsExplained
    <3> QED
      BY <3>1, <3>2
  <2>10. PaidHasImpact'
    BY <1>0, <2>2, <2>4 DEF PaidHasImpact
  <2>11. \A v \in Workers, l \in Listings : Setting(v, l)' =>
            Setting(v, l) /\ worker'[v].current = worker[v].current
    BY <1>0, <2>2, <2>4 DEF Setting, AtItem, ItemOf
  <2>12. SettersAgree' /\ StockIsExplained'
    BY <1>0, <2>11 DEF SettersAgree, StockIsExplained
  <2> QED
    BY <2>3, <2>5, <2>8, <2>9, <2>10, <2>12
<1> QED
  BY <1>1, <1>2

\* A thread that goes on with the items of its order.
LEMMA DeductingStep ==
    ASSUME OrderInv, NEW w \in Workers, NEW r \in Threads,
           worker[w].stage \in {"read", "update"}, r.stage \in {"read", "update", "keep"},
           r.order = worker[w].order, worker' = [worker EXCEPT ![w] = r],
           UNCHANGED <<market, notices, serviceVars, restarts,
                       deductions, forgotten, overlapped, paidSeen>>,
           stock' \in [Listings -> Nat], applied' \in [Listings -> Nat \cup {Unexplained}],
           SettersAgree', StockIsExplained'
    PROVE  OrderInv'
<1> USE DEF OrderInv, serviceVars
<1>1. OrderTypeOK'
  BY DEF OrderTypeOK
<1>2. worker'[w] = r /\ \A v \in Workers : v # w => worker'[v] = worker[v]
  BY DEF OrderTypeOK
<1>3. BusyHaveOrders'
  BY <1>2 DEF BusyHaveOrders
<1>4. \A v \in Workers, o \in Orders : Deducting(v, o) => Deducting(v, o)'
  BY <1>2 DEF Deducting
<1>5. DeductionsLast' /\ DeductedAgainIsExplained'
  BY <1>4 DEF DeductionsLast, Begun, DeductedAgainIsExplained
<1>6. PaidHasImpact'
  BY <1>2 DEF PaidHasImpact
<1> QED
  BY <1>1, <1>3, <1>5, <1>6

LEMMA ConcludeIsThread ==
    ASSUME OrderTypeOK, NEW w \in Workers, NEW success \in BOOLEAN, Conclude(w, success)
    PROVE  \E r \in Threads : /\ worker' = [worker EXCEPT ![w] = r]
                              /\ r.stage \in {"read", "keep"} /\ r.order = worker[w].order
<1> DEFINE r == [worker[w] EXCEPT !.stage = AfterItem(worker[w].order, worker[w].item + 1),
                                  !.item = @ + 1, !.current = 0,
                                  !.impacted = @ \/ success]
<1>1. worker[w] \in Threads
  BY DEF OrderTypeOK
<1>2. AfterItem(worker[w].order, worker[w].item + 1) \in {"read", "keep"}
  BY AfterItemStage
<1>3. worker[w].item + 1 \in Nat /\ (worker[w].impacted \/ success) \in BOOLEAN
  BY <1>1 DEF Threads
<1>4. r \in Threads /\ r.stage \in {"read", "keep"} /\ r.order = worker[w].order
  BY <1>1, <1>2, <1>3 DEF Threads, Stages
<1>5. worker' = [worker EXCEPT ![w] = r]
  BY DEF Conclude
<1> HIDE DEF r
<1> QED
  BY <1>4, <1>5

LEMMA ReadKeeps ==
    ASSUME OrderInv, NEW w \in Workers, ReadStock(w)
    PROVE  OrderInv'
<1> USE DEF OrderInv
<1> DEFINE l == ItemOf(w).listing
<1>0. /\ worker[w] \in Threads /\ worker[w].stage = "read" /\ AtItem(w)
      /\ worker[w].order \in Orders /\ l \in Listings
      /\ UNCHANGED <<channelVars, serviceVars, restarts,
                     deductions, forgotten, overlapped, paidSeen>>
  BY ItemIsLine DEF ReadStock, OrderTypeOK, BusyHaveOrders
<1>1. CASE l \in Denied
  <2>1. Conclude(w, FALSE) /\ UNCHANGED applied
    BY <1>1 DEF ReadStock
  <2>2. PICK r \in Threads : /\ worker' = [worker EXCEPT ![w] = r]
                             /\ r.stage \in {"read", "keep"} /\ r.order = worker[w].order
    BY <2>1, ConcludeIsThread
  <2>3. worker'[w] = r /\ \A v \in Workers : v # w => worker'[v] = worker[v]
    BY <2>2 DEF OrderTypeOK
  <2>4. \A v \in Workers, k \in Listings : Setting(v, k)' =>
            Setting(v, k) /\ worker'[v].current = worker[v].current
    BY <2>1, <2>2, <2>3 DEF Setting, AtItem, ItemOf
  <2>5. SettersAgree' /\ StockIsExplained'
    BY <1>0, <2>1, <2>4 DEF SettersAgree, StockIsExplained, channelVars
  <2>6. stock' \in [Listings -> Nat] /\ applied' \in [Listings -> Nat \cup {Unexplained}]
    BY <1>0, <2>1 DEF OrderTypeOK, channelVars
  <2> QED
    BY <1>0, <2>2, <2>5, <2>6, DeductingStep DEF channelVars
<1>2. CASE l \notin Denied
  <2>1. PICK ok \in BOOLEAN :
          /\ worker' = [worker EXCEPT ![w] = [@ EXCEPT !.stage = "update",
                                                       !.current = IF ok THEN stock[l] ELSE 0]]
          /\ IF ~ok \/ Racing(w, l) THEN Obscure(l) ELSE UNCHANGED applied
    BY <1>2 DEF ReadStock
  <2> DEFINE r == [worker[w] EXCEPT !.stage = "update",
                                    !.current = IF ok THEN stock[l] ELSE 0]
  <2>2. /\ r \in Threads /\ r.stage = "update" /\ r.order = worker[w].order
        /\ r.current = (IF ok THEN stock[l] ELSE 0) /\ r.item = worker[w].item
    BY <1>0 DEF Threads, Stages, OrderTypeOK
  <2>3. worker' = [worker EXCEPT ![w] = r]
    BY <2>1
  <2> HIDE DEF r
  <2>4. worker'[w] = r /\ \A v \in Workers : v # w => worker'[v] = worker[v]
    BY <2>3 DEF OrderTypeOK
  <2>5. \A v \in Workers, k \in Listings : v # w =>
            (Setting(v, k)' => Setting(v, k) /\ worker'[v].current = worker[v].current)
    BY <2>1, <2>4 DEF Setting, AtItem, ItemOf, Obscure, OrderTypeOK
  <2>6. \A k \in Listings : Setting(w, k)' =>
            k = l /\ ok /\ ~Racing(w, l) /\ applied[l] # Unexplained
    BY <1>0, <2>1, <2>2, <2>4 DEF Setting, AtItem, ItemOf, Obscure, OrderTypeOK
  <2>7. SettersAgree'
    <3> SUFFICES ASSUME NEW v \in Workers, NEW k \in Listings, Setting(v, k)'
                 PROVE  /\ worker'[v].current = stock'[k]
                        /\ \A u \in Workers : Setting(u, k)' => u = v
      BY DEF SettersAgree
    <3>1. CASE v = w
      <4>1. k = l /\ ok /\ ~Racing(w, l)
        BY <2>6, <3>1
      <4>2. \A u \in Workers : Setting(u, k)' => u = w
        BY <2>5, <4>1 DEF Racing, Setting
      <4>3. worker'[w].current = stock'[k]
        BY <1>0, <2>2, <2>4, <4>1 DEF channelVars
      <4> QED
        BY <3>1, <4>2, <4>3
    <3>2. CASE v # w
      <4>1. Setting(v, k) /\ worker'[v].current = worker[v].current
        BY <2>5, <3>2
      <4>2. ~Setting(w, k)'
        BY <2>6, <3>2, <4>1 DEF Racing, Setting
      <4> QED
        BY <1>0, <2>5, <4>1, <4>2 DEF SettersAgree, channelVars
    <3> QED
      BY <3>1, <3>2
  <2>8. StockIsExplained'
    BY <1>0, <2>1 DEF StockIsExplained, Obscure, channelVars, OrderTypeOK
  <2>9. stock' \in [Listings -> Nat] /\ applied' \in [Listings -> Nat \cup {Unexplained}]
    BY <1>0, <2>1 DEF OrderTypeOK, channelVars, Obscure
  <2> QED
    BY <1>0, <2>2, <2>3, <2>7, <2>8, <2>9, DeductingStep DEF channelVars
<1> QED
  BY <1>1, <1>2

LEMMA UpdateKeeps ==
    ASSUME OrderInv, NEW w \in Workers, UpdateStock(w)
    PROVE  OrderInv'
<1> USE DEF OrderInv
<1> DEFINE l == ItemOf(w).listing
           quantity == ItemOf(w).quantity
           put == [stock EXCEPT ![l] = Proposed(worker[w].current, quantity)]
<1>0. /\ worker[w] \in Threads /\ worker[w].stage = "update" /\ AtItem(w)
      /\ worker[w].order \in Orders /\ l \in Listings /\ quantity \in Nat
      /\ UNCHANGED <<market, notices, serviceVars, restarts,
                     deductions, forgotten, overlapped, paidSeen>>
  BY ItemIsLine DEF UpdateStock, OrderTypeOK, BusyHaveOrders
<1>1. \E success \in BOOLEAN : Conclude(w, success)
  BY DEF UpdateStock
<1>2. PICK r \in Threads : /\ worker' = [worker EXCEPT ![w] = r]
                           /\ r.stage \in {"read", "keep"} /\ r.order = worker[w].order
  BY <1>1, ConcludeIsThread
<1>3. worker'[w] = r /\ \A v \in Workers : v # w => worker'[v] = worker[v]
  BY <1>2 DEF OrderTypeOK
<1>4. worker[w].current \in Nat
  BY <1>0 DEF Threads
<1>5. put \in [Listings -> Nat]
  BY <1>0, <1>4, ProposedIsNat DEF OrderTypeOK
<1>6. \A v \in Workers, k \in Listings : Setting(v, k)' =>
          /\ v # w /\ worker'[v] = worker[v]
          /\ applied[k] # Unexplained => Setting(v, k)
  BY <1>2, <1>3 DEF Setting, AtItem, ItemOf
\* Whoever else is about to set this listing makes it unexplained already.
<1>7. ASSUME NEW v \in Workers, NEW k \in Listings, Setting(v, k)', applied[k] # Unexplained
      PROVE  k # l
  <2>1. Setting(v, k) /\ v # w
    BY <1>6, <1>7
  <2>2. k = l => Setting(w, k)
    BY <1>0, <1>7 DEF Setting
  <2> QED
    BY <2>1, <2>2 DEF SettersAgree
<1>8. /\ stock' \in [Listings -> Nat]
      /\ applied' \in [Listings -> Nat \cup {Unexplained}]
      /\ \A k \in Listings : k # l => stock'[k] = stock[k] /\ applied'[k] = applied[k]
      /\ applied[l] = Unexplained => applied'[l] = Unexplained
      /\ applied'[l] # Unexplained => stock'[l] + applied'[l] = InitialStock[l]
  <2>1. CASE stock' = put /\ (IF quantity > worker[w].current THEN Obscure(l)
                             ELSE Explain(l, quantity))
    <3>1. CASE quantity > worker[w].current
      BY <1>0, <1>5, <2>1, <3>1 DEF Obscure, OrderTypeOK
    <3>2. CASE ~(quantity > worker[w].current)
      <4>1. applied' = [applied EXCEPT ![l] = IF @ = Unexplained THEN @ ELSE @ + quantity]
        BY <2>1, <3>2 DEF Explain
      <4>2. CASE applied[l] = Unexplained
        BY <1>0, <1>5, <2>1, <4>1, <4>2 DEF OrderTypeOK
      <4>3. CASE applied[l] # Unexplained
        <5>1. Setting(w, l)
          BY <1>0, <4>3 DEF Setting
        <5>2. worker[w].current = stock[l]
          BY <1>0, <5>1 DEF SettersAgree
        <5>3. applied[l] \in Nat /\ stock[l] \in Nat /\ stock[l] + applied[l] = InitialStock[l]
          BY <1>0, <4>3 DEF OrderTypeOK, StockIsExplained
        <5>4. applied'[l] = applied[l] + quantity /\ stock'[l] = stock[l] - quantity
          BY <1>0, <2>1, <3>2, <4>1, <4>3, <5>2 DEF OrderTypeOK, Proposed
        <5>5. stock'[l] + applied'[l] = InitialStock[l]
          BY <1>0, <3>2, <5>2, <5>3, <5>4
        <5>6. applied' \in [Listings -> Nat \cup {Unexplained}]
          BY <1>0, <4>1, <5>3 DEF OrderTypeOK
        <5> QED
          BY <1>0, <1>5, <2>1, <4>1, <4>3, <5>5, <5>6 DEF OrderTypeOK
      <4> QED
        BY <4>2, <4>3
    <3> QED
      BY <3>1, <3>2
  <2>2. CASE UNCHANGED <<stock, applied>>
    BY <1>0, <2>2 DEF OrderTypeOK, StockIsExplained
  <2>3. CASE stock' \in {stock, put} /\ Obscure(l)
    BY <1>0, <1>5, <2>3 DEF Obscure, OrderTypeOK
  <2> QED
    BY <2>1, <2>2, <2>3 DEF UpdateStock
<1>9. StockIsExplained'
  BY <1>8 DEF StockIsExplained
<1>10. SettersAgree'
  <2> SUFFICES ASSUME NEW v \in Workers, NEW k \in Listings, Setting(v, k)'
               PROVE  /\ worker'[v].current = stock'[k]
                      /\ \A u \in Workers : Setting(u, k)' => u = v
    BY DEF SettersAgree
  <2>1. applied'[k] # Unexplained
    BY DEF Setting
  <2>2. k # l
    BY <1>7, <1>8, <2>1
  <2>3. applied[k] # Unexplained /\ stock'[k] = stock[k]
    BY <1>8, <2>1, <2>2
  <2>4. /\ Setting(v, k)
        /\ worker'[v] = worker[v]
        /\ \A u \in Workers : Setting(u, k)' => Setting(u, k)
    BY <1>6, <2>3
  <2> QED
    BY <2>3, <2>4 DEF SettersAgree
<1> QED
  BY <1>0, <1>2, <1>8, <1>9, <1>10, DeductingStep

LEMMA KeepKeeps ==
    ASSUME OrderInv, NEW w \in Workers, KeepResults(w)
    PROVE  OrderInv'
<1> USE DEF OrderInv
<1>0. /\ worker[w] \in Threads /\ worker[w].stage = "keep" /\ worker[w].order \in Orders
      /\ impacts' = [impacts EXCEPT ![worker[w].order] = worker[w].impacted]
      /\ worker' = [worker EXCEPT ![w] = Done(w)]
      /\ UNCHANGED <<channelVars, saved, processed, restarts, historyVars>>
  BY DEF KeepResults, OrderTypeOK, BusyHaveOrders
<1>1. worker[w].impacted \in BOOLEAN
  BY <1>0 DEF Threads
<1>2. Done(w) \in Threads /\ Done(w).stage = "idle"
  BY DoneIsThread
<1>3. OrderTypeOK'
  BY <1>0, <1>1, <1>2 DEF OrderTypeOK, channelVars, historyVars
<1>4. worker'[w] = Done(w) /\ \A v \in Workers : v # w => worker'[v] = worker[v]
  BY <1>0 DEF OrderTypeOK
<1>5. BusyHaveOrders'
  BY <1>2, <1>4 DEF BusyHaveOrders
<1>6. /\ \A o \in Orders : impacts[o] # NoImpact => impacts'[o] # NoImpact
      /\ impacts'[worker[w].order] # NoImpact
  BY <1>0, <1>1, OrderAssumption DEF OrderTypeOK
<1>7. DeductionsLast'
  <2> SUFFICES ASSUME NEW o \in Orders \ overlapped, deductions[o] > forgotten[o]
               PROVE  impacts'[o] # NoImpact \/ \E v \in Workers : Deducting(v, o)'
    BY <1>0 DEF DeductionsLast, Begun, historyVars
  <2>1. CASE o = worker[w].order
    BY <1>6, <2>1
  <2>2. CASE o # worker[w].order
    BY <1>4, <1>6, <2>2 DEF DeductionsLast, Begun, Deducting
  <2> QED
    BY <2>1, <2>2
<1>8. DeductedAgainIsExplained'
  BY <1>0 DEF DeductedAgainIsExplained, historyVars
<1>9. PaidHasImpact'
  <2> SUFFICES ASSUME NEW o \in paidSeen
               PROVE  impacts'[o] # NoImpact \/ \E v \in Workers :
                        /\ worker'[v].order = o
                        /\ worker'[v].stage \in {"check", "read", "update", "keep"}
    BY <1>0 DEF PaidHasImpact, historyVars
  <2>1. o \in Orders
    BY DEF OrderTypeOK
  <2>2. CASE o = worker[w].order
    BY <1>6, <2>2
  <2>3. CASE o # worker[w].order
    BY <1>4, <1>6, <2>1, <2>3 DEF PaidHasImpact
  <2> QED
    BY <2>2, <2>3
<1>10. \A v \in Workers, l \in Listings : Setting(v, l)' =>
          Setting(v, l) /\ worker'[v].current = worker[v].current
  BY <1>0, <1>2, <1>4 DEF Setting, AtItem, ItemOf, historyVars
<1>11. SettersAgree' /\ StockIsExplained'
  BY <1>0, <1>10 DEF SettersAgree, StockIsExplained, channelVars, historyVars
<1> QED
  BY <1>3, <1>5, <1>7, <1>8, <1>9, <1>11

LEMMA MarketKeeps ==
    ASSUME OrderInv, NEW o \in Orders, OrderMoves(o)
    PROVE  OrderInv'
<1> USE DEF OrderInv
<1>1. PICK s \in Successors[market[o]] :
        /\ market' = [market EXCEPT ![o] = s]
        /\ notices' = notices \cup {[order |-> o, status |-> s]}
  BY DEF OrderMoves
<1>2. UNCHANGED <<stock, serviceVars, worker, restarts, historyVars>>
  BY DEF OrderMoves
<1>3. market[o] \in Statuses
  BY DEF OrderTypeOK
<1>4. s \in Statuses
  BY <1>1, <1>3 DEF Successors, Statuses
<1>5. OrderTypeOK'
  BY <1>1, <1>2, <1>4 DEF OrderTypeOK, Notices, serviceVars, historyVars
<1>6. BusyHaveOrders' /\ DeductionsLast' /\ DeductedAgainIsExplained' /\ PaidHasImpact'
  BY <1>2 DEF BusyHaveOrders, DeductionsLast, Begun, Deducting, DeductedAgainIsExplained,
              PaidHasImpact, serviceVars, historyVars
<1>7. SettersAgree' /\ StockIsExplained'
  BY <1>2 DEF SettersAgree, Setting, AtItem, ItemOf, StockIsExplained, historyVars
<1> QED
  BY <1>5, <1>6, <1>7

LEMMA RestartKeeps ==
    ASSUME OrderInv, RestartService
    PROVE  OrderInv'
<1> USE DEF OrderInv
<1>1. /\ restarts' = restarts + 1
      /\ saved' = [o \in Orders |-> NoOrder] /\ processed' = {}
      /\ impacts' = [o \in Orders |-> NoImpact] /\ worker' = [w \in Workers |-> Idle]
      /\ forgotten' = [o \in Orders |-> IF Begun(o) THEN forgotten[o] + 1 ELSE forgotten[o]]
      /\ paidSeen' = {}
      /\ UNCHANGED <<channelVars, applied, deductions, overlapped>>
  BY DEF RestartService
<1>2. OrderTypeOK'
  BY <1>1, IdleIsThread DEF OrderTypeOK, channelVars
<1>6. ASSUME NEW o \in Orders \ overlapped' PROVE deductions'[o] <= forgotten'[o]
  <2>1. /\ deductions[o] <= forgotten[o] + 1 /\ deductions'[o] = deductions[o]
        /\ deductions[o] \in Nat /\ forgotten[o] \in Nat
    BY <1>1 DEF DeductedAgainIsExplained, OrderTypeOK
  <2>2. ~Begun(o) => ~(deductions[o] > forgotten[o])
    BY <1>1 DEF DeductionsLast
  <2> QED
    BY <1>1, <2>1, <2>2
<1>3. BusyHaveOrders' /\ DeductionsLast' /\ DeductedAgainIsExplained' /\ PaidHasImpact'
  <2>1. ASSUME NEW o \in Orders \ overlapped'
        PROVE  ~(deductions'[o] > forgotten'[o]) /\ deductions'[o] <= forgotten'[o] + 1
    BY <1>2, <1>6 DEF OrderTypeOK
  <2>2. DeductionsLast' /\ DeductedAgainIsExplained'
    BY <2>1 DEF DeductionsLast, DeductedAgainIsExplained
  <2> QED
    BY <1>1, <2>2, IdleIsThread DEF BusyHaveOrders, PaidHasImpact
<1>4. \A w \in Workers, l \in Listings : ~Setting(w, l)'
  BY <1>1, IdleIsThread DEF Setting
<1>5. SettersAgree' /\ StockIsExplained'
  BY <1>1, <1>4 DEF SettersAgree, StockIsExplained, channelVars
<1> QED
  BY <1>2, <1>3, <1>5

LEMMA OrderInvariant == OrderSpec => []OrderInv
<1>1. OrderInit => OrderInv
  BY OrderInitially
<1>2. OrderInv /\ [OrderNext]_orderVars => OrderInv'
  <2> SUFFICES ASSUME OrderInv, [OrderNext]_orderVars PROVE OrderInv'
    OBVIOUS
  <2>1. ASSUME NEW w \in Workers,
               \/ ReceiveNotice(w) \/ Poll(w) \/ \E o \in Orders : HandlePolled(w, o)
               \/ FetchOrder(w) \/ \E o \in Orders : QueryForReconcile(w, o)
               \/ SaveReconciled(w)
        PROVE  OrderInv'
    BY <2>1, QuietActionsKeep
  <2>2. ASSUME NEW w \in Workers,
               SaveOrder(w) \/ CheckImpacts(w) \/ ReadStock(w) \/ UpdateStock(w) \/ KeepResults(w)
        PROVE  OrderInv'
    BY <2>2, SaveOrderKeeps, CheckKeeps, ReadKeeps, UpdateKeeps, KeepKeeps
  <2>3. ASSUME NEW o \in Orders, OrderMoves(o) PROVE OrderInv'
    BY <2>3, MarketKeeps
  <2>4. CASE RestartService
    BY <2>4, RestartKeeps
  <2>5. CASE UNCHANGED orderVars
    <3> USE <2>5 DEF orderVars, channelVars, serviceVars, historyVars, OrderInv
    <3>1. OrderTypeOK' /\ BusyHaveOrders' /\ DeductionsLast'
      BY DEF OrderTypeOK, BusyHaveOrders, DeductionsLast, Begun, Deducting
    <3>2. DeductedAgainIsExplained' /\ PaidHasImpact'
      BY DEF DeductedAgainIsExplained, PaidHasImpact
    <3>3. SettersAgree' /\ StockIsExplained'
      BY DEF SettersAgree, Setting, AtItem, ItemOf, StockIsExplained
    <3> QED
      BY <3>1, <3>2, <3>3
  <2> QED
    BY <2>1, <2>2, <2>3, <2>4, <2>5 DEF OrderNext, WorkerStep, Workers
<1> QED
  BY <1>1, <1>2, PTL DEF OrderSpec

\* Types: the channel, the repository, the service and its threads.
THEOREM OrderTypeCorrect == OrderSpec => []OrderTypeOK
<1>1. OrderInv => OrderTypeOK
  BY DEF OrderInv
<1> QED
  BY <1>1, OrderInvariant, PTL

\* An order is deducted again only after a restart that forgot it, once for each of
\* them, or by overlapping threads (_apply_inventory_deduction_if_needed).
THEOREM DeductedOnce == OrderSpec => []DeductedAgainIsExplained
<1>1. OrderInv => DeductedAgainIsExplained
  BY DEF OrderInv
<1> QED
  BY <1>1, OrderInvariant, PTL

\* An order handled as paid has its results kept, or somebody at it who will keep them
\* (process_order_event).
THEOREM PaidIsImpacted == OrderSpec => []PaidHasImpact
<1>1. OrderInv => PaidHasImpact
  BY DEF OrderInv
<1> QED
  BY <1>1, OrderInvariant, PTL

\* The stock of a listing that nothing obscured is the initial one less what was applied
\* (get_current_stock, update_inventory).
THEOREM StockExplained == OrderSpec => []StockIsExplained
<1>1. OrderInv => StockIsExplained
  BY DEF OrderInv
<1> QED
  BY <1>1, OrderInvariant, PTL

-----------------------------------------------------------------------------
(* Plans and sub-missions                                                  *)

-----------------------------------------------------------------------------
(* Plans without a circle                                                  *)

\* No steps of the plan all need one another.
NoCircle(p) ==
    \A U \in SUBSET InPlan(p) : U # {} => \E s \in U : Needs(p, s) \cap U = {}

Sound(p) == WellFormed(p) /\ NoCircle(p)

LEMMA InPlanTyped ==
    ASSUME NEW p, IsPlan(p)
    PROVE  /\ InPlan(p) \subseteq Steps /\ IsFiniteSet(InPlan(p))
           /\ Cardinality(InPlan(p)) \in Nat
           /\ \A s \in InPlan(p) : p.steps[s] \in StepRecords
           /\ p.version \in 1 .. MaxReplans + 1 /\ p.count \in 0 .. MaxReplans
           /\ p.count = p.version - 1
           /\ p.deps \subseteq Steps \X Steps /\ p.status \in PlanStatuses
<1>1. PICK S \in SUBSET Steps : p \in PlansOver(S) /\ p.count = p.version - 1
  BY DEF IsPlan
<1>2. /\ p.steps \in [S -> StepRecords] /\ InPlan(p) = S
      /\ p.version \in 1 .. MaxReplans + 1 /\ p.count \in 0 .. MaxReplans
      /\ p.deps \subseteq Steps \X Steps /\ p.status \in PlanStatuses
  BY <1>1 DEF PlansOver, InPlan
<1>3. IsFiniteSet(InPlan(p))
  BY <1>2, PlanAssumption, FS_Subset
<1> QED BY <1>1, <1>2, <1>3, FS_CardinalityType

(***************************************************************************)
(* Kahn's rounds end with nothing only when there is no circle: what is on *)
(* one is left after each round.  (PlanValidator)                          *)
(***************************************************************************)
THEOREM OrderedPlansHaveNoCircle ==
    ASSUME NEW p, IsPlan(p), HasOrder(p)
    PROVE  NoCircle(p)
<1> DEFINE N == Cardinality(InPlan(p))
           next == [L \in SUBSET InPlan(p) |-> {s \in L : Needs(p, s) \cap L # {}}]
           IsLeft(f) == f = [n \in 0 .. N |->
                IF n = 0 THEN InPlan(p)
                ELSE {s \in f[n - 1] : Needs(p, s) \cap f[n - 1] # {}}]
           left == CHOOSE f : IsLeft(f)
<1>0. N \in Nat
  BY InPlanTyped
<1>1. left[N] = {}
  BY DEF HasOrder
<1>2. \E f : IsLeft(f)
  <2> HIDE DEF N, next
  <2>1. PICK f : IsRounds(f, InPlan(p), next, N)
    BY <1>0, RoundsExist
  <2>2. /\ f = [n \in 0 .. N |-> f[n]]
        /\ \A n \in 0 .. N : f[n] = IF n = 0 THEN InPlan(p) ELSE next[f[n - 1]]
    BY <2>1 DEF IsRounds
  <2> USE DEF next
  <2> DEFINE T == {n \in Nat : n <= N => f[n] \in SUBSET InPlan(p)}
  <2>3. 0 \in T
    <3>1. 0 \in 0 .. N
      BY <1>0
    <3>2. f[0] = InPlan(p)
      BY <2>2, <3>1
    <3> QED BY <3>2
  <2>4. ASSUME NEW n \in Nat, n \in T PROVE n + 1 \in T
    <3>1. CASE n + 1 <= N
      <4>1. n + 1 \in 0 .. N /\ n + 1 # 0 /\ (n + 1) - 1 = n /\ n <= N
        BY <1>0, <3>1
      <4>2. f[n + 1] = next[f[n]] /\ f[n] \in SUBSET InPlan(p)
        BY <2>2, <2>4, <4>1
      <4> QED BY <4>2
    <3> QED BY <3>1
  <2> HIDE DEF T
  <2>5. Nat \subseteq T
    BY <2>3, <2>4, CountingUp
  <2>6. ASSUME NEW n \in 0 .. N, n # 0
        PROVE  f[n] = {s \in f[n - 1] : Needs(p, s) \cap f[n - 1] # {}}
    <3>1. n - 1 \in Nat /\ n - 1 <= N
      BY <1>0, <2>6
    <3>2. f[n - 1] \in SUBSET InPlan(p)
      BY <2>5, <3>1 DEF T
    <3> QED BY <2>2, <2>6, <3>2
  <2>7. f = [n \in 0 .. N |-> IF n = 0 THEN InPlan(p)
                ELSE {s \in f[n - 1] : Needs(p, s) \cap f[n - 1] # {}}]
    BY <2>2, <2>6
  <2> QED BY <2>7
<1>3. IsLeft(left)
  BY <1>2
<1> SUFFICES ASSUME NEW U \in SUBSET InPlan(p), U # {},
                    \A s \in U : Needs(p, s) \cap U # {}
             PROVE  FALSE
  BY DEF NoCircle
<1> HIDE DEF left
<1> DEFINE T == {n \in Nat : n <= N => U \subseteq left[n]}
<1>4. 0 \in T
  BY <1>0, <1>3
<1>5. ASSUME NEW n \in Nat, n \in T PROVE n + 1 \in T
  <2>1. CASE n + 1 <= N
    <3>1. n + 1 \in 0 .. N /\ n + 1 # 0 /\ (n + 1) - 1 = n /\ n <= N
      BY <1>0, <2>1
    <3>2. left[n + 1] = {s \in left[n] : Needs(p, s) \cap left[n] # {}}
      BY <1>3, <3>1
    <3>3. U \subseteq left[n]
      BY <1>5, <3>1
    <3> QED BY <3>2, <3>3
  <2> QED BY <2>1
<1> HIDE DEF T
<1>6. N \in T
  BY <1>0, <1>4, <1>5, CountingUp
<1>7. U \subseteq left[N]
  BY <1>0, <1>6 DEF T
<1> QED BY <1>1, <1>7

-----------------------------------------------------------------------------
(* What the operations make of a plan                                      *)

\* A step that a plan takes from another keeps what it needs, and does not come
\* back to be done.
Closed == {"COMPLETED", "BLOCKED"}

Keeps(p, o, named) ==
    \A x \in InPlan(o) \ named :
        /\ x \in InPlan(p)
        /\ p.steps[x].status \in Closed => o.steps[x].status \in Closed

SameGraph(p, o) ==
    /\ InPlan(o) = InPlan(p) /\ o.deps = p.deps
    /\ \A x \in InPlan(p) : o.steps[x].needs = p.steps[x].needs

LEMMA SameGraphSound ==
    ASSUME NEW p, NEW o, SameGraph(p, o), Sound(p)
    PROVE  Sound(o)
<1>1. \A x \in InPlan(p) : Needs(o, x) = Needs(p, x)
  BY DEF SameGraph, Needs
<1>2. WellFormed(o)
  BY DEF SameGraph, Sound, WellFormed
<1>3. NoCircle(o)
  BY <1>1 DEF SameGraph, Sound, NoCircle
<1> QED BY <1>2, <1>3 DEF Sound

\* The steps of a plan are changed, and the plan stays one.
WithSteps(p, steps, deps) == [p EXCEPT !.steps = steps, !.deps = deps]

LEMMA StepsChange ==
    ASSUME NEW p, IsPlan(p), NEW S \in SUBSET Steps, NEW steps \in [S -> StepRecords],
           NEW deps, deps \subseteq Steps \X Steps, NEW o, o = WithSteps(p, steps, deps)
    PROVE  /\ IsPlan(o) /\ InPlan(o) = S /\ o.steps = steps /\ o.deps = deps
           /\ o.version = p.version /\ o.count = p.count /\ o.status = p.status
<1>1. PICK T \in SUBSET Steps : p \in PlansOver(T) /\ p.count = p.version - 1
  BY DEF IsPlan
<1>2. o \in PlansOver(S) /\ o.count = o.version - 1 /\ o.steps = steps
      /\ o.version = p.version /\ o.count = p.count /\ o.status = p.status /\ o.deps = deps
  BY <1>1 DEF PlansOver, WithSteps
<1> QED BY <1>2 DEF IsPlan, InPlan

LEMMA OnlySteps ==
    ASSUME NEW p, IsPlan(p), NEW S \in SUBSET Steps, NEW steps \in [S -> StepRecords], NEW o,
           o = [p EXCEPT !.steps = steps]
    PROVE  /\ IsPlan(o) /\ InPlan(o) = S /\ o.steps = steps /\ o.deps = p.deps
           /\ o.version = p.version /\ o.count = p.count /\ o.status = p.status
<1>1. PICK T \in SUBSET Steps : p \in PlansOver(T) /\ p.count = p.version - 1
  BY DEF IsPlan
<1>2. o \in PlansOver(S) /\ o.count = o.version - 1 /\ o.steps = steps
      /\ o.version = p.version /\ o.count = p.count /\ o.status = p.status /\ o.deps = p.deps
  BY <1>1 DEF PlansOver
<1> QED BY <1>2 DEF IsPlan, InPlan

LEMMA StatusChanges ==
    ASSUME NEW p, IsPlan(p), NEW status \in PlanStatuses, NEW o, o = [p EXCEPT !.status = status]
    PROVE  /\ IsPlan(o) /\ SameGraph(p, o) /\ o.steps = p.steps /\ o.status = status
           /\ o.version = p.version /\ o.count = p.count
<1>1. PICK T \in SUBSET Steps : p \in PlansOver(T) /\ p.count = p.version - 1
  BY DEF IsPlan
<1>2. o \in PlansOver(T) /\ o.count = o.version - 1 /\ o.steps = p.steps /\ o.status = status
      /\ o.version = p.version /\ o.count = p.count /\ o.deps = p.deps
  BY <1>1 DEF PlansOver
<1> QED BY <1>2 DEF IsPlan, InPlan, SameGraph

LEMMA VersionChanges ==
    ASSUME NEW p, IsPlan(p), p.count < MaxReplans
    PROVE  /\ IsPlan(NextVersion(p)) /\ SameGraph(p, NextVersion(p))
           /\ NextVersion(p).steps = p.steps /\ NextVersion(p).version = p.version + 1
           /\ NextVersion(p).status # "TORN"
<1> DEFINE o == NextVersion(p)
<1>1. PICK T \in SUBSET Steps : p \in PlansOver(T) /\ p.count = p.version - 1
  BY DEF IsPlan
<1>2. p.version \in Int /\ p.count \in 0 .. MaxReplans /\ MaxReplans \in 0 .. 8
  BY <1>1, PlanAssumption DEF PlansOver
<1>3. /\ p.version + 1 \in 1 .. MaxReplans + 1 /\ p.count + 1 \in 0 .. MaxReplans
      /\ p.count + 1 = (p.version + 1) - 1
  BY <1>1, <1>2
<1>4. PICK v, c, d, t, ss :
        p = [version |-> v, count |-> c, deps |-> d, status |-> t, steps |-> ss]
  BY <1>1 DEF PlansOver
<1>5. p.version = v /\ p.count = c /\ p.deps = d /\ p.steps = ss
  BY ONLY <1>4
<1>6. ss \in [T -> StepRecords] /\ d \in SUBSET (Steps \X Steps)
  BY <1>1, <1>5 DEF PlansOver
<1>7. o = [[[p EXCEPT !.version = v + 1] EXCEPT !.count = c + 1] EXCEPT !.status = "VALIDATED"]
  BY <1>4, <1>5 DEF NextVersion
<1>8. o = [version |-> v + 1, count |-> c + 1, deps |-> d, status |-> "VALIDATED", steps |-> ss]
  <2> HIDE DEF o
  <2> QED BY ONLY <1>4, <1>7
<1>9. o \in PlansOver(T) /\ o.count = o.version - 1
  <2> HIDE DEF o
  <2> QED BY <1>3, <1>8, <1>5, <1>6 DEF PlansOver, PlanStatuses
<1> QED BY <1>9, <1>8, <1>5 DEF IsPlan, InPlan, SameGraph

LEMMA StepGetsStatus ==
    ASSUME NEW p, IsPlan(p), NEW s, NEW status \in StepStatuses, NEW o,
           o = WithStatus(p, s, status)
    PROVE  /\ IsPlan(o) /\ SameGraph(p, o)
           /\ o.version = p.version /\ o.count = p.count /\ o.status = p.status
           /\ s \in InPlan(o) => o.steps[s].status = status
           /\ \A x \in InPlan(p) \ {s} : o.steps[x] = p.steps[x]
<1>1. CASE s \notin InPlan(p)
  BY <1>1 DEF WithStatus, SameGraph
<1>2. CASE s \in InPlan(p)
  <2> DEFINE steps == [p.steps EXCEPT ![s].status = status]
  <2>1. PICK T \in SUBSET Steps : p \in PlansOver(T)
    BY DEF IsPlan
  <2>2. p.steps \in [T -> StepRecords] /\ InPlan(p) = T
    BY <2>1 DEF PlansOver, InPlan
  <2>3. /\ steps \in [T -> StepRecords] /\ steps[s].status = status
        /\ \A x \in T : steps[x].needs = p.steps[x].needs
        /\ \A x \in T \ {s} : steps[x] = p.steps[x]
    BY <1>2, <2>2 DEF StepRecords
  <2>4. o = [p EXCEPT !.steps = steps]
    BY <1>2 DEF WithStatus
  <2> HIDE DEF steps
  <2>5. /\ IsPlan(o) /\ InPlan(o) = T /\ o.steps = steps /\ o.deps = p.deps
        /\ o.version = p.version /\ o.count = p.count /\ o.status = p.status
    BY <2>3, <2>4, OnlySteps
  <2> QED BY <1>2, <2>2, <2>3, <2>5 DEF SameGraph
<1> QED BY <1>1, <1>2

LEMMA RefreshChanges ==
    ASSUME NEW p, IsPlan(p), NEW o, o = Refreshed(p)
    PROVE  /\ IsPlan(o) /\ SameGraph(p, o)
           /\ o.version = p.version /\ o.count = p.count /\ o.status = p.status
           /\ \A x \in InPlan(p) : p.steps[x].status \in Closed => o.steps[x] = p.steps[x]
<1> DEFINE steps == [s \in InPlan(p) |->
                        IF s \in Ready(p) THEN [p.steps[s] EXCEPT !.status = "READY"]
                        ELSE p.steps[s]]
<1>1. /\ InPlan(p) \in SUBSET Steps
      /\ \A s \in InPlan(p) : p.steps[s] \in StepRecords
  BY InPlanTyped
<1>2. /\ steps \in [InPlan(p) -> StepRecords]
      /\ \A x \in InPlan(p) : steps[x].needs = p.steps[x].needs
  BY <1>1 DEF StepRecords, StepStatuses
<1>3. \A x \in InPlan(p) : p.steps[x].status \in Closed => steps[x] = p.steps[x]
  BY DEF Ready, Closed
<1>4. o = [p EXCEPT !.steps = steps]
  BY DEF Refreshed
<1> HIDE DEF steps
<1>5. /\ IsPlan(o) /\ InPlan(o) = InPlan(p) /\ o.steps = steps /\ o.deps = p.deps
      /\ o.version = p.version /\ o.count = p.count /\ o.status = p.status
  BY <1>1, <1>2, <1>4, OnlySteps
<1> QED BY <1>2, <1>3, <1>5 DEF SameGraph

LEMMA CompletedFits ==
    ASSUME NEW p, IsPlan(p), NEW s
    PROVE  /\ IsPlan(Completed(p, s)) /\ SameGraph(p, Completed(p, s))
           /\ Completed(p, s).version = p.version
           /\ Completed(p, s).status # "TORN"
           /\ Keeps(p, Completed(p, s), {s})
           /\ s \in InPlan(p) => Completed(p, s).steps[s].status \in Closed
<1> DEFINE q == WithStatus(p, s, "COMPLETED")
           r == Refreshed(q)
           status == IF AllCompleted(r) THEN "COMPLETED" ELSE "IN_PROGRESS"
           o == [r EXCEPT !.status = status]
<1>1. /\ IsPlan(q) /\ SameGraph(p, q) /\ q.version = p.version
      /\ s \in InPlan(q) => q.steps[s].status = "COMPLETED"
      /\ \A x \in InPlan(p) \ {s} : q.steps[x] = p.steps[x]
  BY StepGetsStatus DEF StepStatuses
<1> HIDE DEF q
<1>2. /\ IsPlan(r) /\ SameGraph(q, r) /\ r.version = q.version
      /\ \A x \in InPlan(q) : q.steps[x].status \in Closed => r.steps[x] = q.steps[x]
  BY <1>1, RefreshChanges
<1> HIDE DEF r
<1>3. status \in PlanStatuses /\ status # "TORN"
  BY DEF PlanStatuses
<1> HIDE DEF status
<1>4. /\ IsPlan(o) /\ SameGraph(r, o) /\ o.steps = r.steps /\ o.version = r.version
      /\ o.status = status
  BY <1>2, <1>3, StatusChanges
<1>5. Completed(p, s) = o
  BY DEF Completed, q, r, status
<1> HIDE DEF o
<1> QED BY <1>1, <1>2, <1>3, <1>4, <1>5 DEF SameGraph, Keeps, Closed

LEMMA NewStepsTyped ==
    ASSUME NEW g, IsSubgraph(g)
    PROVE  /\ DOMAIN g.needs \subseteq Steps
           /\ NewSteps(g) \in [DOMAIN g.needs -> StepRecords]
           /\ EdgesOf(g) \subseteq Steps \X Steps
           /\ g.deps = None \/ g.deps \subseteq Steps \X Steps
BY DEF IsSubgraph, NewSteps, EdgesOf, StepRecords, StepStatuses

LEMMA RepairFits ==
    ASSUME NEW p, IsPlan(p), p.count < MaxReplans, NEW s, NEW g, IsSubgraph(g),
           NEW c \in Repair(p, s, g)
    PROVE  /\ IsPlan(c) /\ c.version = p.version + 1 /\ c.status # "TORN"
           /\ \A x \in InPlan(c) \ ({s} \cup DOMAIN g.needs) :
                 x \in InPlan(p) /\ c.steps[x] = p.steps[x]
<1> DEFINE completed == {d \in InPlan(p) : p.steps[d].status = "COMPLETED"}
           present == (InPlan(p) \ {s}) \cup completed \cup DOMAIN g.needs
           steps == [x \in present |->
                IF x \in DOMAIN g.needs THEN NewSteps(g)[x] ELSE p.steps[x]]
           deps == IF g.deps # None THEN g.deps
                   ELSE (p.deps \cup EdgesOf(g)) \cap (present \X present)
           repaired == [p EXCEPT !.steps = steps, !.deps = deps]
<1>1. c = NextVersion(repaired)
  BY DEF Repair
<1>2. /\ InPlan(p) \subseteq Steps /\ \A x \in InPlan(p) : p.steps[x] \in StepRecords
      /\ p.deps \subseteq Steps \X Steps
  BY InPlanTyped
<1>3. /\ DOMAIN g.needs \subseteq Steps /\ NewSteps(g) \in [DOMAIN g.needs -> StepRecords]
      /\ deps \subseteq Steps \X Steps
  BY <1>2, NewStepsTyped
<1>4. present \in SUBSET Steps /\ steps \in [present -> StepRecords]
  BY <1>2, <1>3
<1>5. \A x \in present \ ({s} \cup DOMAIN g.needs) : x \in InPlan(p) /\ steps[x] = p.steps[x]
  OBVIOUS
<1> HIDE DEF steps, deps, present
<1>6. /\ IsPlan(repaired) /\ InPlan(repaired) = present /\ repaired.steps = steps
      /\ repaired.version = p.version /\ repaired.count = p.count
  <2>1. repaired = WithSteps(p, steps, deps)
    BY DEF WithSteps
  <2> HIDE DEF repaired
  <2> QED BY <1>3, <1>4, <2>1, StepsChange
<1> HIDE DEF repaired
<1>7. /\ IsPlan(c) /\ SameGraph(repaired, c) /\ c.steps = repaired.steps
      /\ c.version = repaired.version + 1 /\ c.status # "TORN"
  BY <1>1, <1>6, VersionChanges
<1> QED BY <1>5, <1>6, <1>7 DEF SameGraph

\* The steps that a replan is asked for by name.
Named(j) == IF j.op = "repair" THEN {j.step} \cup DOMAIN j.repair.needs ELSE {j.step}

\* What operation j makes of the plan it read: another plan without a circle, with
\* the step of j as j would have it, and the others as they were.
OutcomeOf(j, o) ==
    /\ IsPlan(o) /\ Sound(o) /\ o.status # "TORN"
    /\ \/ /\ j.op \in {"complete", "deny", "succeed"}
          /\ o.version = j.plan.version /\ Keeps(j.plan, o, {j.step})
          /\ j.step \in InPlan(o) => o.steps[j.step].status \in Closed
       \/ j.op = "fail" /\ o.version = j.plan.version /\ Keeps(j.plan, o, {j.step})
       \/ /\ j.op \in {"exhaust", "retry", "repair"}
          /\ o.version = j.plan.version /\ Keeps(j.plan, o, {})
       \/ /\ j.op \in {"retry", "repair"}
          /\ o.version = j.plan.version + 1 /\ Keeps(j.plan, o, Named(j))

LEMMA JobTyped ==
    ASSUME NEW j, IsJob(j)
    PROVE  /\ IsPlan(j.plan) /\ j.op \in Operations /\ j.step \in Steps
           /\ j.repair \in Repairs \cup {None} /\ j.stale \in BOOLEAN
BY DEF IsJob, IsPlan

LEMMA ReplanFits ==
    ASSUME NEW j, IsJob(j), Sound(j.plan), j.plan.status # "TORN", j.op \in {"retry", "repair"},
           NEW candidates,
           j.plan.count < MaxReplans => \A c \in candidates :
              /\ IsPlan(c) /\ c.version = j.plan.version + 1 /\ c.status # "TORN"
              /\ \A x \in InPlan(c) \ Named(j) :
                    x \in InPlan(j.plan) /\ c.steps[x] = j.plan.steps[x],
           NEW o \in Replanned(j.plan, candidates)
    PROVE  OutcomeOf(j, o)
<1>0. IsPlan(j.plan)
  BY JobTyped
<1>1. CASE j.plan.count >= MaxReplans
  <2>1. o = [j.plan EXCEPT !.status = "FAILED"]
    BY <1>1 DEF Replanned
  <2>2. /\ IsPlan(o) /\ SameGraph(j.plan, o) /\ o.steps = j.plan.steps /\ o.status = "FAILED"
        /\ o.version = j.plan.version
    BY <1>0, <2>1, StatusChanges DEF PlanStatuses
  <2>3. Sound(o) /\ Keeps(j.plan, o, {})
    BY <2>2, SameGraphSound DEF Keeps, SameGraph
  <2> QED BY <2>2, <2>3 DEF OutcomeOf
<1>2. CASE ~(j.plan.count >= MaxReplans)
  <2>1. PICK c \in candidates : Valid(c) /\ o = Refreshed(c)
    BY <1>2 DEF Replanned
  <2>2. j.plan.count < MaxReplans
    BY <1>0, <1>2, InPlanTyped, PlanAssumption
  <2>3. /\ IsPlan(c) /\ c.version = j.plan.version + 1 /\ c.status # "TORN"
        /\ \A x \in InPlan(c) \ Named(j) :
              x \in InPlan(j.plan) /\ c.steps[x] = j.plan.steps[x]
    BY <2>2
  <2>4. Sound(c)
    BY <2>1, <2>3, OrderedPlansHaveNoCircle DEF Valid, Sound
  <2>5. /\ IsPlan(o) /\ SameGraph(c, o) /\ o.version = c.version /\ o.status = c.status
        /\ \A x \in InPlan(c) : c.steps[x].status \in Closed => o.steps[x] = c.steps[x]
    BY <2>1, <2>3, RefreshChanges
  <2>6. Sound(o) /\ Keeps(j.plan, o, Named(j))
    BY <2>3, <2>4, <2>5, SameGraphSound DEF SameGraph, Keeps
  <2> QED BY <2>3, <2>5, <2>6 DEF OutcomeOf
<1> QED BY <1>1, <1>2

LEMMA OutcomesFit ==
    ASSUME NEW j, IsJob(j), Sound(j.plan), j.plan.status # "TORN",
           j.op = "repair" => j.repair \in Repairs,
           NEW o \in Outcomes(j)
    PROVE  OutcomeOf(j, o)
<1> DEFINE p == j.plan
<1>0. IsPlan(p) /\ j.op \in Operations /\ j.step \in Steps
  BY JobTyped
<1>1. CASE j.op = "complete"
  <2>1. o = Completed(p, j.step)
    BY <1>1 DEF Outcomes
  <2>2. /\ IsPlan(o) /\ SameGraph(p, o) /\ o.version = p.version /\ o.status # "TORN"
        /\ Keeps(p, o, {j.step}) /\ (j.step \in InPlan(p) => o.steps[j.step].status \in Closed)
    BY <1>0, <2>1, CompletedFits
  <2>3. Sound(o)
    BY <2>2, SameGraphSound
  <2> QED BY <1>1, <2>2, <2>3 DEF OutcomeOf, SameGraph
<1>2. CASE j.op = "deny"
  <2> DEFINE q == WithStatus(p, j.step, "BLOCKED")
  <2>1. o = [q EXCEPT !.status = "BLOCKED"]
    BY <1>2 DEF Outcomes
  <2>2. /\ IsPlan(q) /\ SameGraph(p, q) /\ q.version = p.version
        /\ j.step \in InPlan(q) => q.steps[j.step].status = "BLOCKED"
        /\ \A x \in InPlan(p) \ {j.step} : q.steps[x] = p.steps[x]
    BY <1>0, StepGetsStatus DEF StepStatuses
  <2> HIDE DEF q
  <2>3. /\ IsPlan(o) /\ SameGraph(q, o) /\ o.steps = q.steps /\ o.version = q.version
        /\ o.status = "BLOCKED"
    BY <2>1, <2>2, StatusChanges DEF PlanStatuses
  <2>4. Sound(o)
    BY <2>2, <2>3, SameGraphSound
  <2> QED BY <1>2, <2>2, <2>3, <2>4 DEF OutcomeOf, SameGraph, Keeps, Closed
<1>3. CASE j.op = "exhaust"
  <2>1. o = [p EXCEPT !.status = "BLOCKED"]
    BY <1>3 DEF Outcomes
  <2>2. /\ IsPlan(o) /\ SameGraph(p, o) /\ o.steps = p.steps /\ o.version = p.version
        /\ o.status = "BLOCKED"
    BY <1>0, <2>1, StatusChanges DEF PlanStatuses
  <2>3. Sound(o)
    BY <2>2, SameGraphSound
  <2> QED BY <1>3, <2>2, <2>3 DEF OutcomeOf, SameGraph, Keeps
<1>4. CASE j.op = "retry"
  <2>1. o \in Replanned(p, Retry(p, j.step))
    BY <1>4 DEF Outcomes
  <2>2. ASSUME p.count < MaxReplans, NEW c \in Retry(p, j.step)
        PROVE  /\ IsPlan(c) /\ c.version = p.version + 1 /\ c.status # "TORN"
               /\ \A x \in InPlan(c) \ Named(j) :
                     x \in InPlan(p) /\ c.steps[x] = p.steps[x]
    <3> DEFINE q == WithStatus(p, j.step, "PENDING")
    <3>1. c = NextVersion(q)
      BY DEF Retry
    <3>2. /\ IsPlan(q) /\ SameGraph(p, q) /\ q.version = p.version /\ q.count = p.count
          /\ \A x \in InPlan(p) \ {j.step} : q.steps[x] = p.steps[x]
      BY <1>0, StepGetsStatus DEF StepStatuses
    <3> HIDE DEF q
    <3>3. /\ IsPlan(c) /\ SameGraph(q, c) /\ c.steps = q.steps /\ c.version = q.version + 1
          /\ c.status # "TORN"
      BY <2>2, <3>1, <3>2, VersionChanges
    <3> QED BY <3>2, <3>3 DEF SameGraph, Named
  <2> QED BY <1>4, <2>1, <2>2, ReplanFits
<1>5. CASE j.op = "repair"
  <2>1. o \in Replanned(p, Repair(p, j.step, j.repair)) /\ IsSubgraph(j.repair)
    BY <1>5, PlanAssumption DEF Outcomes
  <2>2. ASSUME p.count < MaxReplans, NEW c \in Repair(p, j.step, j.repair)
        PROVE  /\ IsPlan(c) /\ c.version = p.version + 1 /\ c.status # "TORN"
               /\ \A x \in InPlan(c) \ Named(j) :
                     x \in InPlan(p) /\ c.steps[x] = p.steps[x]
    BY <1>0, <1>5, <2>1, <2>2, RepairFits DEF Named
  <2> QED BY <1>5, <2>1, <2>2, ReplanFits
<1>6. ASSUME NEW status \in {"COMPLETED", "FAILED"}, o = WithStatus(p, j.step, status)
      PROVE  /\ IsPlan(o) /\ Sound(o) /\ o.status # "TORN" /\ o.version = p.version
             /\ Keeps(p, o, {j.step})
             /\ j.step \in InPlan(o) => o.steps[j.step].status = status
  <2>1. /\ IsPlan(o) /\ SameGraph(p, o) /\ o.version = p.version /\ o.status = p.status
        /\ j.step \in InPlan(o) => o.steps[j.step].status = status
        /\ \A x \in InPlan(p) \ {j.step} : o.steps[x] = p.steps[x]
    BY <1>0, <1>6, StepGetsStatus DEF StepStatuses
  <2>2. Sound(o)
    BY <2>1, SameGraphSound
  <2> QED BY <2>1, <2>2 DEF SameGraph, Keeps
<1>7. CASE j.op = "succeed"
  <2>1. o = WithStatus(p, j.step, "COMPLETED")
    BY <1>7 DEF Outcomes
  <2> QED BY <1>6, <1>7, <2>1 DEF OutcomeOf, Closed
<1>8. CASE j.op = "fail"
  <2>1. o = WithStatus(p, j.step, "FAILED")
    BY <1>8 DEF Outcomes
  <2> QED BY <1>6, <1>8, <2>1 DEF OutcomeOf
<1> QED BY <1>0, <1>1, <1>2, <1>3, <1>4, <1>5, <1>7, <1>8 DEF Operations

-----------------------------------------------------------------------------
(* The plan on file and those the threads have read                        *)

\* What was closed, and not asked for again, is closed in p.
ClosedIn(p) == \A s \in closed \ asked : s \in InPlan(p) => p.steps[s].status \in Closed

\* What a thread read has no circle; while nothing was saved since, it is the plan
\* on file, unless that was cut short.
JobFits(w) ==
    job[w] # None =>
        /\ IsJob(job[w]) /\ Sound(job[w].plan) /\ job[w].plan.status # "TORN"
        /\ job[w].op = "repair" => job[w].repair \in Repairs
        /\ w = Service <=> job[w].op \in {"succeed", "fail"}
        /\ ~job[w].stale => /\ ~astray => ClosedIn(job[w].plan)
                            /\ Whole => job[w].plan = plan

JobsFit == DOMAIN job = Writers /\ \A w \in Writers : JobFits(w)

PlanFits == /\ IsPlan(plan) /\ Sound(plan)
            /\ Whole /\ ~astray => ClosedIn(plan)
            /\ closed \subseteq Steps /\ asked \subseteq Steps /\ astray \in BOOLEAN

PlanInv == PlanFits /\ JobsFit

\* The steps as the plan sees them: a plan is read, saved, cut short or none of these.
ReadMove(w) ==
    /\ job[w] = None /\ Whole
    /\ \E op \in Operations, s \in Steps, graph \in Repairs \cup {None} :
        /\ op = "repair" => graph \in Repairs
        /\ w = Service <=> op \in {"succeed", "fail"}
        /\ job' = [job EXCEPT ![w] = JobOf(op, s, graph)]
    /\ UNCHANGED <<plan, closed, asked, astray>>

SaveMove(w) ==
    /\ job[w] # None
    /\ \E outcome \in Outcomes(job[w]) :
        /\ plan' = IF outcome.version >= plan.version THEN outcome ELSE plan
        /\ Remember(job[w], outcome)
    /\ job' = [v \in Writers |-> IF v = w \/ job[v] = None THEN None
                                 ELSE [job[v] EXCEPT !.stale = TRUE]]

CutMove(w) ==
    /\ job[w] # None
    /\ \E outcome \in Outcomes(job[w]) :
        plan' = IF outcome.version >= plan.version THEN [outcome EXCEPT !.status = "TORN"]
                ELSE plan
    /\ job' = [job EXCEPT ![w] = None]
    /\ UNCHANGED <<closed, asked, astray>>

DropMove ==
    /\ DOMAIN job' = Writers
    /\ \A w \in Writers : job'[w] = job[w] \/ job'[w] = None
    /\ UNCHANGED <<plan, closed, asked, astray>>

PlanMove ==
    \/ \E w \in Writers : ReadMove(w) \/ SaveMove(w) \/ CutMove(w)
    \/ DropMove

LEMMA JobOfTyped ==
    ASSUME PlanFits, NEW op \in Operations, NEW s \in Steps, NEW graph \in Repairs \cup {None}
    PROVE  /\ IsJob(JobOf(op, s, graph)) /\ JobOf(op, s, graph) # None
           /\ JobOf(op, s, graph).plan = plan /\ JobOf(op, s, graph).op = op
           /\ JobOf(op, s, graph).repair = graph /\ JobOf(op, s, graph).step = s
           /\ JobOf(op, s, graph).stale = FALSE
<1>1. PICK S \in SUBSET Steps : plan \in PlansOver(S) /\ plan.count = plan.version - 1
  BY DEF PlanFits, IsPlan
<1>2. IsJob(JobOf(op, s, graph))
  BY <1>1 DEF IsJob, JobOf
<1> QED BY <1>2, PlanAssumption DEF JobOf

LEMMA RememberTells ==
    ASSUME NEW j, NEW o, Remember(j, o)
    PROVE  /\ j.op \in {"complete", "deny", "succeed"} =>
                closed' = closed \cup {j.step} /\ asked' = asked \ {j.step}
           /\ j.op = "fail" => closed' = closed \ {j.step} /\ asked' = asked \ {j.step}
           /\ j.op \in {"exhaust", "retry", "repair"} =>
                closed' = closed /\ asked \subseteq asked'
           /\ j.op \in {"retry", "repair"} /\ o.version > j.plan.version =>
                asked' = asked \cup Named(j)
           /\ astray' = (astray \/ j.stale)
<1> DEFINE S == {j.step}
           N == Named(j)
<1>1. closed' = CASE j.op \in {"complete", "deny", "succeed"} -> closed \cup S
                  [] j.op = "fail" -> closed \ S
                  [] OTHER -> closed
  BY Zenon DEF Remember
<1>2. asked' = CASE j.op \in {"complete", "deny", "succeed", "fail"} -> asked \ S
                 [] j.op \in {"retry", "repair"} /\ o.version > j.plan.version -> asked \cup N
                 [] OTHER -> asked
  BY Zenon DEF Remember, Named
<1> HIDE DEF S, N
<1>3. /\ j.op \in {"complete", "deny", "succeed"} => closed' = closed \cup S
      /\ j.op = "fail" => closed' = closed \ S
      /\ j.op \in {"exhaust", "retry", "repair"} => closed' = closed
  BY <1>1
<1>4. /\ j.op \in {"complete", "deny", "succeed", "fail"} => asked' = asked \ S
      /\ j.op \in {"exhaust", "retry", "repair"} => asked \subseteq asked'
      /\ j.op \in {"retry", "repair"} /\ o.version > j.plan.version => asked' = asked \cup N
  BY <1>2
<1>5. astray' = (astray \/ j.stale)
  BY DEF Remember
<1> QED BY <1>3, <1>4, <1>5 DEF S, N

LEMMA SavedDone ==
    ASSUME PlanInv, NEW w \in Writers, job[w] # None, NEW o \in Outcomes(job[w]),
           Remember(job[w], o), ~astray'
    PROVE  /\ ~astray /\ ~job[w].stale
           /\ ClosedIn(o)'
<1> DEFINE j == job[w]
<1>1. ~astray /\ ~j.stale
  BY DEF Remember
<1>2. IsJob(j) /\ ClosedIn(j.plan) /\ OutcomeOf(j, o)
  BY <1>1, OutcomesFit DEF PlanInv, JobsFit, JobFits
<1>3. IsPlan(j.plan) /\ j.plan.version \in Int
  BY <1>2, JobTyped, InPlanTyped
<1> HIDE DEF j
<1> SUFFICES ASSUME NEW s \in closed' \ asked', s \in InPlan(o)
             PROVE  o.steps[s].status \in Closed
  BY <1>1 DEF ClosedIn, j
<1>4. CASE /\ j.op \in {"complete", "deny", "succeed"}
           /\ Keeps(j.plan, o, {j.step})
           /\ j.step \in InPlan(o) => o.steps[j.step].status \in Closed
  <2>1. closed' = closed \cup {j.step} /\ asked' = asked \ {j.step}
    BY <1>4, RememberTells DEF j
  <2>2. CASE s # j.step
    BY <1>2, <1>4, <2>1, <2>2 DEF ClosedIn, Keeps
  <2> QED BY <1>4, <2>2
<1>5. CASE j.op = "fail" /\ Keeps(j.plan, o, {j.step})
  <2>1. closed' = closed \ {j.step} /\ asked' = asked \ {j.step}
    BY <1>5, RememberTells DEF j
  <2> QED BY <1>2, <1>5, <2>1 DEF ClosedIn, Keeps
<1>6. CASE j.op \in {"exhaust", "retry", "repair"} /\ Keeps(j.plan, o, {})
  <2>1. closed' = closed /\ asked \subseteq asked'
    BY <1>6, RememberTells DEF j
  <2> QED BY <1>2, <1>6, <2>1 DEF ClosedIn, Keeps
<1>7. CASE /\ j.op \in {"retry", "repair"}
           /\ o.version = j.plan.version + 1 /\ Keeps(j.plan, o, Named(j))
  <2>1. o.version > j.plan.version
    BY <1>3, <1>7
  <2>2. closed' = closed /\ asked' = asked \cup Named(j)
    BY <1>7, <2>1, RememberTells DEF j
  <2> QED BY <1>2, <1>7, <2>2 DEF ClosedIn, Keeps
<1> QED BY <1>2, <1>4, <1>5, <1>6, <1>7 DEF OutcomeOf

LEMMA PlanInvStep ==
    ASSUME PlanInv, PlanMove
    PROVE  PlanInv'
<1> USE DEF PlanInv
<1>1. ASSUME NEW w \in Writers, ReadMove(w) PROVE PlanInv'
  <2>1. PICK op \in Operations, s \in Steps, graph \in Repairs \cup {None} :
          /\ op = "repair" => graph \in Repairs
          /\ w = Service <=> op \in {"succeed", "fail"}
          /\ job' = [job EXCEPT ![w] = JobOf(op, s, graph)]
    BY <1>1 DEF ReadMove
  <2> DEFINE j == JobOf(op, s, graph)
  <2>2. op \in Operations /\ s \in Steps /\ graph \in Repairs \cup {None} /\ PlanFits
    OBVIOUS
  <2>3. IsJob(j) /\ j # None
    BY ONLY <2>2, JobOfTyped
  <2>4. j.plan = plan /\ j.op = op /\ j.repair = graph
    BY DEF JobOf
  <2>5. DOMAIN job' = Writers /\ job'[w] = j /\ \A v \in Writers \ {w} : job'[v] = job[v]
    BY <2>1 DEF JobsFit
  <2>6. UNCHANGED <<plan, closed, asked, astray>> /\ Whole
    BY <1>1 DEF ReadMove
  <2> HIDE DEF j
  <2>7. JobFits(w)'
    BY <2>1, <2>3, <2>4, <2>5, <2>6 DEF JobFits, PlanFits, Whole, ClosedIn
  <2>8. ASSUME NEW v \in Writers \ {w} PROVE JobFits(v)'
    BY <2>5, <2>6 DEF JobsFit, JobFits, Whole, ClosedIn
  <2>9. PlanFits'
    BY <2>6 DEF PlanFits, Whole, ClosedIn
  <2> QED BY <2>5, <2>7, <2>8, <2>9 DEF JobsFit
<1>2. ASSUME NEW w \in Writers, SaveMove(w) PROVE PlanInv'
  <2>1. PICK o \in Outcomes(job[w]) :
          /\ plan' = IF o.version >= plan.version THEN o ELSE plan
          /\ Remember(job[w], o)
    BY <1>2 DEF SaveMove
  <2>2. job[w] # None /\ IsJob(job[w]) /\ OutcomeOf(job[w], o)
    BY <1>2, OutcomesFit DEF SaveMove, JobsFit, JobFits
  <2>3. IsPlan(plan') /\ Sound(plan')
    BY <2>1, <2>2 DEF OutcomeOf, PlanFits
  <2>4. ASSUME Whole', ~astray' PROVE ClosedIn(plan)'
    <3>1. ~job[w].stale /\ ClosedIn(o)'
      BY <2>1, <2>2, <2>4, SavedDone
    <3>2. CASE plan' = o
      BY <3>1, <3>2 DEF ClosedIn
    <3>3. CASE plan' = plan /\ ~(o.version >= plan.version)
      <4>1. job[w].plan = plan
        BY <2>2, <2>4, <3>1, <3>3 DEF JobsFit, JobFits, Whole
      <4>2. plan.version \in Int
        BY InPlanTyped DEF PlanFits
      <4> QED BY <2>2, <3>3, <4>1, <4>2 DEF OutcomeOf
    <3> QED BY <2>1, <3>2, <3>3
  <2>5. closed' \subseteq Steps /\ asked' \subseteq Steps /\ astray' \in BOOLEAN
    <3>1. job[w].step \in Steps /\ job[w].op \in Operations /\ job[w].stale \in BOOLEAN
      BY <2>2, JobTyped
    <3>2. job[w].op = "repair" => DOMAIN job[w].repair.needs \subseteq Steps
      BY <2>2, PlanAssumption, NewStepsTyped DEF JobsFit, JobFits
    <3> QED BY <2>1, <3>1, <3>2 DEF Remember, PlanFits
  <2>6. ASSUME NEW v \in Writers, job'[v] # None PROVE JobFits(v)'
    <3>1. job[v] # None /\ job'[v] = [job[v] EXCEPT !.stale = TRUE]
      BY <1>2, <2>6 DEF SaveMove
    <3>2. /\ IsJob(job'[v]) /\ job'[v].plan = job[v].plan /\ job'[v].stale = TRUE
          /\ job'[v].op = job[v].op /\ job'[v].repair = job[v].repair
      <4>1. IsJob(job[v])
        BY <3>1 DEF JobsFit, JobFits
      <4> QED BY <3>1, <4>1 DEF IsJob
    <3> QED BY <3>1, <3>2 DEF JobsFit, JobFits
  <2>7. DOMAIN job' = Writers
    BY <1>2 DEF SaveMove
  <2> QED BY <2>3, <2>4, <2>5, <2>6, <2>7 DEF PlanFits, JobsFit, JobFits
<1>3. ASSUME NEW w \in Writers, CutMove(w) PROVE PlanInv'
  <2>1. PICK o \in Outcomes(job[w]) :
          plan' = IF o.version >= plan.version THEN [o EXCEPT !.status = "TORN"] ELSE plan
    BY <1>3 DEF CutMove
  <2>2. job[w] # None /\ OutcomeOf(job[w], o) /\ UNCHANGED <<closed, asked, astray>>
    BY <1>3, OutcomesFit DEF CutMove, JobsFit, JobFits
  <2>3. CASE plan' = plan
    <3>1. PlanFits'
      BY <2>2, <2>3 DEF PlanFits, Whole, ClosedIn
    <3>2. ASSUME NEW v \in Writers PROVE JobFits(v)'
      BY <1>3, <2>2, <2>3 DEF CutMove, JobsFit, JobFits, Whole, ClosedIn
    <3>3. DOMAIN job' = Writers
      BY <1>3 DEF CutMove, JobsFit
    <3> QED BY <3>1, <3>2, <3>3 DEF JobsFit
  <2>4. CASE plan' = [o EXCEPT !.status = "TORN"]
    <3>1. IsPlan(plan') /\ SameGraph(o, plan') /\ plan'.status = "TORN"
      BY <2>2, <2>4, StatusChanges DEF OutcomeOf, PlanStatuses
    <3>2. Sound(plan') /\ ~Whole'
      BY <2>2, <3>1, SameGraphSound DEF OutcomeOf, Whole
    <3>3. PlanFits'
      BY <2>2, <3>1, <3>2 DEF PlanFits
    <3>4. ASSUME NEW v \in Writers PROVE JobFits(v)'
      BY <1>3, <2>2, <3>2 DEF CutMove, JobsFit, JobFits, ClosedIn
    <3>5. DOMAIN job' = Writers
      BY <1>3 DEF CutMove, JobsFit
    <3> QED BY <3>3, <3>4, <3>5 DEF JobsFit
  <2> QED BY <2>1, <2>3, <2>4
<1>4. CASE DropMove
  <2>1. PlanFits'
    BY <1>4 DEF DropMove, PlanFits, Whole, ClosedIn
  <2>2. ASSUME NEW v \in Writers PROVE JobFits(v)'
    BY <1>4 DEF DropMove, JobsFit, JobFits, Whole, ClosedIn
  <2> QED BY <1>4, <2>1, <2>2 DEF DropMove, JobsFit
<1> QED BY <1>1, <1>2, <1>3, <1>4 DEF PlanMove

-----------------------------------------------------------------------------
(* The file of missions                                                    *)

\* The root is the first, and every other mission has its parent in the file and
\* the root as its root.
Rooted ==
    /\ missions[Root].parent = None /\ missions[Root].root = None
    /\ \A c \in DOMAIN missions \ {Root} :
        /\ missions[c].parent \in DOMAIN missions
        /\ missions[c].root = Root /\ missions[c].step \in Steps

Filed ==
    /\ missions \in Seq(Records) /\ Len(missions) \in Ids
    /\ \A m \in DOMAIN missions : missions[m].depth <= MaxDepth

\* Another file of the same missions, which may be in another status.
SameTree(f) ==
    /\ f \in Seq(Records) /\ Len(f) = Len(missions)
    /\ \A c \in DOMAIN missions :
        /\ f[c].parent = missions[c].parent /\ f[c].root = missions[c].root
        /\ f[c].depth = missions[c].depth /\ f[c].step = missions[c].step
        /\ f[c].cost = missions[c].cost

LEMMA FileTyped ==
    ASSUME Filed
    PROVE  /\ Len(missions) \in Nat /\ DOMAIN missions = 1 .. Len(missions)
           /\ Root \in DOMAIN missions /\ None \notin DOMAIN missions
           /\ \A c \in DOMAIN missions : missions[c] \in Records
<1>1. missions \in Seq(Records) /\ Len(missions) \in 1 .. MaxMissions
  BY DEF Filed, Ids
<1>2. Len(missions) \in Nat /\ DOMAIN missions = 1 .. Len(missions)
  BY <1>1, LenProperties
<1> QED BY <1>1, <1>2, ElementOfSeq, SubAssumption, PlanAssumption DEF Root

LEMMA StatusTyped ==
    ASSUME NEW r \in Records, NEW status \in MissionStatuses
    PROVE  LET q == [r EXCEPT !.status = status]
           IN  /\ q \in Records /\ q.status = status
               /\ q.parent = r.parent /\ q.root = r.root /\ q.depth = r.depth
               /\ q.step = r.step /\ q.cost = r.cost
BY DEF Records

LEMMA OnlyStatus ==
    ASSUME Filed, NEW g, DOMAIN g = DOMAIN missions, g = [c \in DOMAIN g |-> g[c]],
           \A c \in DOMAIN missions : \E status \in MissionStatuses :
              g[c] = [missions[c] EXCEPT !.status = status]
    PROVE  SameTree(g)
<1> DEFINE n == Len(missions)
<1>1. /\ n \in Nat /\ DOMAIN missions = 1 .. n
      /\ \A c \in DOMAIN missions : missions[c] \in Records
  BY FileTyped
<1>2. ASSUME NEW c \in DOMAIN missions
      PROVE  /\ g[c] \in Records
             /\ g[c].parent = missions[c].parent /\ g[c].root = missions[c].root
             /\ g[c].depth = missions[c].depth /\ g[c].step = missions[c].step
             /\ g[c].cost = missions[c].cost
  <2>1. PICK status \in MissionStatuses : g[c] = [missions[c] EXCEPT !.status = status]
    OBVIOUS
  <2> QED BY <1>1, <2>1, StatusTyped
<1> HIDE DEF n
<1>3. g \in [1 .. n -> Records]
  BY <1>1, <1>2
<1>4. g \in Seq(Records)
  BY <1>1, <1>3, SeqDef
<1>5. Len(g) = n
  BY <1>1, <1>3, <1>4, LenProperties
<1> QED BY <1>2, <1>4, <1>5 DEF SameTree, n

LEMMA SameTreeKeeps ==
    ASSUME Filed, SameTree(missions')
    PROVE  /\ Filed' /\ DOMAIN missions' = DOMAIN missions
           /\ \A m : Children(m)' = Children(m)
           /\ Rooted => Rooted'
           /\ BudgetIsPartitioned => BudgetIsPartitioned'
<1>1. /\ missions' \in Seq(Records) /\ Len(missions') = Len(missions)
      /\ \A c \in DOMAIN missions :
            /\ missions'[c].parent = missions[c].parent /\ missions'[c].root = missions[c].root
            /\ missions'[c].depth = missions[c].depth /\ missions'[c].step = missions[c].step
            /\ missions'[c].cost = missions[c].cost
  BY DEF SameTree
<1>2. DOMAIN missions' = DOMAIN missions /\ Root \in DOMAIN missions
  BY <1>1, FileTyped, LenProperties
<1>3. Filed'
  BY <1>1, <1>2 DEF Filed
<1>4. ASSUME NEW m PROVE Children(m)' = Children(m) /\ Children(m) \subseteq DOMAIN missions
  BY <1>1, <1>2 DEF Children
<1>5. ASSUME Rooted PROVE Rooted'
  BY <1>1, <1>2, <1>4, <1>5 DEF Rooted
<1>6. ASSUME NEW m PROVE CostsOf(Children(m))' = CostsOf(Children(m))
  BY <1>1, <1>4 DEF CostsOf
<1>7. ASSUME BudgetIsPartitioned PROVE BudgetIsPartitioned'
  BY <1>1, <1>2, <1>6, <1>7 DEF BudgetIsPartitioned
<1> QED BY <1>2, <1>3, <1>4, <1>5, <1>7

\* One cost more.
LEMMA CostAdds ==
    ASSUME NEW g, NEW h, NEW x, IsFiniteSet(DOMAIN g), x \notin DOMAIN g,
           DOMAIN h = DOMAIN g \cup {x}, h[x] \in Nat,
           \A y \in DOMAIN g : g[y] \in Nat /\ h[y] = g[y]
    PROVE  SumFunction(h) = SumFunction(g) + h[x]
<1>1. SumFunctionOnSet(h, DOMAIN g \cup {x}) = SumFunctionOnSet(h, DOMAIN g) + h[x]
  BY SumAdds
<1>2. SumFunctionOnSet(h, DOMAIN g) = SumFunctionOnSet(g, DOMAIN g)
  BY SumReads
<1> QED BY <1>1, <1>2 DEF SumFunction

\* The children of a mission that have a cost, and those costs.
LEMMA CostsTyped ==
    ASSUME Filed, NEW m
    PROVE  LET g == CostsOf(Children(m))
           IN  /\ IsFiniteSet(DOMAIN g) /\ DOMAIN g \subseteq DOMAIN missions
               /\ \A c \in DOMAIN g : g[c] \in Nat
<1> DEFINE g == CostsOf(Children(m))
<1>1. /\ DOMAIN g = {c \in DOMAIN missions : missions[c].parent = m /\ missions[c].cost # None}
      /\ \A c \in DOMAIN g : g[c] = missions[c].cost
  BY DEF CostsOf, Children
<1>2. IsFiniteSet(DOMAIN missions)
  BY FileTyped, FS_Interval
<1>3. \A c \in DOMAIN missions : missions[c].cost \in Nat \cup {None}
  BY FileTyped, SubAssumption DEF Records
<1> HIDE DEF g
<1>4. IsFiniteSet(DOMAIN g)
  BY <1>1, <1>2, FS_Subset
<1> QED BY <1>1, <1>3, <1>4 DEF g

LEMMA RootOfAll ==
    ASSUME Filed, Rooted, NEW m \in DOMAIN missions
    PROVE  RootOf(m) = Root
<1>1. None # Root
  BY FileTyped
<1> QED BY <1>1 DEF Rooted, RootOf

LEMMA CreateKeeps ==
    ASSUME Filed, Rooted, BudgetIsPartitioned, NEW m \in DOMAIN missions,
           NEW key \in Steps, NEW cost \in Costs, CreateSubMission(m, key, cost)
    PROVE  /\ Filed' /\ Rooted' /\ BudgetIsPartitioned'
           /\ Children(Root) \subseteq Children(Root)'
           /\ \A c \in Children(Root) : missions'[c] = missions[c]
           /\ \A c \in Children(Root)' : missions'[c].status = "COMPLETED" =>
                c \in Children(Root) /\ missions'[c] = missions[c]
<1> DEFINE n == Len(missions) + 1
           r == [parent |-> m, root |-> RootOf(m), depth |-> missions[m].depth + 1,
                 status |-> "PENDING", step |-> key, cost |-> cost]
<1>1. /\ missions' = Append(missions, r) /\ Len(missions) < MaxMissions
      /\ missions[m].depth + 1 <= MaxDepth /\ Affords(m, cost)
  BY DEF CreateSubMission
<1>2. /\ Len(missions) \in Nat /\ DOMAIN missions = 1 .. Len(missions)
      /\ Root \in DOMAIN missions /\ None \notin DOMAIN missions
      /\ \A c \in DOMAIN missions : missions[c] \in Records
      /\ missions \in Seq(Records) /\ MaxMissions \in Nat
  BY FileTyped, SubAssumption DEF Filed
<1>3. r \in Records
  <2>1. m \in Ids /\ Root \in Ids
    BY <1>1, <1>2 DEF Ids
  <2>2. missions[m].depth \in Nat /\ RootOf(m) = Root
    BY <1>2, RootOfAll DEF Records
  <2> QED BY <2>1, <2>2 DEF Records, MissionStatuses
<1>4. /\ r.parent = m /\ r.root = Root /\ r.step = key /\ r.cost = cost
      /\ r.status = "PENDING" /\ r.depth = missions[m].depth + 1
  BY RootOfAll
<1> HIDE DEF r
<1>5. /\ missions' \in Seq(Records) /\ Len(missions') = n
      /\ DOMAIN missions' = DOMAIN missions \cup {n} /\ n \notin DOMAIN missions
      /\ missions'[n] = r /\ \A c \in DOMAIN missions : missions'[c] = missions[c]
  BY <1>1, <1>2, <1>3, LenProperties
<1>6. n \in Ids
  BY <1>1, <1>2 DEF Ids
<1> HIDE DEF n
<1>7. Filed'
  BY <1>1, <1>4, <1>5, <1>6 DEF Filed
<1>8. ASSUME NEW d \in DOMAIN missions'
      PROVE  Children(d)' = IF d = n THEN {} ELSE IF d = m THEN Children(m) \cup {n}
                            ELSE Children(d)
  <2>1. \A c \in DOMAIN missions : missions[c].parent # n
    BY <1>2, <1>5, <1>6, PlanAssumption DEF Rooted, Ids
  <2>2. m # n
    BY <1>5
  <2>3. CASE d = n
    BY <1>4, <1>5, <2>1, <2>2, <2>3 DEF Children
  <2>4. CASE d = m
    BY <1>4, <1>5, <2>2, <2>4 DEF Children
  <2>5. CASE d # n /\ d # m
    BY <1>4, <1>5, <2>5 DEF Children
  <2> QED BY <2>2, <2>3, <2>4, <2>5
<1>9. Rooted'
  BY <1>2, <1>4, <1>5 DEF Rooted
<1>10. ASSUME NEW d \in DOMAIN missions', missions'[d].cost # None
       PROVE  SumFunction(CostsOf(Children(d))') <= missions'[d].cost
  <2>1. \A c : c \in Children(d) => c \in DOMAIN missions
    BY DEF Children
  <2>2. CASE d = n
    <3>0. Children(d)' = {}
      BY <1>8, <2>2
    <3>1. DOMAIN (CostsOf(Children(d))') = {}
      BY <3>0 DEF CostsOf
    <3>2. SumFunction(CostsOf(Children(d))') = 0
      BY <3>1, SumOfNone DEF SumFunction
    <3>3. missions'[d].cost \in Nat
      BY <1>4, <1>5, <1>10, <2>2, SubAssumption
    <3> QED BY <3>2, <3>3
  <2>3. CASE d # n /\ (d # m \/ cost = None)
    <3>1. CostsOf(Children(d))' = CostsOf(Children(d))
      BY <1>4, <1>5, <1>8, <2>1, <2>3 DEF CostsOf
    <3> QED BY <1>5, <1>10, <2>3, <3>1 DEF BudgetIsPartitioned
  <2>4. CASE d = m /\ cost # None
    <3> DEFINE g == CostsOf(Children(m))
               h == CostsOf(Children(m))'
    <3>1. DOMAIN h = DOMAIN g \cup {n} /\ h[n] = cost /\ \A c \in DOMAIN g : h[c] = g[c]
      BY <1>4, <1>5, <1>8, <2>1, <2>4 DEF CostsOf
    <3>2. /\ IsFiniteSet(DOMAIN g) /\ DOMAIN g \subseteq DOMAIN missions
          /\ \A c \in DOMAIN g : g[c] \in Nat
      BY CostsTyped
    <3>3. cost \in Nat
      BY <2>4, SubAssumption
    <3>4. SumFunction(g) + cost <= missions[m].cost
      BY <1>1, <1>5, <1>10, <2>4 DEF Affords, SiblingCost
    <3> HIDE DEF g, h
    <3>5. SumFunction(h) = SumFunction(g) + cost
      BY <1>5, <3>1, <3>2, <3>3, CostAdds
    <3> QED BY <1>5, <2>4, <3>4, <3>5 DEF h
  <2> QED BY <1>5, <2>2, <2>3, <2>4
<1>11. BudgetIsPartitioned'
  BY <1>10 DEF BudgetIsPartitioned
<1>12. \A c \in Children(Root) : c \in DOMAIN missions
  BY DEF Children
<1>13. /\ Children(Root) \subseteq Children(Root)'
       /\ \A c \in Children(Root)' : c \in Children(Root) \/ c = n
  <2>1. Root \in DOMAIN missions' /\ Root # n
    BY <1>2, <1>5
  <2>2. Children(Root)' = Children(Root) \/ Children(Root)' = Children(Root) \cup {n}
    BY <1>8, <2>1
  <2> QED BY <2>2
<1> QED BY <1>4, <1>5, <1>7, <1>9, <1>11, <1>12, <1>13

-----------------------------------------------------------------------------
(* The invariant                                                           *)

Counted ==
    /\ calls \in 0 .. MaxCalls /\ faults \in 0 .. MaxFaults
    /\ cancelled \in 0 .. calls

Carries(op, key) == job[Service] # None /\ job[Service].op = op /\ job[Service].step = key

\* The service is about to save the result of a child, which has it already.
ServiceFits ==
    job[Service] # None =>
        \E c \in Children(Root) :
            /\ missions[c].step = job[Service].step
            /\ missions[c].status = "COMPLETED" <=> job[Service].op = "succeed"
            /\ missions[c].status \in {"COMPLETED", "FAILED", "BLOCKED"}

Reflected(key) ==
    key \in InPlan(plan) => plan.steps[key].status \in Closed \/ key \in asked

\* Until the process dies, the result of a child is in the plan or on its way, or another
\* child with its step has another.
ResultsFit ==
    ~astray /\ faults = 0 =>
        \A c \in Children(Root) :
            missions[c].status = "COMPLETED" =>
                \/ Reflected(missions[c].step)
                \/ Carries("succeed", missions[c].step)
                \/ Disputed(missions[c].step)

SubInv ==
    /\ PlanInv /\ (faults = 0 => Whole)
    /\ Filed /\ Rooted /\ BudgetIsPartitioned
    /\ Counted
    /\ ServiceFits /\ ResultsFit

\* The new status of missions.
Restatus(f) ==
    /\ DOMAIN f = DOMAIN missions /\ f = [c \in DOMAIN f |-> f[c]]
    /\ \A c \in DOMAIN missions : \E status \in MissionStatuses :
          f[c] = [missions[c] EXCEPT !.status = status]

LEMMA AbortedRestatus ==
    ASSUME Filed, NEW S
    PROVE  /\ Restatus(Aborted(S))
           /\ \A c \in DOMAIN missions :
                Aborted(S)[c].status = IF c \in S THEN "ABORTED" ELSE missions[c].status
<1>1. \A c \in DOMAIN missions : missions[c] \in Records
  BY FileTyped
<1>2. ASSUME NEW c \in DOMAIN missions
      PROVE  /\ Aborted(S)[c].status = IF c \in S THEN "ABORTED" ELSE missions[c].status
             /\ \E status \in MissionStatuses :
                   Aborted(S)[c] = [missions[c] EXCEPT !.status = status]
  <2>1. CASE c \in S
    BY <1>1, <2>1 DEF Aborted, MissionStatuses, Records
  <2>2. CASE c \notin S
    <3>1. Aborted(S)[c] = missions[c]
      BY <2>2 DEF Aborted
    <3>2. missions[c].status \in MissionStatuses
      BY <1>1 DEF Records
    <3>3. missions[c] = [missions[c] EXCEPT !.status = missions[c].status]
      BY <1>1 DEF Records
    <3> QED BY <2>2, <3>1, <3>2, <3>3
  <2> QED BY <2>1, <2>2
<1>3. /\ DOMAIN Aborted(S) = DOMAIN missions
      /\ Aborted(S) = [c \in DOMAIN Aborted(S) |-> Aborted(S)[c]]
  BY DEF Aborted
<1> QED BY <1>2, <1>3 DEF Restatus

LEMMA OneRestatus ==
    ASSUME Filed, NEW c \in DOMAIN missions, NEW status \in MissionStatuses
    PROVE  LET f == [missions EXCEPT ![c].status = status]
           IN  /\ Restatus(f) /\ f[c].status = status
               /\ \A d \in DOMAIN missions \ {c} : f[d] = missions[d]
<1> DEFINE f == [missions EXCEPT ![c].status = status]
<1>1. \A d \in DOMAIN missions : missions[d] \in Records
  BY FileTyped
<1>2. /\ DOMAIN f = DOMAIN missions /\ f = [d \in DOMAIN f |-> f[d]]
      /\ f[c] = [missions[c] EXCEPT !.status = status]
      /\ \A d \in DOMAIN missions \ {c} : f[d] = missions[d]
  OBVIOUS
<1> HIDE DEF f
<1>3. f[c].status = status
  BY <1>1, <1>2, StatusTyped
<1>4. ASSUME NEW d \in DOMAIN missions \ {c}
      PROVE  \E s \in MissionStatuses : f[d] = [missions[d] EXCEPT !.status = s]
  <2>1. missions[d].status \in MissionStatuses
    BY <1>1 DEF Records
  <2>2. missions[d] = [missions[d] EXCEPT !.status = missions[d].status]
    BY <1>1 DEF Records
  <2> QED BY <1>2, <2>1, <2>2
<1>5. Restatus(f)
  BY <1>2, <1>4 DEF Restatus
<1> QED BY <1>2, <1>3, <1>5 DEF f

LEMMA RestatusKeeps ==
    ASSUME Filed, Rooted, BudgetIsPartitioned, Restatus(missions')
    PROVE  /\ Filed' /\ Rooted' /\ BudgetIsPartitioned'
           /\ Children(Root)' = Children(Root) /\ DOMAIN missions' = DOMAIN missions
           /\ \A c \in DOMAIN missions : missions'[c].step = missions[c].step
<1>1. SameTree(missions')
  BY OnlyStatus DEF Restatus
<1> QED BY <1>1, SameTreeKeeps DEF SameTree

-----------------------------------------------------------------------------
(* The steps                                                               *)

\* Reads and drops leave the results where they are.
LEMMA PlanReads ==
    ASSUME SubInv, NEW w \in Writers \ {Service}, Begin(w) \/ BeginRepair(w),
           UNCHANGED <<missions, cancelled>>
    PROVE  SubInv'
<1>1. PlanMove
  <2>1. CASE Begin(w)
    BY <2>1 DEF Begin, PlanMove, ReadMove, Operations
  <2>2. CASE BeginRepair(w)
    BY <2>2 DEF BeginRepair, PlanMove, ReadMove, Operations
  <2> QED BY <2>1, <2>2
<1>2. /\ job'[Service] = job[Service] /\ UNCHANGED <<plan, closed, asked, astray, faults>>
      /\ calls < MaxCalls /\ calls' = calls + 1
  <2>1. \E j : job' = [job EXCEPT ![w] = j]
    BY DEF Begin, BeginRepair
  <2>2. DOMAIN job = Writers /\ Service \in Writers
    BY SubAssumption DEF SubInv, PlanInv, JobsFit
  <2>3. job'[Service] = job[Service]
    BY <2>1, <2>2
  <2> QED BY <2>3 DEF Begin, BeginRepair
<1>3. PlanInv' /\ (faults' = 0 => Whole')
  BY <1>1, <1>2, PlanInvStep DEF SubInv, Whole
<1>4. Filed' /\ Rooted' /\ BudgetIsPartitioned' /\ Children(Root)' = Children(Root)
  BY DEF SubInv, Filed, Rooted, BudgetIsPartitioned, CostsOf, Children
<1>5. Counted'
  BY <1>2, PlanAssumption DEF SubInv, Counted
<1>6. ServiceFits'
  BY <1>2, <1>4 DEF SubInv, ServiceFits
<1>7. ResultsFit'
  BY <1>2, <1>4 DEF SubInv, ResultsFit, Reflected, Carries, Disputed
<1> QED BY <1>3, <1>4, <1>5, <1>6, <1>7 DEF SubInv

LEMMA PlanSaved ==
    ASSUME SubInv, NEW w \in Writers, Save(w), UNCHANGED <<missions, cancelled>>
    PROVE  SubInv'
<1>1. PlanMove
  BY DEF Save, PlanMove, SaveMove
<1>2. PICK o \in Outcomes(job[w]) :
         /\ plan' = IF o.version >= plan.version THEN o ELSE plan
         /\ Remember(job[w], o)
  BY DEF Save
<1>3. /\ job[w] # None /\ UNCHANGED <<calls, faults>>
      /\ job' = [v \in Writers |-> IF v = w \/ job[v] = None THEN None
                                   ELSE [job[v] EXCEPT !.stale = TRUE]]
  BY DEF Save
<1>4. /\ IsJob(job[w]) /\ OutcomeOf(job[w], o)
      /\ w = Service <=> job[w].op \in {"succeed", "fail"}
  BY <1>3, OutcomesFit DEF SubInv, PlanInv, JobsFit, JobFits
<1>5. PlanInv'
  BY <1>1, PlanInvStep DEF SubInv
<1>6. faults' = 0 => Whole'
  BY <1>2, <1>3, <1>4 DEF SubInv, Whole, OutcomeOf
<1>7. Filed' /\ Rooted' /\ BudgetIsPartitioned' /\ Children(Root)' = Children(Root)
  BY DEF SubInv, Filed, Rooted, BudgetIsPartitioned, CostsOf, Children
<1>8. Counted'
  BY <1>3 DEF SubInv, Counted
<1>9. job'[Service] # None =>
        /\ w # Service /\ job[Service] # None
        /\ job'[Service].op = job[Service].op /\ job'[Service].step = job[Service].step
  <2>1. job[Service] # None => IsJob(job[Service])
    BY SubAssumption DEF SubInv, PlanInv, JobsFit, JobFits
  <2>2. SUFFICES ASSUME job'[Service] # None
                 PROVE  /\ w # Service /\ job[Service] # None
                        /\ job'[Service].op = job[Service].op
                        /\ job'[Service].step = job[Service].step
    OBVIOUS
  <2>3. /\ w # Service /\ job[Service] # None
        /\ job'[Service] = [job[Service] EXCEPT !.stale = TRUE]
    BY <1>3, <2>2, SubAssumption
  <2> QED BY <2>1, <2>3 DEF IsJob
<1>10. ServiceFits'
  BY <1>7, <1>9 DEF SubInv, ServiceFits
<1>11. ResultsFit'
  <2> SUFFICES ASSUME ~astray', faults' = 0, NEW c \in Children(Root),
                      missions[c].status = "COMPLETED"
               PROVE  \/ Reflected(missions[c].step)' \/ Carries("succeed", missions[c].step)'
                      \/ Disputed(missions[c].step)'
    BY <1>7 DEF ResultsFit
  <2> DEFINE k == missions[c].step
             j == job[w]
  <2>1. ~astray /\ ~job[w].stale
    BY <1>2, RememberTells
  <2>2. /\ Whole /\ job[w].plan = plan
        /\ Reflected(k) \/ Carries("succeed", k) \/ Disputed(k)
    BY <1>3, <2>1 DEF SubInv, PlanInv, JobsFit, JobFits, ResultsFit
  <2>3. IsJob(j) /\ IsPlan(plan) /\ plan.version \in Int /\ j.plan = plan
    BY <1>4, <2>2, InPlanTyped DEF SubInv, PlanInv, PlanFits
  <2>4. plan' = o
    BY <1>2, <1>4, <2>2, <2>3 DEF OutcomeOf
  <2>5. CASE Carries("succeed", k) /\ w # Service
    <3>1. IsJob(job[Service]) /\ job'[Service] = [job[Service] EXCEPT !.stale = TRUE]
      BY <1>3, <2>5, SubAssumption DEF Carries, SubInv, PlanInv, JobsFit, JobFits
    <3>2. /\ IsJob(job'[Service]) /\ job'[Service].op = job[Service].op
          /\ job'[Service].step = job[Service].step
      BY <3>1 DEF IsJob
    <3>3. Carries("succeed", k)'
      BY <2>5, <3>2, PlanAssumption DEF Carries
    <3> QED BY <3>3
  <2>6. CASE Carries("succeed", k) /\ w = Service
    <3>1. /\ j.op = "succeed" /\ j.step = k
      BY <2>6 DEF Carries
    <3>2. k \in InPlan(o) => o.steps[k].status \in Closed
      BY <1>4, <3>1 DEF OutcomeOf
    <3> QED BY <2>4, <3>2 DEF Reflected
  <2>7. CASE Reflected(k) /\ ~Disputed(k)
    <3> SUFFICES ASSUME k \in InPlan(o), o.steps[k].status \notin Closed
                 PROVE  k \in asked'
      BY <2>4 DEF Reflected
    <3>1. CASE /\ j.op \in {"complete", "deny", "succeed"}
               /\ Keeps(plan, o, {j.step})
               /\ j.step \in InPlan(o) => o.steps[j.step].status \in Closed
      <4>1. k # j.step
        BY <3>1
      <4>2. k \in asked
        BY <2>7, <3>1, <4>1 DEF Reflected, Keeps
      <4>3. asked' = asked \ {j.step}
        BY <1>2, <3>1, RememberTells
      <4> QED BY <4>1, <4>2, <4>3
    <3>2. CASE j.op = "fail" /\ Keeps(plan, o, {j.step})
      <4>1. w = Service
        BY <1>4, <3>2
      <4>2. PICK d \in Children(Root) :
              missions[d].step = j.step /\ missions[d].status \in {"FAILED", "BLOCKED"}
        BY <1>3, <3>2, <4>1 DEF SubInv, ServiceFits
      <4>3. k # j.step
        BY <2>7, <4>2 DEF Disputed
      <4>4. k \in asked
        BY <2>7, <3>2, <4>3 DEF Reflected, Keeps
      <4>5. asked' = asked \ {j.step}
        BY <1>2, <3>2, RememberTells
      <4> QED BY <4>3, <4>4, <4>5
    <3>3. CASE j.op \in {"exhaust", "retry", "repair"} /\ Keeps(plan, o, {})
      <4>1. k \in asked
        BY <2>7, <3>3 DEF Reflected, Keeps
      <4>2. asked \subseteq asked'
        BY <1>2, <3>3, RememberTells
      <4> QED BY <4>1, <4>2
    <3>4. CASE /\ j.op \in {"retry", "repair"}
               /\ o.version = plan.version + 1 /\ Keeps(plan, o, Named(j))
      <4>1. asked' = asked \cup Named(j)
        BY <1>2, <2>3, <3>4, RememberTells
      <4>2. k \in asked \/ k \in Named(j)
        BY <2>7, <3>4 DEF Reflected, Keeps
      <4> QED BY <4>1, <4>2
    <3> QED BY <1>4, <2>3, <3>1, <3>2, <3>3, <3>4 DEF OutcomeOf
  <2>8. CASE Disputed(k)
    BY <1>7, <2>8 DEF Disputed
  <2> QED BY <2>2, <2>5, <2>6, <2>7, <2>8
<1> QED BY <1>5, <1>6, <1>7, <1>8, <1>10, <1>11 DEF SubInv

LEMMA PlanDropped ==
    ASSUME SubInv, NEW w \in Writers, Reject(w) \/ SaveCutShort(w),
           UNCHANGED <<missions, cancelled>>
    PROVE  SubInv'
<1>1. PlanMove
  <2>1. CASE Reject(w)
    <3>1. DropMove
      BY <2>1 DEF Reject, DropMove, SubInv, PlanInv, JobsFit
    <3> QED BY <3>1 DEF PlanMove
  <2>2. CASE SaveCutShort(w)
    BY <2>2 DEF SaveCutShort, PlanMove, CutMove
  <2> QED BY <2>1, <2>2
<1>2. Filed' /\ Rooted' /\ BudgetIsPartitioned' /\ Children(Root)' = Children(Root)
  BY DEF SubInv, Filed, Rooted, BudgetIsPartitioned, CostsOf, Children
<1>3. /\ calls' = calls /\ (faults' = faults \/ (faults' = faults + 1 /\ faults < MaxFaults))
      /\ SaveCutShort(w) => faults' = faults + 1
      /\ Reject(w) => UNCHANGED <<plan, closed, asked, astray, faults>>
      /\ job' = [job EXCEPT ![w] = None]
  BY DEF Reject, SaveCutShort
<1>4. Counted'
  BY <1>3, PlanAssumption DEF SubInv, Counted
<1>5. DOMAIN job = Writers /\ Service \in Writers
  BY SubAssumption DEF SubInv, PlanInv, JobsFit
<1>6. job'[Service] = None \/ (job'[Service] = job[Service] /\ w # Service)
  BY <1>3, <1>5
<1>7. ServiceFits'
  BY <1>2, <1>6 DEF SubInv, ServiceFits
<1>8. Reject(w) => w # Service
  <2>1. ASSUME Reject(Service) PROVE FALSE
    <3>1. job[Service] # None /\ Outcomes(job[Service]) = {}
      BY <2>1 DEF Reject
    <3>2. job[Service].op \in {"succeed", "fail"}
      BY <1>5, <3>1 DEF SubInv, PlanInv, JobsFit, JobFits
    <3>3. CASE job[Service].op = "succeed"
      BY <3>1, <3>3 DEF Outcomes
    <3>4. CASE job[Service].op = "fail"
      BY <3>1, <3>4 DEF Outcomes
    <3> QED BY <3>2, <3>3, <3>4
  <2> QED BY <2>1
<1>9. faults' = 0 => Reject(w)
  BY <1>3 DEF SubInv, Counted
<1>10. (faults' = 0 => Whole') /\ ResultsFit'
  <2> SUFFICES ASSUME faults' = 0 PROVE Whole' /\ ResultsFit'
    BY DEF ResultsFit
  <2>1. /\ UNCHANGED <<plan, closed, asked, astray, faults>>
        /\ job'[Service] = job[Service]
    BY <1>3, <1>5, <1>8, <1>9
  <2> QED BY <1>2, <2>1 DEF SubInv, Whole, ResultsFit, Reflected, Carries, Disputed
<1>11. PlanInv'
  BY <1>1, PlanInvStep DEF SubInv
<1> QED BY <1>2, <1>4, <1>7, <1>10, <1>11 DEF SubInv

\* What only the file of missions and the calls change in.
LEMMA MissionsMove ==
    ASSUME SubInv, UNCHANGED <<plan, job, faults, closed, asked, astray>>
    PROVE  PlanInv' /\ (faults' = 0 => Whole')
<1>1. DropMove
  BY DEF DropMove, SubInv, PlanInv, JobsFit
<1> QED BY <1>1, PlanInvStep DEF SubInv, PlanMove, Whole

LEMMA Creates ==
    ASSUME SubInv, NEW m \in DOMAIN missions, NEW key \in Steps, NEW cost \in Costs,
           CreateSubMission(m, key, cost)
    PROVE  SubInv'
<1>1. /\ UNCHANGED <<plan, job, faults, closed, asked, astray, cancelled>>
      /\ calls < MaxCalls /\ calls' = calls + 1 /\ job[Service] = None
  BY DEF CreateSubMission, LockIsFree
<1>2. PlanInv' /\ (faults' = 0 => Whole')
  BY <1>1, MissionsMove
<1>3. /\ Filed' /\ Rooted' /\ BudgetIsPartitioned'
      /\ Children(Root) \subseteq Children(Root)'
      /\ \A c \in Children(Root) : missions'[c] = missions[c]
      /\ \A c \in Children(Root)' : missions'[c].status = "COMPLETED" =>
            c \in Children(Root) /\ missions'[c] = missions[c]
  BY CreateKeeps DEF SubInv
<1>4. Counted'
  BY <1>1, PlanAssumption DEF SubInv, Counted
<1>5. ServiceFits'
  BY <1>1 DEF ServiceFits
<1>6. ResultsFit'
  <2> SUFFICES ASSUME ~astray', faults' = 0, NEW c \in Children(Root)',
                      missions'[c].status = "COMPLETED"
               PROVE  \/ Reflected(missions[c].step)' \/ Carries("succeed", missions[c].step)'
                      \/ Disputed(missions[c].step)'
    BY DEF ResultsFit
  <2>1. c \in Children(Root) /\ missions'[c] = missions[c] /\ ~astray /\ faults = 0
    BY <1>1, <1>3
  <2>2. Reflected(missions[c].step) \/ Disputed(missions[c].step)
    BY <1>1, <2>1 DEF SubInv, ResultsFit, Carries
  <2> QED BY <1>1, <1>3, <2>1, <2>2 DEF Reflected, Disputed
<1> QED BY <1>2, <1>3, <1>4, <1>5, <1>6 DEF SubInv

\* No child is completed, none that was reported otherwise comes back, and none changes
\* while its result is on its way.
LEMMA OthersRestatus ==
    ASSUME SubInv, Restatus(missions'),
           \A c \in Children(Root) :
              /\ missions'[c].status = "COMPLETED" => missions[c].status = "COMPLETED"
              /\ missions[c].status \in {"FAILED", "BLOCKED", "ABORTED"} =>
                    missions'[c].status \in {"FAILED", "BLOCKED", "ABORTED"}
              /\ /\ job[Service] # None
                 /\ missions[c].status \in {"COMPLETED", "FAILED", "BLOCKED"}
                 => missions'[c].status = missions[c].status,
           UNCHANGED <<plan, job, faults, closed, asked, astray>>
    PROVE  /\ PlanInv' /\ (faults' = 0 => Whole')
           /\ Filed' /\ Rooted' /\ BudgetIsPartitioned'
           /\ ServiceFits' /\ ResultsFit'
<1>1. PlanInv' /\ (faults' = 0 => Whole')
  BY MissionsMove
<1>2. /\ Filed' /\ Rooted' /\ BudgetIsPartitioned' /\ Children(Root)' = Children(Root)
      /\ \A c \in DOMAIN missions : missions'[c].step = missions[c].step
  BY RestatusKeeps DEF SubInv
<1>3. \A c \in Children(Root) : c \in DOMAIN missions
  BY DEF Children
<1>4. ServiceFits'
  <2> SUFFICES ASSUME job[Service] # None
               PROVE  ServiceFits'
    BY DEF ServiceFits
  <2>1. PICK c \in Children(Root) :
            /\ missions[c].step = job[Service].step
            /\ missions[c].status = "COMPLETED" <=> job[Service].op = "succeed"
            /\ missions[c].status \in {"COMPLETED", "FAILED", "BLOCKED"}
    BY DEF SubInv, ServiceFits
  <2>2. missions'[c].status = missions[c].status
    BY <2>1
  <2> QED BY <1>2, <1>3, <2>1, <2>2 DEF ServiceFits
<1>5. ResultsFit'
  <2> SUFFICES ASSUME ~astray, faults = 0, NEW c \in Children(Root),
                      missions'[c].status = "COMPLETED"
               PROVE  \/ Reflected(missions[c].step)' \/ Carries("succeed", missions[c].step)'
                      \/ Disputed(missions[c].step)'
    BY <1>2 DEF ResultsFit
  <2>1. missions[c].status = "COMPLETED" /\ missions'[c].step = missions[c].step
    BY <1>2, <1>3
  <2>2. \/ Reflected(missions[c].step) \/ Carries("succeed", missions[c].step)
        \/ Disputed(missions[c].step)
    BY <2>1 DEF SubInv, ResultsFit
  <2>3. ASSUME Disputed(missions[c].step) PROVE Disputed(missions[c].step)'
    BY <1>2, <1>3, <2>1, <2>3 DEF Disputed
  <2> QED BY <2>1, <2>2, <2>3 DEF Reflected, Carries
<1> QED BY <1>1, <1>2, <1>4, <1>5

LEMMA Cancels ==
    ASSUME SubInv, NEW m \in DOMAIN missions, CancelHierarchy(m)
    PROVE  SubInv'
<1>1. /\ missions' = Aborted(Cancellable(m))
      /\ UNCHANGED <<plan, job, faults, closed, asked, astray>>
      /\ calls < MaxCalls /\ calls' = calls + 1 /\ job[Service] = None
      /\ cancelled' = cancelled \/ cancelled' = cancelled + 1
  BY DEF CancelHierarchy, LockIsFree
<1>2. /\ Restatus(missions')
      /\ \A c \in DOMAIN missions :
            missions'[c].status = missions[c].status \/ missions'[c].status = "ABORTED"
  BY <1>1, AbortedRestatus DEF SubInv
<1>3. \A c \in Children(Root) : c \in DOMAIN missions
  BY DEF Children
<1>4. /\ PlanInv' /\ (faults' = 0 => Whole')
      /\ Filed' /\ Rooted' /\ BudgetIsPartitioned'
      /\ ServiceFits' /\ ResultsFit'
  BY <1>1, <1>2, <1>3, OthersRestatus
<1>5. Counted'
  BY <1>1, PlanAssumption DEF SubInv, Counted
<1> QED BY <1>4, <1>5 DEF SubInv

LEMMA RunsOrPauses ==
    ASSUME SubInv, NEW m \in DOMAIN missions, RunOrPause(m)
    PROVE  SubInv'
<1>1. /\ missions[m].status \in {"PENDING", "RUNNING", "PAUSED"}
      /\ UNCHANGED <<plan, job, faults, closed, asked, astray, cancelled>>
      /\ calls < MaxCalls /\ calls' = calls + 1
  BY DEF RunOrPause
<1>2. PICK status \in {"RUNNING", "PAUSED"} :
         missions' = [missions EXCEPT ![m].status = status]
  BY DEF RunOrPause
<1>3. status \in MissionStatuses
  BY DEF MissionStatuses
<1>4. /\ Restatus(missions') /\ missions'[m].status = status
      /\ \A c \in DOMAIN missions \ {m} : missions'[c] = missions[c]
  BY <1>2, <1>3, OneRestatus DEF SubInv
<1>5. \A c \in Children(Root) : c \in DOMAIN missions
  BY DEF Children
<1>6. /\ PlanInv' /\ (faults' = 0 => Whole')
      /\ Filed' /\ Rooted' /\ BudgetIsPartitioned'
      /\ ServiceFits' /\ ResultsFit'
  BY <1>1, <1>2, <1>4, <1>5, OthersRestatus
<1>7. Counted'
  BY <1>1, PlanAssumption DEF SubInv, Counted
<1> QED BY <1>6, <1>7 DEF SubInv

\* The process dies, between two saves of a cancellation or elsewhere.
LEMMA Dies ==
    ASSUME SubInv, faults < MaxFaults, faults' = faults + 1,
           job' = [w \in Writers |-> None], UNCHANGED <<plan, closed, asked, astray, cancelled>>,
           calls' = calls \/ (calls < MaxCalls /\ calls' = calls + 1),
           missions' = missions \/ \E S : missions' = Aborted(S)
    PROVE  SubInv'
<1>1. PlanInv'
  <2>1. DropMove
    BY DEF DropMove
  <2> QED BY <2>1, PlanInvStep DEF SubInv, PlanMove
<1>2. faults' # 0 /\ Counted'
  BY PlanAssumption DEF SubInv, Counted
<1>3. Filed' /\ Rooted' /\ BudgetIsPartitioned'
  <2>1. CASE missions' = missions
    BY <2>1 DEF SubInv, Filed, Rooted, BudgetIsPartitioned, CostsOf, Children
  <2>2. CASE \E S : missions' = Aborted(S)
    BY <2>2, AbortedRestatus, RestatusKeeps DEF SubInv
  <2> QED BY <2>1, <2>2
<1>4. ServiceFits'
  BY SubAssumption DEF ServiceFits
<1>5. ResultsFit'
  BY <1>2 DEF ResultsFit
<1> QED BY <1>1, <1>2, <1>3, <1>4, <1>5 DEF SubInv

LEMMA Propagates ==
    ASSUME SubInv, NEW m \in DOMAIN missions, NEW status \in {"COMPLETED", "FAILED", "BLOCKED"},
           PropagateResult(m, status)
    PROVE  SubInv'
<1> DEFINE key == missions[m].step
           op == IF status = "COMPLETED" THEN "succeed" ELSE "fail"
           told == missions[m].parent = Root /\ Whole /\ key \in InPlan(plan)
<1>1. /\ job[Service] = None /\ calls < MaxCalls /\ calls' = calls + 1
      /\ UNCHANGED <<plan, faults, closed, asked, astray, cancelled>>
      /\ missions' = [missions EXCEPT ![m].status = status]
      /\ job' = IF told THEN [job EXCEPT ![Service] = JobOf(op, key, None)] ELSE job
  BY DEF PropagateResult, LockIsFree, StepIsThere
<1>2. /\ DOMAIN job = Writers /\ Service \in Writers
      /\ IsPlan(plan) /\ InPlan(plan) \subseteq Steps /\ PlanFits
  BY SubAssumption, InPlanTyped DEF SubInv, PlanInv, JobsFit, PlanFits
<1>3. status \in MissionStatuses
  BY DEF MissionStatuses
<1>4. /\ Restatus(missions') /\ missions'[m].status = status
      /\ \A c \in DOMAIN missions \ {m} : missions'[c] = missions[c]
  BY <1>1, <1>3, OneRestatus DEF SubInv
<1>5. /\ Filed' /\ Rooted' /\ BudgetIsPartitioned' /\ Children(Root)' = Children(Root)
      /\ \A c \in DOMAIN missions : missions'[c].step = missions[c].step
  BY <1>4, RestatusKeeps DEF SubInv
<1>6. Counted'
  BY <1>1, PlanAssumption DEF SubInv, Counted
<1>7. faults' = 0 => Whole'
  BY <1>1 DEF SubInv, Whole
<1>8. \A c \in Children(Root) : c \in DOMAIN missions
  BY DEF Children
<1>9. ASSUME told
      PROVE  /\ job'[Service] # None /\ job'[Service].op = op /\ job'[Service].step = key
             /\ m \in Children(Root) /\ PlanMove
  <2>1. op \in Operations /\ key \in Steps /\ op \in {"succeed", "fail"} /\ op # "repair"
    BY <1>2, <1>9 DEF Operations
  <2>2. JobOf(op, key, None) # None
    <3>1. PlanFits /\ op \in Operations /\ key \in Steps /\ None \in Repairs \cup {None}
      BY <1>2, <2>1
    <3> HIDE DEF op, key
    <3> QED BY ONLY <3>1, JobOfTyped
  <2>3. JobOf(op, key, None).op = op /\ JobOf(op, key, None).step = key
    BY DEF JobOf
  <2>4. job' = [job EXCEPT ![Service] = JobOf(op, key, None)]
    BY <1>1, <1>9
  <2> HIDE DEF op, key
  <2>5. ReadMove(Service)
    BY <1>1, <1>9, <2>1, <2>4 DEF ReadMove
  <2>6. m \in Children(Root)
    BY <1>9 DEF Children
  <2> QED BY <1>2, <2>2, <2>3, <2>4, <2>5, <2>6 DEF PlanMove
<1>10. ASSUME ~told
       PROVE  job' = job /\ PlanMove
  <2>1. DropMove
    BY <1>1, <1>2, <1>10 DEF DropMove
  <2> QED BY <1>1, <1>10, <2>1 DEF PlanMove
<1>11. PlanInv'
  BY <1>9, <1>10, PlanInvStep DEF SubInv
<1>12. ServiceFits'
  <2>1. CASE told
    <3>1. missions'[m].step = key /\ missions'[m].status = status
      BY <1>4, <1>5
    <3> QED BY <1>5, <1>9, <2>1, <3>1 DEF ServiceFits
  <2>2. CASE ~told
    BY <1>1, <1>10, <2>2 DEF ServiceFits
  <2> QED BY <2>1, <2>2
<1>13. ResultsFit'
  <2> SUFFICES ASSUME ~astray, faults = 0, NEW c \in Children(Root),
                      missions'[c].status = "COMPLETED"
               PROVE  \/ Reflected(missions[c].step)' \/ Carries("succeed", missions[c].step)'
                      \/ Disputed(missions[c].step)'
    BY <1>1, <1>5 DEF ResultsFit
  <2>1. CASE c # m
    <3>1. missions'[c] = missions[c]
      BY <1>4, <1>8, <2>1
    <3> DEFINE k == missions[c].step
    <3>2. Reflected(k) \/ Disputed(k)
      BY <1>1, <3>1 DEF SubInv, ResultsFit, Carries
    <3>3. CASE Reflected(k)
      BY <1>1, <3>1, <3>3 DEF Reflected
    <3>4. CASE Disputed(k)
      <4>1. PICK d \in Children(Root) :
              missions[d].step = k /\ missions[d].status \in {"FAILED", "BLOCKED", "ABORTED"}
        BY <3>4 DEF Disputed
      <4>2. CASE d # m \/ status # "COMPLETED"
        <5>1. /\ d \in Children(Root)' /\ missions'[d].step = k /\ missions'[c].step = k
              /\ missions'[d].status \in {"FAILED", "BLOCKED", "ABORTED"}
          BY <1>4, <1>5, <1>8, <4>1, <4>2
        <5> QED BY <5>1 DEF Disputed
      <4>3. CASE d = m /\ status = "COMPLETED"
        <5>1. missions[m].parent = Root /\ key = k /\ Whole /\ missions'[c].step = k
          BY <1>5, <1>8, <4>1, <4>3 DEF Children, SubInv
        <5>2. CASE k \in InPlan(plan)
          BY <1>9, <4>3, <5>1, <5>2 DEF Carries
        <5>3. CASE k \notin InPlan(plan)
          BY <1>1, <5>1, <5>3 DEF Reflected
        <5> QED BY <5>2, <5>3
      <4> QED BY <4>2, <4>3
    <3> QED BY <3>2, <3>3, <3>4
  <2>2. CASE c = m
    <3>1. missions'[m].step = key /\ status = "COMPLETED" /\ missions[m].parent = Root /\ Whole
      BY <1>4, <1>5, <2>2 DEF Children, SubInv
    <3>2. CASE key \in InPlan(plan)
      BY <1>9, <2>2, <3>1, <3>2 DEF Carries
    <3>3. CASE key \notin InPlan(plan)
      BY <1>1, <2>2, <3>1, <3>3 DEF Reflected
    <3> QED BY <3>2, <3>3
  <2> QED BY <2>1, <2>2
<1> QED BY <1>5, <1>6, <1>7, <1>11, <1>12, <1>13 DEF SubInv

LEMMA SubInvStep ==
    ASSUME SubInv, [SubNext]_subVars
    PROVE  SubInv'
<1>1. CASE PlanStep
  <2> USE <1>1 DEF PlanStep
  <2>1. ASSUME NEW w \in Writers \ {Service}, Begin(w) \/ BeginRepair(w) PROVE SubInv'
    BY <2>1, PlanReads
  <2>2. ASSUME NEW w \in Writers, Save(w) PROVE SubInv'
    BY <2>2, PlanSaved
  <2>3. ASSUME NEW w \in Writers, Reject(w) \/ SaveCutShort(w) PROVE SubInv'
    BY <2>3, PlanDropped
  <2> QED BY <2>1, <2>2, <2>3
<1>2. ASSUME NEW m \in DOMAIN missions, NEW key \in Steps, NEW cost \in Costs,
             CreateSubMission(m, key, cost)
      PROVE  SubInv'
  BY <1>2, Creates
<1>3. ASSUME NEW m \in DOMAIN missions, NEW status \in {"COMPLETED", "FAILED", "BLOCKED"},
             PropagateResult(m, status)
      PROVE  SubInv'
  BY <1>3, Propagates
<1>4. ASSUME NEW m \in DOMAIN missions, CancelHierarchy(m) PROVE SubInv'
  BY <1>4, Cancels
<1>5. ASSUME NEW m \in DOMAIN missions, CancelCutShort(m) PROVE SubInv'
  <2>1. /\ faults < MaxFaults /\ faults' = faults + 1 /\ job' = [w \in Writers |-> None]
        /\ UNCHANGED <<plan, closed, asked, astray, cancelled>>
        /\ calls < MaxCalls /\ calls' = calls + 1
        /\ \E S : missions' = Aborted(S)
    BY <1>5 DEF CancelCutShort
  <2> QED BY <2>1, Dies
<1>6. ASSUME NEW m \in DOMAIN missions, RunOrPause(m) PROVE SubInv'
  BY <1>6, RunsOrPauses
<1>7. CASE Crash
  <2>1. /\ faults < MaxFaults /\ faults' = faults + 1 /\ job' = [w \in Writers |-> None]
        /\ UNCHANGED <<plan, calls, closed, asked, astray, missions, cancelled>>
    BY <1>7 DEF Crash
  <2> QED BY <2>1, Dies
<1>8. CASE UNCHANGED subVars
  <2>1. UNCHANGED <<plan, job, calls, faults, closed, asked, astray, missions, cancelled>>
    BY <1>8 DEF subVars, planVars
  <2>2. PlanInv' /\ (faults' = 0 => Whole')
    BY <2>1, MissionsMove
  <2>3. Filed' /\ Rooted' /\ BudgetIsPartitioned' /\ Children(Root)' = Children(Root)
    BY <2>1 DEF SubInv, Filed, Rooted, BudgetIsPartitioned, CostsOf, Children
  <2>4. Counted' /\ ServiceFits'
    BY <2>1, <2>3 DEF SubInv, Counted, ServiceFits
  <2>5. ResultsFit'
    BY <2>1, <2>3 DEF SubInv, ResultsFit, Reflected, Carries, Disputed
  <2> QED BY <2>2, <2>3, <2>4, <2>5 DEF SubInv
<1> QED BY <1>1, <1>2, <1>3, <1>4, <1>5, <1>6, <1>7, <1>8 DEF SubNext

LEMMA SubInvInit ==
    ASSUME SubInit
    PROVE  SubInv
<1>1. /\ Valid(CreatedPlan) /\ plan = CreatedPlan
      /\ job = [w \in Writers |-> None] /\ calls = 0 /\ faults = 0
      /\ closed = {} /\ asked = {} /\ astray = FALSE
  BY DEF SubInit, PlanInit
<1>2. IsPlan(plan) /\ Whole
  <2> DEFINE deps == IF Created.deps # None /\ Created.deps # {} THEN Created.deps
                     ELSE EdgesOf(Created)
             steps == NewSteps(Created)
             p == [version |-> 1, count |-> 0, status |-> "VALIDATED", deps |-> deps,
                   steps |-> steps]
  <2>1. /\ DOMAIN Created.needs \in SUBSET Steps /\ steps \in [DOMAIN Created.needs -> StepRecords]
        /\ deps \in SUBSET (Steps \X Steps)
    BY NewStepsTyped, PlanAssumption
  <2>2. plan = Refreshed(p)
    BY <1>1 DEF CreatedPlan
  <2> HIDE DEF steps, deps
  <2>3. p \in PlansOver(DOMAIN Created.needs) /\ p.count = p.version - 1
    BY <2>1, PlanAssumption DEF PlansOver, PlanStatuses
  <2>4. IsPlan(p) /\ p.status = "VALIDATED"
    BY <2>1, <2>3 DEF IsPlan
  <2> HIDE DEF p
  <2> QED BY <2>2, <2>4, RefreshChanges DEF Whole
<1>3. Sound(plan)
  BY <1>1, <1>2, OrderedPlansHaveNoCircle DEF Valid, Sound
<1>4. PlanInv
  BY <1>1, <1>2, <1>3 DEF PlanInv, PlanFits, JobsFit, JobFits, ClosedIn
<1>5. /\ missions = <<[parent |-> None, root |-> None, depth |-> 0, status |-> "RUNNING",
                       step |-> None, cost |-> RootCost]>>
      /\ cancelled = 0
  BY DEF SubInit
<1>6. DOMAIN missions = {Root} /\ missions[Root].parent = None /\ missions[Root].root = None
  BY <1>5 DEF Root
<1>7. Filed
  BY <1>5, SubAssumption DEF Filed, Records, MissionStatuses, Ids
<1>8. \A m \in DOMAIN missions : Children(m) = {}
  BY <1>6, PlanAssumption DEF Children, Root
<1>9. Rooted
  BY <1>6, <1>8 DEF Rooted
<1>10. BudgetIsPartitioned
  <2> SUFFICES ASSUME NEW m \in DOMAIN missions, missions[m].cost # None
               PROVE  SumFunction(CostsOf(Children(m))) <= missions[m].cost
    BY DEF BudgetIsPartitioned
  <2>1. DOMAIN CostsOf(Children(m)) = {}
    BY <1>8 DEF CostsOf
  <2>2. SumFunction(CostsOf(Children(m))) = 0
    BY <2>1, SumOfNone DEF SumFunction
  <2>3. missions[m].cost = RootCost
    BY <1>5, <1>6 DEF Root
  <2> QED BY <2>2, <2>3, SubAssumption
<1>11. Counted
  BY <1>1, <1>5, PlanAssumption DEF Counted
<1>12. ServiceFits /\ ResultsFit
  BY <1>1, <1>6, <1>8, SubAssumption DEF ServiceFits, ResultsFit
<1> QED BY <1>2, <1>4, <1>7, <1>9, <1>10, <1>11, <1>12 DEF SubInv

-----------------------------------------------------------------------------
(* What follows                                                            *)

\* Every state is as the invariant has it.
THEOREM SubInvariant == SubSpec => []SubInv
<1> QED BY SubInvInit, SubInvStep, PTL DEF SubSpec

\* The plan, the operations under way and the file of missions are of their types, and
\* the file stays within its depth and its length.
THEOREM SubTyped == SubSpec => []SubTypeOK
<1>1. ASSUME SubInv PROVE SubTypeOK
  <2>1. PlanTypeOK
    BY <1>1 DEF SubInv, PlanInv, PlanFits, JobsFit, JobFits, Counted, PlanTypeOK
  <2>2. \A m \in DOMAIN missions : missions[m] \in Records
    BY <1>1, FileTyped DEF SubInv
  <2>3. cancelled \in 0 .. MaxCalls
    BY <1>1, PlanAssumption DEF SubInv, Counted
  <2> QED BY <1>1, <2>1, <2>2, <2>3 DEF SubInv, Filed, SubTypeOK
<1> QED BY <1>1, SubInvariant, PTL

\* Whatever the plan is repaired with and whoever saves an older one, a step that is
\* ready is neither completed nor denied, unless a replan named it.  (mark_step_completed,
\* replan)
THEOREM NothingRedone == SubSpec => []NothingIsRedone
<1>1. ASSUME SubInv PROVE NothingIsRedone
  BY <1>1 DEF SubInv, PlanInv, PlanFits, ClosedIn, Closed, Ready, NothingIsRedone
<1> QED BY <1>1, SubInvariant, PTL

\* The steps that are not completed never all need one another: of a plan with none
\* failed or blocked, one is ready or all are completed.  (compute_step_readiness)
THEOREM PlanNotStuck == SubSpec => []PlanIsNotStuck
<1>1. ASSUME SubInv PROVE PlanIsNotStuck
  <2> SUFFICES ASSUME \A s \in InPlan(plan) :
                        plan.steps[s].status \in {"PENDING", "READY", "COMPLETED"},
                      ~AllCompleted(plan)
               PROVE  Ready(plan) # {}
    BY DEF PlanIsNotStuck
  <2> DEFINE U == {s \in InPlan(plan) : plan.steps[s].status # "COMPLETED"}
  <2>1. Sound(plan) /\ IsPlan(plan)
    BY <1>1 DEF SubInv, PlanInv, PlanFits
  <2>2. U \in SUBSET InPlan(plan) /\ U # {}
    BY DEF AllCompleted
  <2>3. PICK s \in U : Needs(plan, s) \cap U = {}
    BY <2>1, <2>2 DEF Sound, NoCircle
  <2>4. Needs(plan, s) \subseteq InPlan(plan)
    BY <2>1, <2>2 DEF Sound, WellFormed, Needs
  <2>5. s \in Ready(plan)
    BY <2>3, <2>4 DEF Ready
  <2> QED BY <2>5
<1> QED BY <1>1, SubInvariant, PTL

\* The costs that the children of a mission were given add up to no more than its own.
\* (create_sub_mission, _validate_budget)
THEOREM BudgetPartitioned == SubSpec => []BudgetIsPartitioned
<1>1. SubInv => BudgetIsPartitioned
  BY DEF SubInv
<1> QED BY <1>1, SubInvariant, PTL

\* Until the process dies, and while no older plan was saved, the step of a child that
\* is completed is completed in the plan, denied or asked for again, unless another child
\* that carries it out failed, was blocked or cancelled.  (propagate_result)
THEOREM ResultInPlan == SubSpec => []ResultIsInPlan
<1>1. ASSUME SubInv PROVE ResultIsInPlan
  BY <1>1 DEF SubInv, ResultsFit, Reflected, Carries, Closed, LockIsFree, ResultIsInPlan
<1> QED BY <1>1, SubInvariant, PTL

\* A cancellation of the root that comes to its end aborts every mission under it that
\* is pending, running or blocked.  (cancel_hierarchy)
THEOREM CancelReaches == SubSpec => CancelReachesAll
<1>1. ASSUME SubInv, [SubNext]_subVars, cancelled' # cancelled,
             NEW c \in DOMAIN missions \ {Root}
      PROVE  missions'[c].status \notin Active
  <2>1. PICK m \in DOMAIN missions : CancelHierarchy(m)
    BY <1>1 DEF SubNext, PlanStep, CreateSubMission, PropagateResult, CancelCutShort,
                RunOrPause, Crash, subVars
  <2>2. m = Root /\ missions' = Aborted(Cancellable(Root))
    BY <1>1, <2>1 DEF CancelHierarchy
  <2>3. missions[c].root = Root
    BY <1>1 DEF SubInv, Rooted
  <2>4. missions'[c].status = IF c \in Cancellable(Root) THEN "ABORTED" ELSE missions[c].status
    BY <1>1, <2>2, AbortedRestatus DEF SubInv
  <2> QED BY <2>3, <2>4 DEF Cancellable, Descendants, Active
<1>2. ASSUME SubInv, [SubNext]_subVars
      PROVE  [cancelled' # cancelled =>
                \A c \in DOMAIN missions \ {Root} : missions'[c].status \notin Active]_subVars
  BY <1>1, <1>2
<1> QED BY <1>2, SubInvariant, PTL DEF SubSpec, CancelReachesAll
=============================================================================
