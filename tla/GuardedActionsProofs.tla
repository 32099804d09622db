------------------------ MODULE GuardedActionsProofs ------------------------
(***************************************************************************)
(* Theorems about EmergencyStop and GuardedActions, for any operators,     *)
(* executors, scopes, targets, actions, approvers and limits.              *)
(***************************************************************************)
EXTENDS GuardedActions, FiniteSetTheorems, TLAPS

\* A stop that somebody is about to save as inactive is not one that is promised for
\* good: whoever is answered with it has been warned by the history.
DeactivatingIsExcused ==
    \A o \in Operators, p \in promised \ excused :
        op[o] # Waiting /\ op[o].stop.state = "INACTIVE" => p.id # op[o].id

\* Until the first fault the file holds what is in memory.
FileIsMemory == faults = 0 => disk = records /\ ~corrupt

ClockOK == now \in Times /\ faults \in 0 .. MaxFaults

StopInv ==
    /\ ClockOK
    /\ StopTypeOK
    /\ DeactivatingIsExcused
    /\ PromisedIsInForce
    /\ FileIsMemory

-----------------------------------------------------------------------------
(* The operations of the stops                                             *)

LEMMA StopInitially == GovernanceInit /\ StopInit => StopInv
<1> SUFFICES ASSUME GovernanceInit, StopInit PROVE StopInv
  OBVIOUS
<1>1. ClockOK
  BY GovernanceAssumption DEF GovernanceInit, ClockOK, Times
<1>2. StopTypeOK
  BY DEF StopInit, StopTypeOK, Stores, Promises
<1>3. DeactivatingIsExcused /\ PromisedIsInForce
  BY DEF StopInit, DeactivatingIsExcused, PromisedIsInForce
<1>4. FileIsMemory
  BY DEF StopInit, FileIsMemory
<1> QED
  BY <1>1, <1>2, <1>3, <1>4 DEF StopInv

\* A fault is counted, and is not the first one after it.
LEMMA FaultCounts ==
    ASSUME ClockOK, Fault
    PROVE  faults' \in 0 .. MaxFaults /\ faults' # 0
BY GovernanceAssumption DEF ClockOK, Fault

LEMMA ActiveIsStop ==
    ASSUME StopTypeOK, NEW i \in Ids, records[i] # None
    PROVE  records[i] \in Stops /\ Promise(i, records[i]) \in Promises
BY DEF StopTypeOK, Stores, Stops, Promise, Promises

LEMMA AnswerKeeps ==
    ASSUME StopInv, NEW scope, NEW target, NEW readOnly,
           AnswerWithExisting(scope, target, readOnly), UNCHANGED <<now, faults>>
    PROVE  StopInv'
<1> USE DEF StopInv
<1>0. PICK i \in Ids :
        /\ Identical(i, scope, target, readOnly)
        /\ promised' = promised \cup {Promise(i, records[i])}
        /\ excused' = IF BeingDeactivated(i) THEN excused \cup {Promise(i, records[i])}
                      ELSE excused
  BY DEF AnswerWithExisting
<1>1. UNCHANGED <<records, disk, corrupt, op>>
  BY DEF AnswerWithExisting
<1>2. records[i] # None /\ records[i].state = "ACTIVE"
  BY <1>0 DEF Identical, Active
<1>3. Promise(i, records[i]) \in Promises
  BY <1>2, ActiveIsStop
<1>4. StopTypeOK'
  BY <1>0, <1>1, <1>3 DEF StopTypeOK
<1>5. DeactivatingIsExcused'
  BY <1>0, <1>1 DEF DeactivatingIsExcused, BeingDeactivated, Promise
<1>6. PromisedIsInForce'
  BY <1>0, <1>1, <1>2 DEF PromisedIsInForce, Kept, Promise
<1>7. ClockOK' /\ FileIsMemory'
  BY <1>1 DEF ClockOK, FileIsMemory
<1> QED
  BY <1>4, <1>5, <1>6, <1>7

LEMMA ActivateKeeps ==
    ASSUME StopInv, NEW o \in Operators, NEW scope \in Scopes,
           NEW target \in Targets[scope] \cup {None}, NEW readOnly \in Lenience,
           NEW until \in {now + 1, Never},
           Activate(o, scope, target, readOnly, until), UNCHANGED <<now, faults>>
    PROVE  StopInv'
<1> USE DEF StopInv
<1> DEFINE id == [scope |-> scope, target |-> target, at |-> now]
           stop == [state |-> "ACTIVE", readOnly |-> readOnly, until |-> until]
<1>1. /\ op' = [op EXCEPT ![o] = [id |-> id, stop |-> stop]]
      /\ UNCHANGED <<records, disk, corrupt, promised, excused>>
  BY DEF Activate
<1>2. id \in Ids
  BY DEF Ids, ClockOK
<1>3. stop \in Stops
  BY StopAssumption, GovernanceAssumption DEF Stops, Expiries, Never, Times, ClockOK
<1>4. StopTypeOK'
  BY <1>1, <1>2, <1>3 DEF StopTypeOK
<1>5. DeactivatingIsExcused'
  BY <1>1 DEF DeactivatingIsExcused, StopTypeOK
<1>6. PromisedIsInForce' /\ ClockOK' /\ FileIsMemory'
  BY <1>1 DEF PromisedIsInForce, Kept, ClockOK, FileIsMemory
<1> QED
  BY <1>4, <1>5, <1>6

LEMMA DeactivateKeeps ==
    ASSUME StopInv, NEW o \in Operators, NEW i \in Ids,
           Deactivate(o, i), UNCHANGED <<now, faults>>
    PROVE  StopInv'
<1> USE DEF StopInv
<1> DEFINE stop == [records[i] EXCEPT !.state = "INACTIVE"]
<1>1. /\ op' = [op EXCEPT ![o] = [id |-> i, stop |-> stop]]
      /\ promised' = {p \in promised : p.id # i}
      /\ excused' = {p \in excused : p.id # i}
      /\ UNCHANGED <<records, disk, corrupt>>
  BY DEF Deactivate
<1>2. stop \in Stops
  BY ActiveIsStop DEF Deactivate, Stops
<1>3. StopTypeOK'
  BY <1>1, <1>2 DEF StopTypeOK
<1>4. DeactivatingIsExcused'
  BY <1>1 DEF DeactivatingIsExcused, StopTypeOK
<1>5. PromisedIsInForce' /\ ClockOK' /\ FileIsMemory'
  BY <1>1 DEF PromisedIsInForce, Kept, ClockOK, FileIsMemory
<1> QED
  BY <1>3, <1>4, <1>5

\* What is about to be saved is an id and a record.
LEMMA PendingIsStop ==
    ASSUME StopTypeOK, NEW o \in Operators, op[o] # Waiting
    PROVE  op[o].id \in Ids /\ op[o].stop \in Stops
BY DEF StopTypeOK

LEMMA SaveKeeps ==
    ASSUME StopInv, NEW o \in Operators, Save(o), UNCHANGED now
    PROVE  StopInv'
<1> USE DEF StopInv
<1> DEFINE i == op[o].id
           stop == op[o].stop
           others == {p \in promised : corrupt \/ (p.id = i /\ p # Promise(i, stop))}
<1>1. /\ op[o] # Waiting
      /\ records' = [records EXCEPT ![i] = stop]
      /\ op' = [op EXCEPT ![o] = Waiting]
      /\ disk' = records'
      /\ UNCHANGED <<corrupt, faults>>
  BY DEF Save
<1>2. i \in Ids /\ stop \in Stops
  BY <1>1, PendingIsStop
<1>3. CASE stop.state = "ACTIVE"
  <2>1. /\ promised' = promised \cup {Promise(i, stop)}
        /\ excused' = excused \cup others \cup
             (IF BeingDeactivated(i) THEN {Promise(i, stop)} ELSE {})
    BY <1>3 DEF Save
  <2>2. Promise(i, stop) \in Promises
    BY <1>2 DEF Promise, Promises, Stops
  <2>3. StopTypeOK'
    BY <1>1, <1>2, <2>1, <2>2 DEF StopTypeOK, Stores
  <2>4. DeactivatingIsExcused'
    BY <1>1, <2>1 DEF DeactivatingIsExcused, BeingDeactivated, Promise, StopTypeOK
  <2>5. PromisedIsInForce'
    <3> SUFFICES ASSUME NEW p \in promised' \ excused', ~corrupt PROVE Kept(records', p)
      BY <1>1 DEF PromisedIsInForce, Kept
    <3>1. CASE p.id = i
      <4>1. p = Promise(i, stop)
        BY <2>1, <3>1
      <4> QED
        BY <1>1, <1>2, <1>3, <4>1, StopAssumption DEF Kept, Promise, StopTypeOK, Stores
    <3>2. CASE p.id # i
      <4>1. p \in promised \ excused
        BY <2>1, <3>2 DEF Promise
      <4>2. Kept(records, p)
        BY <4>1 DEF PromisedIsInForce
      <4> QED
        BY <1>1, <3>2, <4>2 DEF Kept, StopTypeOK, Stores, Promises
    <3> QED
      BY <3>1, <3>2
  <2> QED
    BY <1>1, <2>3, <2>4, <2>5 DEF ClockOK, FileIsMemory
<1>4. CASE stop.state # "ACTIVE"
  <2>1. promised' = promised /\ excused' = excused \cup {p \in promised : corrupt}
    BY <1>4 DEF Save
  <2>2. stop.state = "INACTIVE"
    BY <1>2, <1>4 DEF Stops
  <2>3. StopTypeOK'
    BY <1>1, <1>2, <2>1 DEF StopTypeOK, Stores
  <2>4. DeactivatingIsExcused'
    BY <1>1, <2>1 DEF DeactivatingIsExcused, StopTypeOK
  <2>5. PromisedIsInForce'
    <3> SUFFICES ASSUME NEW p \in promised' \ excused', ~corrupt PROVE Kept(records', p)
      BY <1>1 DEF PromisedIsInForce, Kept
    <3>1. p \in promised \ excused /\ p.id # i
      BY <1>1, <2>1, <2>2 DEF DeactivatingIsExcused
    <3>2. Kept(records, p)
      BY <3>1 DEF PromisedIsInForce
    <3> QED
      BY <1>1, <3>1, <3>2 DEF Kept, StopTypeOK, Stores, Promises
  <2> QED
    BY <1>1, <2>3, <2>4, <2>5 DEF ClockOK, FileIsMemory
<1> QED
  BY <1>3, <1>4

LEMMA SaveInMemoryKeeps ==
    ASSUME StopInv, NEW o \in Operators, SaveInMemory(o), UNCHANGED now
    PROVE  StopInv'
<1> USE DEF StopInv
<1> DEFINE i == op[o].id
           stop == op[o].stop
<1>1. /\ op[o] # Waiting
      /\ Fault
      /\ records' = [records EXCEPT ![i] = stop]
      /\ op' = [op EXCEPT ![o] = Waiting]
      /\ excused' = excused \cup {p \in promised : p.id = i /\ p # Promise(i, stop)}
      /\ UNCHANGED <<disk, corrupt, promised>>
  BY DEF SaveInMemory
<1>2. i \in Ids /\ stop \in Stops
  BY <1>1, PendingIsStop
<1>3. StopTypeOK'
  BY <1>1, <1>2 DEF StopTypeOK, Stores
<1>4. DeactivatingIsExcused'
  BY <1>1 DEF DeactivatingIsExcused, StopTypeOK
<1>5. PromisedIsInForce'
  <2> SUFFICES ASSUME NEW p \in promised' \ excused', ~corrupt PROVE Kept(records', p)
    BY <1>1 DEF PromisedIsInForce, Kept
  <2>1. p \in promised \ excused
    BY <1>1
  <2>2. Kept(records, p)
    BY <2>1 DEF PromisedIsInForce
  <2>3. CASE p.id = i
    <3>1. p = Promise(i, stop) /\ stop.state # "INACTIVE"
      BY <1>1, <2>1, <2>3 DEF DeactivatingIsExcused
    <3>2. stop.state = "ACTIVE" /\ stop # None
      BY <1>2, <3>1, StopAssumption DEF Stops
    <3> QED
      BY <1>1, <1>2, <3>1, <3>2 DEF Kept, Promise, StopTypeOK, Stores
  <2>4. CASE p.id # i
    BY <1>1, <2>1, <2>2, <2>4 DEF Kept, StopTypeOK, Stores, Promises
  <2> QED
    BY <2>3, <2>4
<1>6. ClockOK' /\ FileIsMemory'
  BY <1>1, FaultCounts DEF ClockOK, FileIsMemory
<1> QED
  BY <1>3, <1>4, <1>5, <1>6

LEMMA DamageKeeps ==
    ASSUME StopInv, Damage, UNCHANGED now
    PROVE  StopInv'
<1> USE DEF StopInv
<1>1. /\ Fault
      /\ disk' \in {Garbled, [i \in Ids |-> None]}
      /\ UNCHANGED <<records, corrupt, op, promised, excused>>
  BY DEF Damage
<1>2. StopTypeOK'
  BY <1>1 DEF StopTypeOK, Stores
<1>3. DeactivatingIsExcused' /\ PromisedIsInForce'
  BY <1>1 DEF DeactivatingIsExcused, PromisedIsInForce, Kept
<1>4. ClockOK' /\ FileIsMemory'
  BY <1>1, FaultCounts DEF ClockOK, FileIsMemory
<1> QED
  BY <1>2, <1>3, <1>4

LEMMA RestartKeeps ==
    ASSUME StopInv, Fault, RestartStops, UNCHANGED now
    PROVE  StopInv'
<1> USE DEF StopInv
<1>1. /\ corrupt' = (disk = Garbled)
      /\ records' = IF disk = Garbled THEN [i \in Ids |-> None] ELSE disk
      /\ op' = [o \in Operators |-> Waiting]
      /\ excused' = excused \cup {p \in promised : disk # Garbled /\ ~Kept(disk, p)}
      /\ UNCHANGED <<disk, promised>>
  BY DEF RestartStops
<1>2. StopTypeOK'
  BY <1>1 DEF StopTypeOK, Stores
<1>3. DeactivatingIsExcused'
  BY <1>1 DEF DeactivatingIsExcused
<1>4. PromisedIsInForce'
  BY <1>1 DEF PromisedIsInForce, Kept
<1>5. ClockOK' /\ FileIsMemory'
  BY <1>1, FaultCounts DEF ClockOK, FileIsMemory
<1> QED
  BY <1>2, <1>3, <1>4, <1>5

LEMMA TickKeeps ==
    ASSUME StopInv, Tick, UNCHANGED <<faults, stopVars>>
    PROVE  StopInv'
<1> USE DEF StopInv, stopVars
<1>1. ClockOK'
  BY GovernanceAssumption DEF Tick, ClockOK, Times
<1>2. StopTypeOK' /\ DeactivatingIsExcused' /\ PromisedIsInForce' /\ FileIsMemory'
  BY DEF StopTypeOK, DeactivatingIsExcused, PromisedIsInForce, Kept, FileIsMemory
<1> QED
  BY <1>1, <1>2

LEMMA StopStepKeeps ==
    ASSUME StopInv, StopStep, UNCHANGED now
    PROVE  StopInv'
<1>1. ASSUME NEW o \in Operators, OperatorStep(o), UNCHANGED faults
      PROVE  StopInv'
  <2>1. ASSUME NEW scope \in Scopes, NEW target \in Targets[scope] \cup {None},
               NEW readOnly \in Lenience, AnswerWithExisting(scope, target, readOnly)
        PROVE  StopInv'
    BY <1>1, <2>1, AnswerKeeps
  <2>2. ASSUME NEW scope \in Scopes, NEW target \in Targets[scope] \cup {None},
               NEW readOnly \in Lenience, NEW until \in {now + 1, Never},
               Activate(o, scope, target, readOnly, until)
        PROVE  StopInv'
    BY <1>1, <2>2, ActivateKeeps
  <2>3. ASSUME NEW i \in Ids, Deactivate(o, i)
        PROVE  StopInv'
    BY <1>1, <2>3, DeactivateKeeps
  <2> QED
    BY <1>1, <2>1, <2>2, <2>3 DEF OperatorStep
<1>2. ASSUME NEW o \in Operators, Save(o) \/ SaveInMemory(o)
      PROVE  StopInv'
  BY <1>2, SaveKeeps, SaveInMemoryKeeps
<1>3. CASE Damage
  BY <1>3, DamageKeeps
<1> QED
  BY <1>1, <1>2, <1>3 DEF StopStep

LEMMA StopInvariant == StopSpec => []StopInv
<1>1. GovernanceInit /\ StopInit => StopInv
  BY StopInitially
<1>2. StopInv /\ [StopNext]_<<now, faults, stopVars>> => StopInv'
  <2> SUFFICES ASSUME StopInv, [StopNext]_<<now, faults, stopVars>> PROVE StopInv'
    OBVIOUS
  <2>1. CASE StopStep /\ UNCHANGED now
    BY <2>1, StopStepKeeps
  <2>2. CASE Fault /\ RestartStops /\ UNCHANGED now
    BY <2>2, RestartKeeps
  <2>3. CASE Tick /\ UNCHANGED <<faults, stopVars>>
    BY <2>3, TickKeeps
  <2>4. CASE UNCHANGED <<now, faults, stopVars>>
    BY <2>4 DEF StopInv, ClockOK, StopTypeOK, DeactivatingIsExcused, PromisedIsInForce,
                Kept, FileIsMemory, stopVars
  <2> QED
    BY <2>1, <2>2, <2>3, <2>4 DEF StopNext
<1> QED
  BY <1>1, <1>2, PTL DEF StopSpec, StopsOnlyInit

\* Types: records, the file, the calls in progress and the history.
THEOREM StopTypeCorrect == StopSpec => []StopTypeOK
<1>1. StopInv => StopTypeOK
  BY DEF StopInv
<1> QED
  BY <1>1, StopInvariant, PTL

\* A stop that was answered stays in force, over concurrent operators, failed writes and
\* restarts, but for the losses the history names (activate_stop, save, _load_from_disk).
THEOREM PromiseIsKept == StopSpec => []PromisedIsInForce
<1>1. StopInv => PromisedIsInForce
  BY DEF StopInv
<1> QED
  BY <1>1, StopInvariant, PTL

\* Until the first fault it is on file too, so that a crash loses none of them.
THEOREM PromiseIsOnFile == StopSpec => []PromisedIsOnFile
<1>1. StopInv => PromisedIsOnFile
  BY StopAssumption DEF StopInv, FileIsMemory, PromisedIsInForce, PromisedIsOnFile, StopTypeOK, Kept
<1> QED
  BY <1>1, StopInvariant, PTL

-----------------------------------------------------------------------------
(* The guard                                                               *)

\* The stops a call has to respect are among those promised now, and it began in the past.
CallsFollow ==
    \A t \in Executors : call[t] # NoCall =>
        call[t].halted \subseteq promised \ excused /\ call[t].begun <= now

GuardInv ==
    /\ StopInv
    /\ ApprovalTypeOK
    /\ call \in [Executors -> Calls]
    /\ CallsFollow
    /\ StopIsObeyed
    /\ OverLimitWasApproved

\* A call beyond "idle" has an action and is not the empty one.
LEMMA CallHasAction ==
    ASSUME call \in [Executors -> Calls], NEW t \in Executors, call[t].stage # "idle"
    PROVE  /\ call[t] # NoCall
           /\ call[t].action \in Actions
           /\ call[t].attached \in ApprovalIds \cup {None}
           /\ call[t].begun \in Times
           /\ call[t].halted \subseteq Promises
BY DEF Calls, NoCall

LEMMA GuardInitially == GuardInit => GuardInv
<1> SUFFICES ASSUME GuardInit PROVE GuardInv
  OBVIOUS
<1>1. StopInv
  BY StopInitially DEF GuardInit
<1>2. ApprovalTypeOK
  BY DEF GuardInit, ApprovalInit, ApprovalTypeOK
<1>3. call = [t \in Executors |-> NoCall]
  BY DEF GuardInit
<1>4. call \in [Executors -> Calls] /\ CallsFollow
  BY <1>3 DEF Calls, CallsFollow
<1>5. StopIsObeyed /\ OverLimitWasApproved
  BY <1>3 DEF NoCall, StopIsObeyed, OverLimitWasApproved
<1> QED
  BY <1>1, <1>2, <1>4, <1>5 DEF GuardInv

LEMMA BeginKeeps ==
    ASSUME GuardInv, NEW t \in Executors, NEW a \in Actions,
           NEW attached \in ApprovalIds \cup {None}, Begin(t, a, attached)
    PROVE  GuardInv'
<1> USE DEF GuardInv
<1>1. /\ call' = [call EXCEPT ![t] = [stage |-> "approval", action |-> a, attached |-> attached,
                                      begun |-> now, halted |-> promised \ excused]]
      /\ UNCHANGED <<now, faults, stopVars, approvalVars>>
  BY DEF Begin
<1>2. StopInv' /\ ApprovalTypeOK'
  BY <1>1 DEF StopInv, ClockOK, StopTypeOK, DeactivatingIsExcused, PromisedIsInForce,
              Kept, FileIsMemory, stopVars, approvalVars, ApprovalTypeOK
<1>3. call' \in [Executors -> Calls]
  BY <1>1 DEF Calls, StopInv, ClockOK, StopTypeOK
<1>4. CallsFollow'
  BY <1>1 DEF CallsFollow, StopInv, ClockOK, Times, stopVars
<1>5. StopIsObeyed'
  BY <1>1 DEF StopIsObeyed, Covers
<1>6. OverLimitWasApproved'
  BY <1>1 DEF OverLimitWasApproved, NeedsApproval, FinancialStatus, approvalVars
<1> QED
  BY <1>2, <1>3, <1>4, <1>5, <1>6

LEMMA CheckApprovalKeeps ==
    ASSUME GuardInv, NEW t \in Executors, CheckApproval(t)
    PROVE  GuardInv'
<1> USE DEF GuardInv
<1> DEFINE a == call[t].action
           status == Evaluate(a, call[t].attached)
           passes == status = "APPROVED" \/ (status = "NOT_REQUIRED" /\ ~NeedsApproval(a))
<1>1. /\ call[t].stage = "approval"
      /\ call' = IF passes THEN [call EXCEPT ![t].stage = "stop"]
                 ELSE [call EXCEPT ![t] = NoCall]
      /\ UNCHANGED <<now, faults, stopVars, approvalVars>>
  BY DEF CheckApproval
<1>2. StopInv' /\ ApprovalTypeOK'
  BY <1>1 DEF StopInv, ClockOK, StopTypeOK, DeactivatingIsExcused, PromisedIsInForce,
              Kept, FileIsMemory, stopVars, approvalVars, ApprovalTypeOK
<1>3. call[t] # NoCall /\ a \in Actions /\ call[t].attached \in ApprovalIds \cup {None}
      /\ call[t].begun \in Times
  BY <1>1, CallHasAction
<1>4. call' \in [Executors -> Calls]
  BY <1>1, <1>3 DEF Calls
<1>5. CallsFollow'
  BY <1>1, <1>3 DEF CallsFollow, stopVars
<1>6. StopIsObeyed'
  <2> SUFFICES ASSUME NEW s \in Executors, call'[s].stage = "delegate",
                      call'[s].action \notin ReadOnly, NEW p \in call'[s].halted,
                      Covers(p.id, call'[s].action)
               PROVE  p.until <= now
    BY <1>1 DEF StopIsObeyed, Covers
  <2>1. s # t /\ call'[s] = call[s]
    BY <1>1 DEF NoCall
  <2> QED
    BY <2>1 DEF StopIsObeyed
<1>7. ASSUME passes, NeedsApproval(a) \/ ApprovalRule[a] # "NOT_REQUIRED"
      PROVE  \E i \in ApprovalIds : IsValidFor(i, a)
  <2>1. status = "APPROVED" \/ (status = "NOT_REQUIRED" /\ ~NeedsApproval(a))
    BY <1>7
  <2>2. ApprovalRule[a] \in {"NOT_REQUIRED", "REQUIRED", "PROHIBITED"}
    BY <1>3, GuardAssumption
  <2>3. status = "NOT_REQUIRED" => ApprovalRule[a] = "NOT_REQUIRED"
    BY <2>2 DEF Evaluate
  <2>4. status = "APPROVED"
    BY <1>7, <2>1, <2>3
  <2> QED
    BY <1>3, <2>2, <2>4, ApprovalAssumption DEF Evaluate, ApprovalTypeOK
<1>8. OverLimitWasApproved'
  <2> SUFFICES ASSUME NEW s \in Executors, call'[s].stage \in {"stop", "delegate"},
                      \/ NeedsApproval(call'[s].action)
                      \/ ApprovalRule[call'[s].action] # "NOT_REQUIRED"
               PROVE  \E i \in ApprovalIds :
                        /\ evidence[i] # None /\ evidence[i].status = "APPROVED"
                        /\ evidence[i].action = call'[s].action
                        /\ evidence[i].approver # Principal
                        /\ call'[s].begun <= evidence[i].until
    BY <1>1 DEF OverLimitWasApproved, NeedsApproval, FinancialStatus, approvalVars
  <2>1. CASE s = t
    <3>1. passes /\ call'[t].action = a /\ call'[t].begun = call[t].begun
      BY <1>1, <2>1 DEF NoCall
    <3>2. PICK i \in ApprovalIds : IsValidFor(i, a)
      BY <1>7, <2>1, <3>1
    <3>3. evidence[i].until \in Expiries
      BY <3>2 DEF IsValidFor, ApprovalTypeOK, Evidence
    <3>4. call[t].begun <= now /\ now \in Times
      BY <1>3 DEF CallsFollow, StopInv, ClockOK
    <3>5. call[t].begun <= evidence[i].until
      BY <1>3, <3>2, <3>3, <3>4, GovernanceAssumption DEF IsValidFor, Times, Expiries, Never
    <3> QED
      BY <2>1, <3>1, <3>2, <3>5 DEF IsValidFor
  <2>2. CASE s # t
    BY <1>1, <2>2 DEF OverLimitWasApproved
  <2> QED
    BY <2>1, <2>2
<1> QED
  BY <1>2, <1>4, <1>5, <1>6, <1>8

LEMMA CheckStopKeeps ==
    ASSUME GuardInv, NEW t \in Executors, CheckStop(t)
    PROVE  GuardInv'
<1> USE DEF GuardInv
<1> DEFINE a == call[t].action
<1>1. /\ call[t].stage = "stop"
      /\ call' = IF Passes(a) THEN [call EXCEPT ![t].stage = "delegate"]
                 ELSE [call EXCEPT ![t] = NoCall]
      /\ UNCHANGED <<now, faults, stopVars, approvalVars>>
  BY DEF CheckStop
<1>2. StopInv' /\ ApprovalTypeOK'
  BY <1>1 DEF StopInv, ClockOK, StopTypeOK, DeactivatingIsExcused, PromisedIsInForce,
              Kept, FileIsMemory, stopVars, approvalVars, ApprovalTypeOK
<1>3. call[t] # NoCall /\ a \in Actions /\ call[t].halted \subseteq Promises
  BY <1>1, CallHasAction
<1>4. call' \in [Executors -> Calls]
  BY <1>1, <1>3, CallHasAction DEF Calls
<1>5. CallsFollow'
  BY <1>1, <1>3 DEF CallsFollow, stopVars
<1>6. ASSUME Passes(a), a \notin ReadOnly, NEW p \in call[t].halted, Covers(p.id, a)
      PROVE  p.until <= now
  <2>1. p \in promised \ excused /\ p \in Promises
    BY <1>3, <1>6 DEF CallsFollow
  <2>2. Kept(records, p)
    BY <1>6, <2>1 DEF Passes, StopInv, PromisedIsInForce
  <2>3. p.id \in Ids /\ p.until \in Expiries
    BY <2>1 DEF Promises
  <2>4. ~Active(p.id)
    BY <1>6, <2>3 DEF Passes, Applicable
  <2> QED
    BY <2>2, <2>3, <2>4, GovernanceAssumption
    DEF Active, Kept, StopInv, ClockOK, Times, Expiries, Never
<1>7. StopIsObeyed'
  <2> SUFFICES ASSUME NEW s \in Executors, call'[s].stage = "delegate",
                      call'[s].action \notin ReadOnly, NEW p \in call'[s].halted,
                      Covers(p.id, call'[s].action)
               PROVE  p.until <= now
    BY <1>1 DEF StopIsObeyed, Covers
  <2>1. CASE s = t
    BY <1>1, <1>6, <2>1 DEF NoCall
  <2>2. CASE s # t
    BY <1>1, <2>2 DEF StopIsObeyed
  <2> QED
    BY <2>1, <2>2
<1>8. OverLimitWasApproved'
  <2> SUFFICES ASSUME NEW s \in Executors, call'[s].stage \in {"stop", "delegate"},
                      \/ NeedsApproval(call'[s].action)
                      \/ ApprovalRule[call'[s].action] # "NOT_REQUIRED"
               PROVE  \E i \in ApprovalIds :
                        /\ evidence[i] # None /\ evidence[i].status = "APPROVED"
                        /\ evidence[i].action = call'[s].action
                        /\ evidence[i].approver # Principal
                        /\ call'[s].begun <= evidence[i].until
    BY <1>1 DEF OverLimitWasApproved, NeedsApproval, FinancialStatus, approvalVars
  <2>1. /\ call[s].stage \in {"stop", "delegate"}
        /\ call'[s].action = call[s].action /\ call'[s].begun = call[s].begun
    BY <1>1 DEF NoCall
  <2> QED
    BY <2>1 DEF OverLimitWasApproved
<1> QED
  BY <1>2, <1>4, <1>5, <1>7, <1>8

LEMMA DelegateKeeps ==
    ASSUME GuardInv, NEW t \in Executors, Delegate(t)
    PROVE  GuardInv'
<1> USE DEF GuardInv
<1>1. /\ call' = [call EXCEPT ![t] = NoCall]
      /\ UNCHANGED <<now, faults, stopVars, approvalVars>>
  BY DEF Delegate
<1>2. StopInv' /\ ApprovalTypeOK'
  BY <1>1 DEF StopInv, ClockOK, StopTypeOK, DeactivatingIsExcused, PromisedIsInForce,
              Kept, FileIsMemory, stopVars, approvalVars, ApprovalTypeOK
<1>3. call' \in [Executors -> Calls] /\ CallsFollow'
  BY <1>1 DEF Calls, CallsFollow, stopVars
<1>4. \A s \in Executors : call'[s].stage # "idle" => call'[s] = call[s]
  BY <1>1 DEF NoCall
<1>5. StopIsObeyed'
  BY <1>1, <1>4 DEF StopIsObeyed, Covers
<1>6. OverLimitWasApproved'
  <2> SUFFICES ASSUME NEW s \in Executors, call'[s].stage \in {"stop", "delegate"},
                      \/ NeedsApproval(call'[s].action)
                      \/ ApprovalRule[call'[s].action] # "NOT_REQUIRED"
               PROVE  \E i \in ApprovalIds :
                        /\ evidence[i] # None /\ evidence[i].status = "APPROVED"
                        /\ evidence[i].action = call'[s].action
                        /\ evidence[i].approver # Principal
                        /\ call'[s].begun <= evidence[i].until
    BY <1>1 DEF OverLimitWasApproved, NeedsApproval, FinancialStatus, approvalVars
  <2>1. call'[s] = call[s]
    BY <1>4
  <2> QED
    BY <2>1 DEF OverLimitWasApproved
<1> QED
  BY <1>2, <1>3, <1>5, <1>6

LEMMA OperatorsKeep ==
    ASSUME GuardInv, StopStep, StillHalted, UNCHANGED <<now, approvalVars>>
    PROVE  GuardInv'
<1> USE DEF GuardInv
<1>1. StopInv'
  BY StopStepKeeps
<1>2. call' = [t \in Executors |-> [call[t] EXCEPT !.halted = @ \cap (promised' \ excused')]]
  BY DEF StillHalted
<1>3. ApprovalTypeOK'
  BY DEF approvalVars, ApprovalTypeOK
<1>4. ASSUME NEW t \in Executors
      PROVE  /\ call'[t].stage = call[t].stage /\ call'[t].action = call[t].action
             /\ call'[t].begun = call[t].begun /\ call'[t].attached = call[t].attached
             /\ call'[t].halted = call[t].halted \cap (promised' \ excused')
             /\ call'[t] \in Calls
             /\ call[t] = NoCall => call'[t] = NoCall
  <2>1. call'[t] = [call[t] EXCEPT !.halted = @ \cap (promised' \ excused')]
    BY <1>2
  <2>2. CASE call[t] = NoCall
    <3>1. {} \cap (promised' \ excused') = {}
      OBVIOUS
    <3>2. call'[t] = NoCall
      BY <2>1, <2>2, <3>1 DEF NoCall
    <3> QED
      BY <2>2, <3>1, <3>2 DEF Calls, NoCall
  <2>3. CASE call[t] # NoCall
    <3>1. call[t] \in Calls /\ call[t].halted \cap (promised' \ excused') \subseteq call[t].halted
      OBVIOUS
    <3> QED
      BY <2>1, <2>3, <3>1 DEF Calls
  <2> QED
    BY <2>2, <2>3
<1>5. call' \in [Executors -> Calls]
  BY <1>2, <1>4
<1>6. CallsFollow'
  BY <1>4 DEF CallsFollow
<1>7. StopIsObeyed'
  BY <1>4 DEF StopIsObeyed, Covers
<1>8. OverLimitWasApproved'
  BY <1>4 DEF OverLimitWasApproved, NeedsApproval, FinancialStatus, approvalVars
<1> QED
  BY <1>1, <1>3, <1>5, <1>6, <1>7, <1>8

\* Evidence on file is never replaced.
LEMMA EvidenceStays ==
    ASSUME ApprovalTypeOK, ApprovalStep, ClockOK, GuardAssumption
    PROVE  /\ ApprovalTypeOK'
           /\ \A i \in ApprovalIds : evidence[i] # None => evidence'[i] = evidence[i]
           /\ faults' \in 0 .. MaxFaults /\ (faults = 0 \/ faults' # 0)
<1> USE DEF ApprovalTypeOK
<1>1. ASSUME NEW i \in ApprovalIds, AppendLine(i)
      PROVE  /\ listed' \subseteq ApprovalIds /\ torn' \in BOOLEAN
             /\ granted' \subseteq ApprovalIds /\ failed' \subseteq ApprovalIds
             /\ faults' \in 0 .. MaxFaults /\ (faults = 0 \/ faults' # 0)
  BY <1>1, FaultCounts DEF AppendLine, Answered, ClockOK
<1>2. ASSUME NEW i \in ApprovalIds, NEW e \in Evidence, Decide(i, e)
      PROVE  /\ ApprovalTypeOK'
             /\ \A j \in ApprovalIds : evidence[j] # None => evidence'[j] = evidence[j]
             /\ faults' \in 0 .. MaxFaults /\ (faults = 0 \/ faults' # 0)
  <2>1. CASE evidence[i] = None /\ evidence' = [evidence EXCEPT ![i] = e] /\ AppendLine(i)
    BY <1>1, <2>1
  <2>2. CASE evidence[i] = e /\ UNCHANGED <<evidence, listed, torn, failed, faults>> /\ Answered(i)
    BY <2>2 DEF Answered, ClockOK
  <2> QED
    BY <1>2, <2>1, <2>2 DEF Decide
<1>3. PICK i \in ApprovalIds, a \in Approvable, approver \in Approvers :
        \/ \E until \in {now + 1, Never} : Grant(i, a, approver, until)
        \/ Reject(i, a, approver)
  BY DEF ApprovalStep
<1>4. \E e \in Evidence : Decide(i, e)
  BY <1>3, GovernanceAssumption DEF Grant, Reject, Evidence, Expiries, Never, Times, ClockOK
<1> QED
  BY <1>2, <1>4

LEMMA ApproversKeep ==
    ASSUME GuardInv, ApprovalStep, UNCHANGED <<now, stopVars, call>>
    PROVE  GuardInv'
<1> USE DEF GuardInv
<1>1. /\ ApprovalTypeOK'
      /\ \A i \in ApprovalIds : evidence[i] # None => evidence'[i] = evidence[i]
      /\ faults' \in 0 .. MaxFaults /\ (faults = 0 \/ faults' # 0)
  BY EvidenceStays, GuardAssumption DEF StopInv
<1>2. StopInv'
  <2>1. ClockOK' /\ FileIsMemory'
    BY <1>1 DEF StopInv, ClockOK, FileIsMemory, stopVars
  <2>2. StopTypeOK' /\ DeactivatingIsExcused' /\ PromisedIsInForce'
    BY DEF StopInv, StopTypeOK, DeactivatingIsExcused, PromisedIsInForce, Kept, stopVars
  <2> QED
    BY <2>1, <2>2 DEF StopInv
<1>3. call' \in [Executors -> Calls] /\ CallsFollow' /\ StopIsObeyed'
  BY DEF CallsFollow, StopIsObeyed, Covers, stopVars
<1>4. OverLimitWasApproved'
  <2> SUFFICES ASSUME NEW t \in Executors, call[t].stage \in {"stop", "delegate"},
                      NeedsApproval(call[t].action) \/ ApprovalRule[call[t].action] # "NOT_REQUIRED"
               PROVE  \E i \in ApprovalIds :
                        /\ evidence'[i] # None /\ evidence'[i].status = "APPROVED"
                        /\ evidence'[i].action = call[t].action
                        /\ evidence'[i].approver # Principal
                        /\ call[t].begun <= evidence'[i].until
    BY SMTT(40) DEF OverLimitWasApproved, NeedsApproval, FinancialStatus
  <2>1. PICK i \in ApprovalIds :
            /\ evidence[i] # None /\ evidence[i].status = "APPROVED"
            /\ evidence[i].action = call[t].action /\ evidence[i].approver # Principal
            /\ call[t].begun <= evidence[i].until
    BY DEF OverLimitWasApproved
  <2>2. evidence'[i] = evidence[i]
    BY <1>1, <2>1
  <2> QED
    BY <2>1, <2>2
<1> QED
  BY <1>1, <1>2, <1>3, <1>4

LEMMA RestartAllKeeps ==
    ASSUME GuardInv, Restart
    PROVE  GuardInv'
<1> USE DEF GuardInv
<1>1. StopInv'
  BY RestartKeeps DEF Restart
<1>2. call' = [t \in Executors |-> NoCall] /\ UNCHANGED <<now, approvalVars>>
  BY DEF Restart
<1>3. ApprovalTypeOK' /\ call' \in [Executors -> Calls] /\ CallsFollow'
  BY <1>2 DEF ApprovalTypeOK, approvalVars, Calls, CallsFollow
<1>4. StopIsObeyed' /\ OverLimitWasApproved'
  BY <1>2 DEF StopIsObeyed, OverLimitWasApproved, NoCall
<1> QED
  BY <1>1, <1>3, <1>4

LEMMA TickAllKeeps ==
    ASSUME GuardInv, TickAll
    PROVE  GuardInv'
<1> USE DEF GuardInv
<1>1. StopInv'
  BY TickKeeps DEF TickAll
<1>2. now' = now + 1 /\ UNCHANGED <<stopVars, approvalVars, call>>
  BY DEF TickAll, Tick
<1>3. now \in Nat
  BY DEF StopInv, ClockOK, Times
<1>4. ApprovalTypeOK' /\ call' \in [Executors -> Calls]
  BY <1>2 DEF ApprovalTypeOK, approvalVars
<1>5. ASSUME NEW t \in Executors, call[t] # NoCall
      PROVE  call[t].begun \in Nat /\ call[t].halted \subseteq Promises
  BY <1>5 DEF Calls, Times
<1>6. CallsFollow'
  BY <1>2, <1>3, <1>5 DEF CallsFollow, stopVars
<1>7. StopIsObeyed'
  <2> SUFFICES ASSUME NEW t \in Executors, call[t].stage = "delegate",
                      call[t].action \notin ReadOnly, NEW p \in call[t].halted,
                      Covers(p.id, call[t].action)
               PROVE  p.until <= now'
    BY <1>2 DEF StopIsObeyed, Covers
  <2>1. p.until <= now
    BY DEF StopIsObeyed
  <2>2. p.until \in Nat
    BY <1>5, CallHasAction, GovernanceAssumption DEF Promises, Expiries, Never
  <2> QED
    BY <1>2, <1>3, <2>1, <2>2
<1>8. OverLimitWasApproved'
  BY <1>2 DEF OverLimitWasApproved, NeedsApproval, FinancialStatus, approvalVars
<1> QED
  BY <1>1, <1>4, <1>6, <1>7, <1>8

LEMMA GuardInvariant == GuardSpec => []GuardInv
<1>1. GuardInit => GuardInv
  BY GuardInitially
<1>2. GuardInv /\ [GuardNext]_vars => GuardInv'
  <2> SUFFICES ASSUME GuardInv, [GuardNext]_vars PROVE GuardInv'
    OBVIOUS
  <2>1. ASSUME NEW t \in Executors, NEW a \in Actions,
               NEW attached \in ApprovalIds \cup {None}, Begin(t, a, attached)
        PROVE  GuardInv'
    BY <2>1, BeginKeeps
  <2>2. ASSUME NEW t \in Executors, CheckApproval(t) \/ CheckStop(t) \/ Delegate(t)
        PROVE  GuardInv'
    BY <2>2, CheckApprovalKeeps, CheckStopKeeps, DelegateKeeps
  <2>3. CASE StopStep /\ StillHalted /\ UNCHANGED <<now, approvalVars>>
    BY <2>3, OperatorsKeep
  <2>4. CASE ApprovalStep /\ UNCHANGED <<now, stopVars, call>>
    BY <2>4, ApproversKeep
  <2>5. CASE Restart \/ TickAll
    BY <2>5, RestartAllKeeps, TickAllKeeps
  <2>6. CASE UNCHANGED vars
    BY SMTT(40), <2>6 DEF vars, GuardInv, StopInv, ClockOK, StopTypeOK, DeactivatingIsExcused,
                PromisedIsInForce, Kept, FileIsMemory, stopVars, approvalVars, ApprovalTypeOK,
                CallsFollow, StopIsObeyed, Covers, OverLimitWasApproved, NeedsApproval,
                FinancialStatus
  <2> QED
    BY <2>1, <2>2, <2>3, <2>4, <2>5, <2>6 DEF GuardNext
<1> QED
  BY <1>1, <1>2, PTL DEF GuardSpec

\* Types of the guard and of what it asks.
THEOREM GuardTypeCorrect == GuardSpec => []GuardTypeOK
<1>1. GuardInv => GuardTypeOK
  BY DEF GuardInv, StopInv, ClockOK, GuardTypeOK
<1> QED
  BY <1>1, GuardInvariant, PTL

\* No action that changes something reaches the delegate against a stop that was
\* promised before its call began (execute, activate_stop).
THEOREM StopObeyed == GuardSpec => []StopIsObeyed
<1>1. GuardInv => StopIsObeyed
  BY DEF GuardInv
<1> QED
  BY <1>1, GuardInvariant, PTL

\* No action over its limit goes on without an approval by another (execute,
\* evaluate_request, save_evidence).
THEOREM LimitNeedsApproval == GuardSpec => []OverLimitWasApproved
<1>1. GuardInv => OverLimitWasApproved
  BY DEF GuardInv
<1> QED
  BY <1>1, GuardInvariant, PTL

-----------------------------------------------------------------------------
(* The index of the approvals                                              *)

Hidden == granted \ (listed \cup failed)

\* What was decided is in one of the sets, and only what was decided is; each hidden
\* approval used up a torn line, and each torn line is that of a failed decision.
IndexInv ==
    /\ \A i \in ApprovalIds :
        /\ evidence[i] = None => i \notin granted \cup listed \cup failed
        /\ evidence[i] # None /\ evidence[i].status = "APPROVED"
             => i \in granted \cup listed \cup failed
    /\ IsFiniteSet(failed) /\ IsFiniteSet(Hidden)
    /\ Cardinality(Hidden) + (IF torn THEN 1 ELSE 0) <= Cardinality(failed)

LEMMA AppendKeepsIndex ==
    ASSUME ApprovalTypeOK, IndexInv, NEW i \in ApprovalIds, NEW e \in Evidence,
           evidence[i] = None, evidence' = [evidence EXCEPT ![i] = e], AppendLine(i)
    PROVE  IndexInv'
<1> USE DEF ApprovalTypeOK
<1>0. e # None /\ evidence'[i] = e
  BY ApprovalAssumption
<1>1. i \notin granted /\ i \notin listed /\ i \notin failed
  BY DEF IndexInv
<1>2. /\ granted' \subseteq granted \cup {i} /\ granted \subseteq granted'
      /\ listed' \subseteq listed \cup {i} /\ listed \subseteq listed'
      /\ failed' \subseteq failed \cup {i} /\ failed \subseteq failed'
  BY DEF AppendLine, Answered
<1>3. e.status = "APPROVED" => i \in granted' \cup listed' \cup failed'
  BY <1>0 DEF AppendLine, Answered
<1>4. ASSUME NEW j \in ApprovalIds
      PROVE  /\ evidence'[j] = None => j \notin granted' \cup listed' \cup failed'
             /\ evidence'[j] # None /\ evidence'[j].status = "APPROVED"
                  => j \in granted' \cup listed' \cup failed'
  BY <1>0, <1>2, <1>3 DEF IndexInv
<1>5. IsFiniteSet(Hidden \cup {i}) /\ Cardinality(Hidden \cup {i}) = Cardinality(Hidden) + 1
  BY <1>1, FS_AddElement DEF IndexInv, Hidden
<1>6. /\ IsFiniteSet(failed \cup {i}) /\ Cardinality(failed \cup {i}) = Cardinality(failed) + 1
  BY <1>1, FS_AddElement DEF IndexInv
<1>7. Cardinality(Hidden) \in Nat /\ Cardinality(failed) \in Nat
  BY FS_CardinalityType DEF IndexInv
<1>8. CASE torn /\ ~torn' /\ listed' = listed /\ failed' = failed
  <2>1. Hidden' = Hidden \/ Hidden' = Hidden \cup {i}
    BY <1>1, <1>2, <1>8 DEF Hidden
  <2>2. IsFiniteSet(Hidden') /\ IsFiniteSet(failed')
    <3>1. IsFiniteSet(Hidden) /\ IsFiniteSet(failed)
      BY DEF IndexInv
    <3> QED
      BY <1>5, <1>8, <2>1, <3>1
  <2>3. Cardinality(Hidden') <= Cardinality(Hidden) + 1
    <3>1. CASE Hidden' = Hidden
      BY <1>7, <3>1
    <3>2. CASE Hidden' = Hidden \cup {i}
      BY <1>5, <1>7, <3>2
    <3> QED
      BY <2>1, <3>1, <3>2
  <2>4. Cardinality(Hidden') \in Nat
    BY <2>2, FS_CardinalityType
  <2>5. Cardinality(Hidden) + 1 <= Cardinality(failed)
    BY <1>8 DEF IndexInv
  <2>6. Cardinality(Hidden') + (IF torn' THEN 1 ELSE 0) <= Cardinality(failed')
    BY <1>7, <1>8, <2>3, <2>4, <2>5
  <2> QED
    BY <1>4, <2>2, <2>6 DEF IndexInv
<1>9. CASE torn' = torn /\ listed' = listed \cup {i} /\ failed' = failed
  <2>1. Hidden' = Hidden
    BY <1>1, <1>2, <1>9 DEF Hidden
  <2> QED
    BY <1>4, <1>9, <2>1 DEF IndexInv
<1>10. CASE torn' \in {torn, TRUE} /\ failed' = failed \cup {i} /\ listed' = listed
  <2>1. Hidden' = Hidden
    BY <1>1, <1>2, <1>10 DEF Hidden
  <2> QED
    BY <1>4, <1>6, <1>7, <1>10, <2>1 DEF IndexInv
<1> QED
  BY <1>8, <1>9, <1>10 DEF AppendLine

LEMMA ApproversKeepIndex ==
    ASSUME ApprovalTypeOK, ClockOK, IndexInv, ApprovalStep
    PROVE  IndexInv'
<1>1. PICK i \in ApprovalIds, a \in Approvable, approver \in Approvers :
        \/ \E until \in {now + 1, Never} : Grant(i, a, approver, until)
        \/ Reject(i, a, approver)
  BY DEF ApprovalStep
<1>2. PICK e \in Evidence : Decide(i, e)
  BY <1>1, GovernanceAssumption DEF Grant, Reject, Evidence, Expiries, Never, Times, ClockOK
<1>3. CASE evidence[i] = None /\ evidence' = [evidence EXCEPT ![i] = e] /\ AppendLine(i)
  BY <1>3, AppendKeepsIndex
<1>4. CASE evidence[i] = e /\ UNCHANGED <<evidence, listed, torn, failed, faults>> /\ Answered(i)
  <2>1. e # None
    BY ApprovalAssumption
  <2>2. Hidden' = Hidden
    BY <1>4, <2>1 DEF IndexInv, Hidden, Answered
  <2>3. granted \subseteq granted' /\ granted' \subseteq granted \cup {i}
    BY <1>4 DEF Answered
  <2>4. ASSUME NEW j \in ApprovalIds
        PROVE  /\ evidence'[j] = None => j \notin granted' \cup listed' \cup failed'
               /\ evidence'[j] # None /\ evidence'[j].status = "APPROVED"
                    => j \in granted' \cup listed' \cup failed'
    BY <1>4, <2>1, <2>3 DEF IndexInv
  <2> QED
    BY <1>4, <2>2, <2>4 DEF IndexInv
<1> QED
  BY <1>2, <1>3, <1>4 DEF Decide

LEMMA IndexInvariant == GuardSpec => []IndexInv
<1>1. GuardInit => IndexInv
  <2> SUFFICES ASSUME GuardInit PROVE IndexInv
    OBVIOUS
  <2>1. /\ evidence = [i \in ApprovalIds |-> None] /\ listed = {} /\ torn = FALSE
        /\ granted = {} /\ failed = {}
    BY DEF GuardInit, ApprovalInit
  <2>2. Hidden = {}
    BY <2>1 DEF Hidden
  <2> QED
    BY <2>1, <2>2, FS_EmptySet DEF IndexInv
<1>2. GuardInv /\ IndexInv /\ [GuardNext]_vars => IndexInv'
  <2> SUFFICES ASSUME GuardInv, IndexInv, [GuardNext]_vars PROVE IndexInv'
    OBVIOUS
  <2>1. CASE ApprovalStep
    BY <2>1, ApproversKeepIndex DEF GuardInv, StopInv
  <2>2. CASE UNCHANGED approvalVars
    BY <2>2 DEF IndexInv, Hidden, approvalVars
  <2>3. ApprovalStep \/ UNCHANGED approvalVars
    BY DEF GuardNext, Begin, CheckApproval, CheckStop, Delegate, Restart, TickAll, vars
  <2> QED
    BY <2>1, <2>2, <2>3
<1> QED
  BY <1>1, <1>2, GuardInvariant, PTL DEF GuardSpec

\* A line torn in the index hides one other approval and no more (save_evidence,
\* list_by_target).
THEOREM GrantsAreListed == GuardSpec => []GrantedIsListed
<1>1. IndexInv => GrantedIsListed
  <2> SUFFICES ASSUME IndexInv PROVE GrantedIsListed
    OBVIOUS
  <2>1. Cardinality(Hidden) \in Nat /\ Cardinality(failed) \in Nat
    BY FS_CardinalityType DEF IndexInv
  <2> QED
    BY <2>1 DEF IndexInv, Hidden, GrantedIsListed
<1> QED
  BY <1>1, IndexInvariant, PTL
=============================================================================
