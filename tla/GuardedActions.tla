---------------------------- MODULE GuardedActions ----------------------------
(***************************************************************************)
(* AuthorizationGuardedActionExecutor: an action passes the financial      *)
(* limits (N.7), the approvals (N.6) and the emergency stops (N.11), in    *)
(* this order, and is then handed to the delegate.                         *)
(*                                                                         *)
(* The guard holds no lock from one check to the next, nor to the          *)
(* delegate, while operators decide, stop and resume.  The checks by       *)
(* tables (authorization, tools, sensitive data) either end the call or    *)
(* not and read nothing that changes here: an action they refuse is not    *)
(* submitted.                                                              *)
(***************************************************************************)
EXTENDS EmergencyStop, Approval

CONSTANTS
    Executors,  \* threads that execute actions
    Amount,     \* the amount of each action, None when it is not about money
    Limit       \* the rule for each: [min, max, override]

VARIABLES
    call        \* where each executor is in execute()

vars == <<now, faults, stopVars, approvalVars, call>>

NoCall == [stage |-> "idle", action |-> None, attached |-> None, begun |-> 0, halted |-> {}]

\* begun and halted are history: the second the call began, and the stops promised
\* then that were not deactivated, nor maybe lost, since.
Calls == {NoCall} \cup
    [stage : {"approval", "stop", "delegate"}, action : Actions,
     attached : ApprovalIds \cup {None}, begun : Times, halted : SUBSET Promises]

ASSUME GuardAssumption ==
    /\ Approvable \subseteq Actions
    /\ ApprovalRule \in [Actions -> {"NOT_REQUIRED", "REQUIRED", "PROHIBITED"}]
    /\ \A a \in Actions : Amount[a] # None => Amount[a] \in Nat

GuardTypeOK ==
    /\ now \in Times /\ faults \in 0 .. MaxFaults
    /\ StopTypeOK /\ ApprovalTypeOK
    /\ call \in [Executors -> Calls]

GuardInit ==
    /\ GovernanceInit /\ StopInit /\ ApprovalInit
    /\ call = [t \in Executors |-> NoCall]

-----------------------------------------------------------------------------
\* FinancialLimitService.evaluate, for the rule that applies.
FinancialStatus(a) ==
    LET amount == Amount[a]
        rule == Limit[a]
    IN  CASE amount = None -> "NONE"
          [] amount # None /\ (amount = 0 \/ amount < rule.min) -> "REJECTED"
          [] amount # None /\ amount > rule.max ->
                IF rule.override THEN "APPROVAL_REQUIRED" ELSE "LIMIT_EXCEEDED"
          [] OTHER -> "WITHIN_LIMIT"

NeedsApproval(a) == FinancialStatus(a) = "APPROVAL_REQUIRED"

Begin(t, a, attached) ==
    /\ call[t] = NoCall
    /\ FinancialStatus(a) \notin {"REJECTED", "LIMIT_EXCEEDED"}
    /\ call' = [call EXCEPT ![t] = [stage |-> "approval", action |-> a, attached |-> attached,
                                    begun |-> now, halted |-> promised \ excused]]
    /\ UNCHANGED <<now, faults, stopVars, approvalVars>>

\* The answer of the approvals is APPROVED, or NOT_REQUIRED when the amount does not
\* ask for more, or the call ends.
CheckApproval(t) ==
    LET status == Evaluate(call[t].action, call[t].attached)
        passes == status = "APPROVED"
                  \/ (status = "NOT_REQUIRED" /\ ~NeedsApproval(call[t].action))
    IN  /\ call[t].stage = "approval"
        /\ call' = IF passes THEN [call EXCEPT ![t].stage = "stop"]
                   ELSE [call EXCEPT ![t] = NoCall]
        /\ UNCHANGED <<now, faults, stopVars, approvalVars>>

CheckStop(t) ==
    /\ call[t].stage = "stop"
    /\ call' = IF Passes(call[t].action) THEN [call EXCEPT ![t].stage = "delegate"]
               ELSE [call EXCEPT ![t] = NoCall]
    /\ UNCHANGED <<now, faults, stopVars, approvalVars>>

\* The delegate's, and the end of the call.
Delegate(t) ==
    /\ call[t].stage = "delegate"
    /\ call' = [call EXCEPT ![t] = NoCall]
    /\ UNCHANGED <<now, faults, stopVars, approvalVars>>

StillHalted ==
    call' = [t \in Executors |->
        [call[t] EXCEPT !.halted = @ \cap (promised' \ excused')]]

\* The process ends and starts again.
Restart ==
    /\ Fault
    /\ RestartStops
    /\ call' = [t \in Executors |-> NoCall]
    /\ UNCHANGED <<now, approvalVars>>

TickAll == Tick /\ UNCHANGED <<faults, stopVars, approvalVars, call>>

GuardNext ==
    \/ \E t \in Executors :
        \/ \E a \in Actions, attached \in ApprovalIds \cup {None} : Begin(t, a, attached)
        \/ CheckApproval(t) \/ CheckStop(t) \/ Delegate(t)
    \/ StopStep /\ StillHalted /\ UNCHANGED <<now, approvalVars>>
    \/ ApprovalStep /\ UNCHANGED <<now, stopVars, call>>
    \/ Restart \/ TickAll

GuardSpec == GuardInit /\ [][GuardNext]_vars

-----------------------------------------------------------------------------
\* "N.11 activo => 0 llamadas": no action that changes something reaches the delegate
\* in a call that began when a stop that covers it had been promised, unless the stop
\* was deactivated or expired since, or is one the service may have lost.
StopIsObeyed ==
    \A t \in Executors :
        call[t].stage = "delegate" /\ call[t].action \notin ReadOnly =>
            \A p \in call[t].halted : Covers(p.id, call[t].action) => p.until <= now

\* No action over its limit, nor one the policy asks to be approved, goes on without a
\* piece of evidence on file that somebody else approved it, for this action and not
\* expired when the call began; no later decision and no crash takes that away.
OverLimitWasApproved ==
    \A t \in Executors :
        LET a == call[t].action
        IN  call[t].stage \in {"stop", "delegate"}
            /\ (NeedsApproval(a) \/ ApprovalRule[a] # "NOT_REQUIRED")
                => \E i \in ApprovalIds :
                    /\ evidence[i] # None /\ evidence[i].status = "APPROVED"
                    /\ evidence[i].action = a /\ evidence[i].approver # Principal
                    /\ call[t].begun <= evidence[i].until
=============================================================================
