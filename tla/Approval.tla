------------------------------- MODULE Approval -------------------------------
(***************************************************************************)
(* Approvals (N.6): ApprovalPolicyService and the JSON repository of the   *)
(* evidence.                                                               *)
(*                                                                         *)
(* A piece of evidence is a file of its own and a line in an index; both   *)
(* are written under the lock of the repository, and the process may end   *)
(* between them.  A line that was written in part swallows the next one.   *)
(***************************************************************************)
EXTENDS Governance, FiniteSets

CONSTANTS
    ApprovalIds,    \* what pieces of evidence are called
    Approvable,     \* the actions somebody may be asked to approve
    ApprovalRule,   \* what the policy says of each action
    Principal,      \* who asks
    Approvers       \* who decides: the principal may be among them

VARIABLES
    evidence,   \* the files
    listed,     \* the pieces of evidence that list_by_target finds
    torn,       \* the index ends in a part of a line
    \* history, read by the properties only
    granted,    \* approvals grant_approval answered with
    failed      \* pieces of evidence whose own line was not written, or not to its end

approvalVars == <<evidence, listed, torn, granted, failed>>

Evidence == [action : Approvable, approver : Approvers, status : {"APPROVED", "REJECTED"},
             until : Expiries, at : Times]

ASSUME ApprovalAssumption ==
    /\ None \notin ApprovalIds \cup Evidence
    /\ \A a \in Approvable : ApprovalRule[a] \in {"NOT_REQUIRED", "REQUIRED", "PROHIBITED"}

ApprovalTypeOK ==
    /\ evidence \in [ApprovalIds -> Evidence \cup {None}]
    /\ listed \subseteq ApprovalIds
    /\ torn \in BOOLEAN
    /\ granted \subseteq ApprovalIds
    /\ failed \subseteq ApprovalIds

ApprovalInit ==
    /\ evidence = [i \in ApprovalIds |-> None]
    /\ listed = {}
    /\ torn = FALSE
    /\ granted = {}
    /\ failed = {}

-----------------------------------------------------------------------------
(* is_valid_for and evaluate_request                                       *)

\* The target of a piece of evidence, who asked and who approved it, and until when,
\* with separation of duties.  It is still valid in the second it expires.
IsValidFor(i, a) ==
    /\ evidence[i] # None
    /\ evidence[i].status = "APPROVED"
    /\ now <= evidence[i].until
    /\ evidence[i].action = a
    /\ evidence[i].approver # Principal

\* The evidence attached is what counts; without it, any on file.
Evaluate(a, attached) ==
    CASE ApprovalRule[a] = "PROHIBITED" -> "REJECTED"
      [] ApprovalRule[a] # "PROHIBITED" /\ attached # None ->
            IF IsValidFor(attached, a) THEN "APPROVED" ELSE "APPROVAL_REQUIRED"
      [] ApprovalRule[a] = "NOT_REQUIRED" /\ attached = None -> "NOT_REQUIRED"
      [] ApprovalRule[a] = "REQUIRED" /\ attached = None ->
            IF \E i \in listed : IsValidFor(i, a) THEN "APPROVED" ELSE "APPROVAL_REQUIRED"

-----------------------------------------------------------------------------
(* grant_approval and reject_approval                                      *)

Answered(i) == granted' = IF evidence'[i].status = "APPROVED" THEN granted \cup {i} ELSE granted

\* Wrong on purpose: a line that was not written is no reason to fail.
AppendLineOrNot(i) ==
    /\ Answered(i)
    /\ \/ listed' = listed \cup {i} /\ UNCHANGED <<torn, faults>>
       \/ Fault /\ torn' = TRUE /\ UNCHANGED listed
    /\ UNCHANGED failed

\* The line in the index is written, or swallowed by a part of one before it, or the
\* write fails, with the line on file all the same or in part; then the call raises.
AppendLine(i) ==
    \/ /\ torn' = FALSE
       /\ listed' = IF torn THEN listed ELSE listed \cup {i}
       /\ Answered(i)
       /\ UNCHANGED <<faults, failed>>
    \/ /\ Fault
       /\ \/ ~torn /\ listed' = listed \cup {i} /\ UNCHANGED <<torn, failed>>
          \/ torn' \in {torn, TRUE} /\ failed' = failed \cup {i} /\ UNCHANGED listed
       /\ UNCHANGED granted

\* Wrong on purpose: a decision of the same id replaces the one on file.
DecideAgain(i, e) ==
    /\ evidence' = [evidence EXCEPT ![i] = e]
    /\ AppendLine(i)

\* A decision of an id that is on file is a conflict, unless it is the same to the
\* instant, which is in the same second here.
Decide(i, e) ==
    \/ /\ evidence[i] = None
       /\ evidence' = [evidence EXCEPT ![i] = e]
       /\ AppendLine(i)
    \/ /\ evidence[i] = e
       /\ UNCHANGED evidence
       /\ Answered(i)
       /\ UNCHANGED <<listed, torn, failed, faults>>

Grant(i, a, approver, until) ==
    Decide(i, [action |-> a, approver |-> approver, status |-> "APPROVED",
               until |-> until, at |-> now])

\* A rejection does not expire, and takes nothing back that was granted before.
Reject(i, a, approver) ==
    Decide(i, [action |-> a, approver |-> approver, status |-> "REJECTED",
               until |-> Never, at |-> now])

ApprovalStep ==
    \E i \in ApprovalIds, a \in Approvable, approver \in Approvers :
        \/ \E until \in {now + 1, Never} : Grant(i, a, approver, until)
        \/ Reject(i, a, approver)

-----------------------------------------------------------------------------
\* An approval that grant_approval answered with is found for its action, over later
\* decisions, crashes and lines that were not written: a line that was written in part
\* hides one other approval and no more.
GrantedIsListed == Cardinality(granted \ (listed \cup failed)) <= Cardinality(failed)
=============================================================================
