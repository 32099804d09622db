------------------------------ MODULE Governance ------------------------------
(***************************************************************************)
(* What the emergency stops, the approvals and the guard of the actions    *)
(* share: the clock (ClockPort) they all ask, and the faults that may hit  *)
(* the process and its files.                                              *)
(***************************************************************************)
EXTENDS Naturals

CONSTANTS
    MaxTime,    \* bound: the clock stops here
    MaxFaults,  \* bound: crashes, failed writes and damage to files in a run
    None        \* no record, no target

VARIABLES
    now,        \* the clock, in whole seconds
    faults      \* how many faults there were

ASSUME GovernanceAssumption == MaxTime \in Nat /\ MaxFaults \in Nat

GovernanceInit == now = 0 /\ faults = 0

Times == 0 .. MaxTime

\* What never expires does so after the last instant.
Never == MaxTime + 1

Expiries == 1 .. Never

Tick == now < MaxTime /\ now' = now + 1

Fault == faults < MaxFaults /\ faults' = faults + 1
=============================================================================
