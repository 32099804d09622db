------------------------ MODULE MCContinuousMission ------------------------
(* A repeating schedule that skips missed runs. *)
EXTENDS ContinuousMission

MCConfigs ==
    {[type |-> "INTERVAL", interval |-> 1, skip |-> TRUE, cap |-> Never]}
=============================================================================
