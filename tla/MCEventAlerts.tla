---------------------------- MODULE MCEventAlerts ----------------------------
(* A thread that publishes and one that replays, one event for two handlers, *)
(* of which the alerts are one, and one crash or failed write.               *)
EXTENDS EventAlerts

CONSTANTS audit, alert

MCWhen == [e \in Events |-> 1]
MCCanHandle == [e \in Events |-> Handlers]
MCPayload == [e \in Events |->
    [type |-> "CHANGE_DETECTED", sourceStatus |-> FALSE, significance |-> "MODERATE"]]
MCSubject == [e \in Events |-> "s"]
=============================================================================
