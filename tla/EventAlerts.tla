----------------------------- MODULE EventAlerts -----------------------------
(***************************************************************************)
(* The event bus with the alert handler on it (J.6): while a thread is in  *)
(* the call of AlertHandler it is in AlertService.process_event, over      *)
(* JsonAlertRepository and a delivery port.                                *)
(*                                                                         *)
(* The key of an alert is a digest of its event, so an event stands for it. *)
(* Its id is random: two threads that both find no alert for the key write *)
(* two files.  The service locks nothing; the throttle is in memory.       *)
(***************************************************************************)
EXTENDS EventBus

CONSTANTS
    AlertHandler,   \* the AutonomousAlertEventHandler
    Subject,        \* the subject of each event
    Payload         \* what the rules read of each event

VARIABLES
    alerts,         \* alerts/*.json: for each event the delivery_status of its files
    stamped,        \* the keys of _last_alert_timestamps
    call,           \* where each thread is in process_event
    port,           \* the service was built with a delivery port
    \* history, read by the properties only
    sent,           \* how often the port was given the alert of an event, up to
                    \* two and until it is unseen
    unseen,         \* events whose alert a thread did not see: another was in
                    \* process_event with the event, or the file was not readable
    broken,         \* events whose alert met a crash or a failed write
    undecided       \* events whose alert met no port, or one that said PENDING

alertVars == <<alerts, stamped, call, port, sent, unseen, broken, undecided>>
eaVars == <<busVars, alertVars>>

\* ATTEMPTED stands for what a port said but PENDING: it matters that the alert
\* is no longer that.  SUPPRESSED is the service's own.
AlertStatuses == {"PENDING", "ATTEMPTED", "SUPPRESSED"}

Places == {"start", "save", "suppress", "write", "writeSuppressed",
           "send", "record", "told", "failed"}

Calls == [at : Places, file : Nat, result : AlertStatuses]

NoCall == [at |-> "start", file |-> 0, result |-> "PENDING"]

Significances == {"NONE", "NEGLIGIBLE", "MODERATE", "SIGNIFICANT", "CRITICAL", "UNKNOWN"}

\* Of a change its kind and its significance, of an opportunity its status and
\* its confidence, of an observation whether its source failed.
Payloads ==
    [type : {"CHANGE_DETECTED"}, sourceStatus : BOOLEAN, significance : Significances]
    \cup [type : {"OPPORTUNITY_DETECTED"}, confidence : {"HIGH", "MEDIUM", "LOW", "UNKNOWN"},
          status : {"VALID", "INVALID", "DISCARDED", "INSUFFICIENT_DATA", "UNKNOWN"}]
    \cup [type : {"MARKET_OBSERVATION_CREATED"}, failed : BOOLEAN]

ASSUME AlertAssumption ==
    /\ AlertHandler \in Handlers
    /\ Events \subseteq DOMAIN Subject
    /\ Payload \in [Events -> Payloads]

-----------------------------------------------------------------------------
(* DeterministicAlertRulesEngine                                           *)

AlertTypes == {"SOURCE_FAILURE", "SIGNIFICANT_CHANGE", "OPPORTUNITY_DETECTED"}

\* What deserves no alert.
Ineligible(p) ==
    \/ p.type = "CHANGE_DETECTED" /\ p.significance \in {"NONE", "NEGLIGIBLE"}
    \/ p.type = "OPPORTUNITY_DETECTED" /\ p.status \in {"INVALID", "DISCARDED"}
    \/ p.type = "MARKET_OBSERVATION_CREATED" /\ ~p.failed

AlertType(p) ==
    CASE p.type = "CHANGE_DETECTED" ->
            IF p.sourceStatus THEN "SOURCE_FAILURE" ELSE "SIGNIFICANT_CHANGE"
      [] p.type = "OPPORTUNITY_DETECTED" -> "OPPORTUNITY_DETECTED"
      [] p.type = "MARKET_OBSERVATION_CREATED" -> "SOURCE_FAILURE"

\* A change in the status of a source is never CRITICAL.
Severity(p) ==
    CASE p.type = "CHANGE_DETECTED" /\ p.sourceStatus ->
            IF p.significance = "CRITICAL" THEN "HIGH" ELSE "WARNING"
      [] p.type = "CHANGE_DETECTED" /\ ~p.sourceStatus ->
            [CRITICAL |-> "CRITICAL", SIGNIFICANT |-> "HIGH", MODERATE |-> "WARNING",
             UNKNOWN |-> "INFO"][p.significance]
      [] p.type = "OPPORTUNITY_DETECTED" ->
            IF p.status = "VALID" /\ p.confidence \in {"HIGH", "MEDIUM"}
            THEN IF p.confidence = "HIGH" THEN "HIGH" ELSE "WARNING"
            ELSE "INFO"
      [] p.type = "MARKET_OBSERVATION_CREATED" -> "WARNING"

Eligible == {e \in Events : ~Ineligible(Payload[e])}

ThrottleKey(e) == <<Subject[e], AlertType(Payload[e])>>

\* A cooldown has begun for the key of e that may not be over.
Cooling(e) == ThrottleKey(e) \in stamped /\ Severity(Payload[e]) # "CRITICAL"

EventAlertsTypeOK ==
    /\ BusTypeOK
    /\ alerts \in [Events -> Seq(AlertStatuses)]
    /\ stamped \subseteq {Subject[e] : e \in Events} \X AlertTypes
    /\ call \in [Workers -> Calls]
    /\ port \in BOOLEAN
    /\ sent \in [Events -> 0 .. 2]
    /\ unseen \subseteq Events
    /\ broken \subseteq Events
    /\ undecided \subseteq Events

EventAlertsInit ==
    /\ BusInit
    /\ alerts = [e \in Events |-> <<>>]
    /\ stamped = {}
    /\ call = [w \in Workers |-> NoCall]
    /\ port \in BOOLEAN
    /\ sent = [e \in Events |-> 0]
    /\ unseen = {}
    /\ broken = {}
    /\ undecided = {}

-----------------------------------------------------------------------------
(* process_event                                                           *)

InAlertCall(w) == worker[w].stage = "handle" /\ Current(w)[2] = AlertHandler

EventOf(w) == Current(w)[1]

At(w, places) == InAlertCall(w) /\ call[w].at \in places

Goto(w, at) == call' = [call EXCEPT ![w].at = at]

\* The port or a write raised: the delivery is a failed one.
Fail(w) == call' = [call EXCEPT ![w] = [@ EXCEPT !.at = "failed", !.result = "PENDING"]]

\* process_event ends, and the handler with it.
Return(w) == HandlerReturns(w) /\ call' = [call EXCEPT ![w] = NoCall]

\* A write that fails ends it with an exception, which is the handler's.
Raise(w) ==
    /\ Fault
    /\ HandlerRaises(w)
    /\ call' = [call EXCEPT ![w] = NoCall]
    /\ broken' = broken \cup {EventOf(w)}

\* Another thread is in process_event with the same event, past its first look.
Racing(w) ==
    \E v \in Workers \ {w} :
        InAlertCall(v) /\ EventOf(v) = EventOf(w) /\ call[v].at # "start"

\* get_by_idempotency_key finds nothing: there is no alert of the event, or it
\* cannot be read, and is passed over.
FindsNone(w) ==
    LET e == EventOf(w)
    IN  \/ /\ alerts[e] = <<>>
           /\ UNCHANGED busVars
           /\ unseen' = IF Racing(w) THEN unseen \cup {e} ELSE unseen
        \/ /\ alerts[e] # <<>>
           /\ Fault
           /\ UNCHANGED <<store, delivery, registered, worker, ran, again>>
           /\ unseen' = unseen \cup {e}

\* Within the cooldown of its key the alert is to be suppressed; otherwise the
\* cooldown starts, before the alert is saved.
Throttle(w) ==
    LET e == EventOf(w)
    IN  \/ Cooling(e) /\ Goto(w, "suppress") /\ UNCHANGED stamped
        \/ /\ Goto(w, "save")
           /\ stamped' = stamped \cup {ThrottleKey(e)}

\* Wrong on purpose: the alert that is there is not looked for.
CheckRules(w) ==
    LET e == EventOf(w)
    IN  /\ At(w, {"start"})
        /\ IF e \notin Eligible
           THEN Return(w) /\ UNCHANGED <<stamped, unseen>>
           ELSE /\ UNCHANGED busVars
                /\ unseen' = IF Racing(w) THEN unseen \cup {e} ELSE unseen
                /\ Throttle(w)
        /\ UNCHANGED <<alerts, port, sent, broken, undecided>>

\* The rules, the alert that may be there already, and the cooldown.
CheckAlert(w) ==
    LET e == EventOf(w)
    IN  /\ At(w, {"start"})
        /\ \/ /\ e \notin Eligible \/ alerts[e] # <<>>
              /\ Return(w)
              /\ UNCHANGED <<stamped, unseen>>
           \/ /\ e \in Eligible
              /\ FindsNone(w)
              /\ Throttle(w)
        /\ UNCHANGED <<alerts, port, sent, broken, undecided>>

\* save() looks for the key once more, and returns the alert that it finds:
\* one that was to be suppressed ends there, another goes on to the port.
SaveAlert(w) ==
    LET files == alerts[EventOf(w)]
    IN  /\ At(w, {"save", "suppress"})
        /\ \/ /\ FindsNone(w)
              /\ Goto(w, IF call[w].at = "save" THEN "write" ELSE "writeSuppressed")
           \/ /\ files # <<>> /\ call[w].at = "suppress"
              /\ Return(w)
              /\ UNCHANGED unseen
           \/ /\ call[w].at = "save"
              /\ UNCHANGED <<busVars, unseen>>
              /\ \E i \in DOMAIN files :
                    call' = [call EXCEPT ![w] = [@ EXCEPT !.at = "send", !.file = i,
                                                          !.result = files[i]]]
        /\ UNCHANGED <<alerts, stamped, port, sent, broken, undecided>>

\* Wrong on purpose: the exception of save() does not leave the handler.
WriteQuietly(w) ==
    LET e == EventOf(w)
    IN  /\ \/ /\ At(w, {"write"})
              /\ UNCHANGED busVars
              /\ alerts' = [alerts EXCEPT ![e] = Append(@, "PENDING")]
              /\ call' = [call EXCEPT ![w] = [@ EXCEPT !.at = "send", !.file = Len(alerts[e]) + 1,
                                                       !.result = "PENDING"]]
           \/ /\ At(w, {"write", "writeSuppressed"})
              /\ Return(w)
              /\ UNCHANGED alerts
        /\ UNCHANGED <<stamped, port, sent, unseen, broken, undecided>>

\* Wrong on purpose: the status of the alert is written for that of its delivery.
WriteStatus(w) ==
    LET e == EventOf(w)
    IN  /\ At(w, {"write"})
        /\ UNCHANGED busVars
        /\ alerts' = [alerts EXCEPT ![e] = Append(@, "CREATED")]
        /\ call' = [call EXCEPT ![w] = [@ EXCEPT !.at = "send", !.file = Len(alerts[e]) + 1,
                                                 !.result = "PENDING"]]
        /\ UNCHANGED <<stamped, port, sent, unseen, broken, undecided>>

\* The file is written, or the write raises.
WriteAlert(w) ==
    LET e == EventOf(w)
    IN  /\ \/ /\ At(w, {"write"})
              /\ UNCHANGED <<busVars, broken>>
              /\ alerts' = [alerts EXCEPT ![e] = Append(@, "PENDING")]
              /\ call' = [call EXCEPT ![w] = [@ EXCEPT !.at = "send", !.file = Len(alerts[e]) + 1,
                                                       !.result = "PENDING"]]
           \/ /\ At(w, {"writeSuppressed"})
              /\ alerts' = [alerts EXCEPT ![e] = Append(@, "SUPPRESSED")]
              /\ Return(w)
              /\ UNCHANGED broken
           \/ /\ At(w, {"write", "writeSuppressed"})
              /\ Raise(w)
              /\ UNCHANGED alerts
        /\ UNCHANGED <<stamped, port, sent, unseen, undecided>>

\* What a port tells of a delivery.
PortResults == {"ATTEMPTED", "PENDING"}

\* The alert is rewritten when the result is not the status that it was found
\* with; where neither is PENDING, both may be.
Rewrites(found, result) ==
    IF "PENDING" \in {found, result} THEN {found # result} ELSE BOOLEAN

\* Without a port the alert stays as it was saved.  deliver() tells how it went,
\* or raises, whether the alert went out or not.
SendAlert(w) ==
    LET e == EventOf(w)
        count == IF e \in unseen THEN sent ELSE [sent EXCEPT ![e] = Counted(@, FALSE)]
    IN  /\ At(w, {"send"})
        /\ \/ /\ ~port
              /\ Return(w)
              /\ undecided' = undecided \cup {e}
              /\ UNCHANGED sent
           \/ /\ port
              /\ \E result \in PortResults : \E rewrites \in Rewrites(call[w].result, result) :
                    /\ call' = [call EXCEPT ![w] = [@ EXCEPT
                          !.at = IF rewrites THEN "record" ELSE "told",
                          !.result = result]]
                    /\ undecided' = IF result = "PENDING" THEN undecided \cup {e}
                                                          ELSE undecided
              /\ sent' = count
              /\ UNCHANGED busVars
           \/ /\ port
              /\ Fail(w)
              /\ sent' \in {sent, count}
              /\ UNCHANGED <<busVars, undecided>>
        /\ UNCHANGED <<alerts, stamped, port, unseen, broken>>

\* The result is recorded and the alert's file brought up to date, if the result
\* is not the status that it was found with; a write that raises makes the
\* delivery a failed one.
RecordResult(w) ==
    /\ At(w, {"record", "told"})
    /\ \/ /\ call[w].at = "record"
          /\ alerts' = [alerts EXCEPT ![EventOf(w)][call[w].file] = call[w].result]
          /\ Return(w)
       \/ /\ call[w].at = "told"
          /\ Return(w)
          /\ UNCHANGED alerts
       \/ /\ Fault
          /\ Fail(w)
          /\ UNCHANGED <<store, delivery, registered, worker, ran, again, alerts>>
    /\ UNCHANGED <<stamped, port, sent, unseen, broken, undecided>>

\* Wrong on purpose: an exception of the port leaves the handler.
RaiseFailure(w) ==
    /\ At(w, {"failed"})
    /\ HandlerRaises(w) /\ UNCHANGED faults
    /\ call' = [call EXCEPT ![w] = NoCall]
    /\ UNCHANGED <<alerts, stamped, port, sent, unseen, broken, undecided>>

RecordFailure(w) ==
    /\ At(w, {"failed"})
    /\ \/ /\ alerts' = [alerts EXCEPT ![EventOf(w)][call[w].file] = "ATTEMPTED"]
          /\ Return(w)
          /\ UNCHANGED broken
       \/ /\ Raise(w)
          /\ UNCHANGED alerts
    /\ UNCHANGED <<stamped, port, sent, unseen, undecided>>

-----------------------------------------------------------------------------
AlertStep(w) ==
    \/ CheckAlert(w) \/ SaveAlert(w) \/ WriteAlert(w) \/ SendAlert(w)
    \/ RecordResult(w) \/ RecordFailure(w)

OtherHandlerEnds(w) ==
    /\ Current(w)[2] # AlertHandler
    /\ HandlerReturns(w) \/ (HandlerRaises(w) /\ UNCHANGED faults)

CrashAll ==
    /\ Crash
    /\ stamped' = {}
    /\ call' = [w \in Workers |-> NoCall]
    /\ broken' = broken \cup {EventOf(w) : w \in {v \in Workers : InAlertCall(v)}}
    /\ UNCHANGED <<alerts, port, sent, unseen, undecided>>

EventAlertsNext ==
    \/ BusStep /\ UNCHANGED alertVars
    \/ \E w \in Workers :
        \/ worker[w].stage = "handle" /\ OtherHandlerEnds(w) /\ UNCHANGED alertVars
        \/ AlertStep(w)
    \/ CrashAll

EventAlertsSpec == EventAlertsInit /\ [][EventAlertsNext]_eaVars

-----------------------------------------------------------------------------
\* "Replay seguro: retornar la alerta ya existente sin re-despachar": replays,
\* forced ones too, redeliveries after a lost record and crashes give the port an
\* event's alert at most once; only an alert that a thread does not see, two
\* threads having one event at once or its file not being readable, is given to
\* it twice.
AlertedOnceUnlessUnseen == \A e \in Events \ unseen : sent[e] <= 1 /\ Len(alerts[e]) <= 1

\* The bus takes an eligible event off the handler only when its alert is on file.
DeliveredHasAlert ==
    \A e \in Eligible :
        delivery[<<e, AlertHandler>>] = "DELIVERED" => alerts[e] # <<>>

\* An alert left PENDING with nobody to deliver it (the next delivery finds it
\* on file and turns back) is the doing of a crash, of a failed write, or of a
\* port that is not there or answers PENDING.
PendingIsExplained ==
    \A e \in Events \ (broken \cup undecided) :
        (\E i \in DOMAIN alerts[e] : alerts[e][i] = "PENDING")
            => \E w \in Workers : InAlertCall(w) /\ EventOf(w) = e
=============================================================================
