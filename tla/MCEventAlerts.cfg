CONSTANTS
    audit = audit
    alert = alert
    Publishers = {p}
    Replayers = {r}
    Events = {e1}
    Handlers = {audit, alert}
    When <- MCWhen
    CanHandle <- MCCanHandle
    MaxListed = 1
    Removable = {audit}
    MaxFaults = 1
    AlertHandler = alert
    Payload <- MCPayload
    Subject <- MCSubject
SPECIFICATION EventAlertsSpec
CHECK_DEADLOCK FALSE
INVARIANTS
    EventAlertsTypeOK
    ConsumedOnceUnlessAgain
    AlertedOnceUnlessUnseen
    DeliveredHasAlert
    PendingIsExplained
