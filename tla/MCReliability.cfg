CONSTANTS
    Engines = {e1, e2}
    Keys = {publish, query}
    SideEffects = {publish}
    Payloads <- MCPayloads
    publish = publish
    query = query
    p = p
    None = None
    MaxAttempts = 2
    FailureThreshold = 2
    HalfOpenSuccesses = 2
    MaxFaults = 2
SPECIFICATION FairRelSpec
INVARIANTS
    EffectOnceUnlessExcused
    OpenCircuitIsQuiet
PROPERTIES
    CallsEnd
