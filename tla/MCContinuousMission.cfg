SPECIFICATION Spec
CONSTANTS
    Tickers = {w1}
    Callers = {c1}
    Configs <- MCConfigs
    Results = {"SUCCESS", "FAILED", "UNKNOWN", "SKIPPED"}
    Never = Never
    MaxTime = 1
    MaxCrashes = 1
    MaxCycles = 2
    MaxFailures = 1
    StopOnUnknown = TRUE
    MaxRecords = 1
    MaxFaults = 2
INVARIANTS
    RunnableBelowLimits
    OneCyclePerInstant
    OccurrenceTellsCycle
    CountedWereCompleted
