SPECIFICATION SchedFairSpec
CONSTANTS
    Tickers = {w1}
    Callers = {c1}
    Configs <- MCConfigs
    Results = {"SUCCESS", "FAILED"}
    Never = Never
    MaxTime = 2
    MaxCrashes = 1
INVARIANTS
    OneTriggerPerInstant
    RunningIsExplained
PROPERTIES
    DueIsServed
