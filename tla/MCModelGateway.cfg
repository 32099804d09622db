CONSTANTS
    Calls = {c1, c2, c3}
    Correlations = {k1, k2}
    Users = {u, v}
    u = u
    v = v
    nobody = nobody
    Nobody = nobody
    Requesters <- MCRequesters
    Changes <- MCChanges
    Window = 2
    MaxTokens = 2
    Start = 1
    MaxTime = 2
    Rules <- MCRules
    ReservationTTL = 1
    Estimate = 2
    Prompts = {p}
    CacheTTL = 1
    CacheTokens <- MCCacheTokens
    CacheTimes <- MCCacheTimes
    Answers = {1}
    MaxFaults = 1
SYMMETRY Symmetry
SPECIFICATION GatewaySpec
CHECK_DEADLOCK FALSE
INVARIANTS
    GatewayTypeOK
    WithinLimitUnlessBlind
    SettledAsMetered
    NoOrphanHold
