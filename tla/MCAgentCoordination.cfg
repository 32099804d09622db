SPECIFICATION FairSpec
CONSTANTS
    t1 = t1
    t2 = t2
    t3 = t3
    a1 = a1
    a2 = a2
    r = r
    m1 = m1
    Tasks = {t1, t2, t3}
    Agents = {a1, a2}
    Monitors = {m1}
    Resources = {r}
    Deps <- MCDeps
    ResourceOf <- MCResourceOf
    Planned <- MCPlanned
    StartStatuses = {"PENDING", "FAILED"}
    Funded = {t1, t2}
    MaxTasks = 2
    MaxAgents = 2
    MaxDelegations = 1
    FailFast = FALSE
    NoAgent = NoAgent
    NoResource = NoResource
    NoRequest = NoRequest
INVARIANTS
    AssignmentIsUnique
    CancelledIsQuiet
PROPERTIES
    DeniedIsNotRerouted
    WaitingIsDecided
