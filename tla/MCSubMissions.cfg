SPECIFICATION SubSpec
CONSTANTS
    Service = Service
    w1 = w1
    a = a
    b = b
    c = c
    d = d
    None = None
    Writers <- MCWriters
    Steps <- MCSteps
    Created <- MCCreated
    Repairs <- MCRepairs
    Cost <- MCCost
    MaxCost = 3
    MaxSteps = 4
    MaxReplans = 1
    MaxCalls = 4
    MaxFaults = 1
    RootCost = 3
    Costs <- MCCosts
    MaxDepth = 2
    MaxChildren = 2
    MaxMissions = 4
INVARIANTS
    SubTypeOK
    NothingIsRedone
    PlanIsNotStuck
    BudgetIsPartitioned
    ResultIsInPlan
PROPERTIES CancelReachesAll
CHECK_DEADLOCK FALSE
