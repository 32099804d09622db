CONSTANTS
    Operators = {o1}
    Scopes <- MCScopes
    Rank <- MCRank
    Targets <- MCTargets
    Actions = {buy, look}
    Subject <- MCSubject
    ReadOnly = {look}
    Lenience = {TRUE}
    MaxStops = 1
    Garbled = Garbled
    buy = buy
    look = look
    ApprovalIds = {v1, v2}
    Approvable = {buy}
    ApprovalRule <- MCApprovalRule
    Principal = agent
    Approvers = {agent, manager}
    Executors = {t1}
    Amount <- MCAmount
    Limit <- MCLimit
    MaxTime = 1
    MaxFaults = 1
    None = None
SPECIFICATION GuardSpec
INVARIANTS
    StopIsObeyed
    GrantedIsListed
    OverLimitWasApproved
CHECK_DEADLOCK FALSE
