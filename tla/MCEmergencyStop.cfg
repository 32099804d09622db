CONSTANTS
    Operators = {o1, o2}
    Scopes <- MCScopes
    Rank <- MCRank
    Targets <- MCTargets
    Actions = {}
    Subject <- MCSubject
    ReadOnly = {}
    MaxStops = 3
    Lenience = {FALSE}
    Garbled = Garbled
    account = account
    MaxTime = 1
    MaxFaults = 2
    None = None
SPECIFICATION StopSpec
INVARIANTS
    PromisedIsInForce
SYMMETRY MCSymmetry
CHECK_DEADLOCK FALSE
