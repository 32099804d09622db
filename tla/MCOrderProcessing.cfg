SPECIFICATION OrderSpec
CONSTANTS
    o1 = o1
    o2 = o2
    l1 = l1
    l2 = l2
    Receivers = {w1}
    Pollers = {w2}
    Orders = {o1, o2}
    Listings = {l1, l2}
    Items <- MCItems
    InitialStock <- MCStock
    Denied = {l2}
    NoOrder = NoOrder
    NoImpact = NoImpact
    Unexplained = Unexplained
    Ending = {o2}
    MaxRestarts = 1
INVARIANTS
    DeductedAgainIsExplained
    PaidHasImpact
    StockIsExplained
CHECK_DEADLOCK FALSE
