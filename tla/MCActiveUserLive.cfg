\* Sessions settle.
CONSTANTS
    Records = {1, 2}
    Sessions = {s1}
    Requests = {p1}
    Costs = {1, 2}
    CostOf <- OwnCost
    None = None
    MaxRetry = 0
    InitialActive <- OneActive
    Faults = FALSE
    Rank <- ById
    InitialPins <- NoPin
    CacheOn = TRUE
    MayOverlap = FALSE
    Forgetful = TRUE
    ReadFaults = TRUE
SPECIFICATION FairUserSpec
PROPERTIES SessionSettles
CHECK_DEADLOCK FALSE
