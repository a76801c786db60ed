SPECIFICATION FairSpec
CONSTANTS
    Longs = {b1}
    Exits = {s1}
    MaxCalls = 2
    Flatteners = {tick}
    Reconcilers = {rec}
    BuyQty = 2
    MinLot = 1
    Spare = 0
    Thin = FALSE
    Scenes <- MCScenes
    MaxFaults = 2
    MaxCrashes = 1
    MaxRetries = 2
    MaxTime = 2
INVARIANTS OneBuyPerApproval BuysCountedOnce
PROPERTY FlattenSettles
