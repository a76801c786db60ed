SPECIFICATION FairSpec
CONSTANTS
    Symbol   <- OneSymbol
    Analysis <- ExitAnalyses
    Id = {i1, i2}
    TTL = 1
    Owners = {o1}
    Autos = {}
    Enqueuers = {e1}
    Monitors = {m1}
    Expirers = {x1}
    Closers = {c1}
    MaxOpen = 1
    MaxNow = 1
    MaxOffers = 2
    MaxOrders = 2
PROPERTY LapsedCardsResolved
INVARIANT PositionsTraceToFills
