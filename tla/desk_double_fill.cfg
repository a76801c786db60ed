SPECIFICATION Spec
CONSTANTS
    Symbol   <- OneSymbol
    Analysis <- OneAnalyses
    Id = {i1, i2}
    TTL = 1
    Owners = {o1}
    Autos = {}
    Enqueuers = {e1}
    Monitors = {}
    Expirers = {}
    Closers = {}
    MaxOpen = 1
    MaxNow = 0
    MaxOffers = 2
    MaxOrders = 4
INVARIANT ApprovalFillsOnce
