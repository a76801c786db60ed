SPECIFICATION Spec
CONSTANTS
    Symbol   <- OneSymbol
    Analysis <- ExitAnalyses
    Id = {i1, i2}
    TTL = 1
    Owners = {o1}
    Autos = {a1}
    Enqueuers = {e1, e2}
    Monitors = {}
    Expirers = {}
    Closers = {}
    MaxOpen = 1
    MaxNow = 1
    MaxOffers = 2
    MaxOrders = 4
SYMMETRY DeskSymmetry
INVARIANTS TypeOK BookMatchesJournal AutoFillsReviewed
PROPERTY CardsDecidedOnce
