SPECIFICATION Spec
CONSTANTS
    Orders <- MCOrders
    Lower <- MCLower
    Reference <- MCReference
    PriceScale = 2
    Ghosts = {"ghost"}
    FeeTiers = {"low", "high"}
    Factories = {"sushi"}
    Intermediates = {"c"}
    MaxOrders = 2
    ToleranceBps = 2
    Unit = 100
    MaxTrades = 2
    SlippageBps = 2
    MinGroup = 2
    Auctions <- MCAuctions
    Chains <- MCChains
    EdgeSolutions <- MCEdgeSolutions
    MaxMoves = 2
INVARIANTS
    DroppedAreDead
    RevertNeedsMove
    PhantomsRevert
    SoloFillsPassEbbo
    TradersGetExternalBest
    ShortfallIsRounding
    ScoredTradesNearLimit
    RefinedTradesClear
