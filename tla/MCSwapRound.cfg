\* Two rounds of three orders over all venues, in a market that may move.
CONSTANTS
    FeeTiers <- Tiers
    Intermediates <- Hubs
    Rank <- Ranks
    Weth = "weth"
    CurvePools <- Pools
    FeeBps = 3
    SlippageBps = 10
    Unit = 100
    StrictTokens = {"usdt"}
    ChunkSize = 5
    GasCap = 3
    Requests <- Three
    Markets <- TwoMarkets
    Standing = {"swapRouter", "v2Router"}
    Heavy = {2}
    MaxRounds = 2
    MaxFailures = 1
SPECIFICATION Spec
INVARIANTS
    QuotesAreTrue
    LossIsBounded
PROPERTIES
    QuoteIsHonoured
    RoundEnds
CHECK_DEADLOCK FALSE
