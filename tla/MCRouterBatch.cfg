\* Four orders that share three tokens, both passes.
CONSTANTS
    Tokens = {"weth", "usdc", "arb"}
    Orders <- Mixed
    MaxOut = 6
    V2Fallback = TRUE
SPECIFICATION Spec
INVARIANTS
    PricesRealised
    FullFillsWithinLimit
    PartialFillsNearLimit
CHECK_DEADLOCK FALSE
