\* Four stored auctions as they age, three competitions, two tokens.
CONSTANTS
    Auctions <- Rows
    PolledAt <- Times
    Stored <- Raws
    Malformed = {1}
    Trades <- Fills
    Worth <- Surplus
    RetentionAge = 1
    Batch = 2
    MaxPages = 2
    BatchSize = 2
    Horizon = 4
    MaxFaults = 2
    Uids = {"u"}
    Solvers = {"s", "t"}
    Winner = "s"
    MinSeen = 1
    Observation = 1
    Lookback = 2
    Recent = 0
    Stale = 1
    Since = 2
    Limit = 2
    MaxAuctions = 3
    MaxErrors = 1
    Tokens = {"x", "y"}
    Entries <- Answers
    SeedBatch = 1
    MaxAttempts = 2
    KnownScams = {"y"}
    MaxObserved = 1
SPECIFICATION Spec
INVARIANTS
    ScoresSurviveSlimming
PROPERTIES
    AgedRowsSlimmed
    SettledGhostsLeave
    KnowledgeIsKept
CHECK_DEADLOCK FALSE
