\* One auction through the full chain, composer, EBBO and gate; strategies and
\* validators may hang, and the record of the router cannot be read back.
CONSTANTS
    Requests = {r1}
    Chain <- ProductionChain
    SalvageOrder <- SalvageOrderOf
    Naive = "naive"
    Unparsable = {"router-v2"}
    RunAll = TRUE
    ComposeEnabled = TRUE
    EdgePresent = TRUE
    EbboEnabled <- ProductionEbbo
    GateEnabled <- ProductionGate
    MaxCrashes = 1
SPECIFICATION FairSpec
INVARIANTS
    GateFailsClosed
    NoCandidateSkipped
    SalvageLosesNothing
    SubmissionIsOnRecord
    AttemptsComplete
PROPERTIES
    AnswerIsFinal
    ImplementsApi
    EveryRequestAnswered
CHECK_DEADLOCK FALSE
