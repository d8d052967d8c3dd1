SPECIFICATION Spec
CONSTANTS
    Sessions = 2
    AssetCount = 2
    Null = Null
    Scenarios <- MCScenarios
    HistorySessions = 4
    PendingLimit = 12
    ReuseRuntime = FALSE
    Unary = {"negate", "fillna", "constant", "lag", "diff", "ffill", "rank", "extension"}
    Binary = {"add", "sub"}
    MoreUnary = {"rolling", "smooth", "aged", "repeated", "percentile", "demean"}
    Pairs = {"covariance", "regression", "grouped"}
INVARIANTS
    TypeOK
    SparseMeansDense
    ClaimsHold
    TracesCoverInputs
    PublishedWithItsEvidence
    PendingIsBounded
    NothingPublishedIsRecollected
    HistorySuffices
