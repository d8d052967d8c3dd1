SPECIFICATION Spec
CONSTANTS
    Sessions = 2
    AssetCount = 2
    Null = Null
    Scenarios <- AnyDefaults
    HistorySessions = 4
    PendingLimit = 12
    ReuseRuntime = FALSE
    Unary = {"fillna", "constant"}
    Binary = {"add", "sub"}
    MoreUnary = {}
    Pairs = {}
INVARIANT SparseMeansDense
