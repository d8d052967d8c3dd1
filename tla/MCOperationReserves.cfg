SPECIFICATION ReserveSpec
CONSTANTS
    window = window
    metadata = metadata
    proof = proof
    t1 = t1
    t2 = t2
    t3 = t3
    Locators = {window, metadata, proof}
    Charge <- MCCharge
    Priority <- MCPriority
    Inner <- MCInner
    Depth <- MCDepth
    Scoped = {metadata}
    Workers = {t1, t2, t3}
    Budget = 3
    MaxCalls = 1
    None = None
    Threads = {t1, t2}
    Results = {1, 2, 3}
    Sources <- MCSources
    MaximumBytes = 4
    ManifestCharge = 2
    BindingCharge = 1
    MaxChecks = 2
INVARIANTS
    ReservesAreExact
    BuildsAreSingle
    FreshChecksHold
PROPERTIES
    EvidenceStays
    CallsReturn
CHECK_DEADLOCK FALSE
