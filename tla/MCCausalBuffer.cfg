SPECIFICATION PolicySpec
CONSTANTS
    a = a
    b = b
    w1 = w1
    w2 = w2
    Assets = {a, b}
    Operations = {"pointwise", "exact", "lag", "canonical"}
    Workers = {w1, w2}
    BatchBlocks = 2
    None = None
    Null = Null
    Absent = Absent
    Scopes <- MCNone
    CheckpointScopes <- MCNone
    PeriodScopes <- MCNone
    RegionScopes <- MCNone
    MaintenanceScopes <- MCNone
    CausalScopes <- MCTrimmed
INVARIANTS
    OutputsArePointInTime
CHECK_DEADLOCK FALSE
