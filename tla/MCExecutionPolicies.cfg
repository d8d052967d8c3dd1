SPECIFICATION PolicySpec
CONSTANTS
    a = a
    b = b
    w1 = w1
    w2 = w2
    Assets = {a, b}
    Operations = {"pointwise", "exact", "lag", "canonical"}
    Workers = {w1, w2}
    BatchBlocks = 2
    None = None
    Null = Null
    Absent = Absent
    Scopes <- MCFinite
    CheckpointScopes <- MCCheckpoint
    PeriodScopes <- MCPeriod
    RegionScopes <- MCRegion
    MaintenanceScopes <- MCMaintenance
    CausalScopes <- MCCausal
SYMMETRY Symmetry
INVARIANTS
    FiniteResultsAreWholeHistory
    FiniteBlocksFollowProofs
    FiniteHistoryIsReused
    CheckpointResumedIsWholeHistory
    CheckpointHistoryIsContinued
    PeriodPredictionsAreOfTheirDay
    RegionsAreWholeHistory
    OutputsAreOfTheirDay
    MaintainedIsComputed
CHECK_DEADLOCK FALSE
