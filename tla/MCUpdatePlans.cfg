SPECIFICATION Spec
CONSTANTS
    input = input
    mean = mean
    rank = rank
    main = main
    side = side
    plain = plain
    bounded = bounded
    early = early
    late = late
    p1 = p1
    p2 = p2
    Nodes <- MCNodes
    Parents <- MCParents
    Contexts = {main, side}
    Definitions = {plain, bounded}
    MaxChanges = 3
    Operators <- MCOperators
    StartOutputs <- MCStartOutputs
    StartContexts <- MCStartContexts
    Versions = {early, late}
    Through <- MCThrough
    Cutoff <- MCCutoff
    Plans = {p1, p2}
    MaxFailures = 0
    MaxReleases = 2
    Scopes <- MCScopes
    None = None
SYMMETRY MCPlanSymmetry
INVARIANTS
    TypeOK
    AncestorsRegistered
PROPERTIES
    HistorySpec
    UpdatesMatchGraph
    FlagsMatchGraph
    FlagsAdvance
    ReleaseKeepsAncestry
CHECK_DEADLOCK FALSE
