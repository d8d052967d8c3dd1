SPECIFICATION Spec
CONSTANTS
    input = input
    mean = mean
    rank = rank
    main = main
    side = side
    plain = plain
    bounded = bounded
    early = early
    late = late
    p1 = p1
    p2 = p2
    Nodes <- MCNodes
    Parents <- MCParents
    Contexts = {main}
    Definitions = {plain, bounded}
    MaxChanges = 2
    Operators <- MCOperators
    StartOutputs <- MCStartOutputs
    StartContexts <- MCStartContexts
    Versions = {early}
    Through <- MCThrough
    Cutoff <- MCCutoff
    Plans = {p1, p2}
    MaxFailures = 0
    MaxReleases = 1
    Scopes <- MCRetiringScopes
    None = None
INVARIANTS
    RetiredLeaveCompletions
CHECK_DEADLOCK FALSE
