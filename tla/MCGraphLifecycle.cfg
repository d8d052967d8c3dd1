CONSTANTS
    a = a
    b = b
    c = c
    d = d
    k1 = k1
    d1 = d1
    d2 = d2
    u1 = u1
    u2 = u2
    Nodes <- MCNodes
    Parents <- MCParents
    Contexts = {k1}
    Definitions = {d1, d2}
    Clients = {u1, u2}
    MaxChanges = 3

SPECIFICATION Spec

INVARIANTS
    TypeOK
    ActiveAncestry
    FencedSnapshotIsCurrent

PROPERTIES
    RegistrySpec
    AsleepUntilWoken
    NothingForgotten

CHECK_DEADLOCK FALSE
