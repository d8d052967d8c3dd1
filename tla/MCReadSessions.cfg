SPECIFICATION SessionSpec
CONSTANTS
    base = base
    window = window
    whole = whole
    part = part
    w1 = w1
    None = None
    Results = {base, window}
    Source <- MCSource
    DomainOf <- MCDomainOf
    Workers = {w1}
    MaxGenerations = 4
    MaxReleases = 2
INVARIANTS
    MemoPathsExist
CHECK_DEADLOCK FALSE
