SPECIFICATION Spec
CONSTANTS
    base = base
    window = window
    twin = twin
    whole = whole
    part = part
    w1 = w1
    w2 = w2
    None = None
    Results = {base, window, twin}
    Source <- MCSource
    DomainOf <- MCDomainOf
    Workers = {w1, w2}
    MaxGenerations = 3
    MaxReleases = 1
INVARIANTS
    DomainsPresent
CHECK_DEADLOCK FALSE
