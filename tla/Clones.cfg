SPECIFICATION ClonesSpec
CONSTANTS
    d1 = d1
    d2 = d2
    d3 = d3
    d4 = d4
    f1 = f1
    f2 = f2
    f3 = f3
    m1 = m1
    m2 = m2
    m3 = m3
    Decisions <- MCDecisions
    Facts <- MCFacts
    Domains <- MCDomains
    Slugs = {s1, s2}
    Clones = {c1, c2}
    Mixes <- MCMixes
    None = None
SYMMETRY Symmetric
INVARIANTS
    OneLiveHead
    SlugHasOneHolder
PROPERTIES
    OnlyMergesCollide
CHECK_DEADLOCK FALSE
