SPECIFICATION SSpec
CONSTANTS
    x1 = x1
    x2 = x2
    x3 = x3
    s1 = s1
    s2 = s2
    f1 = f1
    f2 = f2
    Hooks = {x1, x2, x3}
    Ids = {s1, s2}
    Paths = {f1, f2}
    NoRow = NoRow
    Crews <- MCCrews
    Cap = 1
    PerCall = 2
    Dedupe = 2
    Repeat = 2
    Ranks = {1, 2}
    Gap = 2
    Retention = 2
    Span = 1
    MaxNow = 3
    MaxFaults = 1
SYMMETRY MCSymmetry
INVARIANTS MapOncePerStart NoticeOncePerDay FileToldOnce AskedAgainAfterGap
CHECK_DEADLOCK FALSE
