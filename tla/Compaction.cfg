SPECIFICATION Spec
CONSTANTS
    Domains = {m1, m2}
    Slugs = {s1}
    Clones = {c1, c2}
    Names = {1, 2}
    MaxCrashes = 1
    None = None
SYMMETRY Symmetric
PROPERTIES
    NothingLost
    CompactionIsInvisible
    CompactionConverges
CHECK_DEADLOCK FALSE
