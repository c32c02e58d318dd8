SPECIFICATION Spec
CONSTANTS
    Decisions = {d1, d2, d3}
    Facts = {f1, f2}
    None = None
    MaxCrashes = 1
SYMMETRY IdSymmetry
INVARIANTS
    DiskIsWhole
PROPERTIES
    DiskKeepsHistory
    ImplementsLifecycle
CHECK_DEADLOCK FALSE
