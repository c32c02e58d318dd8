SPECIFICATION FairSpec
CONSTANTS
    Files = {f1, f2}
    Procs = {p1, p2}
    None = None
    MaxVersion = 2
    MaxFailures = 1
INVARIANTS
    CertifiedIndexIsLoaded
PROPERTY IndexCatchesUp
CHECK_DEADLOCK FALSE
