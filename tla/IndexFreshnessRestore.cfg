SPECIFICATION RestoringSpec
CONSTANTS
    Files = {f1, f2}
    Procs = {p1}
    None = None
    MaxVersion = 2
    MaxFailures = 0
INVARIANT CertifiedIndexIsLoaded
CHECK_DEADLOCK FALSE
