SPECIFICATION Spec
CONSTANTS
    p = p
    q = q
    Paths <- MCPaths
    Contents = {1, 2}
    MaxKey = 3
    None = None
    Settings <- MCSettings
SYMMETRY Symmetric
INVARIANTS ReadsLatest
PROPERTIES FoldKeepsChecks CommitsPassVerify QuietMeansSeen ClearedAsScanned AgesAreRight
CHECK_DEADLOCK FALSE
