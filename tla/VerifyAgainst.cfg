SPECIFICATION VSpec
CONSTANTS
    i1 = i1
    i2 = i2
    s1 = s1
    accepted = accepted
    retired = retired
    edited = edited
    None = None
    Gap = Gap
    N = 2
    Ids <- MCIds
    Bodies <- MCBodies
    Follows <- MCFollows
    Terminal <- MCTerminal
    Bucket <- MCBucket
    Segments <- MCSegments
    SegmentLines <- MCSegmentLines
    Stores <- MCStores
    MaxRuns = 2
    MaxGit = 1
INVARIANTS OneRunSettles OwnWorkIsAccepted AcceptedIsLegal
PROPERTIES FoldIsInvisible NothingUniqueIsRemoved
CHECK_DEADLOCK FALSE
