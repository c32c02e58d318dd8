SPECIFICATION FairSpec
CONSTANTS
  e1 = e1  e2 = e2  d1 = d1  d2 = d2  pa = pa  pb = pb  c1 = c1  c2 = c2
  Entity = {e1, e2}
  Record = {d1}
  Process = {1, 2}
  Path = {pa, pb}
  Comm = {c1, c2}
  None = None
  Home <- MCHome
  Foreign = {}
  Overloads <- MCOverloads
  Clusterings <- MCClusterings
  Modes = {TRUE}
  Covered = {FALSE}
  TrustDirtyTree = FALSE
  Returns = FALSE
  MaxEvents = 3
  
PROPERTIES  CommittedMovesAreFollowed
CHECK_DEADLOCK FALSE
