SPECIFICATION Spec
CONSTANTS
  n1 = n1  n2 = n2  n3 = n3  c1 = c1  c2 = c2  p1 = p1  p2 = p2
  Domain = {1, 2, 3}
  Node = {n1, n2, n3}
  Comm = {c1, c2}
  Process = {p1, p2}
  None = None
  Pred <- MCPred
  Prefix <- MCPrefix
  Seed <- MCSeed
  Graphs <- MCGraphs
  Pulled <- MCPulled
  Snapshots <- MCSnapshots
  MaxEvents = 3
  MaxFailures = 1
INVARIANTS RowsAreCurrent
PROPERTIES BindsFromWhatIsOnDisk RefreshKeepsMembership
SYMMETRY MCSymmetry
CHECK_DEADLOCK FALSE
