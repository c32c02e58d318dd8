--------------------------- MODULE MCDriftChecks ---------------------------
(* DriftChecks in small settings, one question each.                        *)
EXTENDS DriftChecks, TLC

CONSTANTS p, q

MCPaths == {p, q}

Budget == [records |-> 0, scans |-> 0, failures |-> 0, folds |-> 0, crashes |-> 0, edits |-> 0,
           commits |-> 0, pulls |-> 0, checkouts |-> 0, closes |-> 0, rebinds |-> 0]

Codes == [MCPaths -> Contents \cup {None}]
Both == {[x \in MCPaths |-> "live"]}
One == {[x \in MCPaths |-> IF x = p THEN "live" ELSE "none"]}
Same == {[x \in MCPaths |-> 1]}

MCSettings ==
    { \* two refreshes around a check, with code that appears, changes and goes
      [left |-> [Budget EXCEPT !.records = 1, !.scans = 2, !.edits = 2],
       anchors |-> Both, codes |-> Codes],
      \* anchors are added, lost and found, and a comparison fails
      [left |-> [Budget EXCEPT !.records = 1, !.scans = 2, !.edits = 1, !.rebinds = 2, !.failures = 1],
       anchors |-> Both, codes |-> Same],
      \* code changes to and fro, for the age of an episode
      [left |-> [Budget EXCEPT !.records = 1, !.scans = 4, !.edits = 3],
       anchors |-> One, codes |-> Same],
      \* a refresh reads the checks while they are folded
      [left |-> [Budget EXCEPT !.records = 1, !.scans = 1, !.pulls = 1, !.folds = 2, !.commits = 1,
                               !.checkouts = 1],
       anchors |-> One, codes |-> Same],
      \* folds that die, and branches
      [left |-> [Budget EXCEPT !.records = 1, !.pulls = 2, !.folds = 2, !.commits = 2,
                               !.checkouts = 1, !.crashes = 1],
       anchors |-> One, codes |-> Same],
      \* HEAD goes and comes back while a check is folded
      [left |-> [Budget EXCEPT !.records = 1, !.pulls = 1, !.folds = 1, !.commits = 3,
                               !.checkouts = 1],
       anchors |-> One, codes |-> Same],
      \* the decision is closed
      [left |-> [Budget EXCEPT !.pulls = 2, !.folds = 2, !.commits = 2, !.checkouts = 1,
                               !.crashes = 1, !.closes = 1],
       anchors |-> One, codes |-> Same] }

Symmetric == Permutations(MCPaths)

=============================================================================
