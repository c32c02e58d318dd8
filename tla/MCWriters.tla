----------------------------- MODULE MCWriters -----------------------------
(* Everybody who writes to a store, in small casts: each setting is one      *)
(* question, and all of them together are one run.                          *)
EXTENDS Bootstrap, TLC

CONSTANTS d1, d2, d3, f1, f2, a1, a2, p1, p2

Under(x, y) == (a1 :> x) @@ (a2 :> y)
OneAgent(x) == Under(x, {})
Nobody == OneAgent({})

Empty == [ids |-> {}, policies |-> Nobody, ways |-> {}, events |-> 0, anyone |-> FALSE,
          modes |-> Nobody, docs |-> {}, lines |-> {"open", "draft", "rejected", "history"}, boots |-> {}, reviews |-> {}]

MCSettings ==
    { \* one agent after the other, under every policy: successors and evidence
      [Empty EXCEPT !.ids = {d1, d2, f1}, !.ways = {"none", "live"},
                    !.policies = OneAgent({"auto-low-risk", "auto-all"})],
      \* another agent attaches evidence to the decision one is about to ratify
      [Empty EXCEPT !.ids = {d1, f1, f2}, !.ways = {"dead", "live"},
                    !.policies = Under({"auto-low-risk"}, {"manual"})],
      \* a human and sync act between the steps of a draft
      [Empty EXCEPT !.ids = {d1, f1}, !.ways = {"dead", "live"}, !.events = 2,
                    !.policies = OneAgent({"auto-low-risk"})],
      \* duplicates are retired, with anchors of every worth
      [Empty EXCEPT !.ids = {d1, d3, f1}, !.ways = Routes, !.events = 2,
                    !.policies = OneAgent({"direct"})],
      \* anybody calls anything
      [Empty EXCEPT !.ids = {d1, d2, d3, f1}, !.anyone = TRUE],
      [Empty EXCEPT !.ids = {d1, f1, f2}, !.anyone = TRUE],
      \* a document is edited, reviewed and imported in every mode
      [Empty EXCEPT !.ids = {d1, d2, d3}, !.ways = {"live"}, !.events = 2, !.docs = {p1},
                    !.modes = OneAgent({"plain", "manual", "auto-all"})],
      \* an agent works next to an import
      [Empty EXCEPT !.ids = {d1, f1}, !.ways = {"live"}, !.events = 1, !.docs = {p1},
                    !.policies = Under({}, {"manual"}), !.modes = OneAgent({"auto-low-risk"})],
      \* a human reviews what waits while an agent writes
      [Empty EXCEPT !.ids = {d1, f1}, !.ways = {"live"}, !.events = 1, !.reviews = {"all", "given"},
                    !.policies = Under({"manual"}, {"legacy-accept"})],
      \* two documents are brought in by a bootstrap, edited and reviewed meanwhile
      [Empty EXCEPT !.ids = {d1, d2}, !.ways = {"live"}, !.events = 1, !.docs = {p1, p2},
                    !.lines = {"open"}, !.boots = {a1}] }

=============================================================================
