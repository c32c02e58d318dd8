------------------------------- MODULE Anchors -------------------------------
(***************************************************************************)
(* How records stay anchored while code moves (sync.py, anchoring.py).     *)
(* An entity is a symbol with a descriptor (its file); a record is bound   *)
(* to it by a leaf, and to the community of its node by a tier-1 row.      *)
(* Leaf statuses and community rows live in the index only.                *)
(*                                                                         *)
(* sync holds no lock: every row, entity and meta key it writes is a       *)
(* transaction of its own, and edits, commits, graph builds, captures,     *)
(* reloads and the passes of other processes come between any two.  A      *)
(* pass may die, and a visit or a reconcile may raise, at each of them.    *)
(* Descriptors without a file are left out.                                *)
(***************************************************************************)
EXTENDS Integers

CONSTANTS Entity, Record, Path, Comm, None,
          Process,       \* processes that sync, numbered
          Home,          \* the file each entity is first described in
          Foreign,       \* files whose like-named node is of another kind
          Overloads,     \* <<file, entity>>: the name occurs twice there
          Clusterings,   \* the communities a build may give the files
          Modes,         \* TRUE: the store's own graph; FALSE: a borrowed one
          Covered,       \* whether a domain may take a capture's tier-1 row
          TrustDirtyTree,
          Returns,       \* whether a build may bring an earlier graph back
          MaxEvents      \* bound on the steps of the environment

ASSUME Typing == /\ Home \in [Entity -> Path]
                 /\ Foreign \subseteq Path
                 /\ Overloads \subseteq Path \X Entity
                 /\ None \notin Comm /\ Clusterings \subseteq [Path -> Comm]
                 /\ Modes \subseteq BOOLEAN /\ Covered \subseteq BOOLEAN
                 /\ None \notin Path \cup Entity \cup Record

VARIABLES tree, head, rev, moves,      \* the checkout and its history
          graph,                       \* graph.json
          desc, seen, leaf, rows,      \* entities, bindings
          stamp, volatile, gen, done, watch, pending1,   \* meta rows
          pass, visit, settling,       \* of each process: its pass, the
                                       \* entity and the record in hand
          lost,                        \* community rows nobody will revisit
          raised,                      \* entities no visit settled since one raised
          beside, crossed,             \* passes that were not alone, and
                                       \* whether one may have left a trace
          events

checkout == <<tree, head, rev, moves>>
bindings == <<desc, seen, leaf, rows>>
meta     == <<stamp, volatile, gen, done, watch, pending1>>
work     == <<pass, visit, settling>>
history  == <<lost, raised, beside, crossed>>
vars     == <<checkout, graph, bindings, meta, work, history, events>>

Contents == [files : SUBSET Path, at : SUBSET (Path \X Entity)]
Status   == {"none", "live", "degraded", "orphaned"}
Event    == events < MaxEvents /\ events' = events + 1
Overlap  == events + 1 < MaxEvents /\ events' = events + 2
NoVacancy == [r \in Record |-> {}]
Idle == [pc |-> "idle", mode |-> "none", own |-> FALSE, graph |-> None, synced |-> FALSE,
         head |-> 0, gen |-> 0, todo |-> {}, snap |-> <<>>, uncommitted |-> {},
         vacated |-> NoVacancy, failed |-> NoVacancy]
NoVisit == [stage |-> "none", entity |-> None, was |-> None, desc |-> None, old |-> None,
            comm |-> None, status |-> "none", list |-> {}, wrote |-> {}]
NoRecord == [record |-> None, up |-> {}, down |-> {}, keep |-> {}]

-----------------------------------------------------------------------------
(* What the graph answers *)

\* Where the graph has a node of the entity's name (resolve, name only).
Hits(e, g) == {p \in g.files : <<p, e>> \in g.at}

Shared(S, g) == IF \E c \in Comm : \A p \in S : g.comm[p] = c
                THEN CHOOSE c \in Comm : \A p \in S : g.comm[p] = c ELSE None

Resolve(S, e, g) ==
  [status    |-> IF S = {} THEN "unresolved"
                 ELSE IF \E p \in S : S = {p} /\ <<p, e>> \notin Overloads
                      THEN "resolved" ELSE "ambiguous",
   community |-> IF S = {} THEN None ELSE Shared(S, g)]

Exact(e, p, g) == Resolve(Hits(e, g) \cap {p}, e, g)
Loose(e, g)    == Resolve(Hits(e, g), e, g)

\* The community of the file an orphaned symbol was in.
ObservedForOrphan(p, g) == IF p \in g.files THEN g.comm[p] ELSE None

-----------------------------------------------------------------------------
(* What git confirms of a move *)

\* Mutant: what the working tree shows is taken for committed.
WorkingTreeConfirms(p, q) == p \notin tree.files /\ q \in tree.files

CommittedEvidenceConfirms(p, q) == p \notin head.files /\ q \in head.files

\* The change that removed p added q.
MoveAddsTheNewPath(p, q) == IF p \in head.files THEN q \notin head.files
                                                ELSE <<p, q>> \in moves

\* The rung of the ladder on which an entity described at p ends.
Rung(e, p, g, own) ==
  LET exact == Exact(e, p, g).status
      loose == Loose(e, g).status
      q == CHOOSE x \in Hits(e, g) : TRUE
      mayMove == own /\ loose = "resolved" /\ q \notin Foreign /\ p \notin tree.files
      trusted == TrustDirtyTree \/ CommittedEvidenceConfirms(p, q)
  IN  CASE exact = "resolved"  -> "resolved"
        [] exact = "ambiguous" -> "ambiguous"
        [] OTHER ->
             IF mayMove /\ trusted /\ MoveAddsTheNewPath(p, q) THEN "moved"
             ELSE IF mayMove /\ ~trusted /\ q \notin head.files THEN "moved_uncommitted"
             ELSE IF loose = "ambiguous" THEN "loosely_ambiguous" ELSE "orphaned"

-----------------------------------------------------------------------------
(* What a visit of an entity is going to write *)

\* The leaves of e that do not say s yet, and the records that get a row for c.
Leaves(e, s)       == {r \in Record : leaf[r][e] \notin {"none", s}}
Repointed(e, o, c) == IF c \in {None, o} THEN {} ELSE {r \in Record : leaf[r][e] # "none"}

\* e is described at p as the pass read it, with the baseline o; on the rung it
\* ends on, it is to be described at q, in community c, with leaves of status s.
Plan(e, p, o, q, c, s) ==
  [stage |-> IF s = "degraded" THEN "leaves" ELSE "rows",
   entity |-> e, was |-> p, desc |-> q, old |-> o, comm |-> c, status |-> s,
   list |-> IF s = "degraded" THEN Leaves(e, s) ELSE Repointed(e, o, c),
   wrote |-> {}]

Rebind(e, p, o, g, rung) ==
  LET q == CHOOSE x \in Hits(e, g) : TRUE
  IN  CASE rung = "resolved"          -> Plan(e, p, o, p, g.comm[p], "live")
        [] rung = "moved"             -> Plan(e, p, o, q, g.comm[q], "live")
        [] rung = "ambiguous"         -> Plan(e, p, o, p, Exact(e, p, g).community, "degraded")
        [] rung = "loosely_ambiguous" -> Plan(e, p, o, p, Loose(e, g).community, "degraded")
        [] rung = "orphaned"          -> Plan(e, p, o, p, ObservedForOrphan(p, g), "orphaned")

\* An adopted entity is written always, another one when its baseline changes.
EntityIsWritten(v) == v.status = "live" \/ v.comm \notin {None, v.old}

-----------------------------------------------------------------------------
(* Settling a record's community rows *)

Holders(r)  == {e \in Entity : leaf[r][e] \in {"live", "degraded"}}
Held(r)     == {seen[e] : e \in Holders(r)} \ {None}
Abstains(r) == \E e \in Holders(r) : seen[e] = None

\* Whether a leaf of r, of whatever status, has the baseline c.
Based(r, c) == \E e \in Entity : leaf[r][e] # "none" /\ seen[e] = c

\* The rows of e's baseline when it gives way to c and no vacancy says so.
Unnoted(e, c, vacated) ==
  {x \in Record \X Comm : /\ leaf[x[1]][e] # "none" /\ x[2] = seen[e] /\ x[2] # c
                          /\ x[2] \notin vacated[x[1]]}
Pairs(vacated) == {x \in Record \X Comm : x[2] \in vacated[x[1]]}

-----------------------------------------------------------------------------
(* The checkout, the graph, captures and reloads: the pass's environment *)

Edit ==
  /\ Event
  /\ \/ \E p \in tree.files, q \in Path \ tree.files :          \* rename a file
          tree' = [files |-> (tree.files \ {p}) \cup {q},
                   at |-> {x \in tree.at : x[1] # p}
                          \cup {<<q, x[2]>> : x \in {y \in tree.at : y[1] = p}}]
     \/ \E p \in tree.files :                                   \* delete it
          tree' = [files |-> tree.files \ {p}, at |-> {x \in tree.at : x[1] # p}]
     \/ \E p \in Path, e \in Entity :                           \* write a symbol
          tree' = [files |-> tree.files \cup {p}, at |-> tree.at \cup {<<p, e>>}]
     \/ \E x \in tree.at : tree' = [tree EXCEPT !.at = @ \ {x}] \* remove one
     \/ tree' = head                                            \* stash
  /\ tree' # tree
  /\ UNCHANGED <<head, rev, moves, graph, bindings, meta, work, history>>

\* A commit of the changes to the files of S.
Commit(S) ==
  /\ Event
  /\ head' = [files |-> (head.files \ S) \cup (tree.files \cap S),
              at |-> {x \in head.at : x[1] \notin S} \cup {x \in tree.at : x[1] \in S}]
  /\ head' # head
  /\ rev' = rev + 1
  /\ moves' = {m \in moves : m[1] \notin head.files \ head'.files}
              \cup ((head.files \ head'.files) \X (head'.files \ head.files))
  /\ UNCHANGED <<tree, graph, bindings, meta, work, history>>

Build ==
  /\ Event
  /\ \E comm \in Clusterings :
       graph' = [files |-> tree.files, at |-> tree.at,
                 comm |-> [f \in tree.files |-> comm[f]],
                 version |-> IF Returns THEN 0 ELSE events']
  /\ graph' # graph
  /\ UNCHANGED <<checkout, bindings, meta, work, history>>

\* A capture without a graph: the leaf is born orphaned and a rebind is owed.
CaptureBlind(r, e) ==
  /\ leaf[r][e] = "none"
  /\ Event
  /\ leaf' = [leaf EXCEPT ![r][e] = "orphaned"]
  /\ gen' = gen + 1
  /\ UNCHANGED <<checkout, graph, desc, seen, rows, stamp, volatile, done, watch, pending1,
                 work, history>>

\* A capture with the graph that is on disk.
Capture(r, e, covered) ==
  LET answer == Exact(e, desc[e], graph)
      c == IF answer.status = "resolved" THEN answer.community
           ELSE IF answer.status = "ambiguous" THEN answer.community ELSE None
  IN  /\ leaf[r][e] = "none"
      /\ Event
      /\ leaf' = [leaf EXCEPT ![r][e] = CASE answer.status = "resolved" -> "live"
                                          [] answer.status = "unresolved" -> "orphaned"
                                          [] OTHER -> "none"]
      /\ seen' = [seen EXCEPT ![e] = IF answer.status = "resolved" THEN c ELSE @]
      /\ rows' = IF c = None \/ covered THEN rows
                 ELSE [rows EXCEPT ![r][c] = IF answer.status = "resolved" THEN "live"
                                                                           ELSE "degraded"]
      /\ lost' = lost \cup Unnoted(e, seen'[e], NoVacancy)
      /\ UNCHANGED <<checkout, graph, desc, meta, work, raised, beside, crossed>>

Running == {p \in Process : pass[p].pc # "idle"}

\* A canonical reload makes everything volatile cold; the meta rows stay, and so
\* does what a running pass has read.
Reload ==
  /\ Event
  /\ seen' = [e \in Entity |-> None]
  /\ leaf' = [r \in Record |-> [e \in Entity |-> IF leaf[r][e] = "none" THEN "none" ELSE "live"]]
  /\ rows' = [r \in Record |-> [c \in Comm |-> "none"]]
  /\ volatile' = TRUE
  /\ lost' = {}
  /\ beside' = Running /\ crossed' = (crossed \/ Running # {})
  /\ UNCHANGED <<checkout, graph, desc, stamp, gen, done, watch, pending1, work, raised>>

-----------------------------------------------------------------------------
(* A sync pass begins *)

Start(mode, own, g, todo) ==
  [pc |-> "ladder", mode |-> mode, own |-> own, graph |-> g, synced |-> FALSE,
   head |-> rev, gen |-> gen, todo |-> todo,
   snap |-> IF mode = "verify" THEN <<>>
            ELSE [e \in todo |-> [desc |-> desc[e], seen |-> seen[e]]],
   uncommitted |-> {}, vacated |-> NoVacancy, failed |-> NoVacancy]

\* _reverify_pending_moves is due: HEAD moved since the watch was set.
VerifyDue(own) == own /\ watch.ids # {} /\ watch.head # rev

Synced(own) == stamp = [own |-> own, graph |-> graph]

\* Which pass the gate admits, if any; the stamp was read before.
Gate(own, g, synced) ==
  IF ~synced \/ volatile THEN Start("full", own, g, Entity)
  ELSE IF gen # done
       THEN Start("orphans", own, g, Entity \ (IF own THEN watch.ids ELSE {}))
  ELSE IF VerifyDue(own) THEN Start("verify", own, g, watch.ids)
  ELSE Idle

\* sync begins: with the remembered reconciles, if there are any, else with the
\* gate.  It begins beside any pass that is running; which of the idle
\* processes it is makes no difference.
Begin(p, own) ==
  /\ p \notin Running /\ \A q \in Process : q < p => q \in Running
  /\ pass' = [pass EXCEPT ![p] =
       IF pending1 = NoVacancy THEN Gate(own, graph, Synced(own))
       ELSE [Idle EXCEPT !.pc = "retry", !.own = own, !.graph = graph,
                         !.synced = Synced(own), !.vacated = pending1]]
  /\ pass'[p] # Idle
  /\ \/ Running = {} /\ beside' = {} /\ UNCHANGED <<crossed, events>>
     \/ Running # {} /\ beside' = Running \cup {p} /\ crossed' = TRUE /\ Overlap
  /\ UNCHANGED <<checkout, graph, bindings, meta, visit, settling, lost, raised>>

-----------------------------------------------------------------------------
(* The ladder: one entity after the other *)

\* Whether p takes e through the ladder: an orphan pass only entities with an
\* orphaned leaf, a re-verification none whose file is back.
Visits(p, e) ==
  CASE pass[p].mode = "full"    -> TRUE
    [] pass[p].mode = "orphans" -> \E r \in Record : leaf[r][e] = "orphaned"
    [] pass[p].mode = "verify"  -> \/ Exact(e, desc[e], pass[p].graph).status = "resolved"
                                   \/ desc[e] \notin tree.files

\* An entity is read with all others before the ladder, or when it is verified.
Read(p, e) == IF pass[p].mode = "verify" THEN [desc |-> desc[e], seen |-> seen[e]]
                                         ELSE pass[p].snap[e]

InHand(p, e) == pass[p].pc = "ladder" /\ e \in pass[p].todo /\ visit[p].entity \in {None, e}
PassOver(p, e, watched) ==
  pass' = [pass EXCEPT ![p].todo = @ \ {e}, ![p].uncommitted = @ \cup watched,
                       ![p].snap = [f \in DOMAIN @ \ {e} |-> @[f]]]

\* e is left as it is, or what its rung asks for is taken in hand.
Visit(p, e) ==
  LET was == Read(p, e)
      rung == Rung(e, was.desc, pass[p].graph, pass[p].own)
  IN  /\ InHand(p, e) /\ visit[p] = NoVisit
      /\ \/ /\ ~Visits(p, e)
            /\ PassOver(p, e, IF pass[p].mode = "verify" THEN {e} ELSE {})     \* still watched
            /\ UNCHANGED <<visit, raised>>
         \/ /\ Visits(p, e) /\ rung = "moved_uncommitted"
            /\ PassOver(p, e, {e}) /\ UNCHANGED <<visit, raised>>
         \/ /\ Visits(p, e) /\ rung # "moved_uncommitted"
            /\ visit' = [visit EXCEPT ![p] = Rebind(e, was.desc, was.seen, pass[p].graph, rung)]
            /\ UNCHANGED <<pass, raised>>
      /\ UNCHANGED <<checkout, graph, bindings, meta, settling, lost, beside, crossed, events>>

\* The visit of p goes on with v, or is over.
GoOn(p, v)   == visit' = [visit EXCEPT ![p] = v] /\ UNCHANGED <<pass, raised>>
EndVisit(p) ==
  /\ visit' = [visit EXCEPT ![p] = NoVisit]
  /\ PassOver(p, visit[p].entity, {}) /\ raised' = raised \ {visit[p].entity}

\* A record gets a live row for the new community; the old one is only noted.
WriteRow(p, r) ==
  LET v == visit[p] IN
  /\ v.stage = "rows" /\ r \in v.list
  /\ rows' = [rows EXCEPT ![r][v.comm] = "live"]
  /\ visit' = [visit EXCEPT ![p].list = @ \ {r}, ![p].wrote = @ \cup {r}]
  /\ pass' = [pass EXCEPT ![p].vacated[r] = IF v.old = None THEN @ ELSE @ \cup {v.old}]
  /\ UNCHANGED <<checkout, graph, desc, seen, leaf, meta, settling, history, events>>

\* The entity is written whole, as the pass read it but for what is new.
WriteEntity(p) ==
  LET v == visit[p] IN
  /\ v.stage = "rows" /\ v.list = {} /\ EntityIsWritten(v)
  /\ desc' = [desc EXCEPT ![v.entity] = v.desc]
  /\ seen' = [seen EXCEPT ![v.entity] = v.comm]
  /\ lost' = {x \in lost \cup Unnoted(v.entity, v.comm, pass[p].vacated) :
                 ~(leaf[x[1]][v.entity] # "none" /\ x[2] = v.comm)}
  /\ IF v.status = "degraded" THEN EndVisit(p)
     ELSE GoOn(p, [v EXCEPT !.stage = "written", !.wrote = {}])
  /\ UNCHANGED <<checkout, graph, leaf, rows, meta, settling, beside, crossed, events>>

\* A leaf gets its status.
WriteLeaf(p, r) ==
  LET v == visit[p] IN
  /\ v.stage = "leaves" /\ r \in v.list
  /\ leaf' = [leaf EXCEPT ![r][v.entity] = v.status]
  /\ IF v.list = {r} /\ v.status # "degraded" THEN EndVisit(p)
     ELSE GoOn(p, [v EXCEPT !.list = @ \ {r}])
  /\ UNCHANGED <<checkout, graph, desc, seen, rows, meta, settling, lost, beside, crossed, events>>

\* The bindings are read for what comes next: the leaves last, or first when
\* they are degraded.
MoveOn(p) ==
  LET v == visit[p]
      L == Leaves(v.entity, v.status)
      R == Repointed(v.entity, v.old, v.comm)
  IN  /\ \/ v.stage = "written"
         \/ v.stage = "rows" /\ v.list = {} /\ ~EntityIsWritten(v)
         \/ v.stage = "leaves" /\ v.list = {}
      /\ IF v.stage # "leaves"
         THEN IF L = {} \/ v.status = "degraded" THEN EndVisit(p)
              ELSE GoOn(p, [v EXCEPT !.stage = "leaves", !.list = L])
         ELSE GoOn(p, [v EXCEPT !.stage = "rows", !.list = R])
      /\ UNCHANGED <<checkout, graph, bindings, meta, settling, lost, beside, crossed, events>>

\* What a visit that is cut short has written without a baseline.
HalfWritten(p) == {x \in Record \X Comm : x[1] \in visit[p].wrote /\ x[2] = visit[p].comm}

\* A visit raises: the entity counts as visited, and a watched move is dropped.
Raise(p, e) ==
  /\ InHand(p, e) /\ (visit[p] = NoVisit => Visits(p, e))
  /\ Event
  /\ visit' = [visit EXCEPT ![p] = NoVisit]
  /\ PassOver(p, e, {}) /\ raised' = raised \cup {e}
  /\ lost' = lost \cup HalfWritten(p)
  /\ UNCHANGED <<checkout, graph, bindings, meta, settling, beside, crossed>>

\* The ladder is done.
LadderDone(p) ==
  /\ pass[p].pc = "ladder" /\ pass[p].todo = {}
  /\ pass' = [pass EXCEPT ![p].pc = IF pass[p].vacated = NoVacancy THEN "finish" ELSE "reconcile"]
  /\ UNCHANGED <<checkout, graph, bindings, stamp, volatile, gen, done, pending1, visit, settling,
                 history, events>>

\* Mutant: HEAD is read at the end of the pass.
RecordMovesOfThisHead(p) ==
  /\ LadderDone(p)
  /\ watch' = IF pass[p].own /\ pass[p].mode # "orphans"
              THEN [head |-> rev, ids |-> pass[p].uncommitted] ELSE watch

\* _record_pending_moves, before the reconcile.
RecordPendingMoves(p) ==
  /\ LadderDone(p)
  /\ watch' = IF pass[p].own /\ pass[p].mode # "orphans"
              THEN [head |-> pass[p].head, ids |-> pass[p].uncommitted] ELSE watch

-----------------------------------------------------------------------------
(* The reconciles: one record after the other, remembered ones or new ones *)

Settling(p) == pass[p].pc \in {"retry", "reconcile"}
Settle(p, s) == settling' = [settling EXCEPT ![p] = s]

\* The baselines of a record's leaves are read.  A retried reconcile that
\* abstains is kept, a new one is dropped.
Weigh(p, r) ==
  LET gone == pass[p].vacated[r] IN
  /\ Settling(p) /\ settling[p] = NoRecord /\ gone # {}
  /\ Settle(p, [record |-> r, up |-> Held(r),
                down |-> IF Abstains(r) THEN {} ELSE gone \ Held(r),
                keep |-> IF Abstains(r) /\ pass[p].pc = "retry" THEN gone ELSE {}])
  /\ lost' = IF Abstains(r) /\ pass[p].pc # "retry"
             THEN lost \cup ({r} \X (gone \ Held(r))) ELSE lost
  /\ UNCHANGED <<checkout, graph, bindings, meta, pass, visit, raised, beside, crossed, events>>

\* Rows that were held are restored, ...
Restore(p, c) ==
  LET r == settling[p].record IN
  /\ c \in settling[p].up
  /\ Settle(p, [settling[p] EXCEPT !.up = @ \ {c}])
  /\ rows' = [rows EXCEPT ![r][c] = IF @ = "orphaned" THEN "live" ELSE @]
  /\ lost' = IF p \in beside /\ ~Based(r, c) THEN lost \cup {<<r, c>>} ELSE lost
  /\ UNCHANGED <<checkout, graph, desc, seen, leaf, meta, pass, visit, raised, beside, crossed, events>>

\* ... then vacated ones that were not are orphaned.
Retire(p, c) ==
  LET r == settling[p].record IN
  /\ settling[p].up = {} /\ c \in settling[p].down
  /\ Settle(p, [settling[p] EXCEPT !.down = @ \ {c}])
  /\ rows' = [rows EXCEPT ![r][c] = IF @ = "none" THEN @ ELSE "orphaned"]
  /\ UNCHANGED <<checkout, graph, desc, seen, leaf, meta, pass, visit, history, events>>

\* The record is done with; what is to be kept of it stays in memory.
Reconciled(p, r, kept) ==
  /\ Settle(p, NoRecord)
  /\ pass' = [pass EXCEPT ![p].vacated[r] = {}, ![p].failed[r] = kept]
  /\ UNCHANGED <<checkout, graph, bindings, meta, visit, history>>
NextRecord(p) ==
  /\ settling[p].record # None /\ settling[p].up = {} /\ settling[p].down = {}
  /\ Reconciled(p, settling[p].record, settling[p].keep) /\ UNCHANGED events

\* Mutant: a reconcile that raised is forgotten.
ReconcileOnce(p, r) ==
  /\ Settling(p) /\ pass[p].vacated[r] # {} /\ settling[p].record \in {None, r}
  /\ Event /\ Reconciled(p, r, {})
\* A reconcile raises.
ReconcileRaises(p, r) ==
  /\ Settling(p) /\ pass[p].vacated[r] # {} /\ settling[p].record \in {None, r}
  /\ Event /\ Reconciled(p, r, pass[p].vacated[r])

\* The reconciles that raised are added to what is remembered, which is read.
Collect(p) ==
  /\ pass[p].pc = "reconcile" /\ pass[p].vacated = NoVacancy
  /\ pass' = [pass EXCEPT
        ![p].pc = IF pass[p].failed = NoVacancy THEN "finish" ELSE "remember",
        ![p].failed = IF @ = NoVacancy THEN @ ELSE [r \in Record |-> @[r] \cup pending1[r]]]
  /\ UNCHANGED <<checkout, graph, bindings, meta, visit, settling, history, events>>

\* The memory is written whole: what a pass beside this one wrote is gone.  A
\* retry goes on with the gate.
Remember(p) ==
  /\ \/ pass[p].pc = "retry" /\ pass[p].vacated = NoVacancy
        /\ pass' = [pass EXCEPT ![p] = Gate(pass[p].own, pass[p].graph, pass[p].synced)]
     \/ pass[p].pc = "remember" /\ pass' = [pass EXCEPT ![p].pc = "finish", ![p].failed = NoVacancy]
  /\ pending1' = pass[p].failed
  /\ lost' = IF p \in beside THEN lost \cup (Pairs(pending1) \ Pairs(pass[p].failed)) ELSE lost
  /\ UNCHANGED <<checkout, graph, bindings, stamp, volatile, gen, done, watch, visit, settling,
                 raised, beside, crossed, events>>

-----------------------------------------------------------------------------
(* A pass ends *)

GoTo(p, pc) == pass' = [pass EXCEPT ![p].pc = pc]
Ended(p)    == pass' = [pass EXCEPT ![p] = Idle]

\* A full pass stamps what it has synced ...
StampGraph(p) ==
  /\ pass[p].pc = "finish" /\ pass[p].mode = "full"
  /\ stamp' = [own |-> pass[p].own, graph |-> pass[p].graph]
  /\ GoTo(p, "clear")
  /\ crossed' = (crossed /\ p \in beside)
  /\ UNCHANGED <<checkout, graph, bindings, volatile, gen, done, watch, pending1, visit, settling,
                 lost, raised, beside, events>>
\* ... unless the refresh of the domains is refused.
Refused(p) ==
  /\ pass[p].pc = "finish" /\ pass[p].mode = "full"
  /\ Event /\ Ended(p)
  /\ UNCHANGED <<checkout, graph, bindings, meta, visit, settling, history>>
\* What was cold is warm again.
ClearVolatile(p) ==
  /\ pass[p].pc = "clear" /\ GoTo(p, "acknowledge")
  /\ volatile' = FALSE
  /\ UNCHANGED <<checkout, graph, bindings, stamp, gen, done, watch, pending1, visit, settling,
                 history, events>>

\* An orphan pass goes on to the watched moves once it has acknowledged.
AfterAcknowledge(p) ==
  IF pass[p].mode = "orphans" /\ VerifyDue(pass[p].own)
  THEN Start("verify", TRUE, pass[p].graph, watch.ids) ELSE Idle
Acknowledging(p) ==
  /\ \/ pass[p].pc = "acknowledge"
     \/ pass[p].pc = "finish" /\ pass[p].mode = "orphans"
  /\ pass' = [pass EXCEPT ![p] = AfterAcknowledge(p)]
  /\ UNCHANGED <<checkout, graph, bindings, stamp, volatile, gen, watch, pending1, visit, settling,
                 history, events>>
\* Mutant: what was captured during the pass is acknowledged with it.
AcknowledgeAll(p) == Acknowledging(p) /\ done' = gen
\* What is acknowledged is what was owed when the pass began.
Acknowledge(p) == Acknowledging(p) /\ done' = pass[p].gen

VerifyEnds(p) ==
  /\ pass[p].pc = "finish" /\ pass[p].mode = "verify"
  /\ Ended(p)
  /\ UNCHANGED <<checkout, graph, bindings, meta, visit, settling, history, events>>

\* The process dies.
Crash(p) ==
  /\ p \in Running
  /\ Event
  /\ Ended(p)
  /\ visit' = [visit EXCEPT ![p] = NoVisit] /\ settling' = [settling EXCEPT ![p] = NoRecord]
  /\ lost' = lost \cup HalfWritten(p)
                  \cup ((Pairs(pass[p].vacated) \cup Pairs(pass[p].failed)) \ Pairs(pending1))
  /\ UNCHANGED <<checkout, graph, bindings, meta, raised, beside, crossed>>

-----------------------------------------------------------------------------
Init ==
  /\ tree = [files |-> {Home[e] : e \in Entity}, at |-> {<<Home[e], e>> : e \in Entity}]
  /\ head = tree /\ rev = 0 /\ moves = {}
  /\ \E comm \in Clusterings :
       graph = [files |-> tree.files, at |-> tree.at,
                comm |-> [f \in tree.files |-> comm[f]], version |-> 0]
  /\ desc = Home
  /\ seen = [e \in Entity |-> None]
  /\ leaf \in [Record -> [Entity -> {"none", "live"}]]      \* a fresh clone
  /\ rows = [r \in Record |-> [c \in Comm |-> "none"]]
  /\ stamp = None /\ volatile = TRUE /\ gen = 0 /\ done = 0
  /\ watch = [head |-> 0, ids |-> {}]
  /\ pending1 = NoVacancy
  /\ pass = [p \in Process |-> Idle] /\ visit = [p \in Process |-> NoVisit]
  /\ settling = [p \in Process |-> NoRecord]
  /\ lost = {} /\ raised = {} /\ beside = {} /\ crossed = FALSE
  /\ events = 0

Environment ==
  \/ Edit \/ Build \/ Reload
  \/ \E S \in SUBSET Path : Commit(S)
  \/ \E r \in Record, e \in Entity : CaptureBlind(r, e)
  \/ \E r \in Record, e \in Entity, covered \in Covered : Capture(r, e, covered)

InVisit(p) ==
  \/ \E e \in Entity : Visit(p, e)
  \/ \E r \in Record : WriteRow(p, r) \/ WriteLeaf(p, r)
  \/ WriteEntity(p) \/ MoveOn(p)

InReconcile(p) ==
  \/ \E r \in Record : Weigh(p, r)
  \/ \E c \in Comm : Restore(p, c) \/ Retire(p, c)
  \/ NextRecord(p) \/ Collect(p) \/ Remember(p)

InPass(p) ==
  \/ InVisit(p) \/ RecordPendingMoves(p) \/ InReconcile(p)
  \/ StampGraph(p) \/ ClearVolatile(p) \/ Acknowledge(p) \/ VerifyEnds(p)

Fails(p) ==
  \/ \E e \in Entity : Raise(p, e)
  \/ \E r \in Record : ReconcileRaises(p, r)
  \/ Refused(p) \/ Crash(p)

Next ==
  \/ Environment
  \/ \E p \in Process : (\E own \in Modes : Begin(p, own)) \/ InPass(p) \/ Fails(p)

Spec == Init /\ [][Next]_vars

\* Every hook and every context request runs sync, and a running process goes on.
FairSpec == /\ Spec
            /\ \A p \in Process : WF_vars(InPass(p))
            /\ WF_vars(\E p \in Process : Begin(p, TRUE))

-----------------------------------------------------------------------------
(* Properties *)

\* Every variable keeps its type.
TypeOK ==
  /\ tree \in Contents /\ head \in Contents /\ rev \in Nat
  /\ moves \subseteq Path \X Path
  /\ graph.files \subseteq Path /\ graph.comm \in [graph.files -> Comm]
  /\ desc \in [Entity -> Path]
  /\ seen \in [Entity -> Comm \cup {None}]
  /\ leaf \in [Record -> [Entity -> Status]]
  /\ rows \in [Record -> [Comm -> Status]]
  /\ gen \in Nat /\ done \in Nat /\ volatile \in BOOLEAN
  /\ watch.ids \subseteq Entity
  /\ pending1 \in [Record -> SUBSET Comm]
  /\ \A p \in Process : pass[p].todo \subseteq Entity /\ visit[p].list \subseteq Record
  /\ lost \subseteq Record \X Comm /\ raised \subseteq Entity /\ beside \subseteq Process

\* Nothing is owed: no pass is running and the gate of a sync on the store's own
\* graph admits none.
UpToDate == Running = {} /\ Gate(TRUE, graph, Synced(TRUE)) = Idle

\* A leaf says what the graph on disk says of its entity.
Agrees(r, e) ==
  leaf[r][e] # "none" =>
    LET exact == Exact(e, desc[e], graph).status
    IN  /\ exact = "resolved"  => leaf[r][e] = "live"
        /\ exact = "ambiguous" => leaf[r][e] = "degraded"
        /\ Hits(e, graph) = {} => leaf[r][e] = "orphaned"

\* When sync holds that there is nothing to do, every leaf says what the graph
\* says: whatever was captured, reloaded or built in between, and wherever a
\* pass died (the gate at the top of sync).  But an entity whose visit raised is
\* not owed another one, and passes that ran beside one another, or while the
\* index was reloaded, are trusted again only after a full pass that ran alone.
SettledMeansRebound ==
  UpToDate /\ ~crossed => \A r \in Record, e \in Entity \ raised : Agrees(r, e)

\* A community row that is live is held by a leaf of its record, is about to be
\* settled, is ahead of the baseline that a visit is going to write, or was
\* lost: its pass died, its visit raised, its reconcile abstained, a baseline
\* was overwritten that the pass had not read, or two processes wrote the rows
\* of one record or the memory at once.
StaleRowsAreAccounted ==
  \A r \in Record, c \in Comm :
    rows[r][c] = "live" =>
      \/ Based(r, c)
      \/ c \in pending1[r]
      \/ \E p \in Process : c \in pass[p].vacated[r] \cup pass[p].failed[r] \/ <<r, c>> \in HalfWritten(p)
      \/ <<r, c>> \in lost

\* Git shows the move of e from p to q, and the graph has e at q only.
MoveIsCommitted(e, p, q) ==
  /\ desc[e] = p /\ <<p, q>> \in moves
  /\ p \notin head.files \cup tree.files /\ q \in head.files
  /\ Loose(e, graph).status = "resolved" /\ Hits(e, graph) = {q}
  /\ q \notin Foreign

\* A move that a pass saw uncommitted is followed once it is committed, though
\* the graph does not change (PENDING_MOVES_KEY, _reverify_pending_moves).
Unfollowed == \E e \in watch.ids, p \in Path, q \in Path : MoveIsCommitted(e, p, q)
CommittedMovesAreFollowed == Unfollowed ~> ~Unfollowed

\* A descriptor, which every clone shares, is rewritten only by a visit that
\* has read it, along a move that the commits showed when the visit decided, in
\* no file that was still there: an uncommitted edit, a stash or a name that
\* occurs elsewhere never moves it.  Only a pass that ran beside another may
\* write back what it has read.
DescriptorsFollowCommits ==
  [][/\ \A p \in Process :
          visit[p] = NoVisit /\ visit'[p].desc # visit'[p].was =>
            /\ <<visit'[p].was, visit'[p].desc>> \in moves
            /\ visit'[p].was \notin head.files \cup tree.files /\ visit'[p].desc \in head.files
     /\ \A e \in Entity : desc'[e] # desc[e] =>
          \E p \in Process : /\ visit[p].entity = e /\ visit[p].desc = desc'[e]
                             /\ visit[p].was = desc[e] \/ p \in beside]_vars

\* _repoint_communities: "For each decision leaf-bound to this entity: ensure a
\* live Tier-1 binding to the current community".
RepointReachesEveryRecord ==
  UpToDate /\ ~crossed => \A r \in Record, e \in Entity \ raised :
    leaf[r][e] = "live" /\ seen[e] # None => rows[r][seen[e]] = "live"
=============================================================================
