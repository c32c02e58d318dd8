--------------------------- MODULE Anchors_proofs ---------------------------
(***************************************************************************)
(* What sync may rely on, for any number of processes, entities, records,  *)
(* paths and communities.  When its gate lets it skip, every leaf says     *)
(* what the graph says, but for entities that raised and until a pass that *)
(* ran alone has followed passes that did not; every community row that is *)
(* live has its reason, is about to be settled, or is lost in a way that   *)
(* StaleRowsAreAccounted names; and the shared descriptors follow commits  *)
(* alone.                                                                  *)
(***************************************************************************)
EXTENDS Anchors, TLAPS

GraphType(g) == g.files \subseteq Path /\ g.comm \in [g.files -> Comm] /\ g.version \in Nat

BoundType ==
    /\ desc \in [Entity -> Path]
    /\ seen \in [Entity -> Comm \cup {None}]
    /\ leaf \in [Record -> [Entity -> Status]]
    /\ rows \in [Record -> [Comm -> Status]]

MetaType ==
    /\ volatile \in BOOLEAN /\ gen \in Nat /\ done \in Nat
    /\ watch \in [head : Nat, ids : SUBSET Entity]
    /\ pending1 \in [Record -> SUBSET Comm]

CheckoutType ==
    tree \in Contents /\ head \in Contents /\ rev \in Nat /\ moves \subseteq Path \X Path

Fields == {"pc", "mode", "own", "graph", "synced", "head", "gen", "todo", "snap", "uncommitted",
           "vacated", "failed"}
TripFields == {"stage", "entity", "was", "desc", "old", "comm", "status", "list", "wrote"}
HandFields == {"record", "up", "down", "keep"}

(* A pass: its fields, and how they fit one another. *)
TaskType(t) ==
    /\ DOMAIN t = Fields
    /\ t.pc \in {"idle", "retry", "ladder", "reconcile", "remember", "finish", "clear", "acknowledge"}
    /\ t.mode \in {"none", "full", "orphans", "verify"}
    /\ t.own \in BOOLEAN /\ t.synced \in BOOLEAN /\ t.head \in Nat /\ t.gen \in Nat
    /\ t.todo \subseteq Entity /\ t.uncommitted \subseteq Entity
    /\ t.vacated \in [Record -> SUBSET Comm] /\ t.failed \in [Record -> SUBSET Comm]
    /\ t.pc # "idle" => GraphType(t.graph)
SnapType(t) ==
    t.mode \in {"full", "orphans"} =>
      \A e \in t.todo : /\ e \in DOMAIN t.snap
                        /\ t.snap[e].desc \in Path /\ t.snap[e].seen \in Comm \cup {None}
TaskShape(t) ==
    /\ t.pc = "idle" => t = Idle
    /\ t.pc = "retry" => t.mode = "none"
    /\ t.pc \notin {"idle", "retry"} => t.mode # "none"
    /\ t.pc \in {"clear", "acknowledge"} => t.mode = "full"
    /\ t.pc # "ladder" => t.todo = {}
Task(t) == TaskType(t) /\ SnapType(t) /\ TaskShape(t)

(* A visit, as part of the pass t. *)
TripType(v) ==
    /\ DOMAIN v = TripFields
    /\ v.stage \in {"none", "rows", "written", "leaves"}
    /\ v.old \in Comm \cup {None} /\ v.comm \in Comm \cup {None}
    /\ v.list \subseteq Record /\ v.wrote \subseteq Record
    /\ v.stage # "none" => /\ v.was \in Path /\ v.desc \in Path
                           /\ v.status \in {"live", "degraded", "orphaned"}
    /\ v.stage = "none" => v = NoVisit
    /\ v.stage = "written" => v.status # "degraded"
Trip(v, t) == TripType(v) /\ (v.stage # "none" => t.pc = "ladder" /\ v.entity \in t.todo)

(* A record in hand, as part of the pass t. *)
HandType(k) ==
    /\ DOMAIN k = HandFields
    /\ k.up \subseteq Comm /\ k.down \subseteq Comm /\ k.keep \subseteq Comm
    /\ k.record \in Record \cup {None}
    /\ k.record = None => k = NoRecord
Hand(k, t) ==
    HandType(k) /\ (k.record # None => t.pc \in {"retry", "reconcile"} /\ t.vacated[k.record] # {})

WorkType ==
    /\ pass = [p \in Process |-> pass[p]] /\ visit = [p \in Process |-> visit[p]]
    /\ settling = [p \in Process |-> settling[p]]
    /\ \A p \in Process : Task(pass[p]) /\ Trip(visit[p], pass[p]) /\ Hand(settling[p], pass[p])

HistoryType ==
    lost \subseteq Record \X Comm /\ raised \subseteq Entity /\ beside \subseteq Process /\ crossed \in BOOLEAN

Types ==
    /\ CheckoutType /\ GraphType(graph) /\ BoundType /\ MetaType /\ WorkType /\ HistoryType
    /\ events \in Nat

-----------------------------------------------------------------------------
(* What the graph answers *)

LEMMA ExactAnswer ==
  ASSUME NEW e, NEW p, NEW g
  PROVE  /\ Exact(e, p, g).status \in {"resolved", "ambiguous", "unresolved"}
         /\ Exact(e, p, g).status = "unresolved" <=> p \notin Hits(e, g)
         /\ Exact(e, p, g).status = "resolved" <=> p \in Hits(e, g) /\ <<p, e>> \notin Overloads
<1> DEFINE S == Hits(e, g) \cap {p}
<1>1. S = {} \/ S = {p}
  OBVIOUS
<1>2. /\ Resolve(S, e, g).status \in {"resolved", "ambiguous", "unresolved"}
      /\ Resolve(S, e, g).status = "unresolved" <=> S = {}
      /\ Resolve(S, e, g).status = "resolved" <=> S = {p} /\ <<p, e>> \notin Overloads
  <2> HIDE DEF S
  <2> QED BY <1>1 DEF Resolve
<1> QED BY <1>2 DEF Exact

LEMMA LooseAnswer ==
  ASSUME NEW e, NEW g, Loose(e, g).status = "resolved"
  PROVE  \E q \in Hits(e, g) : Hits(e, g) = {q} /\ <<q, e>> \notin Overloads
BY DEF Loose, Resolve

LEMMA Communities ==
  ASSUME Typing, NEW e, NEW p, NEW g, GraphType(g)
  PROVE  /\ Exact(e, p, g).community \in Comm \cup {None}
         /\ Loose(e, g).community \in Comm \cup {None}
         /\ ObservedForOrphan(p, g) \in Comm \cup {None}
         /\ p \in Hits(e, g) => p \in Path /\ g.comm[p] \in Comm
<1>1. \A S : Shared(S, g) \in Comm \cup {None}
  BY DEF Shared
<1>2. \A S : Resolve(S, e, g).community \in Comm \cup {None}
  BY <1>1 DEF Resolve
<1> QED BY <1>2 DEF Exact, Loose, ObservedForOrphan, GraphType, Hits
(* Where each rung of the ladder leaves an entity described at p. *)
LEMMA RungAnswer ==
  ASSUME NEW e, NEW p, NEW g, NEW own \in BOOLEAN
  PROVE  LET q == CHOOSE x \in Hits(e, g) : TRUE
             exact == Exact(e, p, g).status
             loose == Loose(e, g).status
             rung == Rung(e, p, g, own)
         IN  \/ rung = "resolved" /\ exact = "resolved"
             \/ rung = "ambiguous" /\ exact = "ambiguous"
             \/ /\ rung = "moved" /\ exact = "unresolved" /\ loose = "resolved" /\ own
                /\ q \in Hits(e, g) /\ Exact(e, q, g).status = "resolved"
                /\ TrustDirtyTree \/ CommittedEvidenceConfirms(p, q)
                /\ MoveAddsTheNewPath(p, q) /\ p \notin tree.files
             \/ rung = "moved_uncommitted" /\ exact = "unresolved" /\ Hits(e, g) # {}
             \/ rung = "loosely_ambiguous" /\ exact = "unresolved" /\ loose = "ambiguous" /\ Hits(e, g) # {}
             \/ rung = "orphaned" /\ exact = "unresolved"
<1> DEFINE q == CHOOSE x \in Hits(e, g) : TRUE
           exact == Exact(e, p, g).status
           loose == Loose(e, g).status
<1>1. exact \in {"resolved", "ambiguous", "unresolved"}
  BY ExactAnswer
<1>2. loose = "resolved" => q \in Hits(e, g) /\ Exact(e, q, g).status = "resolved"
  <2> SUFFICES ASSUME loose = "resolved"
               PROVE  q \in Hits(e, g) /\ Exact(e, q, g).status = "resolved"
    OBVIOUS
  <2>1. PICK x \in Hits(e, g) : Hits(e, g) = {x} /\ <<x, e>> \notin Overloads
    BY LooseAnswer
  <2>2. q = x
    BY <2>1
  <2> QED BY <2>1, <2>2, ExactAnswer
<1>3. loose \in {"resolved", "ambiguous"} => Hits(e, g) # {}
  BY DEF Loose, Resolve
<1>4. Rung(e, p, g, own) =
        LET mayMove == own /\ loose = "resolved" /\ q \notin Foreign /\ p \notin tree.files
            trusted == TrustDirtyTree \/ CommittedEvidenceConfirms(p, q)
        IN  CASE exact = "resolved"  -> "resolved"
              [] exact = "ambiguous" -> "ambiguous"
              [] OTHER ->
                   IF mayMove /\ trusted /\ MoveAddsTheNewPath(p, q) THEN "moved"
                   ELSE IF mayMove /\ ~trusted /\ q \notin head.files THEN "moved_uncommitted"
                   ELSE IF loose = "ambiguous" THEN "loosely_ambiguous" ELSE "orphaned"
  BY DEF Rung
<1> HIDE DEF q, exact, loose
<1>5. CASE exact = "resolved"
  BY <1>4, <1>5 DEF q, exact
<1>6. CASE exact = "ambiguous"
  BY <1>4, <1>6 DEF q, exact
<1>7. CASE exact = "unresolved"
  <2>1. Rung(e, p, g, own) =
          IF (own /\ loose = "resolved" /\ q \notin Foreign /\ p \notin tree.files)
               /\ (TrustDirtyTree \/ CommittedEvidenceConfirms(p, q)) /\ MoveAddsTheNewPath(p, q)
          THEN "moved"
          ELSE IF (own /\ loose = "resolved" /\ q \notin Foreign /\ p \notin tree.files)
                    /\ ~(TrustDirtyTree \/ CommittedEvidenceConfirms(p, q)) /\ q \notin head.files
          THEN "moved_uncommitted"
          ELSE IF loose = "ambiguous" THEN "loosely_ambiguous" ELSE "orphaned"
    BY <1>4, <1>7
  <2> QED BY <1>2, <1>3, <1>7, <2>1 DEF q, exact, loose
<1> QED BY <1>1, <1>5, <1>6, <1>7

(* What a visit of e described at p, with the baseline o, is going to write:
   leaves that say what the graph says of where e ends.  It moves e only along
   what may be trusted. *)
Planned(e, p, o, g, own, v) ==
    /\ v.entity = e /\ v.was = p /\ v.old = o /\ v.wrote = {}
    /\ v.desc \in Path /\ v.comm \in Comm \cup {None}
    /\ v.status \in {"live", "degraded", "orphaned"} /\ (v.status = "live" => v.comm \in Comm)
    /\ \/ v.status = "degraded" /\ v.stage = "leaves" /\ v.list = Leaves(e, "degraded")
       \/ v.status # "degraded" /\ v.stage = "rows" /\ v.list = Repointed(e, o, v.comm)

PlanHolds(e, g, own, v) ==
    /\ Exact(e, v.desc, g).status = "resolved" => v.status = "live"
    /\ Exact(e, v.desc, g).status = "ambiguous" => v.status = "degraded"
    /\ Hits(e, g) = {} => v.status = "orphaned"
    /\ Exact(e, v.desc, g).status = "unresolved" /\ Loose(e, g).status = "resolved"
         => v.status = "orphaned"
    /\ v.desc # v.was =>
         /\ own /\ v.status = "live" /\ Exact(e, v.desc, g).status = "resolved"
         /\ Exact(e, v.was, g).status = "unresolved" /\ Loose(e, g).status = "resolved"

Evident(v) ==
    v.desc # v.was => /\ TrustDirtyTree \/ CommittedEvidenceConfirms(v.was, v.desc)
                      /\ MoveAddsTheNewPath(v.was, v.desc) /\ v.was \notin tree.files

LEMMA PlanAnswer ==
  ASSUME Typing, NEW e, NEW p \in Path, NEW o, NEW g, GraphType(g), NEW own \in BOOLEAN,
         Rung(e, p, g, own) # "moved_uncommitted"
  PROVE  LET v == Rebind(e, p, o, g, Rung(e, p, g, own))
         IN  /\ DOMAIN v = TripFields /\ Planned(e, p, o, g, own, v)
             /\ PlanHolds(e, g, own, v) /\ Evident(v)
<1> DEFINE q == CHOOSE x \in Hits(e, g) : TRUE
           rung == Rung(e, p, g, own)
           v == Rebind(e, p, o, g, rung)
           exact == Exact(e, p, g)
           loose == Loose(e, g)
<1>1. /\ exact.status \in {"resolved", "ambiguous", "unresolved"}
      /\ exact.status = "unresolved" <=> p \notin Hits(e, g)
  BY ExactAnswer
<1>2. \A c, s, d : /\ DOMAIN Plan(e, p, o, d, c, s) = TripFields
                   /\ Plan(e, p, o, d, c, s).entity = e /\ Plan(e, p, o, d, c, s).was = p
                   /\ Plan(e, p, o, d, c, s).old = o /\ Plan(e, p, o, d, c, s).wrote = {}
                   /\ Plan(e, p, o, d, c, s).desc = d /\ Plan(e, p, o, d, c, s).comm = c
                   /\ Plan(e, p, o, d, c, s).status = s
                   /\ Plan(e, p, o, d, c, s).stage = IF s = "degraded" THEN "leaves" ELSE "rows"
                   /\ Plan(e, p, o, d, c, s).list = IF s = "degraded" THEN Leaves(e, s)
                                                                     ELSE Repointed(e, o, c)
  BY DEF Plan, TripFields
<1>3. \A c \in Comm \cup {None}, d \in Path, s \in {"live", "degraded", "orphaned"} :
         (s = "live" => c \in Comm)
           => Planned(e, p, o, g, own, Plan(e, p, o, d, c, s))
  BY <1>2 DEF Planned
<1>4. v = CASE rung = "resolved"          -> Plan(e, p, o, p, g.comm[p], "live")
            [] rung = "moved"             -> Plan(e, p, o, q, g.comm[q], "live")
            [] rung = "ambiguous"         -> Plan(e, p, o, p, exact.community, "degraded")
            [] rung = "loosely_ambiguous" -> Plan(e, p, o, p, loose.community, "degraded")
            [] rung = "orphaned"          -> Plan(e, p, o, p, ObservedForOrphan(p, g), "orphaned")
  BY DEF Rebind
<1>5. /\ exact.community \in Comm \cup {None} /\ loose.community \in Comm \cup {None}
      /\ ObservedForOrphan(p, g) \in Comm \cup {None}
      /\ \A x : x \in Hits(e, g) => x \in Path /\ g.comm[x] \in Comm
  BY Communities
<1>6. loose.status = "ambiguous" => loose.status # "resolved"
  OBVIOUS
<1> HIDE DEF rung, q, v
<1>7. CASE rung = "resolved" /\ exact.status = "resolved"
  <2>1. v = Plan(e, p, o, p, g.comm[p], "live")
    BY <1>4, <1>7
  <2>2. Planned(e, p, o, g, own, v)
    BY <1>1, <1>3, <1>5, <1>7, <2>1
  <2> QED BY <1>1, <1>2, <1>7, <2>1, <2>2 DEF PlanHolds, Evident, v, rung
<1>8. CASE rung = "ambiguous" /\ exact.status = "ambiguous"
  <2>1. v = Plan(e, p, o, p, exact.community, "degraded")
    BY <1>4, <1>8
  <2>2. Planned(e, p, o, g, own, v)
    BY <1>3, <1>5, <2>1
  <2> QED BY <1>1, <1>2, <1>8, <2>1, <2>2 DEF PlanHolds, Evident, v, rung
<1>9. CASE /\ rung = "moved" /\ exact.status = "unresolved" /\ loose.status = "resolved" /\ own
           /\ q \in Hits(e, g) /\ Exact(e, q, g).status = "resolved"
           /\ TrustDirtyTree \/ CommittedEvidenceConfirms(p, q)
           /\ MoveAddsTheNewPath(p, q) /\ p \notin tree.files
  <2>1. v = Plan(e, p, o, q, g.comm[q], "live")
    BY <1>4, <1>9
  <2>2. Planned(e, p, o, g, own, v)
    BY <1>3, <1>5, <1>9, <2>1
  <2>3. v.desc = q /\ v.was = p /\ v.status = "live" /\ DOMAIN v = TripFields
    BY <1>2, <2>1
  <2>4. PlanHolds(e, g, own, v)
    BY <1>9, <2>3 DEF PlanHolds
  <2>5. Evident(v)
    BY <1>9, <2>3 DEF Evident
  <2> QED BY <2>2, <2>3, <2>4, <2>5 DEF v, rung
<1>10. CASE rung = "loosely_ambiguous" /\ exact.status = "unresolved" /\ loose.status = "ambiguous" /\ Hits(e, g) # {}
  <2>1. v = Plan(e, p, o, p, loose.community, "degraded")
    BY <1>4, <1>10
  <2>2. Planned(e, p, o, g, own, v)
    BY <1>3, <1>5, <2>1
  <2> QED BY <1>2, <1>10, <2>1, <2>2 DEF PlanHolds, Evident, v, rung
<1>11. CASE rung = "orphaned" /\ exact.status = "unresolved"
  <2>1. v = Plan(e, p, o, p, ObservedForOrphan(p, g), "orphaned")
    BY <1>4, <1>11
  <2>2. Planned(e, p, o, g, own, v)
    BY <1>3, <1>5, <2>1
  <2> QED BY <1>2, <1>11, <2>1, <2>2 DEF PlanHolds, Evident, v, rung
<1>12. rung # "moved_uncommitted"
  BY DEF rung
<1> QED BY <1>7, <1>8, <1>9, <1>10, <1>11, <1>12, RungAnswer DEF q, rung, v

-----------------------------------------------------------------------------
(* What a step of one process changes *)

Only(p) ==
    /\ pass' = [q \in Process |-> pass'[q]] /\ visit' = [q \in Process |-> visit'[q]]
    /\ settling' = [q \in Process |-> settling'[q]]
    /\ DOMAIN pass'[p] = Fields /\ DOMAIN visit'[p] = TripFields /\ DOMAIN settling'[p] = HandFields
    /\ \A q \in Process \ {p} : pass'[q] = pass[q] /\ visit'[q] = visit[q] /\ settling'[q] = settling[q]

Kept(p, F) == \A f \in Fields \ F : pass'[p][f] = pass[p][f]

Over(p, e, watched) ==
    /\ Kept(p, {"todo", "snap", "uncommitted"})
    /\ pass'[p].todo = pass[p].todo \ {e} /\ pass'[p].uncommitted = pass[p].uncommitted \cup watched
    /\ pass'[p].snap = [f \in DOMAIN pass[p].snap \ {e} |-> pass[p].snap[f]]

(* The fields of a visit v after a step that gives it the stage s and the list l. *)
GoesOn(p, v, s, l, w) ==
    /\ visit'[p].stage = s /\ visit'[p].list = l /\ visit'[p].wrote = w
    /\ \A f \in TripFields \ {"stage", "list", "wrote"} : visit'[p][f] = v[f]

LEMMA Domains ==
  DOMAIN Idle = Fields /\ DOMAIN NoVisit = TripFields /\ DOMAIN NoRecord = HandFields
BY DEF Idle, NoVisit, NoRecord, Fields, TripFields, HandFields

LEMMA WorkFacts ==
  ASSUME Types, NEW p \in Process
  PROVE  /\ pass = [q \in Process |-> pass[q]] /\ visit = [q \in Process |-> visit[q]]
         /\ settling = [q \in Process |-> settling[q]]
         /\ \A q \in Process : /\ DOMAIN pass[q] = Fields /\ DOMAIN visit[q] = TripFields
                               /\ DOMAIN settling[q] = HandFields
         /\ TaskType(pass[p]) /\ SnapType(pass[p]) /\ TaskShape(pass[p])
         /\ TripType(visit[p]) /\ HandType(settling[p])
         /\ visit[p].stage # "none" => pass[p].pc = "ladder" /\ visit[p].entity \in pass[p].todo
         /\ settling[p].record # None => /\ pass[p].pc \in {"retry", "reconcile"}
                                         /\ pass[p].vacated[settling[p].record] # {}
BY DEF Types, WorkType, Task, Trip, Hand, TaskType, TripType, HandType

LEMMA PassOverIs ==
  ASSUME Types, NEW p \in Process, NEW e, NEW w, PassOver(p, e, w)
  PROVE  /\ pass' = [q \in Process |-> pass'[q]] /\ DOMAIN pass'[p] = Fields
         /\ \A q \in Process \ {p} : pass'[q] = pass[q]
         /\ Over(p, e, w)
<1>1. pass = [q \in Process |-> pass[q]] /\ DOMAIN pass[p] = Fields
  BY WorkFacts
<1>2. pass' = [pass EXCEPT ![p].todo = @ \ {e}, ![p].uncommitted = @ \cup w,
                           ![p].snap = [f \in DOMAIN @ \ {e} |-> @[f]]]
  BY DEF PassOver
<1> QED BY <1>1, <1>2 DEF Over, Kept, Fields

LEMMA TaskOver ==
  ASSUME Types, NEW p \in Process, NEW e, NEW w, w \subseteq Entity, pass[p].pc = "ladder",
         DOMAIN pass'[p] = Fields, Over(p, e, w)
  PROVE  Task(pass[p])'
<1>1. TaskType(pass[p]) /\ SnapType(pass[p]) /\ TaskShape(pass[p])
  BY WorkFacts
<1>2. /\ \A f \in Fields \ {"todo", "snap", "uncommitted"} : pass'[p][f] = pass[p][f]
      /\ pass'[p].todo = pass[p].todo \ {e} /\ pass'[p].uncommitted = pass[p].uncommitted \cup w
      /\ pass'[p].snap = [f \in DOMAIN pass[p].snap \ {e} |-> pass[p].snap[f]]
  BY DEF Over, Kept
<1>3. /\ pass'[p].pc = pass[p].pc /\ pass'[p].mode = pass[p].mode /\ pass'[p].own = pass[p].own
      /\ pass'[p].graph = pass[p].graph /\ pass'[p].synced = pass[p].synced
      /\ pass'[p].head = pass[p].head /\ pass'[p].gen = pass[p].gen
      /\ pass'[p].vacated = pass[p].vacated /\ pass'[p].failed = pass[p].failed
  BY <1>2 DEF Fields
<1>4. TaskType(pass[p])'
  BY <1>1, <1>2, <1>3 DEF TaskType
<1>5. SnapType(pass[p])'
  BY <1>1, <1>2, <1>3 DEF SnapType
<1>6. TaskShape(pass[p])'
  BY <1>1, <1>3 DEF TaskShape
<1> QED BY <1>4, <1>5, <1>6 DEF Task

LEMMA EndVisitIs ==
  ASSUME Types, NEW p \in Process, EndVisit(p), settling' = settling
  PROVE  /\ Only(p) /\ Over(p, visit[p].entity, {}) /\ visit'[p] = NoVisit
         /\ settling'[p] = settling[p] /\ raised' = raised \ {visit[p].entity}
<1>1. PassOver(p, visit[p].entity, {}) /\ visit' = [visit EXCEPT ![p] = NoVisit]
      /\ raised' = raised \ {visit[p].entity}
  BY DEF EndVisit
<1>2. /\ visit = [q \in Process |-> visit[q]] /\ settling = [q \in Process |-> settling[q]]
      /\ DOMAIN settling[p] = HandFields
  BY WorkFacts
<1> QED BY <1>1, <1>2, PassOverIs, Domains DEF Only

LEMMA GoOnIs ==
  ASSUME Types, NEW p \in Process, NEW v, DOMAIN v = TripFields, GoOn(p, v), settling' = settling
  PROVE  /\ Only(p) /\ pass'[p] = pass[p] /\ visit'[p] = v
         /\ settling'[p] = settling[p] /\ raised' = raised
BY WorkFacts DEF GoOn, Only

LEMMA OnlyTypes ==
  ASSUME Types, NEW p \in Process, Only(p), Task(pass[p])', Trip(visit[p], pass[p])',
         Hand(settling[p], pass[p])'
  PROVE  WorkType'
<1>1. ASSUME NEW q \in Process
      PROVE  Task(pass[q])' /\ Trip(visit[q], pass[q])' /\ Hand(settling[q], pass[q])'
  <2>1. CASE q = p
    BY <2>1
  <2>2. CASE q # p
    <3>1. pass'[q] = pass[q] /\ visit'[q] = visit[q] /\ settling'[q] = settling[q]
      BY <2>2 DEF Only
    <3>2. Task(pass[q]) /\ Trip(visit[q], pass[q]) /\ Hand(settling[q], pass[q])
      BY DEF Types, WorkType
    <3> QED BY <3>1, <3>2
  <2> QED BY <2>1, <2>2
<1> QED BY <1>1 DEF Only, WorkType

(* An entity is left as it is, or taken in hand. *)
LEMMA VisitIs ==
  ASSUME Typing, Types, NEW p \in Process, NEW e \in Entity, Visit(p, e)
  PROVE  /\ pass[p].pc = "ladder" /\ e \in pass[p].todo /\ visit[p] = NoVisit /\ Only(p)
         /\ settling'[p] = settling[p]
         /\ UNCHANGED <<checkout, graph, bindings, meta, lost, raised, beside, crossed, events>>
         /\ Read(p, e).desc \in Path /\ Read(p, e).seen \in Comm \cup {None}
         /\ \/ /\ ~Visits(p, e) /\ visit'[p] = NoVisit
               /\ Over(p, e, IF pass[p].mode = "verify" THEN {e} ELSE {})
            \/ /\ Visits(p, e) /\ visit'[p] = NoVisit /\ Over(p, e, {e})
               /\ Exact(e, Read(p, e).desc, pass[p].graph).status = "unresolved"
               /\ Hits(e, pass[p].graph) # {}
            \/ /\ Visits(p, e) /\ pass'[p] = pass[p] /\ DOMAIN visit'[p] = TripFields
               /\ Planned(e, Read(p, e).desc, Read(p, e).seen, pass[p].graph, pass[p].own, visit'[p])
               /\ PlanHolds(e, pass[p].graph, pass[p].own, visit'[p]) /\ Evident(visit'[p])
<1> DEFINE was == Read(p, e)
           rung == Rung(e, was.desc, pass[p].graph, pass[p].own)
<1>1. /\ pass[p].pc = "ladder" /\ e \in pass[p].todo /\ visit[p] = NoVisit
      /\ UNCHANGED <<checkout, graph, bindings, meta, settling, lost, beside, crossed, events>>
      /\ raised' = raised
  BY DEF Visit, InHand
<1>2. /\ TaskType(pass[p]) /\ SnapType(pass[p]) /\ TaskShape(pass[p])
      /\ visit = [q \in Process |-> visit[q]] /\ settling = [q \in Process |-> settling[q]]
      /\ pass = [q \in Process |-> pass[q]] /\ DOMAIN pass[p] = Fields
      /\ DOMAIN settling[p] = HandFields /\ DOMAIN visit[p] = TripFields
  BY WorkFacts
<1>3. was.desc \in Path /\ was.seen \in Comm \cup {None}
  <2>1. desc[e] \in Path /\ seen[e] \in Comm \cup {None}
    BY DEF Types, BoundType
  <2>2. CASE pass[p].mode = "verify"
    BY <2>1, <2>2 DEF Read
  <2>3. CASE pass[p].mode # "verify"
    <3>1. pass[p].mode \in {"full", "orphans"}
      BY <1>1, <1>2, <2>3 DEF TaskType, TaskShape
    <3> QED BY <1>1, <1>2, <2>3, <3>1 DEF Read, SnapType
  <2> QED BY <2>2, <2>3
<1>4. GraphType(pass[p].graph) /\ pass[p].own \in BOOLEAN
  BY <1>1, <1>2 DEF TaskType
<1> HIDE DEF was
<1>5. \/ /\ ~Visits(p, e) /\ UNCHANGED visit
         /\ PassOver(p, e, IF pass[p].mode = "verify" THEN {e} ELSE {})
      \/ Visits(p, e) /\ rung = "moved_uncommitted" /\ PassOver(p, e, {e}) /\ UNCHANGED visit
      \/ /\ Visits(p, e) /\ rung # "moved_uncommitted" /\ UNCHANGED pass
         /\ visit' = [visit EXCEPT ![p] = Rebind(e, was.desc, was.seen, pass[p].graph, rung)]
  BY DEF Visit, was
<1> HIDE DEF rung
<1>6. CASE ~Visits(p, e) /\ UNCHANGED visit /\ PassOver(p, e, IF pass[p].mode = "verify" THEN {e} ELSE {})
  <2>1. Over(p, e, IF pass[p].mode = "verify" THEN {e} ELSE {}) /\ Only(p)
    BY <1>1, <1>2, <1>6, PassOverIs DEF Only
  <2> QED BY <1>1, <1>3, <1>6, <2>1 DEF was
<1>7. CASE Visits(p, e) /\ rung = "moved_uncommitted" /\ PassOver(p, e, {e}) /\ UNCHANGED visit
  <2>1. Over(p, e, {e}) /\ Only(p)
    BY <1>1, <1>2, <1>7, PassOverIs DEF Only
  <2>2. Exact(e, was.desc, pass[p].graph).status = "unresolved" /\ Hits(e, pass[p].graph) # {}
    BY <1>4, <1>7, RungAnswer DEF rung
  <2> QED BY <1>1, <1>3, <1>7, <2>1, <2>2 DEF was
<1>8. CASE /\ Visits(p, e) /\ rung # "moved_uncommitted" /\ UNCHANGED pass
           /\ visit' = [visit EXCEPT ![p] = Rebind(e, was.desc, was.seen, pass[p].graph, rung)]
  <2> DEFINE v == Rebind(e, was.desc, was.seen, pass[p].graph, rung)
  <2>1. /\ DOMAIN v = TripFields /\ Planned(e, was.desc, was.seen, pass[p].graph, pass[p].own, v)
        /\ PlanHolds(e, pass[p].graph, pass[p].own, v) /\ Evident(v)
    BY <1>3, <1>4, <1>8, PlanAnswer DEF rung
  <2> HIDE DEF v
  <2>2. visit'[p] = v /\ \A q \in Process \ {p} : visit'[q] = visit[q]
    BY <1>2, <1>8 DEF v
  <2>3. visit' = [q \in Process |-> visit'[q]]
    BY <1>2, <1>8
  <2>4. Only(p)
    BY <1>1, <1>2, <1>8, <2>1, <2>2, <2>3 DEF Only
  <2> QED BY <1>1, <1>3, <1>8, <2>1, <2>2, <2>4 DEF was
<1> QED BY <1>5, <1>6, <1>7, <1>8

LEMMA WriteRowIs ==
  ASSUME Types, NEW p \in Process, NEW r \in Record, WriteRow(p, r)
  PROVE  /\ Only(p) /\ settling'[p] = settling[p]
         /\ visit[p].stage = "rows" /\ r \in visit[p].list
         /\ rows' = [rows EXCEPT ![r][visit[p].comm] = "live"]
         /\ GoesOn(p, visit[p], "rows", visit[p].list \ {r}, visit[p].wrote \cup {r})
         /\ Kept(p, {"vacated"})
         /\ pass'[p].vacated = [pass[p].vacated EXCEPT
              ![r] = IF visit[p].old = None THEN @ ELSE @ \cup {visit[p].old}]
         /\ UNCHANGED <<checkout, graph, desc, seen, leaf, meta, history, events>>
<1>1. /\ visit[p].stage = "rows" /\ r \in visit[p].list
      /\ rows' = [rows EXCEPT ![r][visit[p].comm] = "live"]
      /\ visit' = [visit EXCEPT ![p].list = @ \ {r}, ![p].wrote = @ \cup {r}]
      /\ pass' = [pass EXCEPT ![p].vacated[r] = IF visit[p].old = None THEN @ ELSE @ \cup {visit[p].old}]
      /\ UNCHANGED <<checkout, graph, desc, seen, leaf, meta, settling, history, events>>
  BY DEF WriteRow
<1>2. /\ pass = [q \in Process |-> pass[q]] /\ visit = [q \in Process |-> visit[q]]
      /\ settling = [q \in Process |-> settling[q]]
      /\ \A q \in Process : /\ DOMAIN pass[q] = Fields /\ DOMAIN visit[q] = TripFields
                            /\ DOMAIN settling[q] = HandFields
      /\ pass[p].vacated \in [Record -> SUBSET Comm]
  BY WorkFacts DEF TaskType
<1>3. /\ GoesOn(p, visit[p], "rows", visit[p].list \ {r}, visit[p].wrote \cup {r})
      /\ DOMAIN visit'[p] = TripFields /\ \A q \in Process \ {p} : visit'[q] = visit[q]
  BY <1>1, <1>2 DEF GoesOn, TripFields
<1>4. /\ Kept(p, {"vacated"}) /\ DOMAIN pass'[p] = Fields /\ \A q \in Process \ {p} : pass'[q] = pass[q]
      /\ pass'[p].vacated = [pass[p].vacated EXCEPT
              ![r] = IF visit[p].old = None THEN @ ELSE @ \cup {visit[p].old}]
  BY <1>1, <1>2 DEF Kept, Fields
<1>5. pass' = [q \in Process |-> pass'[q]] /\ visit' = [q \in Process |-> visit'[q]]
  BY <1>1, <1>2
<1>6. Only(p)
  BY <1>1, <1>2, <1>3, <1>4, <1>5 DEF Only
<1> QED BY <1>1, <1>3, <1>4, <1>6

(* What is left of a visit that ends, or goes on as v. *)
Ends(p) == /\ Over(p, visit[p].entity, {}) /\ visit'[p] = NoVisit
           /\ raised' = raised \ {visit[p].entity}
Stays(p) == pass'[p] = pass[p] /\ raised' = raised

LEMMA WriteEntityIs ==
  ASSUME Types, NEW p \in Process, WriteEntity(p)
  PROVE  /\ Only(p) /\ settling'[p] = settling[p]
         /\ visit[p].stage = "rows" /\ visit[p].list = {} /\ EntityIsWritten(visit[p])
         /\ desc' = [desc EXCEPT ![visit[p].entity] = visit[p].desc]
         /\ seen' = [seen EXCEPT ![visit[p].entity] = visit[p].comm]
         /\ lost' = {x \in lost \cup Unnoted(visit[p].entity, visit[p].comm, pass[p].vacated) :
                        ~(leaf[x[1]][visit[p].entity] # "none" /\ x[2] = visit[p].comm)}
         /\ \/ visit[p].status = "degraded" /\ Ends(p)
            \/ /\ visit[p].status # "degraded" /\ Stays(p)
               /\ GoesOn(p, visit[p], "written", {}, {})
         /\ UNCHANGED <<checkout, graph, leaf, rows, meta, beside, crossed, events>>
<1> DEFINE v == visit[p]
           w == [v EXCEPT !.stage = "written", !.wrote = {}]
<1>1. /\ v.stage = "rows" /\ v.list = {} /\ EntityIsWritten(v) /\ settling' = settling
      /\ IF v.status = "degraded" THEN EndVisit(p) ELSE GoOn(p, w)
  BY DEF WriteEntity
<1>2. DOMAIN v = TripFields
  BY WorkFacts
<1>3. /\ DOMAIN w = TripFields /\ w.stage = "written" /\ w.wrote = {} /\ w.list = v.list
      /\ \A f \in TripFields \ {"stage", "list", "wrote"} : w[f] = v[f]
  BY <1>2 DEF TripFields
<1> HIDE DEF w
<1>4. CASE v.status = "degraded"
  BY <1>1, <1>4, EndVisitIs DEF WriteEntity, Ends
<1>5. CASE v.status # "degraded"
  BY <1>1, <1>3, <1>5, GoOnIs DEF WriteEntity, GoesOn, Stays
<1> QED BY <1>4, <1>5

LEMMA WriteLeafIs ==
  ASSUME Types, NEW p \in Process, NEW r \in Record, WriteLeaf(p, r)
  PROVE  /\ Only(p) /\ settling'[p] = settling[p]
         /\ visit[p].stage = "leaves" /\ r \in visit[p].list
         /\ leaf' = [leaf EXCEPT ![r][visit[p].entity] = visit[p].status]
         /\ \/ visit[p].list = {r} /\ visit[p].status # "degraded" /\ Ends(p)
            \/ Stays(p) /\ GoesOn(p, visit[p], "leaves", visit[p].list \ {r}, visit[p].wrote)
         /\ UNCHANGED <<checkout, graph, desc, seen, rows, meta, lost, beside, crossed, events>>
<1> DEFINE v == visit[p]
           w == [v EXCEPT !.list = @ \ {r}]
           end == v.list = {r} /\ v.status # "degraded"
<1>1. /\ v.stage = "leaves" /\ r \in v.list /\ settling' = settling
      /\ IF end THEN EndVisit(p) ELSE GoOn(p, w)
  BY DEF WriteLeaf
<1>2. DOMAIN v = TripFields
  BY WorkFacts
<1>3. /\ DOMAIN w = TripFields /\ w.stage = v.stage /\ w.wrote = v.wrote /\ w.list = v.list \ {r}
      /\ \A f \in TripFields \ {"stage", "list", "wrote"} : w[f] = v[f]
  BY <1>2 DEF TripFields
<1> HIDE DEF w
<1>4. CASE end
  BY <1>1, <1>4, EndVisitIs DEF WriteLeaf, Ends
<1>5. CASE ~end
  BY <1>1, <1>3, <1>5, GoOnIs DEF WriteLeaf, GoesOn, Stays
<1> QED BY <1>4, <1>5

LEMMA MoveOnIs ==
  ASSUME Types, NEW p \in Process, MoveOn(p)
  PROVE  LET v == visit[p]
             L == Leaves(v.entity, v.status)
         IN  /\ Only(p) /\ settling'[p] = settling[p]
             /\ \/ /\ \/ v.stage = "written"
                      \/ v.stage = "rows" /\ v.list = {} /\ ~EntityIsWritten(v)
                   /\ \/ (L = {} \/ v.status = "degraded") /\ Ends(p)
                      \/ /\ L # {} /\ v.status # "degraded" /\ Stays(p)
                         /\ GoesOn(p, v, "leaves", L, v.wrote)
                \/ /\ v.stage = "leaves" /\ v.list = {} /\ Stays(p)
                   /\ GoesOn(p, v, "rows", Repointed(v.entity, v.old, v.comm), v.wrote)
             /\ UNCHANGED <<checkout, graph, bindings, meta, lost, beside, crossed, events>>
<1> DEFINE v == visit[p]
           L == Leaves(v.entity, v.status)
           R == Repointed(v.entity, v.old, v.comm)
           w == [v EXCEPT !.stage = "leaves", !.list = L]
           x == [v EXCEPT !.stage = "rows", !.list = R]
           end == L = {} \/ v.status = "degraded"
<1>1. /\ \/ v.stage = "written"
         \/ v.stage = "rows" /\ v.list = {} /\ ~EntityIsWritten(v)
         \/ v.stage = "leaves" /\ v.list = {}
      /\ IF v.stage # "leaves" THEN IF end THEN EndVisit(p) ELSE GoOn(p, w) ELSE GoOn(p, x)
      /\ settling' = settling
  BY DEF MoveOn
<1>2. DOMAIN v = TripFields
  BY WorkFacts
<1>3. /\ DOMAIN w = TripFields /\ w.stage = "leaves" /\ w.wrote = v.wrote /\ w.list = L
      /\ \A f \in TripFields \ {"stage", "list", "wrote"} : w[f] = v[f]
      /\ DOMAIN x = TripFields /\ x.stage = "rows" /\ x.wrote = v.wrote /\ x.list = R
      /\ \A f \in TripFields \ {"stage", "list", "wrote"} : x[f] = v[f]
  BY <1>2 DEF TripFields
<1> HIDE DEF w, x
<1>6. UNCHANGED <<checkout, graph, bindings, meta, lost, beside, crossed, events>>
  BY DEF MoveOn
<1>4. CASE v.stage # "leaves" /\ end
  <2>1. Only(p) /\ settling'[p] = settling[p] /\ Ends(p)
    BY <1>1, <1>4, EndVisitIs DEF Ends
  <2> QED BY <1>1, <1>4, <1>6, <2>1
<1>5. CASE v.stage # "leaves" /\ ~end
  <2>1. Only(p) /\ settling'[p] = settling[p] /\ Stays(p) /\ GoesOn(p, v, "leaves", L, v.wrote)
    BY <1>1, <1>3, <1>5, GoOnIs DEF GoesOn, Stays
  <2> QED BY <1>1, <1>5, <1>6, <2>1
<1>7. CASE v.stage = "leaves"
  <2>1. Only(p) /\ settling'[p] = settling[p] /\ Stays(p) /\ GoesOn(p, v, "rows", R, v.wrote)
    BY <1>1, <1>3, <1>7, GoOnIs DEF GoesOn, Stays
  <2> QED BY <1>1, <1>7, <1>6, <2>1
<1> QED BY <1>4, <1>5, <1>7

LEMMA RaiseIs ==
  ASSUME Types, NEW p \in Process, NEW e \in Entity, Raise(p, e)
  PROVE  /\ Only(p) /\ settling'[p] = settling[p] /\ pass[p].pc = "ladder" /\ e \in pass[p].todo
         /\ visit[p].entity \in {None, e}
         /\ Over(p, e, {}) /\ visit'[p] = NoVisit /\ raised' = raised \cup {e}
         /\ lost' = lost \cup HalfWritten(p) /\ events' = events + 1
         /\ UNCHANGED <<checkout, graph, bindings, meta, beside, crossed>>
<1>1. PassOver(p, e, {}) /\ visit' = [visit EXCEPT ![p] = NoVisit] /\ settling' = settling
  BY DEF Raise
<1>2. /\ visit = [q \in Process |-> visit[q]] /\ settling = [q \in Process |-> settling[q]]
      /\ DOMAIN settling[p] = HandFields
  BY WorkFacts
<1>3. Only(p) /\ Over(p, e, {}) /\ visit'[p] = NoVisit
  BY <1>1, <1>2, PassOverIs, Domains DEF Only
<1> QED BY <1>1, <1>3 DEF Raise, InHand, Event

(* What Start makes of a pass, whose fields are read by name from here on. *)
Started(t, mode, own, g, todo) ==
    /\ DOMAIN t = Fields /\ t.pc = "ladder" /\ t.mode = mode /\ t.own = own /\ t.graph = g
    /\ t.synced = FALSE /\ t.head = rev /\ t.gen = gen /\ t.todo = todo
    /\ t.snap = IF mode = "verify" THEN <<>>
                ELSE [e \in todo |-> [desc |-> desc[e], seen |-> seen[e]]]
    /\ t.uncommitted = {} /\ t.vacated = NoVacancy /\ t.failed = NoVacancy

LEMMA StartIs ==
  ASSUME NEW mode, NEW own, NEW g, NEW todo
  PROVE  Started(Start(mode, own, g, todo), mode, own, g, todo)
BY DEF Started, Start, Fields

LEMMA StartTypes ==
  ASSUME Types, NEW t, NEW mode \in {"full", "orphans", "verify"}, NEW own \in BOOLEAN, NEW g,
         GraphType(g), NEW todo \in SUBSET Entity, Started(t, mode, own, g, todo)
  PROVE  Task(t)
<1>1. rev \in Nat /\ gen \in Nat /\ desc \in [Entity -> Path] /\ seen \in [Entity -> Comm \cup {None}]
  BY DEF Types, CheckoutType, MetaType, BoundType
<1>2. TaskType(t)
  BY <1>1 DEF TaskType, Started, NoVacancy
<1>3. SnapType(t)
  BY <1>1 DEF SnapType, Started
<1>4. TaskShape(t)
  BY DEF TaskShape, Started
<1> QED BY <1>2, <1>3, <1>4 DEF Task

LEMMA IdleTypes == Task(Idle) /\ TripType(NoVisit) /\ HandType(NoRecord)
BY Domains DEF Task, TaskType, SnapType, TaskShape, Idle, TripType, NoVisit, HandType, NoRecord, NoVacancy

Gates(t, own, g, synced) ==
    \/ (~synced \/ volatile) /\ Started(t, "full", own, g, Entity)
    \/ /\ synced /\ ~volatile /\ gen # done
       /\ Started(t, "orphans", own, g, Entity \ (IF own THEN watch.ids ELSE {}))
    \/ /\ synced /\ ~volatile /\ gen = done /\ VerifyDue(own)
       /\ Started(t, "verify", own, g, watch.ids)
    \/ synced /\ ~volatile /\ gen = done /\ ~VerifyDue(own) /\ t = Idle

LEMMA GateIs ==
  ASSUME NEW own, NEW g, NEW synced
  PROVE  Gates(Gate(own, g, synced), own, g, synced)
BY StartIs DEF Gates, Gate

LEMMA GateTypes ==
  ASSUME Types, NEW t, NEW own \in BOOLEAN, NEW g, GraphType(g), NEW synced, Gates(t, own, g, synced)
  PROVE  Task(t)
<1>1. watch.ids \subseteq Entity
  BY DEF Types, MetaType
<1> QED BY <1>1, StartTypes, IdleTypes DEF Gates

(* A retry of what is remembered. *)
Retries(t, own) ==
    /\ DOMAIN t = Fields /\ t.pc = "retry" /\ t.mode = "none" /\ t.own = own /\ t.graph = graph
    /\ t.synced = Synced(own) /\ t.head = 0 /\ t.gen = 0 /\ t.todo = {} /\ t.snap = <<>>
    /\ t.uncommitted = {} /\ t.vacated = pending1 /\ t.failed = NoVacancy

LEMMA BeginIs ==
  ASSUME Typing, Types, NEW p \in Process, NEW own \in Modes, Begin(p, own)
  PROVE  /\ Only(p) /\ own \in BOOLEAN /\ pass[p].pc = "idle" /\ pass'[p] # Idle
         /\ visit'[p] = visit[p] /\ settling'[p] = settling[p]
         /\ \/ pending1 = NoVacancy /\ Gates(pass'[p], own, graph, Synced(own))
            \/ pending1 # NoVacancy /\ Retries(pass'[p], own)
         /\ \/ Running = {} /\ beside' = {} /\ crossed' = crossed /\ events' = events
            \/ Running # {} /\ beside' = Running \cup {p} /\ crossed' = TRUE /\ events' = events + 2
         /\ UNCHANGED <<checkout, graph, bindings, meta, lost, raised>>
<1>1. /\ own \in BOOLEAN /\ pass[p].pc = "idle" /\ UNCHANGED <<visit, settling>>
      /\ pass' = [pass EXCEPT ![p] =
           IF pending1 = NoVacancy THEN Gate(own, graph, Synced(own))
           ELSE [Idle EXCEPT !.pc = "retry", !.own = own, !.graph = graph,
                             !.synced = Synced(own), !.vacated = pending1]]
  BY DEF Begin, Typing, Running
<1>2. /\ pass = [q \in Process |-> pass[q]] /\ visit = [q \in Process |-> visit[q]]
      /\ settling = [q \in Process |-> settling[q]]
      /\ \A q \in Process : /\ DOMAIN pass[q] = Fields /\ DOMAIN visit[q] = TripFields
                            /\ DOMAIN settling[q] = HandFields
  BY WorkFacts
<1> DEFINE t == [Idle EXCEPT !.pc = "retry", !.own = own, !.graph = graph,
                             !.synced = Synced(own), !.vacated = pending1]
<1>3. Retries(t, own)
  <2> DEFINE i == Idle
             a == [i EXCEPT !.pc = "retry", !.own = own]
             b == [a EXCEPT !.graph = graph, !.synced = Synced(own)]
             c == [b EXCEPT !.vacated = pending1]
  <2>1. /\ DOMAIN i = Fields /\ i.mode = "none" /\ i.head = 0 /\ i.gen = 0 /\ i.todo = {}
        /\ i.snap = <<>> /\ i.uncommitted = {} /\ i.failed = NoVacancy
    BY Domains DEF Idle
  <2>2. t = c
    OBVIOUS
  <2> HIDE DEF i, t
  <2>3. /\ DOMAIN a = Fields /\ a.pc = "retry" /\ a.own = own
        /\ \A f \in Fields \ {"pc", "own"} : a[f] = i[f]
    BY <2>1 DEF Fields
  <2> HIDE DEF a
  <2>4. /\ DOMAIN b = Fields /\ b.graph = graph /\ b.synced = Synced(own)
        /\ \A f \in Fields \ {"graph", "synced"} : b[f] = a[f]
    BY <2>3 DEF Fields
  <2> HIDE DEF b
  <2>5. /\ DOMAIN c = Fields /\ c.vacated = pending1
        /\ \A f \in Fields \ {"vacated"} : c[f] = b[f]
    BY <2>4 DEF Fields
  <2> HIDE DEF c
  <2> QED BY <2>1, <2>2, <2>3, <2>4, <2>5 DEF Retries, Fields
<1> HIDE DEF t
<1>4. \/ pending1 = NoVacancy /\ Gates(pass'[p], own, graph, Synced(own))
      \/ pending1 # NoVacancy /\ Retries(pass'[p], own)
  <2>1. CASE pending1 = NoVacancy
    <3>1. pass'[p] = Gate(own, graph, Synced(own))
      BY <1>1, <1>2, <2>1
    <3> QED BY <2>1, <3>1, GateIs
  <2>2. CASE pending1 # NoVacancy
    <3>1. pass'[p] = t
      BY <1>1, <1>2, <2>2 DEF t
    <3> QED BY <1>3, <2>2, <3>1
  <2> QED BY <2>1, <2>2
<1>5. DOMAIN pass'[p] = Fields
  BY <1>4, Domains DEF Gates, Started, Retries
<1>6. Only(p)
  <2>1. pass' = [q \in Process |-> pass'[q]] /\ \A q \in Process \ {p} : pass'[q] = pass[q]
    BY <1>1, <1>2
  <2> QED BY <1>1, <1>2, <1>5, <2>1 DEF Only
<1> QED BY <1>1, <1>4, <1>6 DEF Begin, Overlap

LEMMA SettleIs ==
  ASSUME Types, NEW p \in Process, NEW s, DOMAIN s = HandFields, Settle(p, s), UNCHANGED <<pass, visit>>
  PROVE  Only(p) /\ visit'[p] = visit[p] /\ pass'[p] = pass[p] /\ settling'[p] = s
BY WorkFacts DEF Only, Settle

LEMMA EndedIs ==
  ASSUME Types, NEW p \in Process, NEW t, DOMAIN t = Fields, pass' = [pass EXCEPT ![p] = t],
         UNCHANGED <<visit, settling>>
  PROVE  Only(p) /\ visit'[p] = visit[p] /\ settling'[p] = settling[p] /\ pass'[p] = t
BY WorkFacts DEF Only

LEMMA LadderDoneIs ==
  ASSUME Types, NEW p \in Process, RecordPendingMoves(p)
  PROVE  /\ Only(p) /\ visit'[p] = visit[p] /\ settling'[p] = settling[p]
         /\ pass[p].pc = "ladder" /\ pass[p].todo = {} /\ Kept(p, {"pc"})
         /\ pass'[p].pc = IF pass[p].vacated = NoVacancy THEN "finish" ELSE "reconcile"
         /\ watch' = IF pass[p].own /\ pass[p].mode # "orphans"
                     THEN [head |-> pass[p].head, ids |-> pass[p].uncommitted] ELSE watch
         /\ UNCHANGED <<checkout, graph, bindings, stamp, volatile, gen, done, pending1, history, events>>
<1> DEFINE x == IF pass[p].vacated = NoVacancy THEN "finish" ELSE "reconcile"
<1>1. pass' = [pass EXCEPT ![p].pc = x] /\ UNCHANGED <<visit, settling>>
  BY DEF RecordPendingMoves, LadderDone
<1> HIDE DEF x
<1>2. /\ Only(p) /\ Kept(p, {"pc"}) /\ pass'[p].pc = x
      /\ visit'[p] = visit[p] /\ settling'[p] = settling[p]
  BY <1>1, WorkFacts DEF Only, Kept, Fields
<1> QED BY <1>2 DEF RecordPendingMoves, LadderDone, x

LEMMA WeighIs ==
  ASSUME Typing, Types, NEW p \in Process, NEW r \in Record, Weigh(p, r)
  PROVE  /\ Only(p) /\ visit'[p] = visit[p] /\ pass'[p] = pass[p]
         /\ Settling(p) /\ settling[p] = NoRecord /\ settling'[p].record = r
         /\ pass[p].vacated[r] # {}
         /\ settling'[p].up = Held(r) /\ Held(r) \subseteq Comm
         /\ settling'[p].down = IF Abstains(r) THEN {} ELSE pass[p].vacated[r] \ Held(r)
         /\ settling'[p].keep = IF Abstains(r) /\ pass[p].pc = "retry" THEN pass[p].vacated[r] ELSE {}
         /\ lost' = IF Abstains(r) /\ pass[p].pc # "retry"
                    THEN lost \cup ({r} \X (pass[p].vacated[r] \ Held(r))) ELSE lost
         /\ UNCHANGED <<checkout, graph, bindings, meta, raised, beside, crossed, events>>
<1> DEFINE k == [record |-> r, up |-> Held(r),
                 down |-> IF Abstains(r) THEN {} ELSE pass[p].vacated[r] \ Held(r),
                 keep |-> IF Abstains(r) /\ pass[p].pc = "retry" THEN pass[p].vacated[r] ELSE {}]
<1>1. Settle(p, k) /\ UNCHANGED <<pass, visit>>
  BY DEF Weigh
<1>2. /\ DOMAIN k = HandFields /\ k.record = r /\ k.up = Held(r)
      /\ k.down = IF Abstains(r) THEN {} ELSE pass[p].vacated[r] \ Held(r)
      /\ k.keep = IF Abstains(r) /\ pass[p].pc = "retry" THEN pass[p].vacated[r] ELSE {}
  BY DEF HandFields
<1> HIDE DEF k
<1>3. Only(p) /\ visit'[p] = visit[p] /\ pass'[p] = pass[p] /\ settling'[p] = k
  BY <1>1, <1>2, SettleIs
<1>4. Held(r) \subseteq Comm
  BY DEF Held, Holders, Types, BoundType
<1> QED BY <1>2, <1>3, <1>4 DEF Weigh

LEMMA RestoreIs ==
  ASSUME Types, NEW p \in Process, NEW c \in Comm, Restore(p, c)
  PROVE  /\ Only(p) /\ visit'[p] = visit[p] /\ pass'[p] = pass[p]
         /\ c \in settling[p].up /\ settling'[p].up = settling[p].up \ {c}
         /\ settling'[p].record = settling[p].record /\ settling'[p].down = settling[p].down
         /\ settling'[p].keep = settling[p].keep
         /\ rows' = [rows EXCEPT ![settling[p].record][c] = IF @ = "orphaned" THEN "live" ELSE @]
         /\ lost' = IF p \in beside /\ ~Based(settling[p].record, c)
                    THEN lost \cup {<<settling[p].record, c>>} ELSE lost
         /\ UNCHANGED <<checkout, graph, desc, seen, leaf, meta, raised, beside, crossed, events>>
<1> DEFINE k == [settling[p] EXCEPT !.up = @ \ {c}]
<1>1. Settle(p, k) /\ UNCHANGED <<pass, visit>>
  BY DEF Restore
<1>2. /\ DOMAIN k = HandFields /\ k.up = settling[p].up \ {c} /\ k.record = settling[p].record
      /\ k.down = settling[p].down /\ k.keep = settling[p].keep
  BY WorkFacts DEF HandFields
<1> HIDE DEF k
<1>3. Only(p) /\ visit'[p] = visit[p] /\ pass'[p] = pass[p] /\ settling'[p] = k
  BY <1>1, <1>2, SettleIs
<1> QED BY <1>2, <1>3 DEF Restore

LEMMA RetireIs ==
  ASSUME Types, NEW p \in Process, NEW c \in Comm, Retire(p, c)
  PROVE  /\ Only(p) /\ visit'[p] = visit[p] /\ pass'[p] = pass[p]
         /\ c \in settling[p].down /\ settling'[p].down = settling[p].down \ {c}
         /\ settling'[p].record = settling[p].record /\ settling'[p].up = settling[p].up
         /\ settling'[p].keep = settling[p].keep
         /\ rows' = [rows EXCEPT ![settling[p].record][c] = IF @ = "none" THEN @ ELSE "orphaned"]
         /\ UNCHANGED <<checkout, graph, desc, seen, leaf, meta, history, events>>
<1> DEFINE k == [settling[p] EXCEPT !.down = @ \ {c}]
<1>1. Settle(p, k) /\ UNCHANGED <<pass, visit>>
  BY DEF Retire
<1>2. /\ DOMAIN k = HandFields /\ k.down = settling[p].down \ {c} /\ k.record = settling[p].record
      /\ k.up = settling[p].up /\ k.keep = settling[p].keep
  BY WorkFacts DEF HandFields
<1> HIDE DEF k
<1>3. Only(p) /\ visit'[p] = visit[p] /\ pass'[p] = pass[p] /\ settling'[p] = k
  BY <1>1, <1>2, SettleIs
<1> QED BY <1>2, <1>3 DEF Retire

LEMMA ReconciledIs ==
  ASSUME Types, NEW p \in Process, NEW r, NEW kept, Reconciled(p, r, kept)
  PROVE  /\ Only(p) /\ visit'[p] = visit[p] /\ settling'[p] = NoRecord
         /\ Kept(p, {"vacated", "failed"})
         /\ pass'[p].vacated = [pass[p].vacated EXCEPT ![r] = {}]
         /\ pass'[p].failed = [pass[p].failed EXCEPT ![r] = kept]
         /\ UNCHANGED <<checkout, graph, bindings, meta, history>>
<1>1. /\ pass' = [pass EXCEPT ![p].vacated[r] = {}, ![p].failed[r] = kept] /\ visit' = visit
      /\ settling' = [settling EXCEPT ![p] = NoRecord]
      /\ UNCHANGED <<checkout, graph, bindings, meta, history>>
  BY DEF Reconciled, Settle
<1>2. /\ pass = [q \in Process |-> pass[q]] /\ visit = [q \in Process |-> visit[q]]
      /\ settling = [q \in Process |-> settling[q]]
      /\ \A q \in Process : /\ DOMAIN pass[q] = Fields /\ DOMAIN visit[q] = TripFields
                            /\ DOMAIN settling[q] = HandFields
  BY WorkFacts
<1>3. /\ Kept(p, {"vacated", "failed"}) /\ DOMAIN pass'[p] = Fields
      /\ \A q \in Process \ {p} : pass'[q] = pass[q]
      /\ pass'[p].vacated = [pass[p].vacated EXCEPT ![r] = {}]
      /\ pass'[p].failed = [pass[p].failed EXCEPT ![r] = kept]
  BY <1>1, <1>2 DEF Kept, Fields
<1>4. pass' = [q \in Process |-> pass'[q]]
  BY <1>1, <1>2
<1>5. settling'[p] = NoRecord /\ Only(p)
  BY <1>1, <1>2, <1>3, <1>4, Domains DEF Only
<1> QED BY <1>1, <1>2, <1>3, <1>5

LEMMA CollectIs ==
  ASSUME Types, NEW p \in Process, Collect(p)
  PROVE  /\ Only(p) /\ visit'[p] = visit[p] /\ settling'[p] = settling[p]
         /\ pass[p].pc = "reconcile" /\ pass[p].vacated = NoVacancy /\ Kept(p, {"pc", "failed"})
         /\ \/ pass[p].failed = NoVacancy /\ pass'[p].pc = "finish" /\ pass'[p].failed = NoVacancy
            \/ /\ pass[p].failed # NoVacancy /\ pass'[p].pc = "remember"
               /\ pass'[p].failed = [r \in Record |-> pass[p].failed[r] \cup pending1[r]]
         /\ UNCHANGED <<checkout, graph, bindings, meta, history, events>>
<1> DEFINE x == IF pass[p].failed = NoVacancy THEN "finish" ELSE "remember"
           old == pass[p].failed
           y == IF old = NoVacancy THEN old ELSE [r \in Record |-> old[r] \cup pending1[r]]
<1>1. /\ pass' = [pass EXCEPT ![p].pc = x,
             ![p].failed = IF @ = NoVacancy THEN @ ELSE [r \in Record |-> @[r] \cup pending1[r]]]
      /\ UNCHANGED <<visit, settling>>
  BY DEF Collect
<1> HIDE DEF x
<1>2. /\ Only(p) /\ Kept(p, {"pc", "failed"}) /\ pass'[p].pc = x /\ pass'[p].failed = y
      /\ visit'[p] = visit[p] /\ settling'[p] = settling[p]
  BY <1>1, WorkFacts DEF Only, Kept, Fields
<1> QED BY <1>2 DEF Collect, x

LEMMA RememberIs ==
  ASSUME Types, NEW p \in Process, Remember(p)
  PROVE  /\ Only(p) /\ visit'[p] = visit[p] /\ settling'[p] = settling[p]
         /\ \/ /\ pass[p].pc = "retry" /\ pass[p].vacated = NoVacancy
               /\ Gates(pass'[p], pass[p].own, pass[p].graph, pass[p].synced)
            \/ /\ pass[p].pc = "remember" /\ Kept(p, {"pc", "failed"})
               /\ pass'[p].pc = "finish" /\ pass'[p].failed = NoVacancy
         /\ pending1' = pass[p].failed
         /\ lost' = IF p \in beside THEN lost \cup (Pairs(pending1) \ Pairs(pass[p].failed)) ELSE lost
         /\ UNCHANGED <<checkout, graph, bindings, stamp, volatile, gen, done, watch,
                        raised, beside, crossed, events>>
<1>0. UNCHANGED <<visit, settling>>
  BY DEF Remember
<1>1. CASE /\ pass[p].pc = "retry" /\ pass[p].vacated = NoVacancy
           /\ pass' = [pass EXCEPT ![p] = Gate(pass[p].own, pass[p].graph, pass[p].synced)]
  <2> DEFINE t == Gate(pass[p].own, pass[p].graph, pass[p].synced)
  <2>1. Gates(t, pass[p].own, pass[p].graph, pass[p].synced)
    BY GateIs
  <2>2. DOMAIN t = Fields
    BY <2>1, Domains DEF Gates, Started
  <2> HIDE DEF t
  <2>3. Only(p) /\ visit'[p] = visit[p] /\ settling'[p] = settling[p] /\ pass'[p] = t
    BY <1>0, <1>1, <2>2, EndedIs DEF t
  <2> QED BY <1>1, <2>1, <2>3 DEF Remember
<1>2. CASE pass[p].pc = "remember" /\ pass' = [pass EXCEPT ![p].pc = "finish", ![p].failed = NoVacancy]
  <2>1. /\ Only(p) /\ Kept(p, {"pc", "failed"}) /\ pass'[p].pc = "finish"
        /\ pass'[p].failed = NoVacancy
        /\ visit'[p] = visit[p] /\ settling'[p] = settling[p]
    BY <1>0, <1>2, WorkFacts DEF Only, Kept, Fields
  <2> QED BY <1>2, <2>1 DEF Remember
<1> QED BY <1>1, <1>2 DEF Remember

LEMMA GoToIs ==
  ASSUME Types, NEW p \in Process, NEW x, GoTo(p, x), UNCHANGED <<visit, settling>>
  PROVE  /\ Only(p) /\ visit'[p] = visit[p] /\ settling'[p] = settling[p]
         /\ Kept(p, {"pc"}) /\ pass'[p].pc = x
BY WorkFacts DEF GoTo, Only, Kept, Fields

LEMMA AcknowledgeIs ==
  ASSUME Types, NEW p \in Process, Acknowledge(p)
  PROVE  /\ Only(p) /\ visit'[p] = visit[p] /\ settling'[p] = settling[p]
         /\ pass[p].pc = "acknowledge" \/ (pass[p].pc = "finish" /\ pass[p].mode = "orphans")
         /\ \/ /\ pass[p].mode = "orphans" /\ VerifyDue(pass[p].own)
               /\ Started(pass'[p], "verify", TRUE, pass[p].graph, watch.ids)
            \/ ~(pass[p].mode = "orphans" /\ VerifyDue(pass[p].own)) /\ pass'[p] = Idle
         /\ done' = pass[p].gen
         /\ UNCHANGED <<checkout, graph, bindings, stamp, volatile, gen, watch, pending1,
                        history, events>>
<1> DEFINE t == AfterAcknowledge(p)
<1>1. pass' = [pass EXCEPT ![p] = t] /\ UNCHANGED <<visit, settling>>
  BY DEF Acknowledge, Acknowledging
<1>2. \/ /\ pass[p].mode = "orphans" /\ VerifyDue(pass[p].own)
         /\ Started(t, "verify", TRUE, pass[p].graph, watch.ids)
      \/ ~(pass[p].mode = "orphans" /\ VerifyDue(pass[p].own)) /\ t = Idle
  BY StartIs DEF AfterAcknowledge
<1>3. DOMAIN t = Fields
  BY <1>2, Domains DEF Started
<1> HIDE DEF t
<1>4. Only(p) /\ visit'[p] = visit[p] /\ settling'[p] = settling[p] /\ pass'[p] = t
  BY <1>1, <1>3, EndedIs
<1> QED BY <1>2, <1>4 DEF Acknowledge, Acknowledging

LEMMA CrashIs ==
  ASSUME Types, NEW p \in Process, Crash(p)
  PROVE  /\ Only(p) /\ pass'[p] = Idle /\ visit'[p] = NoVisit /\ settling'[p] = NoRecord
         /\ lost' = lost \cup HalfWritten(p)
                         \cup ((Pairs(pass[p].vacated) \cup Pairs(pass[p].failed)) \ Pairs(pending1))
         /\ events' = events + 1
         /\ UNCHANGED <<checkout, graph, bindings, meta, raised, beside, crossed>>
<1>1. /\ pass' = [pass EXCEPT ![p] = Idle] /\ visit' = [visit EXCEPT ![p] = NoVisit]
      /\ settling' = [settling EXCEPT ![p] = NoRecord]
  BY DEF Crash, Ended
<1>2. Only(p) /\ pass'[p] = Idle /\ visit'[p] = NoVisit /\ settling'[p] = NoRecord
  BY <1>1, WorkFacts, Domains DEF Only
<1> QED BY <1>2 DEF Crash, Event

-----------------------------------------------------------------------------
(* Types *)

(* A step of the pass p that touches only the index, apart from its own work. *)
LEMMA WorkStepTypes ==
  ASSUME Types, NEW p \in Process, WorkType', UNCHANGED <<checkout, graph>>,
         BoundType', MetaType', HistoryType', events' \in {events, events + 1, events + 2}
  PROVE  Types'
BY DEF Types, CheckoutType, GraphType, checkout

LEMMA SameBound == ASSUME Types, UNCHANGED bindings PROVE BoundType'
BY DEF Types, BoundType, bindings

LEMMA SameMeta == ASSUME Types, UNCHANGED meta PROVE MetaType'
BY DEF Types, MetaType, meta

LEMMA VisitTypes ==
  ASSUME Typing, Types, NEW p \in Process, NEW e \in Entity, Visit(p, e)
  PROVE  Types'
<1>1. /\ pass[p].pc = "ladder" /\ e \in pass[p].todo /\ visit[p] = NoVisit /\ Only(p)
      /\ settling'[p] = settling[p]
      /\ UNCHANGED <<checkout, graph, bindings, meta, lost, raised, beside, crossed, events>>
  BY VisitIs
<1>2. Task(pass[p])' /\ Trip(visit[p], pass[p])' /\ pass'[p].pc = "ladder"
  <2>1. ASSUME NEW w, w \subseteq Entity, Over(p, e, w), visit'[p] = NoVisit
        PROVE  Task(pass[p])' /\ Trip(visit[p], pass[p])' /\ pass'[p].pc = "ladder"
    <3>1. Task(pass[p])'
      BY <1>1, <2>1, TaskOver DEF Only
    <3>2. Trip(visit[p], pass[p])'
      BY <2>1, IdleTypes DEF Trip, NoVisit
    <3> QED BY <1>1, <2>1, <3>1, <3>2 DEF Over, Kept, Fields
  <2>2. ASSUME pass'[p] = pass[p], DOMAIN visit'[p] = TripFields,
               Planned(e, Read(p, e).desc, Read(p, e).seen, pass[p].graph, pass[p].own, visit'[p])
        PROVE  Task(pass[p])' /\ Trip(visit[p], pass[p])' /\ pass'[p].pc = "ladder"
    <3>1. Read(p, e).desc \in Path /\ Read(p, e).seen \in Comm \cup {None}
      BY VisitIs
    <3>2. Leaves(e, "degraded") \subseteq Record /\ \A o, c : Repointed(e, o, c) \subseteq Record
      BY DEF Leaves, Repointed
    <3>3. TripType(visit[p])'
      BY <2>2, <3>1, <3>2 DEF Planned, TripType
    <3>4. Task(pass[p])
      BY WorkFacts DEF Task
    <3>5. visit'[p].entity = e
      BY <2>2 DEF Planned
    <3>6. Trip(visit[p], pass[p])'
      BY <1>1, <2>2, <3>3, <3>5 DEF Trip
    <3> QED BY <1>1, <2>2, <3>4, <3>6
  <2>3. {} \subseteq Entity /\ {e} \subseteq Entity
    OBVIOUS
  <2>4. \/ \E w \in {{}, {e}} : Over(p, e, w) /\ visit'[p] = NoVisit
        \/ /\ pass'[p] = pass[p] /\ DOMAIN visit'[p] = TripFields
           /\ Planned(e, Read(p, e).desc, Read(p, e).seen, pass[p].graph, pass[p].own, visit'[p])
    BY VisitIs
  <2> QED BY <2>1, <2>2, <2>3, <2>4
<1>3. Hand(settling[p], pass[p])'
  <2>1. settling[p].record = None
    BY <1>1, WorkFacts
  <2> QED BY <1>1, <2>1, WorkFacts DEF Hand
<1>4. WorkType'
  BY <1>1, <1>2, <1>3, OnlyTypes
<1>5. BoundType' /\ MetaType' /\ HistoryType'
  BY <1>1, SameBound, SameMeta DEF Types, HistoryType
<1> QED BY <1>1, <1>4, <1>5, WorkStepTypes

(* A visit that ends, or goes on. *)
LEMMA EndsTypes ==
  ASSUME Types, NEW p \in Process, Only(p), Ends(p), visit[p].stage # "none",
         settling'[p] = settling[p]
  PROVE  WorkType' /\ raised' \subseteq Entity
<1>1. pass[p].pc = "ladder"
  BY WorkFacts
<1>2. Task(pass[p])'
  BY <1>1, TaskOver DEF Ends, Only
<1>3. Trip(visit[p], pass[p])'
  BY IdleTypes DEF Ends, Trip, NoVisit
<1>4. Hand(settling[p], pass[p])'
  <2>1. settling[p].record = None
    BY <1>1, WorkFacts
  <2> QED BY <2>1, WorkFacts DEF Hand
<1> QED BY <1>2, <1>3, <1>4, OnlyTypes DEF Ends, Types, HistoryType

LEMMA StaysTypes ==
  ASSUME Types, NEW p \in Process, Only(p), Stays(p), visit[p].stage # "none",
         settling'[p] = settling[p], NEW s \in {"rows", "written", "leaves"}, NEW l \in SUBSET Record,
         NEW w \in SUBSET Record, GoesOn(p, visit[p], s, l, w),
         s = "written" => visit[p].status # "degraded"
  PROVE  WorkType' /\ raised' \subseteq Entity
<1>1. Trip(visit[p], pass[p])'
  <2>1. /\ visit'[p].stage = s /\ visit'[p].list = l /\ visit'[p].wrote = w
        /\ visit'[p].entity = visit[p].entity /\ visit'[p].was = visit[p].was
        /\ visit'[p].desc = visit[p].desc /\ visit'[p].old = visit[p].old
        /\ visit'[p].comm = visit[p].comm /\ visit'[p].status = visit[p].status
        /\ DOMAIN visit'[p] = TripFields /\ pass'[p] = pass[p]
    BY DEF GoesOn, TripFields, Only, Stays
  <2> QED BY <2>1, WorkFacts DEF Trip, TripType
<1>2. Task(pass[p])' /\ Hand(settling[p], pass[p])'
  BY WorkFacts DEF Stays, Task, Hand
<1> QED BY <1>1, <1>2, OnlyTypes DEF Stays, Types, HistoryType

LEMMA WriteRowTypes ==
  ASSUME Typing, Types, NEW p \in Process, NEW r \in Record, WriteRow(p, r)
  PROVE  Types'
<1>1. /\ Only(p) /\ settling'[p] = settling[p] /\ visit[p].stage = "rows"
      /\ rows' = [rows EXCEPT ![r][visit[p].comm] = "live"]
      /\ GoesOn(p, visit[p], "rows", visit[p].list \ {r}, visit[p].wrote \cup {r})
      /\ Kept(p, {"vacated"})
      /\ pass'[p].vacated = [pass[p].vacated EXCEPT
              ![r] = IF visit[p].old = None THEN @ ELSE @ \cup {visit[p].old}]
      /\ UNCHANGED <<checkout, graph, desc, seen, leaf, meta, history, events>>
  BY WriteRowIs
<1>2. /\ TaskType(pass[p]) /\ SnapType(pass[p]) /\ TaskShape(pass[p]) /\ TripType(visit[p])
      /\ pass[p].pc = "ladder" /\ visit[p].entity \in pass[p].todo
  BY <1>1, WorkFacts
<1>3. /\ pass'[p].pc = pass[p].pc /\ pass'[p].mode = pass[p].mode /\ pass'[p].own = pass[p].own
      /\ pass'[p].graph = pass[p].graph /\ pass'[p].synced = pass[p].synced
      /\ pass'[p].head = pass[p].head /\ pass'[p].gen = pass[p].gen
      /\ pass'[p].todo = pass[p].todo /\ pass'[p].snap = pass[p].snap
      /\ pass'[p].uncommitted = pass[p].uncommitted /\ pass'[p].failed = pass[p].failed
  BY <1>1 DEF Kept, Fields
<1>4. pass'[p].vacated \in [Record -> SUBSET Comm]
  <2>1. visit[p].old \in Comm \cup {None} /\ pass[p].vacated \in [Record -> SUBSET Comm]
    BY <1>2 DEF TripType, TaskType
  <2> QED BY <1>1, <2>1
<1>5. Task(pass[p])'
  <2>1. TaskType(pass[p])'
    BY <1>1, <1>2, <1>3, <1>4 DEF TaskType, Only
  <2>2. SnapType(pass[p])' /\ TaskShape(pass[p])'
    BY <1>2, <1>3 DEF SnapType, TaskShape
  <2> QED BY <2>1, <2>2 DEF Task
<1>6. Trip(visit[p], pass[p])'
  <2>1. /\ visit'[p].stage = "rows" /\ visit'[p].list = visit[p].list \ {r}
        /\ visit'[p].wrote = visit[p].wrote \cup {r}
        /\ visit'[p].entity = visit[p].entity /\ visit'[p].was = visit[p].was
        /\ visit'[p].desc = visit[p].desc /\ visit'[p].old = visit[p].old
        /\ visit'[p].comm = visit[p].comm /\ visit'[p].status = visit[p].status
        /\ DOMAIN visit'[p] = TripFields
    BY <1>1 DEF GoesOn, TripFields, Only
  <2>2. TripType(visit[p])'
    BY <1>1, <1>2, <2>1 DEF TripType
  <2> QED BY <1>2, <1>3, <2>1, <2>2 DEF Trip
<1>7. Hand(settling[p], pass[p])'
  <2>1. settling[p].record = None
    BY <1>2, WorkFacts
  <2> QED BY <1>1, <2>1, WorkFacts DEF Hand
<1>8. WorkType'
  BY <1>1, <1>5, <1>6, <1>7, OnlyTypes
<1>9. BoundType'
  BY <1>1 DEF Types, BoundType, Status
<1>10. MetaType' /\ HistoryType'
  BY <1>1, SameMeta DEF Types, HistoryType, history
<1> QED BY <1>1, <1>8, <1>9, <1>10, WorkStepTypes

LEMMA WriteEntityTypes ==
  ASSUME Typing, Types, NEW p \in Process, WriteEntity(p)
  PROVE  Types'
<1>1. /\ Only(p) /\ settling'[p] = settling[p] /\ visit[p].stage = "rows"
      /\ desc' = [desc EXCEPT ![visit[p].entity] = visit[p].desc]
      /\ seen' = [seen EXCEPT ![visit[p].entity] = visit[p].comm]
      /\ lost' = {x \in lost \cup Unnoted(visit[p].entity, visit[p].comm, pass[p].vacated) :
                        ~(leaf[x[1]][visit[p].entity] # "none" /\ x[2] = visit[p].comm)}
      /\ \/ visit[p].status = "degraded" /\ Ends(p)
         \/ /\ visit[p].status # "degraded" /\ Stays(p)
            /\ GoesOn(p, visit[p], "written", {}, {})
      /\ UNCHANGED <<checkout, graph, leaf, rows, meta, beside, crossed, events>>
  BY WriteEntityIs
<1>2. WorkType' /\ raised' \subseteq Entity
  <2>1. CASE Ends(p)
    BY <1>1, <2>1, EndsTypes
  <2>2. CASE visit[p].status # "degraded" /\ Stays(p) /\ GoesOn(p, visit[p], "written", {}, {})
    <3>1. {} \in SUBSET Record /\ "written" \in {"rows", "written", "leaves"}
      OBVIOUS
    <3> QED BY <1>1, <2>2, <3>1, StaysTypes
  <2> QED BY <1>1, <2>1, <2>2
<1>3. visit[p].desc \in Path /\ visit[p].comm \in Comm \cup {None}
  BY <1>1, WorkFacts DEF TripType
<1>4. BoundType'
  BY <1>1, <1>3 DEF Types, BoundType
<1>5. lost' \subseteq Record \X Comm
  BY <1>1 DEF Types, HistoryType, Unnoted
<1>6. MetaType' /\ HistoryType'
  BY <1>1, <1>2, <1>5, SameMeta DEF Types, HistoryType
<1> QED BY <1>1, <1>2, <1>4, <1>6, WorkStepTypes

LEMMA WriteLeafTypes ==
  ASSUME Typing, Types, NEW p \in Process, NEW r \in Record, WriteLeaf(p, r)
  PROVE  Types'
<1>1. /\ Only(p) /\ settling'[p] = settling[p] /\ visit[p].stage = "leaves"
      /\ leaf' = [leaf EXCEPT ![r][visit[p].entity] = visit[p].status]
      /\ \/ visit[p].list = {r} /\ visit[p].status # "degraded" /\ Ends(p)
         \/ Stays(p) /\ GoesOn(p, visit[p], "leaves", visit[p].list \ {r}, visit[p].wrote)
      /\ UNCHANGED <<checkout, graph, desc, seen, rows, meta, lost, beside, crossed, events>>
  BY WriteLeafIs
<1>2. visit[p].list \subseteq Record /\ visit[p].wrote \subseteq Record /\ visit[p].status \in Status
  BY <1>1, WorkFacts DEF TripType, Status
<1>3. WorkType' /\ raised' \subseteq Entity
  BY <1>1, <1>2, EndsTypes, StaysTypes
<1>4. BoundType'
  BY <1>1, <1>2 DEF Types, BoundType
<1>5. MetaType' /\ HistoryType'
  BY <1>1, <1>3, SameMeta DEF Types, HistoryType
<1> QED BY <1>1, <1>3, <1>4, <1>5, WorkStepTypes

LEMMA MoveOnTypes ==
  ASSUME Typing, Types, NEW p \in Process, MoveOn(p)
  PROVE  Types'
<1> DEFINE v == visit[p]
           L == Leaves(v.entity, v.status)
           R == Repointed(v.entity, v.old, v.comm)
<1>1. /\ Only(p) /\ settling'[p] = settling[p]
      /\ \/ v.stage \in {"written", "rows"} /\ (Ends(p) \/ (Stays(p) /\ GoesOn(p, v, "leaves", L, v.wrote)))
         \/ v.stage = "leaves" /\ Stays(p) /\ GoesOn(p, v, "rows", R, v.wrote)
      /\ UNCHANGED <<checkout, graph, bindings, meta, lost, beside, crossed, events>>
  BY MoveOnIs
<1>2. L \in SUBSET Record /\ R \in SUBSET Record /\ v.wrote \in SUBSET Record
  BY WorkFacts DEF Leaves, Repointed, TripType
<1> HIDE DEF L, R
<1>3. WorkType' /\ raised' \subseteq Entity
  BY <1>1, <1>2, EndsTypes, StaysTypes
<1>4. BoundType' /\ MetaType' /\ HistoryType'
  BY <1>1, <1>3, SameBound, SameMeta DEF Types, HistoryType
<1> QED BY <1>1, <1>3, <1>4, WorkStepTypes

LEMMA HalfWrittenTypes ==
  ASSUME Types, NEW p \in Process
  PROVE  HalfWritten(p) \subseteq Record \X Comm
BY DEF HalfWritten

LEMMA RaiseTypes ==
  ASSUME Typing, Types, NEW p \in Process, NEW e \in Entity, Raise(p, e)
  PROVE  Types'
<1>1. /\ Only(p) /\ settling'[p] = settling[p] /\ pass[p].pc = "ladder"
      /\ Over(p, e, {}) /\ visit'[p] = NoVisit /\ raised' = raised \cup {e}
      /\ lost' = lost \cup HalfWritten(p) /\ events' = events + 1
      /\ UNCHANGED <<checkout, graph, bindings, meta, beside, crossed>>
  BY RaiseIs
<1>2. Task(pass[p])'
  BY <1>1, TaskOver DEF Only
<1>3. Trip(visit[p], pass[p])'
  BY <1>1, IdleTypes DEF Trip, NoVisit
<1>4. Hand(settling[p], pass[p])'
  <2>1. settling[p].record = None
    BY <1>1, WorkFacts
  <2> QED BY <1>1, <2>1, WorkFacts DEF Hand
<1>5. WorkType'
  BY <1>1, <1>2, <1>3, <1>4, OnlyTypes
<1>6. BoundType' /\ MetaType' /\ HistoryType'
  BY <1>1, SameBound, SameMeta, HalfWrittenTypes DEF Types, HistoryType
<1> QED BY <1>1, <1>5, <1>6, WorkStepTypes

(* A pass that is done with its visits goes on. *)
LEMMA PcTypes ==
  ASSUME Types, NEW p \in Process, Only(p), Kept(p, {"pc", "vacated", "failed"}),
         pass'[p].vacated \in [Record -> SUBSET Comm], pass'[p].failed \in [Record -> SUBSET Comm],
         pass[p].todo = {}, pass[p].pc # "idle",
         \/ pass'[p].pc = pass[p].pc
         \/ /\ pass[p].mode # "none" /\ pass'[p].pc \in {"reconcile", "remember", "finish", "clear", "acknowledge"}
            /\ pass'[p].pc \in {"clear", "acknowledge"} => pass[p].mode = "full",
         visit'[p] = visit[p], Hand(settling[p], pass[p])'
  PROVE  WorkType'
<1>1. /\ pass'[p].mode = pass[p].mode /\ pass'[p].own = pass[p].own
      /\ pass'[p].graph = pass[p].graph /\ pass'[p].synced = pass[p].synced
      /\ pass'[p].head = pass[p].head /\ pass'[p].gen = pass[p].gen
      /\ pass'[p].todo = pass[p].todo /\ pass'[p].snap = pass[p].snap
      /\ pass'[p].uncommitted = pass[p].uncommitted /\ DOMAIN pass'[p] = Fields
  BY DEF Kept, Fields, Only
<1>2. TaskType(pass[p])'
  BY <1>1, WorkFacts DEF TaskType
<1>3. SnapType(pass[p])'
  BY <1>1 DEF SnapType
<1>4. TaskShape(pass[p])'
  BY <1>1, WorkFacts DEF TaskShape
<1>5. Trip(visit[p], pass[p])'
  <2>1. visit[p].stage = "none"
    BY WorkFacts
  <2> QED BY <2>1, WorkFacts DEF Trip
<1> QED BY <1>2, <1>3, <1>4, <1>5, OnlyTypes DEF Task

LEMMA KeptMore ==
  ASSUME NEW p \in Process, Kept(p, {"pc"}) \/ Kept(p, {"pc", "failed"}) \/ Kept(p, {"vacated", "failed"})
  PROVE  /\ Kept(p, {"pc", "vacated", "failed"})
         /\ Kept(p, {"pc"}) => pass'[p].vacated = pass[p].vacated /\ pass'[p].failed = pass[p].failed
         /\ Kept(p, {"pc", "failed"}) => pass'[p].vacated = pass[p].vacated
         /\ Kept(p, {"vacated", "failed"}) => pass'[p].pc = pass[p].pc
BY DEF Kept, Fields

LEMMA NothingInHand ==
  ASSUME Types, NEW p \in Process, settling[p].record = None, settling'[p] = settling[p]
  PROVE  Hand(settling[p], pass[p])'
BY WorkFacts DEF Hand

LEMMA TaskKinds ==
  ASSUME Types, NEW p \in Process
  PROVE  /\ pass[p].vacated \in [Record -> SUBSET Comm] /\ pass[p].failed \in [Record -> SUBSET Comm]
         /\ pass[p].pc \notin {"idle", "retry"} => pass[p].mode # "none"
         /\ pass[p].pc # "ladder" => pass[p].todo = {}
         /\ pass[p].pc \notin {"retry", "reconcile"} => settling[p].record = None
         /\ pass[p].vacated = NoVacancy => settling[p].record = None
<1>1. pass[p].vacated = NoVacancy /\ settling[p].record # None => FALSE
  BY WorkFacts DEF HandType, NoVacancy
<1> QED BY <1>1, WorkFacts DEF TaskType, TaskShape

LEMMA LadderDoneTypes ==
  ASSUME Typing, Types, NEW p \in Process, RecordPendingMoves(p)
  PROVE  Types'
<1>1. /\ Only(p) /\ visit'[p] = visit[p] /\ settling'[p] = settling[p]
      /\ pass[p].pc = "ladder" /\ pass[p].todo = {} /\ Kept(p, {"pc"})
      /\ pass'[p].pc \in {"finish", "reconcile"}
      /\ watch' = IF pass[p].own /\ pass[p].mode # "orphans"
                  THEN [head |-> pass[p].head, ids |-> pass[p].uncommitted] ELSE watch
      /\ UNCHANGED <<checkout, graph, bindings, stamp, volatile, gen, done, pending1, history, events>>
  BY LadderDoneIs
<1>2. WorkType'
  <2>1. Hand(settling[p], pass[p])'
    BY <1>1, TaskKinds, NothingInHand
  <2> QED BY <1>1, <2>1, KeptMore, TaskKinds, PcTypes
<1>3. MetaType'
  <2>1. pass[p].head \in Nat /\ pass[p].uncommitted \subseteq Entity
    BY WorkFacts DEF TaskType
  <2> QED BY <1>1, <2>1 DEF Types, MetaType
<1>4. BoundType' /\ HistoryType'
  BY <1>1, SameBound DEF Types, HistoryType, history
<1> QED BY <1>1, <1>2, <1>3, <1>4, WorkStepTypes

(* One record is settled; the pass itself stays as it is. *)
LEMMA SettleTypes ==
  ASSUME Types, NEW p \in Process, Only(p), visit'[p] = visit[p], pass'[p] = pass[p],
         HandType(settling[p])', Settling(p), pass[p].vacated[settling'[p].record] # {}
  PROVE  WorkType'
<1>1. Task(pass[p])' /\ Trip(visit[p], pass[p])'
  BY WorkFacts DEF Task, Trip
<1>2. Hand(settling[p], pass[p])'
  BY DEF Hand, Settling
<1> QED BY <1>1, <1>2, OnlyTypes

LEMMA WeighTypes ==
  ASSUME Typing, Types, NEW p \in Process, NEW r \in Record, Weigh(p, r)
  PROVE  Types'
<1>1. /\ Only(p) /\ visit'[p] = visit[p] /\ pass'[p] = pass[p]
      /\ Settling(p) /\ settling'[p].record = r /\ pass[p].vacated[r] # {}
      /\ settling'[p].up = Held(r) /\ Held(r) \subseteq Comm
      /\ settling'[p].down = IF Abstains(r) THEN {} ELSE pass[p].vacated[r] \ Held(r)
      /\ settling'[p].keep = IF Abstains(r) /\ pass[p].pc = "retry" THEN pass[p].vacated[r] ELSE {}
      /\ lost' = IF Abstains(r) /\ pass[p].pc # "retry"
                 THEN lost \cup ({r} \X (pass[p].vacated[r] \ Held(r))) ELSE lost
      /\ UNCHANGED <<checkout, graph, bindings, meta, raised, beside, crossed, events>>
  BY WeighIs
<1>2. pass[p].vacated[r] \subseteq Comm /\ r # None
  BY TaskKinds, Typing DEF Typing
<1>3. HandType(settling[p])'
  BY <1>1, <1>2 DEF HandType, Only
<1>4. WorkType'
  BY <1>1, <1>3, SettleTypes
<1>5. lost' \subseteq Record \X Comm
  BY <1>1, <1>2 DEF Types, HistoryType
<1>6. BoundType' /\ MetaType' /\ HistoryType'
  BY <1>1, <1>5, SameBound, SameMeta DEF Types, HistoryType
<1> QED BY <1>1, <1>4, <1>6, WorkStepTypes

LEMMA InHandRecord ==
  ASSUME Types, NEW p \in Process, NEW c, c \in settling[p].up \cup settling[p].down
  PROVE  /\ Settling(p) /\ settling[p].record \in Record /\ settling[p].record # None
         /\ pass[p].vacated[settling[p].record] # {}
<1>1. settling[p].record # None
  BY WorkFacts DEF HandType, NoRecord
<1> QED BY <1>1, WorkFacts DEF HandType, Settling

LEMMA RestoreTypes ==
  ASSUME Typing, Types, NEW p \in Process, NEW c \in Comm, Restore(p, c)
  PROVE  Types'
<1>1. /\ Only(p) /\ visit'[p] = visit[p] /\ pass'[p] = pass[p]
      /\ c \in settling[p].up /\ settling'[p].up = settling[p].up \ {c}
      /\ settling'[p].record = settling[p].record /\ settling'[p].down = settling[p].down
      /\ settling'[p].keep = settling[p].keep
      /\ rows' = [rows EXCEPT ![settling[p].record][c] = IF @ = "orphaned" THEN "live" ELSE @]
      /\ lost' = IF p \in beside /\ ~Based(settling[p].record, c)
                 THEN lost \cup {<<settling[p].record, c>>} ELSE lost
      /\ UNCHANGED <<checkout, graph, desc, seen, leaf, meta, raised, beside, crossed, events>>
  BY RestoreIs
<1>2. /\ Settling(p) /\ settling[p].record \in Record /\ settling[p].record # None
      /\ pass[p].vacated[settling[p].record] # {}
  BY <1>1, InHandRecord
<1>3. HandType(settling[p])'
  BY <1>1, <1>2, WorkFacts DEF HandType, Only
<1>4. WorkType'
  <2>1. pass[p].vacated[settling'[p].record] # {}
    BY <1>1, <1>2
  <2>2. Only(p) /\ visit'[p] = visit[p] /\ pass'[p] = pass[p] /\ Settling(p)
    BY <1>1, <1>2
  <2> QED BY <1>3, <2>1, <2>2, SettleTypes
<1>5. BoundType'
  <2>1. /\ rows' = [rows EXCEPT ![settling[p].record][c] = IF @ = "orphaned" THEN "live" ELSE @]
        /\ rows \in [Record -> [Comm -> Status]] /\ "live" \in Status
    BY <1>1 DEF Types, BoundType, Status
  <2>2. rows' \in [Record -> [Comm -> Status]]
    BY <1>2, <2>1
  <2> QED BY <1>1, <2>2 DEF Types, BoundType
<1>6. MetaType' /\ HistoryType'
  BY <1>1, <1>2, SameMeta DEF Types, HistoryType
<1> QED BY <1>1, <1>4, <1>5, <1>6, WorkStepTypes

LEMMA RetireTypes ==
  ASSUME Typing, Types, NEW p \in Process, NEW c \in Comm, Retire(p, c)
  PROVE  Types'
<1>1. /\ Only(p) /\ visit'[p] = visit[p] /\ pass'[p] = pass[p]
      /\ c \in settling[p].down /\ settling'[p].down = settling[p].down \ {c}
      /\ settling'[p].record = settling[p].record /\ settling'[p].up = settling[p].up
      /\ settling'[p].keep = settling[p].keep
      /\ rows' = [rows EXCEPT ![settling[p].record][c] = IF @ = "none" THEN @ ELSE "orphaned"]
      /\ UNCHANGED <<checkout, graph, desc, seen, leaf, meta, history, events>>
  BY RetireIs
<1>2. /\ Settling(p) /\ settling[p].record \in Record /\ settling[p].record # None
      /\ pass[p].vacated[settling[p].record] # {}
  BY <1>1, InHandRecord
<1>3. HandType(settling[p])'
  BY <1>1, <1>2, WorkFacts DEF HandType, Only
<1>4. WorkType'
  <2>1. pass[p].vacated[settling'[p].record] # {}
    BY <1>1, <1>2
  <2>2. Only(p) /\ visit'[p] = visit[p] /\ pass'[p] = pass[p] /\ Settling(p)
    BY <1>1, <1>2
  <2> QED BY <1>3, <2>1, <2>2, SettleTypes
<1>5. BoundType'
  BY <1>1 DEF Types, BoundType, Status
<1>6. MetaType' /\ HistoryType'
  BY <1>1, SameMeta DEF Types, HistoryType, history
<1> QED BY <1>1, <1>4, <1>5, <1>6, WorkStepTypes

LEMMA ReconciledTypes ==
  ASSUME Typing, Types, NEW p \in Process, NEW r \in Record, NEW kept \in SUBSET Comm,
         Reconciled(p, r, kept), Settling(p), events' \in {events, events + 1}
  PROVE  Types'
<1>1. /\ Only(p) /\ visit'[p] = visit[p] /\ settling'[p] = NoRecord
      /\ Kept(p, {"vacated", "failed"})
      /\ pass'[p].vacated = [pass[p].vacated EXCEPT ![r] = {}]
      /\ pass'[p].failed = [pass[p].failed EXCEPT ![r] = kept]
      /\ UNCHANGED <<checkout, graph, bindings, meta, history>>
  BY ReconciledIs
<1>2. pass'[p].vacated \in [Record -> SUBSET Comm] /\ pass'[p].failed \in [Record -> SUBSET Comm]
  BY <1>1, TaskKinds
<1>3. Hand(settling[p], pass[p])'
  BY <1>1, IdleTypes DEF Hand, NoRecord
<1>4. pass[p].todo = {} /\ pass[p].pc # "idle"
  BY TaskKinds DEF Settling
<1>5. WorkType'
  BY <1>1, <1>2, <1>3, <1>4, KeptMore, PcTypes
<1>6. BoundType' /\ MetaType' /\ HistoryType'
  BY <1>1, SameBound, SameMeta DEF Types, HistoryType, history
<1> QED BY <1>1, <1>5, <1>6, WorkStepTypes

LEMMA NextRecordIs ==
  ASSUME Types, NEW p \in Process, NextRecord(p)
  PROVE  /\ settling[p].record \in Record /\ settling[p].record # None /\ Settling(p)
         /\ settling[p].up = {} /\ settling[p].down = {} /\ settling[p].keep \in SUBSET Comm
         /\ Reconciled(p, settling[p].record, settling[p].keep) /\ events' = events
BY WorkFacts DEF NextRecord, HandType, Settling

LEMMA ReconcileRaisesIs ==
  ASSUME Types, NEW p \in Process, NEW r \in Record, ReconcileRaises(p, r)
  PROVE  /\ Settling(p) /\ settling[p].record \in {None, r} /\ pass[p].vacated[r] \in SUBSET Comm
         /\ Reconciled(p, r, pass[p].vacated[r]) /\ events' = events + 1
BY TaskKinds DEF ReconcileRaises, Event

LEMMA CollectTypes ==
  ASSUME Typing, Types, NEW p \in Process, Collect(p)
  PROVE  Types'
<1>1. /\ Only(p) /\ visit'[p] = visit[p] /\ settling'[p] = settling[p]
      /\ pass[p].pc = "reconcile" /\ pass[p].vacated = NoVacancy /\ Kept(p, {"pc", "failed"})
      /\ \/ pass[p].failed = NoVacancy /\ pass'[p].pc = "finish" /\ pass'[p].failed = NoVacancy
         \/ /\ pass[p].failed # NoVacancy /\ pass'[p].pc = "remember"
            /\ pass'[p].failed = [r \in Record |-> pass[p].failed[r] \cup pending1[r]]
      /\ UNCHANGED <<checkout, graph, bindings, meta, history, events>>
  BY CollectIs
<1>2. Hand(settling[p], pass[p])'
  BY <1>1, TaskKinds, NothingInHand
<1>3. pass'[p].failed \in [Record -> SUBSET Comm] /\ pass'[p].vacated \in [Record -> SUBSET Comm]
  <2>1. NoVacancy \in [Record -> SUBSET Comm]
    BY DEF NoVacancy
  <2>2. pending1 \in [Record -> SUBSET Comm]
    BY DEF Types, MetaType
  <2> QED BY <1>1, <2>1, <2>2, KeptMore, TaskKinds
<1>4. WorkType'
  <2>1. pass[p].todo = {} /\ pass[p].mode # "none"
    BY <1>1, TaskKinds
  <2> QED BY <1>1, <1>2, <1>3, <2>1, KeptMore, PcTypes
<1>5. BoundType' /\ MetaType' /\ HistoryType'
  BY <1>1, SameBound, SameMeta DEF Types, HistoryType, history
<1> QED BY <1>1, <1>4, <1>5, WorkStepTypes

(* A pass is replaced as a whole while nothing is in hand. *)
LEMMA AnewTypes ==
  ASSUME Types, NEW p \in Process, Only(p), Task(pass[p])', settling[p].record = None,
         settling'[p] = settling[p], visit'[p] = visit[p], visit[p].stage = "none"
  PROVE  WorkType'
<1>1. Hand(settling[p], pass[p])'
  BY NothingInHand
<1>2. Trip(visit[p], pass[p])'
  BY WorkFacts DEF Trip
<1> QED BY <1>1, <1>2, OnlyTypes

LEMMA RememberTypes ==
  ASSUME Typing, Types, NEW p \in Process, Remember(p)
  PROVE  Types'
<1>1. /\ Only(p) /\ visit'[p] = visit[p] /\ settling'[p] = settling[p]
      /\ pending1' = pass[p].failed
      /\ lost' = IF p \in beside THEN lost \cup (Pairs(pending1) \ Pairs(pass[p].failed)) ELSE lost
      /\ UNCHANGED <<checkout, graph, bindings, stamp, volatile, gen, done, watch,
                     raised, beside, crossed, events>>
  BY RememberIs
<1>2. WorkType'
  <2>1. CASE /\ pass[p].pc = "retry" /\ pass[p].vacated = NoVacancy
             /\ Gates(pass'[p], pass[p].own, pass[p].graph, pass[p].synced)
    <3>1. GraphType(pass[p].graph) /\ pass[p].own \in BOOLEAN
      BY <2>1, WorkFacts DEF TaskType
    <3>2. Task(pass[p])'
      BY <2>1, <3>1, GateTypes
    <3>3. settling[p].record = None /\ visit[p].stage = "none"
      BY <2>1, TaskKinds, WorkFacts
    <3> QED BY <1>1, <3>2, <3>3, AnewTypes
  <2>2. CASE /\ pass[p].pc = "remember" /\ Kept(p, {"pc", "failed"})
             /\ pass'[p].pc = "finish" /\ pass'[p].failed = NoVacancy
    <3>1. Hand(settling[p], pass[p])'
      BY <1>1, <2>2, TaskKinds, NothingInHand
    <3>2. pass'[p].failed \in [Record -> SUBSET Comm]
      BY <2>2 DEF NoVacancy
    <3>3. pass[p].todo = {} /\ pass[p].mode # "none" /\ pass'[p].vacated \in [Record -> SUBSET Comm]
      BY <2>2, KeptMore, TaskKinds
    <3> QED BY <1>1, <2>2, <3>1, <3>2, <3>3, KeptMore, PcTypes
  <2> QED BY <2>1, <2>2, RememberIs
<1>3. BoundType' /\ MetaType'
  BY <1>1, SameBound, TaskKinds DEF Types, MetaType
<1>4. HistoryType'
  <2>1. pending1 \in [Record -> SUBSET Comm]
    BY DEF Types, MetaType
  <2>2. Pairs(pending1) \subseteq Record \X Comm
    BY DEF Pairs
  <2> QED BY <1>1, <2>2 DEF Types, HistoryType
<1> QED BY <1>1, <1>2, <1>3, <1>4, WorkStepTypes

(* The steps that end a pass. *)
LEMMA StampGraphIs ==
  ASSUME Types, NEW p \in Process, StampGraph(p)
  PROVE  /\ Only(p) /\ visit'[p] = visit[p] /\ settling'[p] = settling[p]
         /\ pass[p].pc = "finish" /\ pass[p].mode = "full" /\ Kept(p, {"pc"}) /\ pass'[p].pc = "clear"
         /\ stamp' = [own |-> pass[p].own, graph |-> pass[p].graph]
         /\ crossed' = (crossed /\ p \in beside)
         /\ UNCHANGED <<checkout, graph, bindings, volatile, gen, done, watch, pending1,
                        lost, raised, beside, events>>
BY GoToIs DEF StampGraph

LEMMA ClearVolatileIs ==
  ASSUME Types, NEW p \in Process, ClearVolatile(p)
  PROVE  /\ Only(p) /\ visit'[p] = visit[p] /\ settling'[p] = settling[p]
         /\ pass[p].pc = "clear" /\ Kept(p, {"pc"}) /\ pass'[p].pc = "acknowledge"
         /\ volatile' = FALSE
         /\ UNCHANGED <<checkout, graph, bindings, stamp, gen, done, watch, pending1, history, events>>
BY GoToIs DEF ClearVolatile

LEMMA StopIs ==
  ASSUME Types, NEW p \in Process, Refused(p) \/ VerifyEnds(p)
  PROVE  /\ Only(p) /\ visit'[p] = visit[p] /\ settling'[p] = settling[p]
         /\ pass[p].pc = "finish" /\ pass'[p] = Idle /\ events' \in {events, events + 1}
         /\ UNCHANGED <<checkout, graph, bindings, meta, history>>
BY EndedIs, Domains DEF Refused, VerifyEnds, Ended, Event

LEMMA EndTypes ==
  ASSUME Typing, Types, NEW p \in Process,
         StampGraph(p) \/ ClearVolatile(p) \/ Refused(p) \/ VerifyEnds(p)
  PROVE  Types'
<1>1. CASE StampGraph(p) \/ ClearVolatile(p)
  <2>1. /\ Only(p) /\ visit'[p] = visit[p] /\ settling'[p] = settling[p] /\ Kept(p, {"pc"})
        /\ pass[p].pc \in {"finish", "clear"} /\ pass[p].mode = "full"
        /\ pass'[p].pc \in {"clear", "acknowledge"} /\ volatile' \in BOOLEAN /\ crossed' \in BOOLEAN
        /\ UNCHANGED <<checkout, graph, bindings, gen, done, watch, pending1, lost, raised, beside, events>>
    <3>1. CASE StampGraph(p)
      BY <3>1, StampGraphIs DEF Types, MetaType, HistoryType
    <3>2. CASE ClearVolatile(p)
      <4>1. pass[p].mode = "full"
        BY <3>2, ClearVolatileIs, WorkFacts DEF TaskShape
      <4> QED BY <3>2, <4>1, ClearVolatileIs DEF Types, MetaType, HistoryType, history
    <3> QED BY <1>1, <3>1, <3>2
  <2>2. Hand(settling[p], pass[p])'
    BY <2>1, TaskKinds, NothingInHand
  <2>3. WorkType'
    <3>1. pass[p].todo = {} /\ pass[p].mode # "none"
      BY <2>1, TaskKinds
    <3>2. pass'[p].vacated \in [Record -> SUBSET Comm] /\ pass'[p].failed \in [Record -> SUBSET Comm]
      BY <2>1, KeptMore, TaskKinds
    <3> QED BY <2>1, <2>2, <3>1, <3>2, KeptMore, PcTypes
  <2>4. BoundType' /\ MetaType' /\ HistoryType'
    BY <2>1, SameBound DEF Types, MetaType, HistoryType
  <2> QED BY <2>1, <2>3, <2>4, WorkStepTypes
<1>2. CASE Refused(p) \/ VerifyEnds(p)
  <2>1. /\ Only(p) /\ visit'[p] = visit[p] /\ settling'[p] = settling[p]
        /\ pass[p].pc = "finish" /\ pass'[p] = Idle /\ events' \in {events, events + 1}
        /\ UNCHANGED <<checkout, graph, bindings, meta, history>>
    BY <1>2, StopIs
  <2>2. settling[p].record = None /\ visit[p].stage = "none"
    BY <2>1, TaskKinds, WorkFacts
  <2>3. WorkType'
    BY <2>1, <2>2, IdleTypes, AnewTypes
  <2>4. BoundType' /\ MetaType' /\ HistoryType'
    BY <2>1, SameBound, SameMeta DEF Types, HistoryType, history
  <2> QED BY <2>1, <2>3, <2>4, WorkStepTypes
<1> QED BY <1>1, <1>2

LEMMA AcknowledgeTypes ==
  ASSUME Typing, Types, NEW p \in Process, Acknowledge(p)
  PROVE  Types'
<1>1. /\ Only(p) /\ visit'[p] = visit[p] /\ settling'[p] = settling[p]
      /\ pass[p].pc \in {"acknowledge", "finish"}
      /\ Started(pass'[p], "verify", TRUE, pass[p].graph, watch.ids) \/ pass'[p] = Idle
      /\ done' = pass[p].gen
      /\ UNCHANGED <<checkout, graph, bindings, stamp, volatile, gen, watch, pending1, history, events>>
  BY AcknowledgeIs
<1>2. GraphType(pass[p].graph) /\ pass[p].gen \in Nat
  BY <1>1, WorkFacts DEF TaskType
<1>3. Task(pass[p])'
  <2>1. watch.ids \in SUBSET Entity
    BY DEF Types, MetaType
  <2> QED BY <1>1, <1>2, <2>1, StartTypes, IdleTypes
<1>4. settling[p].record = None /\ visit[p].stage = "none"
  BY <1>1, TaskKinds, WorkFacts
<1>5. WorkType'
  BY <1>1, <1>3, <1>4, AnewTypes
<1>6. BoundType' /\ MetaType' /\ HistoryType'
  BY <1>1, <1>2, SameBound DEF Types, MetaType, HistoryType, history
<1> QED BY <1>1, <1>5, <1>6, WorkStepTypes

LEMMA CrashTypes ==
  ASSUME Typing, Types, NEW p \in Process, Crash(p)
  PROVE  Types'
<1>1. /\ Only(p) /\ pass'[p] = Idle /\ visit'[p] = NoVisit /\ settling'[p] = NoRecord
      /\ lost' = lost \cup HalfWritten(p)
                      \cup ((Pairs(pass[p].vacated) \cup Pairs(pass[p].failed)) \ Pairs(pending1))
      /\ events' = events + 1
      /\ UNCHANGED <<checkout, graph, bindings, meta, raised, beside, crossed>>
  BY CrashIs
<1>2. Hand(settling[p], pass[p])' /\ Trip(visit[p], pass[p])' /\ Task(pass[p])'
  BY <1>1, IdleTypes DEF Hand, NoRecord, Trip, NoVisit
<1>3. WorkType'
  BY <1>1, <1>2, OnlyTypes
<1>4. Pairs(pass[p].vacated) \subseteq Record \X Comm /\ Pairs(pass[p].failed) \subseteq Record \X Comm
  BY TaskKinds DEF Pairs
<1>5. BoundType' /\ MetaType' /\ HistoryType'
  BY <1>1, <1>4, SameBound, SameMeta, HalfWrittenTypes DEF Types, HistoryType
<1> QED BY <1>1, <1>3, <1>5, WorkStepTypes

LEMMA BeginTypes ==
  ASSUME Typing, Types, NEW p \in Process, NEW own \in Modes, Begin(p, own)
  PROVE  Types'
<1>1. /\ Only(p) /\ own \in BOOLEAN /\ pass[p].pc = "idle"
      /\ visit'[p] = visit[p] /\ settling'[p] = settling[p]
      /\ Gates(pass'[p], own, graph, Synced(own)) \/ Retries(pass'[p], own)
      /\ beside' \subseteq Process /\ crossed' \in BOOLEAN /\ events' \in {events, events + 2}
      /\ UNCHANGED <<checkout, graph, bindings, meta, lost, raised>>
  BY BeginIs DEF Types, HistoryType, Running
<1>2. Task(pass[p])'
  <2>1. GraphType(graph) /\ pending1 \in [Record -> SUBSET Comm]
    BY DEF Types, MetaType
  <2>2. CASE Gates(pass'[p], own, graph, Synced(own))
    BY <1>1, <2>1, <2>2, GateTypes
  <2>3. CASE Retries(pass'[p], own)
    <3>1. Synced(own) \in BOOLEAN
      BY DEF Synced
    <3> QED BY <1>1, <2>1, <2>3, <3>1 DEF Retries, Task, TaskType, SnapType, TaskShape, NoVacancy
  <2> QED BY <1>1, <2>2, <2>3
<1>3. settling[p].record = None /\ visit[p].stage = "none"
  BY <1>1, TaskKinds, WorkFacts
<1>4. WorkType'
  BY <1>1, <1>2, <1>3, AnewTypes
<1>5. BoundType' /\ MetaType' /\ HistoryType'
  BY <1>1, SameBound, SameMeta DEF Types, HistoryType
<1> QED BY <1>1, <1>4, <1>5, WorkStepTypes


LEMMA SameWork == ASSUME Types, UNCHANGED work PROVE WorkType' /\ Running' = Running
<1>1. pass' = pass /\ visit' = visit /\ settling' = settling
  BY DEF work
<1> QED BY <1>1 DEF Types, WorkType, Running

LEMMA EnvironmentTypes ==
  ASSUME Typing, Types, Environment
  PROVE  Types'
<1>1. CASE Edit
  <2>1. tree' \in Contents
    <3>0. tree \in Contents /\ head \in Contents
      BY DEF Types, CheckoutType
    <3>1. CASE \E p \in tree.files, q \in Path \ tree.files :
                 tree' = [files |-> (tree.files \ {p}) \cup {q},
                          at |-> {x \in tree.at : x[1] # p}
                                 \cup {<<q, x[2]>> : x \in {y \in tree.at : y[1] = p}}]
      BY <3>0, <3>1 DEF Contents
    <3>2. CASE \E p \in tree.files :
                 tree' = [files |-> tree.files \ {p}, at |-> {x \in tree.at : x[1] # p}]
      BY <3>0, <3>2 DEF Contents
    <3>3. CASE \E p \in Path, e \in Entity :
                 tree' = [files |-> tree.files \cup {p}, at |-> tree.at \cup {<<p, e>>}]
      BY <3>0, <3>3 DEF Contents
    <3>4. CASE \E x \in tree.at : tree' = [tree EXCEPT !.at = @ \ {x}]
      BY <3>0, <3>4 DEF Contents
    <3> QED BY <1>1, <3>0, <3>1, <3>2, <3>3, <3>4 DEF Edit
  <2>2. /\ UNCHANGED <<head, rev, moves, graph, bindings, meta, work, history>>
        /\ events' = events + 1
    BY <1>1 DEF Edit, Event
  <2>3. BoundType' /\ MetaType' /\ WorkType'
    BY <2>2, SameBound, SameMeta, SameWork
  <2> QED BY <2>1, <2>2, <2>3 DEF Types, CheckoutType, GraphType, HistoryType, history
<1>2. CASE \E S \in SUBSET Path : Commit(S)
  <2>0. PICK S \in SUBSET Path : Commit(S)
    BY <1>2
  <2>1. head' \in Contents /\ rev' \in Nat /\ moves' \subseteq Path \X Path
    BY <2>0 DEF Commit, Types, CheckoutType, Contents
  <2>2. UNCHANGED <<tree, graph, bindings, meta, work, history>> /\ events' = events + 1
    BY <2>0 DEF Commit, Event
  <2>3. BoundType' /\ MetaType' /\ WorkType'
    BY <2>2, SameBound, SameMeta, SameWork
  <2> QED BY <2>1, <2>2, <2>3 DEF Types, CheckoutType, GraphType, HistoryType, history
<1>3. CASE Build
  <2>1. UNCHANGED <<checkout, bindings, meta, work, history>> /\ events' = events + 1
    BY <1>3 DEF Build, Event
  <2>2. GraphType(graph')
    BY <1>3, <2>1 DEF Build, GraphType, Typing, Types, CheckoutType, Contents
  <2>3. BoundType' /\ MetaType' /\ WorkType'
    BY <2>1, SameBound, SameMeta, SameWork
  <2> QED BY <2>1, <2>2, <2>3 DEF Types, CheckoutType, HistoryType, checkout, history
<1>4. CASE \E r \in Record, e \in Entity : CaptureBlind(r, e)
  <2>0. PICK r \in Record, e \in Entity : CaptureBlind(r, e)
    BY <1>4
  <2>1. /\ UNCHANGED <<checkout, graph, desc, seen, rows, stamp, volatile, done, watch, pending1,
                       work, history>>
        /\ events' = events + 1 /\ gen' = gen + 1
        /\ leaf' = [leaf EXCEPT ![r][e] = "orphaned"]
    BY <2>0 DEF CaptureBlind, Event
  <2>2. BoundType'
    BY <2>1 DEF Types, BoundType, Status
  <2>3. MetaType' /\ WorkType'
    BY <2>1, SameWork DEF Types, MetaType
  <2> QED BY <2>1, <2>2, <2>3 DEF Types, CheckoutType, GraphType, HistoryType, checkout, history
<1>5. CASE \E r \in Record, e \in Entity, covered \in Covered : Capture(r, e, covered)
  <2>0. PICK r \in Record, e \in Entity, covered \in Covered : Capture(r, e, covered)
    BY <1>5
  <2> DEFINE answer == Exact(e, desc[e], graph)
             c == IF answer.status = "resolved" THEN answer.community
                  ELSE IF answer.status = "ambiguous" THEN answer.community ELSE None
             st == CASE answer.status = "resolved" -> "live"
                     [] answer.status = "unresolved" -> "orphaned" [] OTHER -> "none"
             rs == IF answer.status = "resolved" THEN "live" ELSE "degraded"
  <2>1. /\ UNCHANGED <<checkout, graph, desc, meta, work, raised, beside, crossed>>
        /\ events' = events + 1
        /\ leaf' = [leaf EXCEPT ![r][e] = st]
        /\ seen' = [seen EXCEPT ![e] = IF answer.status = "resolved" THEN c ELSE @]
        /\ rows' = IF c = None \/ covered THEN rows ELSE [rows EXCEPT ![r][c] = rs]
        /\ lost' = lost \cup Unnoted(e, seen'[e], NoVacancy)
    BY <2>0 DEF Capture, Event
  <2>2. answer.community \in Comm \cup {None}
    BY Communities DEF Types
  <2>3. c \in Comm \cup {None} /\ st \in Status /\ rs \in Status
    BY <2>2 DEF Status
  <2> HIDE DEF c, st, rs
  <2>4. BoundType'
    <3>1. leaf' \in [Record -> [Entity -> Status]]
      BY <2>1, <2>3 DEF Types, BoundType
    <3>2. rows' \in [Record -> [Comm -> Status]]
      BY <2>1, <2>3 DEF Types, BoundType
    <3>3. seen' \in [Entity -> Comm \cup {None}]
      BY <2>1, <2>3 DEF Types, BoundType
    <3> QED BY <2>1, <3>1, <3>2, <3>3 DEF Types, BoundType
  <2>5. HistoryType'
    BY <2>1 DEF Types, HistoryType, Unnoted
  <2>6. MetaType' /\ WorkType'
    BY <2>1, SameMeta, SameWork
  <2> QED BY <2>1, <2>4, <2>5, <2>6 DEF Types, CheckoutType, GraphType, checkout
<1>6. CASE Reload
  <2>1. /\ UNCHANGED <<checkout, graph, desc, stamp, gen, done, watch, pending1, work, raised>>
        /\ events' = events + 1 /\ volatile' = TRUE /\ lost' = {}
        /\ beside' = Running /\ crossed' = (crossed \/ Running # {})
        /\ seen' = [e \in Entity |-> None]
        /\ leaf' = [r \in Record |-> [e \in Entity |-> IF leaf[r][e] = "none" THEN "none" ELSE "live"]]
        /\ rows' = [r \in Record |-> [x \in Comm |-> "none"]]
    BY <1>6 DEF Reload, Event
  <2>2. BoundType'
    BY <2>1 DEF Types, BoundType, Status
  <2>3. HistoryType'
    BY <2>1 DEF Types, HistoryType, Running
  <2>4. MetaType' /\ WorkType'
    BY <2>1, SameWork DEF Types, MetaType
  <2> QED BY <2>1, <2>2, <2>3, <2>4 DEF Types, CheckoutType, GraphType, checkout
<1> QED BY <1>1, <1>2, <1>3, <1>4, <1>5, <1>6 DEF Environment

(* The steps, for what is to be shown of each. *)
LEMMA Steps ==
  ASSUME [Next]_vars
  PROVE  \/ Environment \/ UNCHANGED vars
         \/ \E p \in Process :
              \/ \E own \in Modes : Begin(p, own)
              \/ \E e \in Entity : Visit(p, e) \/ Raise(p, e)
              \/ \E r \in Record : \/ WriteRow(p, r) \/ WriteLeaf(p, r)
                                   \/ Weigh(p, r) \/ ReconcileRaises(p, r)
              \/ \E c \in Comm : Restore(p, c) \/ Retire(p, c)
              \/ WriteEntity(p) \/ MoveOn(p) \/ RecordPendingMoves(p)
              \/ NextRecord(p) \/ Collect(p) \/ Remember(p)
              \/ StampGraph(p) \/ ClearVolatile(p) \/ Refused(p) \/ VerifyEnds(p)
              \/ Acknowledge(p) \/ Crash(p)
BY Zenon DEF Next, InPass, InVisit, InReconcile, Fails

LEMMA StepTypes ==
  ASSUME Typing, Types, [Next]_vars
  PROVE  Types'
<1>1. CASE Environment
  BY <1>1, EnvironmentTypes
<1>2. CASE UNCHANGED vars
  <2>1. UNCHANGED <<checkout, graph, bindings, meta, work, history, events>>
    BY <1>2 DEF vars
  <2>2. BoundType' /\ MetaType' /\ WorkType'
    BY <2>1, SameBound, SameMeta, SameWork
  <2> QED BY <2>1, <2>2 DEF Types, CheckoutType, GraphType, HistoryType, checkout, history
<1>3. ASSUME NEW p \in Process, NEW own \in Modes, Begin(p, own) PROVE Types'
  BY <1>3, BeginTypes
<1>4. ASSUME NEW p \in Process, NEW e \in Entity, Visit(p, e) \/ Raise(p, e) PROVE Types'
  BY <1>4, VisitTypes, RaiseTypes
<1>5. ASSUME NEW p \in Process, NEW r \in Record, WriteRow(p, r) \/ WriteLeaf(p, r) \/ Weigh(p, r)
      PROVE Types'
  BY <1>5, WriteRowTypes, WriteLeafTypes, WeighTypes
<1>6. ASSUME NEW p \in Process, NEW r \in Record, ReconcileRaises(p, r) PROVE Types'
  BY <1>6, ReconcileRaisesIs, ReconciledTypes
<1>7. ASSUME NEW p \in Process, NEW c \in Comm, Restore(p, c) \/ Retire(p, c) PROVE Types'
  BY <1>7, RestoreTypes, RetireTypes
<1>8. ASSUME NEW p \in Process, NextRecord(p) PROVE Types'
  BY <1>8, NextRecordIs, ReconciledTypes
<1>9. ASSUME NEW p \in Process,
             \/ WriteEntity(p) \/ MoveOn(p) \/ RecordPendingMoves(p) \/ Collect(p) \/ Remember(p)
             \/ StampGraph(p) \/ ClearVolatile(p) \/ Refused(p) \/ VerifyEnds(p)
             \/ Acknowledge(p) \/ Crash(p)
      PROVE Types'
  BY <1>9, WriteEntityTypes, MoveOnTypes, LadderDoneTypes, CollectTypes, RememberTypes, EndTypes,
     AcknowledgeTypes, CrashTypes
<1> QED BY <1>1, <1>2, <1>3, <1>4, <1>5, <1>6, <1>7, <1>8, <1>9, Steps

LEMMA InitTypes ==
  ASSUME Typing, Init
  PROVE  Types
<1>1. tree \in Contents /\ head \in Contents /\ tree.files \subseteq Path
  BY DEF Init, Typing, Contents
<1>2. GraphType(graph)
  <2>1. PICK comm \in Clusterings :
          graph = [files |-> tree.files, at |-> tree.at,
                   comm |-> [f \in tree.files |-> comm[f]], version |-> 0]
    BY DEF Init
  <2> QED BY <1>1, <2>1 DEF GraphType, Typing
<1>3. BoundType
  BY DEF Init, BoundType, Typing, Status
<1>4. WorkType
  <2>1. \A p \in Process : pass[p] = Idle /\ visit[p] = NoVisit /\ settling[p] = NoRecord
    BY DEF Init
  <2>2. NoVisit.stage = "none" /\ NoRecord.record = None
    BY DEF NoVisit, NoRecord
  <2>3. \A p \in Process : Task(pass[p]) /\ Trip(visit[p], pass[p]) /\ Hand(settling[p], pass[p])
    BY <2>1, <2>2, IdleTypes DEF Trip, Hand
  <2> QED BY <2>1, <2>3 DEF WorkType, Init
<1> QED BY <1>1, <1>2, <1>3, <1>4 DEF Init, Types, CheckoutType, MetaType, HistoryType, NoVacancy

LEMMA SpecTypes == Spec => []Types
<1> Typing
  BY Typing DEF Typing
<1>1. Init => Types
  BY InitTypes
<1>2. Types /\ [Next]_vars => Types'
  BY StepTypes
<1> QED BY <1>1, <1>2, PTL DEF Spec

(* TypeOK, for any processes, entities, records, files, communities and graphs. *)
THEOREM AnchorsTypes == Spec => []TypeOK
<1> Typing
  BY Typing DEF Typing
<1>1. Types => TypeOK
  <2> SUFFICES ASSUME Types PROVE TypeOK
    OBVIOUS
  <2>1. \A p \in Process : pass[p].todo \subseteq Entity /\ visit[p].list \subseteq Record
    BY WorkFacts DEF TaskType, TripType
  <2> QED BY <2>1 DEF Types, TypeOK, CheckoutType, GraphType, BoundType, MetaType, HistoryType
<1> QED BY <1>1, SpecTypes, PTL

-----------------------------------------------------------------------------
(* A pass that no other has run beside *)

Lone(p) == p \in Running /\ p \notin beside
Alone == \A p \in Process : Lone(p) => Running = {p}

(* The steps of a running process in its ladder, and after it. *)
InLadder(p) ==
    \/ \E e \in Entity : Visit(p, e) \/ Raise(p, e)
    \/ \E r \in Record : WriteRow(p, r) \/ WriteLeaf(p, r)
    \/ WriteEntity(p) \/ MoveOn(p)
Settles(p) ==
    \/ \E r \in Record : Weigh(p, r) \/ ReconcileRaises(p, r)
    \/ \E c \in Comm : Restore(p, c) \/ Retire(p, c)
    \/ NextRecord(p) \/ Collect(p)
Goes(p) == RecordPendingMoves(p) \/ StampGraph(p) \/ ClearVolatile(p)
Renews(p) == Remember(p) \/ Acknowledge(p) \/ Refused(p) \/ VerifyEnds(p) \/ Crash(p)
Acts(p) == InLadder(p) \/ Settles(p) \/ Goes(p) \/ Renews(p)

LEMMA StepsByKind ==
  ASSUME [Next]_vars
  PROVE  \/ Environment \/ UNCHANGED vars
         \/ \E p \in Process : Acts(p) \/ \E own \in Modes : Begin(p, own)
BY Zenon, Steps DEF Acts, InLadder, Settles, Goes, Renews

LEMMA SettlesIs ==
  ASSUME Typing, Types, NEW p \in Process, Settles(p)
  PROVE  /\ Only(p) /\ pass[p].pc \in {"retry", "reconcile"} /\ visit'[p] = visit[p]
         /\ Kept(p, {"pc", "vacated", "failed"})
         /\ UNCHANGED <<checkout, graph, desc, seen, leaf, meta, raised, beside, crossed>>
         /\ pass'[p].pc = pass[p].pc \/ pass'[p].pc \in {"remember", "finish"}
<1>1. ASSUME NEW r \in Record, Weigh(p, r)
      PROVE  /\ Only(p) /\ Settling(p) /\ visit'[p] = visit[p] /\ pass'[p] = pass[p]
             /\ UNCHANGED <<checkout, graph, desc, seen, leaf, meta, raised, beside, crossed>>
  BY <1>1, WeighIs DEF bindings
<1>2. ASSUME NEW c \in Comm, Restore(p, c) \/ Retire(p, c)
      PROVE  /\ Only(p) /\ Settling(p) /\ visit'[p] = visit[p] /\ pass'[p] = pass[p]
             /\ UNCHANGED <<checkout, graph, desc, seen, leaf, meta, raised, beside, crossed>>
  BY <1>2, RestoreIs, RetireIs, InHandRecord DEF history
<1>3. ASSUME NEW r, NEW kept, Reconciled(p, r, kept), Settling(p)
      PROVE  /\ Only(p) /\ visit'[p] = visit[p] /\ Kept(p, {"pc", "vacated", "failed"})
             /\ pass'[p].pc = pass[p].pc
             /\ UNCHANGED <<checkout, graph, desc, seen, leaf, meta, raised, beside, crossed>>
  BY <1>3, ReconciledIs, KeptMore DEF history, bindings
<1>4. ASSUME Collect(p)
      PROVE  /\ Only(p) /\ pass[p].pc = "reconcile" /\ visit'[p] = visit[p]
             /\ Kept(p, {"pc", "vacated", "failed"}) /\ pass'[p].pc \in {"remember", "finish"}
             /\ UNCHANGED <<checkout, graph, desc, seen, leaf, meta, raised, beside, crossed>>
  BY <1>4, CollectIs, KeptMore DEF history, bindings
<1>5. pass'[p] = pass[p] => Kept(p, {"pc", "vacated", "failed"}) /\ pass'[p].pc = pass[p].pc
  BY DEF Kept
<1>6. CASE \E r \in Record : Weigh(p, r)
  BY <1>1, <1>5, <1>6 DEF Settling
<1>7. CASE \E c \in Comm : Restore(p, c) \/ Retire(p, c)
  BY <1>2, <1>5, <1>7 DEF Settling
<1>8. CASE (\E r \in Record : ReconcileRaises(p, r)) \/ NextRecord(p)
  BY <1>3, <1>8, ReconcileRaisesIs, NextRecordIs DEF Settling
<1> QED BY <1>4, <1>6, <1>7, <1>8 DEF Settles

LEMMA GoesIs ==
  ASSUME Typing, Types, NEW p \in Process, Goes(p)
  PROVE  /\ Only(p) /\ visit'[p] = visit[p] /\ settling'[p] = settling[p] /\ Kept(p, {"pc"})
         /\ pass[p].pc \in {"ladder", "finish", "clear"} /\ pass[p].todo = {}
         /\ pass'[p].pc \in {"reconcile", "finish", "clear", "acknowledge"}
         /\ UNCHANGED <<checkout, graph, bindings, gen, done, pending1, lost, raised, beside, events>>
<1>1. CASE RecordPendingMoves(p)
  BY <1>1, LadderDoneIs DEF history
<1>2. CASE StampGraph(p)
  BY <1>2, StampGraphIs, TaskKinds
<1>3. CASE ClearVolatile(p)
  BY <1>3, ClearVolatileIs, TaskKinds DEF history
<1> QED BY <1>1, <1>2, <1>3 DEF Goes

(* A pass that begins anew, goes on with nothing to visit, or is over. *)
Anew(t) == (\E mode, own, g, todo : Started(t, mode, own, g, todo)) \/ t.todo = {}

LEMMA RenewsIs ==
  ASSUME Typing, Types, NEW p \in Process, Renews(p)
  PROVE  /\ Only(p) /\ p \in Running /\ visit'[p] = NoVisit /\ Anew(pass'[p])
         /\ UNCHANGED <<checkout, graph, bindings, raised, beside, crossed>>
<1>0. Idle.todo = {} /\ TaskType(pass[p])
  BY WorkFacts DEF Idle
<1>1. visit[p].stage = "none" => visit[p] = NoVisit
  BY WorkFacts DEF TripType
<1>2. pass[p].pc # "ladder" => visit[p] = NoVisit
  BY <1>1, WorkFacts DEF TaskType
<1>3. CASE Remember(p)
  <2>1. /\ Only(p) /\ visit'[p] = visit[p] /\ pass[p].pc \in {"retry", "remember"}
        /\ UNCHANGED <<checkout, graph, bindings, raised, beside, crossed>>
    BY <1>3, RememberIs
  <2>2. Anew(pass'[p])
    <3>1. CASE Gates(pass'[p], pass[p].own, pass[p].graph, pass[p].synced)
      BY <1>0, <3>1 DEF Anew, Gates
    <3>2. CASE Kept(p, {"pc", "failed"})
      BY <2>1, <3>2, TaskKinds DEF Anew, Kept, Fields
    <3> QED BY <1>3, <3>1, <3>2, RememberIs
  <2> QED BY <1>2, <2>1, <2>2 DEF Running
<1>4. CASE Acknowledge(p)
  <2>1. /\ Only(p) /\ visit'[p] = visit[p] /\ pass[p].pc \in {"acknowledge", "finish"}
        /\ Started(pass'[p], "verify", TRUE, pass[p].graph, watch.ids) \/ pass'[p] = Idle
        /\ UNCHANGED <<checkout, graph, bindings, raised, beside, crossed>>
    BY <1>4, AcknowledgeIs DEF history
  <2> QED BY <1>0, <1>2, <2>1 DEF Running, Anew
<1>5. CASE Refused(p) \/ VerifyEnds(p)
  <2>1. /\ Only(p) /\ visit'[p] = visit[p] /\ pass[p].pc = "finish" /\ pass'[p] = Idle
        /\ UNCHANGED <<checkout, graph, bindings, raised, beside, crossed>>
    BY <1>5, StopIs DEF history
  <2> QED BY <1>0, <1>2, <2>1 DEF Running, Anew
<1>6. CASE Crash(p)
  BY <1>0, <1>6, CrashIs DEF Anew, Crash
<1> QED BY <1>3, <1>4, <1>5, <1>6 DEF Renews

LEMMA InLadderIs ==
  ASSUME Typing, Types, NEW p \in Process, InLadder(p)
  PROVE  /\ Only(p) /\ pass[p].pc = "ladder" /\ settling'[p] = settling[p]
         /\ pass'[p].graph = pass[p].graph /\ pass'[p].own = pass[p].own
         /\ pass'[p].mode = pass[p].mode /\ pass'[p].pc = pass[p].pc /\ pass'[p].gen = pass[p].gen
         /\ pass'[p].failed = pass[p].failed
         /\ UNCHANGED <<checkout, graph, meta, beside, crossed>>
<1>1. visit[p].stage # "none" => pass[p].pc = "ladder"
  BY WorkFacts
<1>2. ASSUME \/ Kept(p, {"todo", "snap", "uncommitted"}) \/ Kept(p, {"vacated"}) \/ pass'[p] = pass[p]
      PROVE  /\ pass'[p].graph = pass[p].graph /\ pass'[p].own = pass[p].own
             /\ pass'[p].mode = pass[p].mode /\ pass'[p].pc = pass[p].pc
             /\ pass'[p].gen = pass[p].gen /\ pass'[p].failed = pass[p].failed
  BY <1>2 DEF Kept, Fields
<1>3. CASE \E e \in Entity : Visit(p, e)
  <2> PICK e \in Entity : Visit(p, e)
    BY <1>3
  <2>1. Kept(p, {"todo", "snap", "uncommitted"}) \/ pass'[p] = pass[p]
    BY VisitIs DEF Over
  <2> QED BY <1>2, <2>1, VisitIs
<1>4. CASE \E e \in Entity : Raise(p, e)
  BY <1>2, <1>4, RaiseIs DEF Over
<1>5. CASE \E r \in Record : WriteRow(p, r)
  BY <1>1, <1>2, <1>5, WriteRowIs DEF history
<1>6. CASE WriteEntity(p)
  BY <1>1, <1>2, <1>6, WriteEntityIs DEF Ends, Over, Stays
<1>7. CASE \E r \in Record : WriteLeaf(p, r)
  BY <1>1, <1>2, <1>7, WriteLeafIs DEF Ends, Over, Stays
<1>8. CASE MoveOn(p)
  <2>1. /\ Only(p) /\ settling'[p] = settling[p] /\ visit[p].stage # "none" /\ (Ends(p) \/ Stays(p))
        /\ UNCHANGED <<checkout, graph, meta, beside, crossed>>
    BY <1>8, MoveOnIs
  <2> QED BY <1>1, <1>2, <2>1 DEF Ends, Over, Stays
<1> QED BY <1>3, <1>4, <1>5, <1>6, <1>7, <1>8 DEF InLadder

LEMMA ActsIs ==
  ASSUME Typing, Types, NEW p \in Process, Acts(p)
  PROVE  Only(p) /\ p \in Running /\ UNCHANGED <<checkout, graph, beside>>
BY InLadderIs, SettlesIs, GoesIs, RenewsIs DEF Acts, Running

LEMMA LoneActs ==
  ASSUME Types, Alone, NEW p \in Process, Only(p), p \in Running, beside' = beside
  PROVE  Alone' /\ \A q \in Process : Lone(q)' => q = p /\ Lone(p)
<1>1. \A q \in Process \ {p} : Lone(q)' => FALSE
  <2> SUFFICES ASSUME NEW q \in Process, q # p, Lone(q)' PROVE FALSE
    OBVIOUS
  <2>1. Lone(q)
    BY DEF Lone, Running, Only
  <2> QED BY <2>1 DEF Alone
<1>2. Lone(p)' => Lone(p)
  BY DEF Lone
<1>3. Lone(p) => Running' \subseteq {p}
  BY DEF Alone, Running, Only
<1> QED BY <1>1, <1>2, <1>3 DEF Alone, Lone

LEMMA LoneBegins ==
  ASSUME Typing, Types, Alone, NEW p \in Process, NEW own \in Modes, Begin(p, own)
  PROVE  Alone' /\ \A q \in Process : Lone(q)' => q = p /\ Running = {} /\ crossed' = crossed
<1>1. /\ Only(p) /\ pass'[p] # Idle
      /\ \/ Running = {} /\ beside' = {} /\ crossed' = crossed
         \/ beside' = Running \cup {p}
  BY BeginIs
<1>2. Running' \subseteq Running \cup {p}
  BY <1>1 DEF Running, Only
<1>3. CASE Running = {} /\ beside' = {} /\ crossed' = crossed
  BY <1>2, <1>3 DEF Alone, Lone
<1>4. CASE beside' = Running \cup {p}
  BY <1>2, <1>4 DEF Alone, Lone
<1> QED BY <1>1, <1>3, <1>4

(* What the environment does to a lone pass: nothing. *)
LEMMA EnvironmentIs ==
  ASSUME Types, Environment \/ UNCHANGED vars
  PROVE  /\ UNCHANGED <<work, desc, raised>> /\ Running' = Running
         /\ Reload \/ (beside' = beside /\ crossed' = crossed)
         /\ Reload => beside' = Running /\ crossed' = (crossed \/ Running # {})
<1>1. UNCHANGED <<work, desc, raised>> /\ (Reload \/ (beside' = beside /\ crossed' = crossed))
  BY DEF Environment, Edit, Commit, Build, CaptureBlind, Capture, Reload, vars, bindings, history
<1> QED BY <1>1, SameWork DEF Reload

LEMMA LoneEnvironment ==
  ASSUME Types, Alone, Environment \/ UNCHANGED vars
  PROVE  Alone' /\ \A q \in Process : Lone(q)' => Lone(q) /\ ~Reload
BY EnvironmentIs DEF Alone, Lone

LEMMA AloneSteps ==
  ASSUME Typing, Types, Alone, [Next]_vars
  PROVE  Alone'
BY StepsByKind, ActsIs, LoneActs, LoneBegins, LoneEnvironment

-----------------------------------------------------------------------------
(* What a visit is going to write fits the graph of its pass *)

Planwise(p) ==
    LET v == visit[p] IN
    v.stage # "none" => /\ PlanHolds(v.entity, pass[p].graph, pass[p].own, v)
                        /\ v.stage = "leaves" /\ v.status # "degraded" => v.list # {}
PlanInv == \A p \in Process : Planwise(p)

LEMMA PlanGoesOn ==
  ASSUME Types, NEW p \in Process, Planwise(p), visit[p].stage # "none",
         pass'[p].graph = pass[p].graph, pass'[p].own = pass[p].own,
         NEW s, NEW l, NEW w, GoesOn(p, visit[p], s, l, w),
         s = "leaves" /\ visit[p].status # "degraded" => l # {}
  PROVE  Planwise(p)'
<1>1. /\ visit'[p].entity = visit[p].entity /\ visit'[p].was = visit[p].was
      /\ visit'[p].desc = visit[p].desc /\ visit'[p].status = visit[p].status
      /\ visit'[p].stage = s /\ visit'[p].list = l
  BY DEF GoesOn, TripFields
<1>2. PlanHolds(visit[p].entity, pass[p].graph, pass[p].own, visit[p])
  BY DEF Planwise
<1>3. PlanHolds(visit'[p].entity, pass'[p].graph, pass'[p].own, visit'[p])
  BY <1>1, <1>2 DEF PlanHolds
<1> QED BY <1>1, <1>3 DEF Planwise

LEMMA PlanSteps ==
  ASSUME Typing, Types, PlanInv, [Next]_vars
  PROVE  PlanInv'
<1>0. NoVisit.stage = "none"
  BY DEF NoVisit
<1>1. ASSUME NEW p \in Process, Only(p), Planwise(p)' PROVE PlanInv'
  <2> SUFFICES ASSUME NEW q \in Process, q # p PROVE Planwise(q)'
    BY <1>1 DEF PlanInv
  <2>1. pass'[q] = pass[q] /\ visit'[q] = visit[q] /\ Planwise(q)
    BY <1>1 DEF Only, PlanInv
  <2> QED BY <2>1 DEF Planwise
<1>2. ASSUME NEW p \in Process, InLadder(p) PROVE Planwise(p)'
  <2>0. /\ pass'[p].graph = pass[p].graph /\ pass'[p].own = pass[p].own /\ Planwise(p)
    BY <1>2, InLadderIs DEF PlanInv
  <2>1. CASE visit'[p] = NoVisit
    BY <1>0, <2>1 DEF Planwise
  <2>2. CASE \E e \in Entity : Visit(p, e)
    <3> PICK e \in Entity : Visit(p, e)
      BY <2>2
    <3>1. CASE PlanHolds(e, pass[p].graph, pass[p].own, visit'[p])
               /\ Planned(e, Read(p, e).desc, Read(p, e).seen, pass[p].graph, pass[p].own, visit'[p])
      <4>1. visit'[p].entity = e /\ (visit'[p].stage = "leaves" => visit'[p].status = "degraded")
        BY <3>1 DEF Planned
      <4>2. PlanHolds(visit'[p].entity, pass'[p].graph, pass'[p].own, visit'[p])
        BY <2>0, <3>1, <4>1
      <4> QED BY <4>1, <4>2 DEF Planwise
    <3> QED BY <2>1, <3>1, VisitIs
  <2>3. ASSUME NEW s, NEW l, NEW w, GoesOn(p, visit[p], s, l, w), visit[p].stage # "none",
               s = "leaves" /\ visit[p].status # "degraded" => l # {}
        PROVE  Planwise(p)'
    BY <2>0, <2>3, PlanGoesOn
  <2>4. CASE \E r \in Record : WriteRow(p, r)
    BY <2>3, <2>4, WriteRowIs
  <2>5. CASE WriteEntity(p)
    BY <2>1, <2>3, <2>5, WriteEntityIs DEF Ends
  <2>6. CASE \E r \in Record : WriteLeaf(p, r)
    <3> PICK r \in Record : WriteLeaf(p, r)
      BY <2>6
    <3>1. CASE visit[p].list = {r} /\ visit[p].status # "degraded" /\ Ends(p)
      BY <2>1, <3>1 DEF Ends
    <3>2. CASE GoesOn(p, visit[p], "leaves", visit[p].list \ {r}, visit[p].wrote) /\ ~(visit[p].list = {r} /\ visit[p].status # "degraded")
      <4>1. visit[p].stage = "leaves" /\ r \in visit[p].list
        BY WriteLeafIs
      <4>2. visit[p].status # "degraded" => visit[p].list \ {r} # {}
        BY <3>2, <4>1
      <4> QED BY <2>3, <3>2, <4>1, <4>2
    <3>3. visit[p].list = {r} /\ visit[p].status # "degraded" => visit'[p] = NoVisit
      BY WorkFacts DEF WriteLeaf, EndVisit
    <3> QED BY <2>1, <3>1, <3>2, <3>3, WriteLeafIs
  <2>7. CASE MoveOn(p)
    <3> DEFINE L == Leaves(visit[p].entity, visit[p].status)
               R == Repointed(visit[p].entity, visit[p].old, visit[p].comm)
    <3>1. /\ visit[p].stage # "none"
          /\ \/ visit'[p] = NoVisit
             \/ L # {} /\ GoesOn(p, visit[p], "leaves", L, visit[p].wrote)
             \/ GoesOn(p, visit[p], "rows", R, visit[p].wrote)
      BY <2>7, MoveOnIs DEF Ends
    <3> HIDE DEF L, R
    <3> QED BY <2>1, <2>3, <3>1
  <2>8. CASE \E e \in Entity : Raise(p, e)
    BY <2>1, <2>8, RaiseIs
  <2> QED BY <1>2, <2>2, <2>4, <2>5, <2>6, <2>7, <2>8 DEF InLadder
<1>3. ASSUME NEW p \in Process, Settles(p) \/ Goes(p) \/ Renews(p) \/ \E own \in Modes : Begin(p, own)
      PROVE  Planwise(p)' /\ Only(p)
  <2>1. Only(p) /\ (visit'[p] = NoVisit \/ (visit'[p] = visit[p] /\ (pass[p].pc # "ladder" \/ pass[p].todo = {})))
    BY <1>3, SettlesIs, GoesIs, RenewsIs, BeginIs
  <2>2. pass[p].pc # "ladder" \/ pass[p].todo = {} => visit[p].stage = "none"
    BY WorkFacts
  <2> QED BY <1>0, <2>1, <2>2 DEF Planwise
<1>4. CASE Environment \/ UNCHANGED vars
  <2>1. pass' = pass /\ visit' = visit
    BY <1>4, EnvironmentIs DEF work
  <2> QED BY <2>1 DEF PlanInv, Planwise
<1> QED BY <1>1, <1>2, <1>3, <1>4, StepsByKind, InLadderIs DEF Acts

-----------------------------------------------------------------------------
(* Descriptors: what a lone pass has read is still so *)

Unwritten(v) == v.stage = "rows" \/ (v.stage = "leaves" /\ v.status = "degraded")

DescHolds(p) ==
    LET v == visit[p] IN
    /\ pass[p].mode \in {"full", "orphans"} =>
         \A e \in pass[p].todo : (v.entity = e /\ ~Unwritten(v)) \/ pass[p].snap[e].desc = desc[e]
    /\ Unwritten(v) => v.was = desc[v.entity]
    /\ v.stage # "none" /\ ~Unwritten(v) => v.desc = desc[v.entity]
DescInv == \A p \in Process : Lone(p) => DescHolds(p)

LEMMA DescAnew ==
  ASSUME NEW p, visit'[p] = NoVisit, Anew(pass'[p]), UNCHANGED desc
  PROVE  DescHolds(p)'
<1>1. visit'[p].stage = "none" /\ visit'[p].stage # "rows" /\ visit'[p].stage # "leaves"
  BY DEF NoVisit
<1>2. CASE pass'[p].todo = {}
  BY <1>1, <1>2 DEF DescHolds, Unwritten
<1>3. ASSUME NEW mode, NEW own, NEW g, NEW todo, Started(pass'[p], mode, own, g, todo)
      PROVE  DescHolds(p)'
  BY <1>1, <1>3 DEF DescHolds, Unwritten, Started
<1> QED BY <1>2, <1>3 DEF Anew

LEMMA DescPassOver ==
  ASSUME Types, NEW p \in Process, DescHolds(p), NEW e \in Entity, NEW w, Over(p, e, w),
         visit'[p] = NoVisit, visit[p].entity \in {None, e},
         \A f \in Entity \ {e} : desc'[f] = desc[f]
  PROVE  DescHolds(p)'
<1>1. visit'[p].stage = "none" /\ visit'[p].stage # "rows" /\ visit'[p].stage # "leaves"
  BY DEF NoVisit
<1>2. /\ pass'[p].mode = pass[p].mode /\ pass'[p].todo = pass[p].todo \ {e}
      /\ pass'[p].snap = [f \in DOMAIN pass[p].snap \ {e} |-> pass[p].snap[f]]
  BY DEF Over, Kept, Fields
<1>3. pass[p].mode \in {"full", "orphans"} =>
        \A f \in pass[p].todo \ {e} : f \in DOMAIN pass[p].snap /\ f \in Entity
  BY WorkFacts DEF SnapType, TaskType
<1>4. \A f \in Entity \ {e} : f # visit[p].entity \/ f = None
  OBVIOUS
<1>5. pass[p].mode \in {"full", "orphans"} =>
        \A f \in pass[p].todo \ {e} : pass[p].snap[f].desc = desc[f] \/ f = None
  BY <1>3, <1>4 DEF DescHolds
<1>6. Typing
  BY Typing DEF Typing
<1>7. None \notin Entity
  BY <1>6 DEF Typing
<1>8. pass'[p].mode \in {"full", "orphans"} =>
        \A f \in pass'[p].todo : pass'[p].snap[f].desc = desc'[f]
  BY <1>2, <1>3, <1>5, <1>7
<1> QED BY <1>1, <1>8 DEF DescHolds, Unwritten

LEMMA DescGoesOn ==
  ASSUME Types, NEW p \in Process, DescHolds(p), visit[p].stage # "none",
         pass'[p].mode = pass[p].mode, pass'[p].todo = pass[p].todo, pass'[p].snap = pass[p].snap,
         NEW s \in {"rows", "leaves", "written"}, NEW l, NEW w, GoesOn(p, visit[p], s, l, w),
         \/ desc' = desc /\ (Unwritten(visit[p]) <=> Unwritten(visit'[p]))
         \/ desc' = desc /\ visit[p].desc = visit[p].was /\ ~Unwritten(visit'[p])
         \/ ~Unwritten(visit'[p]) /\ desc' = [desc EXCEPT ![visit[p].entity] = visit[p].desc]
  PROVE  DescHolds(p)'
<1>1. /\ visit'[p].entity = visit[p].entity /\ visit'[p].was = visit[p].was
      /\ visit'[p].desc = visit[p].desc /\ visit'[p].stage = s
  BY DEF GoesOn, TripFields
<1>2. CASE desc' = desc /\ (Unwritten(visit[p]) <=> Unwritten(visit'[p]))
  BY <1>1, <1>2 DEF DescHolds
<1>3. CASE desc' = desc /\ visit[p].desc = visit[p].was /\ ~Unwritten(visit'[p])
  <2>1. visit[p].desc = desc[visit[p].entity]
    BY <1>3 DEF DescHolds
  <2>2. pass[p].mode \in {"full", "orphans"} => \A e \in pass[p].todo :
          visit[p].entity = e \/ pass[p].snap[e].desc = desc[e]
    BY DEF DescHolds
  <2> QED BY <1>1, <1>3, <2>1, <2>2 DEF DescHolds
<1>4. CASE ~Unwritten(visit'[p]) /\ desc' = [desc EXCEPT ![visit[p].entity] = visit[p].desc]
  <2>1. desc \in [Entity -> Path] /\ visit[p].entity \in Entity /\ pass[p].todo \subseteq Entity
    BY WorkFacts DEF Types, BoundType, TaskType
  <2> QED BY <1>1, <1>4, <2>1 DEF DescHolds
<1> QED BY <1>2, <1>3, <1>4

LEMMA DescLadder ==
  ASSUME Typing, Types, NEW p \in Process, Planwise(p), InLadder(p), DescHolds(p)
  PROVE  DescHolds(p)'
<1>1. None \notin Entity /\ NoVisit.entity = None /\ NoVisit.stage = "none"
  BY DEF Typing, NoVisit
<1>2. visit[p].stage # "none" => visit[p].entity \in pass[p].todo /\ visit[p].entity \in Entity
  BY WorkFacts DEF TaskType
<1>3. ASSUME Ends(p), visit[p].stage # "none",
             desc' = desc \/ desc' = [desc EXCEPT ![visit[p].entity] = visit[p].desc]
      PROVE  DescHolds(p)'
  <2>1. \A f \in Entity \ {visit[p].entity} : desc'[f] = desc[f]
    BY <1>3 DEF Types, BoundType
  <2> QED BY <1>2, <1>3, <2>1, DescPassOver DEF Ends
<1>4. CASE \E e \in Entity : Visit(p, e)
  <2> PICK e \in Entity : Visit(p, e)
    BY <1>4
  <2>1. /\ visit[p] = NoVisit /\ e \in pass[p].todo /\ pass[p].pc = "ladder" /\ desc' = desc
    BY VisitIs DEF bindings
  <2>2. ASSUME NEW w, Over(p, e, w), visit'[p] = NoVisit PROVE DescHolds(p)'
    BY <1>1, <2>1, <2>2, DescPassOver
  <2>3. ASSUME pass'[p] = pass[p], visit'[p].was = Read(p, e).desc, visit'[p].entity = e,
               Unwritten(visit'[p])
        PROVE  DescHolds(p)'
    <3>1. Read(p, e).desc = desc[e]
      <4>1. CASE pass[p].mode = "verify"
        BY <4>1 DEF Read
      <4>2. CASE pass[p].mode # "verify"
        <5>1. pass[p].mode \in {"full", "orphans"}
          BY <2>1, <4>2, WorkFacts DEF TaskType, TaskShape
        <5>2. visit[p].entity # e
          BY <1>1, <2>1
        <5> QED BY <2>1, <4>2, <5>1, <5>2 DEF Read, DescHolds
      <4> QED BY <4>1, <4>2
    <3>2. pass[p].mode \in {"full", "orphans"} => \A f \in pass[p].todo : pass[p].snap[f].desc = desc[f]
      <4>1. \A f \in pass[p].todo : f \in Entity
        BY WorkFacts DEF TaskType
      <4>2. \A f \in pass[p].todo : visit[p].entity # f
        BY <1>1, <2>1, <4>1
      <4> QED BY <4>2 DEF DescHolds
    <3> QED BY <2>1, <2>3, <3>1, <3>2 DEF DescHolds
  <2>4. ASSUME Planned(e, Read(p, e).desc, Read(p, e).seen, pass[p].graph, pass[p].own, visit'[p])
        PROVE  visit'[p].was = Read(p, e).desc /\ visit'[p].entity = e /\ Unwritten(visit'[p])
    BY <2>4 DEF Planned, Unwritten
  <2> QED BY <2>2, <2>3, <2>4, VisitIs
<1>5. CASE \E e \in Entity : Raise(p, e)
  BY <1>5, RaiseIs, DescPassOver DEF bindings
<1>6. CASE \E r \in Record : WriteRow(p, r)
  <2> PICK r \in Record : WriteRow(p, r)
    BY <1>6
  <2>1. /\ pass'[p].mode = pass[p].mode /\ pass'[p].todo = pass[p].todo /\ pass'[p].snap = pass[p].snap
        /\ desc' = desc /\ visit[p].stage = "rows" /\ visit'[p].stage = "rows"
        /\ GoesOn(p, visit[p], "rows", visit[p].list \ {r}, visit[p].wrote \cup {r})
    BY WriteRowIs DEF Kept, Fields, GoesOn
  <2> QED BY <2>1, DescGoesOn DEF Unwritten
<1>7. CASE WriteEntity(p)
  <2>1. /\ visit[p].stage = "rows" /\ desc' = [desc EXCEPT ![visit[p].entity] = visit[p].desc]
        /\ Ends(p) \/ (Stays(p) /\ GoesOn(p, visit[p], "written", {}, {}))
    BY <1>7, WriteEntityIs
  <2>2. CASE Stays(p) /\ GoesOn(p, visit[p], "written", {}, {})
    <3>1. ~Unwritten(visit'[p]) /\ pass'[p] = pass[p]
      BY <2>2 DEF Unwritten, GoesOn, Stays
    <3> QED BY <2>1, <2>2, <3>1, DescGoesOn
  <2> QED BY <1>3, <2>1, <2>2
<1>8. CASE \E r \in Record : WriteLeaf(p, r)
  <2> PICK r \in Record : WriteLeaf(p, r)
    BY <1>8
  <2>1. /\ visit[p].stage = "leaves" /\ desc' = desc
        /\ \/ Ends(p)
           \/ Stays(p) /\ GoesOn(p, visit[p], "leaves", visit[p].list \ {r}, visit[p].wrote)
    BY WriteLeafIs
  <2>2. CASE Stays(p) /\ GoesOn(p, visit[p], "leaves", visit[p].list \ {r}, visit[p].wrote)
    <3>1. (Unwritten(visit[p]) <=> Unwritten(visit'[p])) /\ pass'[p] = pass[p]
      BY <2>1, <2>2 DEF Unwritten, GoesOn, Stays, TripFields
    <3> QED BY <2>1, <2>2, <3>1, DescGoesOn
  <2> QED BY <1>3, <2>1, <2>2
<1>9. CASE MoveOn(p)
  <2> DEFINE L == Leaves(visit[p].entity, visit[p].status)
             R == Repointed(visit[p].entity, visit[p].old, visit[p].comm)
  <2>1. /\ visit[p].stage # "none" /\ desc' = desc
        /\ \/ Ends(p)
           \/ /\ visit[p].stage = "written" \/ (visit[p].stage = "rows" /\ ~EntityIsWritten(visit[p]))
              /\ visit[p].status # "degraded" /\ Stays(p) /\ GoesOn(p, visit[p], "leaves", L, visit[p].wrote)
           \/ /\ visit[p].stage = "leaves" /\ visit[p].list = {} /\ Stays(p)
              /\ GoesOn(p, visit[p], "rows", R, visit[p].wrote)
    BY <1>9, MoveOnIs DEF bindings
  <2> HIDE DEF L, R
  <2>2. CASE /\ visit[p].stage = "written" \/ (visit[p].stage = "rows" /\ ~EntityIsWritten(visit[p]))
             /\ visit[p].status # "degraded" /\ Stays(p) /\ GoesOn(p, visit[p], "leaves", L, visit[p].wrote)
    <3>1. ~Unwritten(visit'[p]) /\ pass'[p] = pass[p]
      BY <2>2 DEF Unwritten, GoesOn, Stays, TripFields
    <3>2. visit[p].stage = "rows" => visit[p].desc = visit[p].was
      BY <2>2 DEF EntityIsWritten, Planwise, PlanHolds
    <3>3. visit[p].stage = "written" => (Unwritten(visit[p]) <=> Unwritten(visit'[p]))
      BY <3>1 DEF Unwritten
    <3> QED BY <2>1, <2>2, <3>1, <3>2, <3>3, DescGoesOn
  <2>3. CASE /\ visit[p].stage = "leaves" /\ visit[p].list = {} /\ Stays(p)
             /\ GoesOn(p, visit[p], "rows", R, visit[p].wrote)
    <3>1. (Unwritten(visit[p]) <=> Unwritten(visit'[p])) /\ pass'[p] = pass[p]
      BY <2>3 DEF Unwritten, GoesOn, Stays, TripFields, Planwise
    <3> QED BY <2>1, <2>3, <3>1, DescGoesOn
  <2> QED BY <1>3, <2>1, <2>2, <2>3
<1> QED BY <1>4, <1>5, <1>6, <1>7, <1>8, <1>9 DEF InLadder

LEMMA DescSteps ==
  ASSUME Typing, Types, Alone, PlanInv, DescInv, [Next]_vars
  PROVE  DescInv'
<1>1. ASSUME NEW p \in Process, Acts(p) PROVE DescInv'
  <2>1. Only(p) /\ p \in Running /\ beside' = beside
    BY <1>1, ActsIs
  <2> SUFFICES ASSUME Lone(p) PROVE DescHolds(p)'
    BY <2>1, LoneActs DEF DescInv
  <2>2. DescHolds(p) /\ Planwise(p)
    BY DEF DescInv, PlanInv
  <2>3. CASE InLadder(p)
    BY <2>2, <2>3, DescLadder
  <2>4. CASE Settles(p) \/ Goes(p)
    <3>1. visit'[p] = visit[p] /\ desc' = desc /\ pass[p].todo = {}
          /\ (Kept(p, {"pc"}) \/ Kept(p, {"pc", "vacated", "failed"}))
      BY <2>4, SettlesIs, GoesIs, TaskKinds DEF bindings
    <3>2. visit[p] = NoVisit /\ pass'[p].todo = {}
      BY <3>1, WorkFacts DEF TripType, Kept, Fields
    <3> QED BY <3>1, <3>2, DescAnew DEF Anew
  <2>5. CASE Renews(p)
    BY <2>5, RenewsIs, DescAnew DEF bindings
  <2> QED BY <1>1, <2>3, <2>4, <2>5 DEF Acts
<1>2. ASSUME NEW p \in Process, NEW own \in Modes, Begin(p, own) PROVE DescInv'
  <2>1. /\ pass[p].pc = "idle" /\ visit'[p] = visit[p] /\ desc' = desc
        /\ Gates(pass'[p], own, graph, Synced(own)) \/ Retries(pass'[p], own)
    BY <1>2, BeginIs DEF bindings
  <2>2. visit[p] = NoVisit
    BY <2>1, WorkFacts DEF TripType
  <2>3. Idle.todo = {}
    BY DEF Idle
  <2>4. Anew(pass'[p])
    BY <2>1, <2>3 DEF Anew, Gates, Retries
  <2> QED BY <1>2, <2>1, <2>2, <2>4, DescAnew, LoneBegins DEF DescInv
<1>3. CASE Environment \/ UNCHANGED vars
  <2>1. UNCHANGED <<pass, visit, desc>>
    BY <1>3, EnvironmentIs DEF work
  <2>2. \A p \in Process : DescHolds(p) => DescHolds(p)'
    BY <2>1 DEF DescHolds, Unwritten
  <2> QED BY <1>3, <2>2, LoneEnvironment DEF DescInv
<1> QED BY <1>1, <1>2, <1>3, StepsByKind

LEMMA AloneAlways == Spec => [](Types /\ Alone /\ PlanInv /\ DescInv)
<1> Typing
  BY Typing DEF Typing
<1>1. Init => Alone /\ PlanInv /\ DescInv
  <2> SUFFICES ASSUME Init PROVE Alone /\ PlanInv /\ DescInv
    OBVIOUS
  <2>1. \A p \in Process : visit[p].stage = "none" /\ pass[p].pc = "idle"
    BY DEF Init, NoVisit, Idle
  <2> QED BY <2>1 DEF Alone, Lone, Running, PlanInv, Planwise, DescInv
<1>2. Init => Types
  BY InitTypes
<1>3. (Types /\ Alone /\ PlanInv /\ DescInv) /\ [Next]_vars => (Types /\ Alone /\ PlanInv /\ DescInv)'
  BY StepTypes, AloneSteps, PlanSteps, DescSteps
<1> QED BY <1>1, <1>2, <1>3, PTL DEF Spec

(* DescriptorsFollowCommits, unless the repository trusts its working tree: a
   shared descriptor is rewritten only by a visit that has read it, along a move
   that the commits showed when the visit decided. *)
THEOREM SharedDescriptorsAreCommitted == ~TrustDirtyTree => (Spec => DescriptorsFollowCommits)
<1> SUFFICES ASSUME ~TrustDirtyTree PROVE Spec => DescriptorsFollowCommits
  OBVIOUS
<1> Typing
  BY Typing DEF Typing
<1> DEFINE decided(p) ==
             visit[p] = NoVisit /\ visit'[p].desc # visit'[p].was =>
               /\ <<visit'[p].was, visit'[p].desc>> \in moves
               /\ visit'[p].was \notin head.files \cup tree.files
               /\ visit'[p].desc \in head.files
           written(e) ==
             desc'[e] # desc[e] =>
               \E p \in Process : /\ visit[p].entity = e /\ visit[p].desc = desc'[e]
                                  /\ visit[p].was = desc[e] \/ p \in beside
<1>1. ASSUME Types, Alone, PlanInv, DescInv, [Next]_vars
      PROVE  (\A p \in Process : decided(p)) /\ (\A e \in Entity : written(e))
  <2>0. NoVisit.desc = NoVisit.was /\ NoVisit.stage = "none"
    BY DEF NoVisit
  <2>1. CASE Environment \/ UNCHANGED vars
    <3>1. visit' = visit /\ desc' = desc
      BY <1>1, <2>1, EnvironmentIs DEF work
    <3> QED BY <2>0, <3>1
  <2>2. ASSUME NEW p \in Process, Acts(p) \/ \E own \in Modes : Begin(p, own)
        PROVE  (\A q \in Process : decided(q)) /\ (\A e \in Entity : written(e))
    <3>1. Only(p) /\ \A q \in Process : q # p => visit'[q] = visit[q]
      BY <1>1, <2>2, ActsIs, BeginIs DEF Only
    <3>2. (\A q \in Process : decided(q)) <=> decided(p)
      BY <2>0, <3>1
    <3>3. CASE desc' = desc /\ (visit'[p] = visit[p] \/ visit'[p] = NoVisit \/ visit[p].stage # "none")
      BY <2>0, <3>2, <3>3
    <3>4. CASE \E e \in Entity : Visit(p, e)
      <4> PICK e \in Entity : Visit(p, e)
        BY <3>4
      <4>1. desc' = desc
        BY <1>1, VisitIs DEF bindings
      <4>2. CASE Evident(visit'[p])
        BY <3>2, <4>1, <4>2 DEF Evident, CommittedEvidenceConfirms, MoveAddsTheNewPath
      <4>3. visit'[p] = NoVisit \/ Evident(visit'[p])
        BY <1>1, VisitIs
      <4> QED BY <3>3, <4>1, <4>2, <4>3
    <3>5. CASE WriteEntity(p)
      <4>1. visit[p].stage = "rows" /\ desc' = [desc EXCEPT ![visit[p].entity] = visit[p].desc]
            /\ p \in Running
        BY <1>1, <3>5, WriteEntityIs, WorkFacts DEF Running
      <4>2. desc \in [Entity -> Path]
        BY <1>1 DEF Types, BoundType
      <4>3. p \in beside \/ visit[p].was = desc[visit[p].entity]
        BY <1>1, <4>1 DEF DescInv, DescHolds, Unwritten, Lone
      <4>4. \A e \in Entity : written(e)
        BY <4>1, <4>2, <4>3
      <4> QED BY <2>0, <3>2, <4>1, <4>4
    <3>6. CASE \E e \in Entity : Raise(p, e)
      BY <1>1, <3>3, <3>6, RaiseIs DEF bindings
    <3>7. CASE (\E r \in Record : WriteRow(p, r) \/ WriteLeaf(p, r)) \/ MoveOn(p)
      <4>1. visit[p].stage # "none" /\ desc' = desc
        BY <1>1, <3>7, WriteRowIs, WriteLeafIs, MoveOnIs DEF bindings
      <4> QED BY <3>3, <4>1
    <3>8. CASE Settles(p) \/ Goes(p) \/ Renews(p) \/ \E own \in Modes : Begin(p, own)
      <4>1. desc' = desc /\ (visit'[p] = visit[p] \/ visit'[p] = NoVisit)
        BY <1>1, <3>8, SettlesIs, GoesIs, RenewsIs, BeginIs DEF bindings
      <4> QED BY <3>3, <4>1
    <3> QED BY <2>2, <3>4, <3>5, <3>6, <3>7, <3>8 DEF Acts, InLadder
  <2> QED BY <1>1, <2>1, <2>2, StepsByKind
<1>2. (Types /\ Alone /\ PlanInv /\ DescInv) /\ [Next]_vars =>
        /\ \A p \in Process :
             visit[p] = NoVisit /\ visit'[p].desc # visit'[p].was =>
               /\ <<visit'[p].was, visit'[p].desc>> \in moves
               /\ visit'[p].was \notin head.files \cup tree.files /\ visit'[p].desc \in head.files
        /\ \A e \in Entity : desc'[e] # desc[e] =>
             \E p \in Process : /\ visit[p].entity = e /\ visit[p].desc = desc'[e]
                                /\ visit[p].was = desc[e] \/ p \in beside
  BY <1>1
<1> HIDE DEF decided, written
<1> QED BY <1>2, AloneAlways, PTL DEF Spec, DescriptorsFollowCommits

-----------------------------------------------------------------------------
(* Community rows: what a visit has in hand *)

LEMMA LeafKept ==
  ASSUME Typing, Types, [Next]_vars, NEW r \in Record, NEW e \in Entity, leaf[r][e] # "none"
  PROVE  leaf'[r][e] # "none"
<1>0. leaf \in [Record -> [Entity -> Status]]
  BY DEF Types, BoundType
<1>1. CASE leaf' = leaf
  BY <1>1
<1>2. CASE Environment \/ UNCHANGED vars
  <2>1. CASE \E q \in Record, f \in Entity : CaptureBlind(q, f)
    BY <1>0, <2>1 DEF CaptureBlind
  <2>2. CASE \E q \in Record, f \in Entity, covered \in Covered : Capture(q, f, covered)
    <3> PICK q \in Record, f \in Entity, covered \in Covered : Capture(q, f, covered)
      BY <2>2
    <3>1. leaf[q][f] = "none" /\ \E s : leaf' = [leaf EXCEPT ![q][f] = s]
      BY DEF Capture
    <3> QED BY <1>0, <3>1
  <2>3. CASE Reload
    BY <2>3 DEF Reload
  <2>4. CASE Edit \/ Build \/ (\E S \in SUBSET Path : Commit(S)) \/ UNCHANGED vars
    BY <1>1, <2>4 DEF Edit, Build, Commit, vars, bindings
  <2> QED BY <1>2, <2>1, <2>2, <2>3, <2>4 DEF Environment
<1>3. ASSUME NEW p \in Process, NEW q \in Record, WriteLeaf(p, q) PROVE leaf'[r][e] # "none"
  <2>1. /\ leaf' = [leaf EXCEPT ![q][visit[p].entity] = visit[p].status]
        /\ visit[p].status # "none"
    BY <1>3, WriteLeafIs, WorkFacts DEF TripType
  <2> QED BY <1>0, <2>1
<1>4. ASSUME NEW p \in Process, Acts(p), \A q \in Record : ~WriteLeaf(p, q) PROVE leaf' = leaf
  <2>1. CASE Settles(p) \/ Goes(p) \/ Renews(p)
    BY <2>1, SettlesIs, GoesIs, RenewsIs DEF bindings
  <2>2. CASE InLadder(p)
    BY <1>4, <2>2, VisitIs, RaiseIs, WriteRowIs, WriteEntityIs, MoveOnIs DEF InLadder, bindings
  <2> QED BY <1>4, <2>1, <2>2 DEF Acts
<1>5. ASSUME NEW p \in Process, NEW own \in Modes, Begin(p, own) PROVE leaf' = leaf
  BY <1>5, BeginIs DEF bindings
<1> QED BY <1>1, <1>2, <1>3, <1>4, <1>5, StepsByKind

(* The rows of a visit are those of records that the entity is a leaf of, and
   of another community than its baseline. *)
Grounds(p) ==
    LET v == visit[p] IN
    /\ v.stage # "rows" => v.wrote = {}
    /\ v.wrote # {} \/ (v.stage = "rows" /\ v.list # {}) => v.comm \in Comm /\ v.comm # v.old
    /\ v.stage = "rows" => \A r \in v.list : leaf[r][v.entity] # "none"
    /\ \A r \in v.wrote : leaf[r][v.entity] # "none"
GroundsInv == \A p \in Process : Grounds(p)

LEMMA GroundsGoOn ==
  ASSUME Typing, Types, [Next]_vars, NEW p \in Process, Grounds(p), visit[p].stage # "none",
         NEW s, NEW l, NEW w, GoesOn(p, visit[p], s, l, w),
         \/ s # "rows" /\ w = {}
         \/ s = "rows" /\ w = {} /\ l = Repointed(visit[p].entity, visit[p].old, visit[p].comm)
         \/ /\ s = "rows" /\ visit[p].stage = "rows"
            /\ l \subseteq visit[p].list /\ w \subseteq visit[p].wrote \cup visit[p].list
  PROVE  Grounds(p)'
<1> DEFINE e == visit[p].entity
           R == Repointed(e, visit[p].old, visit[p].comm)
<1>1. /\ visit'[p].entity = e /\ visit'[p].old = visit[p].old /\ visit'[p].comm = visit[p].comm
      /\ visit'[p].stage = s /\ visit'[p].list = l /\ visit'[p].wrote = w
  BY DEF GoesOn, TripFields
<1>2. /\ e \in Entity /\ visit[p].list \subseteq Record /\ visit[p].wrote \subseteq Record
      /\ visit[p].comm \in Comm \cup {None}
  BY WorkFacts DEF TripType, TaskType
<1>3. /\ R \subseteq Record /\ \A r \in R : leaf[r][e] # "none"
      /\ R # {} => visit[p].comm \in Comm /\ visit[p].comm # visit[p].old
  BY <1>2 DEF Repointed
<1>4. ASSUME NEW r \in Record, leaf[r][e] # "none" PROVE leaf'[r][e] # "none"
  BY <1>2, <1>4, LeafKept
<1> HIDE DEF R
<1>5. CASE s # "rows" /\ w = {}
  BY <1>1, <1>5 DEF Grounds
<1>6. CASE s = "rows" /\ w = {} /\ l = R
  BY <1>1, <1>3, <1>4, <1>6 DEF Grounds
<1>7. CASE /\ s = "rows" /\ visit[p].stage = "rows"
           /\ l \subseteq visit[p].list /\ w \subseteq visit[p].wrote \cup visit[p].list
  <2>1. \A r \in visit[p].wrote \cup visit[p].list : leaf'[r][e] # "none"
    BY <1>2, <1>4, <1>7 DEF Grounds
  <2>2. w # {} \/ l # {} => visit[p].comm \in Comm /\ visit[p].comm # visit[p].old
    BY <1>7 DEF Grounds
  <2> QED BY <1>1, <1>7, <2>1, <2>2 DEF Grounds
<1> QED BY <1>5, <1>6, <1>7 DEF R

LEMMA GroundsStep ==
  ASSUME Typing, Types, [Next]_vars, GroundsInv
  PROVE  GroundsInv'
<1>0. NoVisit.stage = "none" /\ NoVisit.wrote = {}
  BY DEF NoVisit
<1>1. ASSUME NEW q \in Process, visit'[q] = visit[q] PROVE Grounds(q)'
  <2>1. /\ Grounds(q) /\ visit[q].list \subseteq Record /\ visit[q].wrote \subseteq Record
        /\ visit[q].stage # "none" => visit[q].entity \in Entity
        /\ visit[q].stage = "none" => visit[q] = NoVisit
    BY WorkFacts DEF GroundsInv, TripType, TaskType
  <2>2. CASE visit[q].stage = "none"
    BY <1>0, <1>1, <2>1, <2>2 DEF Grounds
  <2>3. CASE visit[q].stage # "none"
    <3>1. \A r \in Record : leaf[r][visit[q].entity] # "none" => leaf'[r][visit[q].entity] # "none"
      BY <2>1, <2>3, LeafKept
    <3> QED BY <1>1, <2>1, <3>1 DEF Grounds
  <2> QED BY <2>2, <2>3
<1>2. ASSUME NEW q \in Process, visit'[q] = NoVisit PROVE Grounds(q)'
  BY <1>0, <1>2 DEF Grounds
<1>3. ASSUME NEW p \in Process, Only(p), Grounds(p)' PROVE GroundsInv'
  BY <1>1, <1>3 DEF GroundsInv, Only
<1>4. ASSUME NEW p \in Process, InLadder(p) PROVE Grounds(p)'
  <2>1. CASE \E e \in Entity : Visit(p, e)
    <3> PICK e \in Entity : Visit(p, e)
      BY <2>1
    <3>1. ASSUME Planned(e, Read(p, e).desc, Read(p, e).seen, pass[p].graph, pass[p].own, visit'[p])
          PROVE  Grounds(p)'
      <4>1. /\ visit'[p].entity = e /\ visit'[p].wrote = {} /\ visit'[p].comm \in Comm \cup {None}
            /\ visit'[p].stage = "rows" =>
                 visit'[p].list = Repointed(e, visit'[p].old, visit'[p].comm)
        BY <3>1 DEF Planned
      <4>2. \A o, c : \A r \in Repointed(e, o, c) : leaf'[r][e] # "none" /\ c # None /\ c # o
        BY LeafKept DEF Repointed
      <4> QED BY <4>1, <4>2 DEF Grounds
    <3> QED BY <1>2, <3>1, VisitIs
  <2>2. CASE \E e \in Entity : Raise(p, e)
    BY <1>2, <2>2, RaiseIs
  <2>3. CASE \E r \in Record : WriteRow(p, r)
    <3> PICK r \in Record : WriteRow(p, r)
      BY <2>3
    <3>1. /\ visit[p].stage = "rows" /\ r \in visit[p].list
          /\ GoesOn(p, visit[p], "rows", visit[p].list \ {r}, visit[p].wrote \cup {r})
      BY WriteRowIs
    <3>2. /\ visit[p].list \ {r} \subseteq visit[p].list /\ visit[p].stage # "none"
          /\ visit[p].wrote \cup {r} \subseteq visit[p].wrote \cup visit[p].list
      BY <3>1
    <3> QED BY <1>4, <3>1, <3>2, GroundsGoOn DEF GroundsInv
  <2>4. CASE WriteEntity(p)
    <3>1. /\ visit[p].stage = "rows"
          /\ visit'[p] = NoVisit \/ GoesOn(p, visit[p], "written", {}, {})
      BY <2>4, WriteEntityIs DEF Ends
    <3> QED BY <1>2, <3>1, GroundsGoOn DEF GroundsInv
  <2>5. CASE \E r \in Record : WriteLeaf(p, r)
    <3> PICK r \in Record : WriteLeaf(p, r)
      BY <2>5
    <3>1. /\ visit[p].stage = "leaves" /\ r \in visit[p].list
          /\ visit'[p] = NoVisit \/ GoesOn(p, visit[p], "leaves", visit[p].list \ {r}, visit[p].wrote)
      BY WriteLeafIs DEF Ends
    <3>2. visit[p].wrote = {}
      BY <3>1 DEF GroundsInv, Grounds
    <3> QED BY <1>2, <3>1, <3>2, GroundsGoOn DEF GroundsInv
  <2>6. CASE MoveOn(p)
    <3> DEFINE L == Leaves(visit[p].entity, visit[p].status)
               R == Repointed(visit[p].entity, visit[p].old, visit[p].comm)
    <3>1. /\ visit[p].stage # "none" /\ (visit[p].stage = "rows" => ~EntityIsWritten(visit[p]))
          /\ \/ visit'[p] = NoVisit
             \/ GoesOn(p, visit[p], "leaves", L, visit[p].wrote)
             \/ GoesOn(p, visit[p], "rows", R, visit[p].wrote)
      BY <2>6, MoveOnIs DEF Ends
    <3>2. visit[p].wrote = {}
      <4>0. None \notin Comm
        BY DEF Typing
      <4> QED BY <3>1, <4>0 DEF GroundsInv, Grounds, EntityIsWritten
    <3>3. CASE visit'[p] = NoVisit
      BY <1>2, <3>3
    <3>4. CASE GoesOn(p, visit[p], "leaves", L, visit[p].wrote)
      <4> HIDE DEF L
      <4> QED BY <3>1, <3>2, <3>4, GroundsGoOn DEF GroundsInv
    <3>5. CASE GoesOn(p, visit[p], "rows", R, visit[p].wrote)
      BY <3>1, <3>2, <3>5, GroundsGoOn DEF GroundsInv
    <3> QED BY <3>1, <3>3, <3>4, <3>5
  <2> QED BY <1>4, <2>1, <2>2, <2>3, <2>4, <2>5, <2>6 DEF InLadder
<1>5. ASSUME NEW p \in Process, Settles(p) \/ Goes(p) \/ Renews(p) \/ \E own \in Modes : Begin(p, own)
      PROVE  Grounds(p)' /\ Only(p)
  BY <1>1, <1>2, <1>5, SettlesIs, GoesIs, RenewsIs, BeginIs
<1>6. CASE Environment \/ UNCHANGED vars
  BY <1>1, <1>6, EnvironmentIs DEF work, GroundsInv
<1> QED BY <1>3, <1>4, <1>5, <1>6, StepsByKind, InLadderIs DEF Acts

-----------------------------------------------------------------------------
(* Community rows: what a pass has still to settle, or to remember *)

(* A record is either still to be settled or failed, and each is over in time. *)
Vacancies(t) ==
    /\ t.pc \in {"ladder", "finish", "clear", "acknowledge"} => t.failed = NoVacancy
    /\ t.pc \in {"remember", "finish", "clear", "acknowledge"} => t.vacated = NoVacancy
    /\ \A r \in Record : t.pc \in {"retry", "reconcile"} /\ t.failed[r] # {} => t.vacated[r] = {}
VacanciesInv == \A p \in Process : Vacancies(pass[p])

LEMMA VacanciesAnew ==
  ASSUME NEW t, t = Idle \/ \E mode, own, g, todo : Started(t, mode, own, g, todo)
  PROVE  Vacancies(t) /\ t.vacated = NoVacancy /\ t.failed = NoVacancy
<1>1. CASE t = Idle
  BY <1>1 DEF Vacancies, Idle, NoVacancy
<1>2. ASSUME NEW mode, NEW own, NEW g, NEW todo, Started(t, mode, own, g, todo)
      PROVE  Vacancies(t) /\ t.vacated = NoVacancy /\ t.failed = NoVacancy
  BY <1>2 DEF Vacancies, Started, NoVacancy
<1> QED BY <1>1, <1>2

LEMMA BeginsAnew ==
  ASSUME NEW t, NEW own, NEW g, NEW synced, Gates(t, own, g, synced)
  PROVE  t = Idle \/ \E mode, o, h, todo : Started(t, mode, o, h, todo)
BY DEF Gates

LEMMA VacanciesStep ==
  ASSUME Typing, Types, VacanciesInv, [Next]_vars
  PROVE  VacanciesInv'
<1>1. ASSUME NEW p \in Process, Only(p), Vacancies(pass'[p]) PROVE VacanciesInv'
  BY <1>1 DEF VacanciesInv, Only
<1>2. ASSUME NEW p \in Process, InLadder(p) PROVE Vacancies(pass'[p])
  BY <1>2, InLadderIs DEF VacanciesInv, Vacancies
<1>3. ASSUME NEW p \in Process, Settles(p) PROVE Vacancies(pass'[p])
  <2>0. Vacancies(pass[p]) /\ pass[p].vacated \in [Record -> SUBSET Comm]
        /\ pass[p].failed \in [Record -> SUBSET Comm]
    BY TaskKinds DEF VacanciesInv
  <2>1. CASE \E r \in Record : Weigh(p, r)
    BY <2>0, <2>1, WeighIs
  <2>2. CASE \E c \in Comm : Restore(p, c) \/ Retire(p, c)
    BY <2>0, <2>2, RestoreIs, RetireIs
  <2>3. ASSUME NEW r \in Record, NEW kept \in SUBSET Comm, Reconciled(p, r, kept), Settling(p) PROVE Vacancies(pass'[p])
    <3>0. Reconciled(p, r, kept)
      BY <2>3
    <3>1. /\ pass'[p].vacated = [pass[p].vacated EXCEPT ![r] = {}]
          /\ pass'[p].failed = [pass[p].failed EXCEPT ![r] = kept]
          /\ Kept(p, {"vacated", "failed"})
      BY ONLY <3>0, Types, ReconciledIs
    <3>2. pass'[p].pc = pass[p].pc
      BY <3>1, KeptMore
    <3> QED BY <2>0, <2>3, <3>1, <3>2 DEF Vacancies, Settling, NoVacancy
  <2>4. CASE Collect(p)
    BY <2>0, <2>4, CollectIs, KeptMore DEF Vacancies
  <2> QED BY <1>3, <2>1, <2>2, <2>3, <2>4, ReconcileRaisesIs, NextRecordIs DEF Settles
<1>4. ASSUME NEW p \in Process, Goes(p) PROVE Vacancies(pass'[p])
  <2>1. pass'[p].vacated = pass[p].vacated /\ pass'[p].failed = pass[p].failed /\ Vacancies(pass[p])
    BY <1>4, GoesIs, KeptMore DEF VacanciesInv
  <2>2. CASE RecordPendingMoves(p)
    BY <2>1, <2>2, LadderDoneIs DEF Vacancies, NoVacancy
  <2>3. CASE StampGraph(p) \/ ClearVolatile(p)
    BY <2>1, <2>3, StampGraphIs, ClearVolatileIs DEF Vacancies
  <2> QED BY <1>4, <2>2, <2>3 DEF Goes
<1>5. ASSUME NEW p \in Process, Renews(p) PROVE Vacancies(pass'[p])
  <2>1. CASE Remember(p)
    <3>1. CASE Gates(pass'[p], pass[p].own, pass[p].graph, pass[p].synced)
      BY <3>1, BeginsAnew, VacanciesAnew
    <3>2. CASE /\ pass[p].pc = "remember" /\ Kept(p, {"pc", "failed"})
               /\ pass'[p].pc = "finish" /\ pass'[p].failed = NoVacancy
      BY <3>2, KeptMore DEF Vacancies, VacanciesInv, NoVacancy
    <3> QED BY <2>1, <3>1, <3>2, RememberIs
  <2>2. CASE Acknowledge(p) \/ Refused(p) \/ VerifyEnds(p) \/ Crash(p)
    BY <2>2, AcknowledgeIs, StopIs, CrashIs, VacanciesAnew
  <2> QED BY <1>5, <2>1, <2>2 DEF Renews
<1>6. ASSUME NEW p \in Process, NEW own \in Modes, Begin(p, own) PROVE Vacancies(pass'[p])
  <2>1. Gates(pass'[p], own, graph, Synced(own)) \/ Retries(pass'[p], own)
    BY <1>6, BeginIs
  <2>2. Retries(pass'[p], own) => Vacancies(pass'[p])
    BY DEF Retries, Vacancies, NoVacancy
  <2> QED BY <2>1, <2>2, BeginsAnew, VacanciesAnew
<1>7. CASE Environment \/ UNCHANGED vars
  BY <1>7, EnvironmentIs DEF work, VacanciesInv
<1> QED BY <1>1, <1>2, <1>3, <1>4, <1>5, <1>6, <1>7, StepsByKind, ActsIs, BeginIs DEF Acts

(* A lone pass that is about to write the memory has all of it. *)
Recalls(p) ==
    Lone(p) /\ pass[p].pc = "remember" => \A r \in Record : pending1[r] \subseteq pass[p].failed[r]
RecallsInv == \A p \in Process : Recalls(p)

LEMMA RecallsStep ==
  ASSUME Typing, Types, Alone, RecallsInv, [Next]_vars
  PROVE  RecallsInv'
<1>1. ASSUME NEW p \in Process, Acts(p) PROVE RecallsInv'
  <2>1. \A q \in Process : Lone(q)' => q = p /\ Lone(p)
    BY <1>1, ActsIs, LoneActs
  <2>2. pass'[p].pc = "remember" => Recalls(p)'
    <3> SUFFICES ASSUME pass'[p].pc = "remember" PROVE Recalls(p)'
      OBVIOUS
    <3>1. CASE InLadder(p)
      BY <3>1, InLadderIs
    <3>2. CASE Settles(p)
      <4>1. CASE Collect(p)
        <5>1. pending1' = pending1
          BY <4>1, CollectIs DEF meta
        <5>2. pass'[p].failed = [r \in Record |-> pass[p].failed[r] \cup pending1[r]]
          BY <4>1, CollectIs
        <5> QED BY <5>1, <5>2 DEF Recalls
      <4>2. CASE pass'[p].pc = pass[p].pc
        BY <3>2, <4>2, SettlesIs
      <4>3. (\E r \in Record : Weigh(p, r)) \/ (\E c \in Comm : Restore(p, c) \/ Retire(p, c))
              => pass'[p].pc = pass[p].pc
        BY WeighIs, RestoreIs, RetireIs
      <4>4. (\E r \in Record : ReconcileRaises(p, r)) \/ NextRecord(p) => pass'[p].pc = pass[p].pc
        BY ReconcileRaisesIs, NextRecordIs, ReconciledIs, KeptMore
      <4> QED BY <3>2, <4>1, <4>2, <4>3, <4>4 DEF Settles
    <3>3. CASE Goes(p)
      BY <3>3, GoesIs
    <3>4. CASE Renews(p)
      <4>1. Idle.pc # "remember"
        BY DEF Idle
      <4>2. \A mode, own, g, todo : ~Started(pass'[p], mode, own, g, todo)
        BY DEF Started
      <4>3. \A own, g, synced : ~Gates(pass'[p], own, g, synced)
        BY <4>1, <4>2 DEF Gates
      <4> QED BY <3>4, <4>1, <4>2, <4>3, RememberIs, AcknowledgeIs, StopIs, CrashIs DEF Renews
    <3> QED BY <1>1, <3>1, <3>2, <3>3, <3>4 DEF Acts
  <2> QED BY <2>1, <2>2 DEF RecallsInv, Recalls
<1>2. ASSUME NEW p \in Process, NEW own \in Modes, Begin(p, own) PROVE RecallsInv'
  <2>1. \A q \in Process : Lone(q)' => q = p
    BY <1>2, LoneBegins
  <2>2. pass'[p].pc # "remember"
    BY <1>2, BeginIs DEF Gates, Retries, Started, Idle
  <2> QED BY <2>1, <2>2 DEF RecallsInv, Recalls
<1>3. CASE Environment \/ UNCHANGED vars
  <2>1. pending1' = pending1 /\ pass' = pass
    BY <1>3, EnvironmentIs DEF Environment, Edit, Commit, Build, CaptureBlind, Capture, Reload, vars, meta, work
  <2> QED BY <1>3, <2>1, LoneEnvironment DEF RecallsInv, Recalls
<1> QED BY <1>1, <1>2, <1>3, StepsByKind

-----------------------------------------------------------------------------
(* Community rows: a live one is accounted for *)

(* What p will settle or remember of r's row for c. *)
Secures(p, r, c) ==
    \/ c \in pass[p].failed[r]
    \/ /\ c \in pass[p].vacated[r]
       /\ settling[p].record = r => c \in settling[p].down \cup settling[p].keep

(* What is remembered, as long as no lone pass is about to replace it. *)
Remembered(r, c) == c \in pending1[r] /\ \A p \in Process : Lone(p) => pass[p].pc # "retry"

Accounted(r, c) ==
    \/ Based(r, c) \/ <<r, c>> \in lost \/ Remembered(r, c)
    \/ \E p \in Process : Secures(p, r, c) \/ <<r, c>> \in HalfWritten(p)
AccountInv == \A r \in Record, c \in Comm : rows[r][c] = "live" => Accounted(r, c)

(* What a lone pass restores is held, or lost. *)
RestoreHolds(p) ==
    \A c \in settling[p].up : Based(settling[p].record, c) \/ <<settling[p].record, c>> \in lost
RestoreInv == \A p \in Process : Lone(p) => RestoreHolds(p)

LEMMA BasedKept ==
  ASSUME Typing, Types, [Next]_vars, NEW r \in Record, NEW c, Based(r, c), seen' = seen
  PROVE  Based(r, c)'
<1>1. PICK e \in Entity : leaf[r][e] # "none" /\ seen[e] = c
  BY DEF Based
<1>2. leaf'[r][e] # "none" /\ seen'[e] = c
  BY <1>1, LeafKept
<1> QED BY <1>2 DEF Based

(* A step of p keeps the account if it keeps what p and the bindings give. *)
LEMMA AccountLocally ==
  ASSUME NEW p \in Process, Only(p), NEW r, NEW c, Accounted(r, c),
         (\/ Based(r, c) \/ <<r, c>> \in lost \/ Remembered(r, c)
          \/ Secures(p, r, c) \/ <<r, c>> \in HalfWritten(p)) => Accounted(r, c)'
  PROVE  Accounted(r, c)'
<1>1. ASSUME NEW q \in Process, q # p, Secures(q, r, c) \/ <<r, c>> \in HalfWritten(q)
      PROVE  Accounted(r, c)'
  <2>1. pass'[q] = pass[q] /\ visit'[q] = visit[q] /\ settling'[q] = settling[q]
    BY <1>1 DEF Only
  <2>2. Secures(q, r, c) => Secures(q, r, c)'
    BY <2>1 DEF Secures
  <2>3. <<r, c>> \in HalfWritten(q) => <<r, c>> \in HalfWritten(q)'
    BY <2>1 DEF HalfWritten
  <2> QED BY <1>1, <2>2, <2>3 DEF Accounted
<1> QED BY <1>1 DEF Accounted

LEMMA NoHalfWritten ==
  ASSUME NEW p, visit[p].wrote = {}
  PROVE  HalfWritten(p) = {}
BY DEF HalfWritten

(* What is remembered stays so as long as a pass retries it. *)
LEMMA RememberedKept ==
  ASSUME Types, Alone, NEW p \in Process, Only(p), p \in Running, beside' = beside,
         pending1' = pending1, pass'[p].pc = "retry" => pass[p].pc = "retry",
         NEW r, NEW c, Remembered(r, c)
  PROVE  Remembered(r, c)'
<1>1. \A q \in Process : Lone(q)' => q = p /\ Lone(p)
  BY LoneActs
<1> QED BY <1>1 DEF Remembered

LEMMA EmptyHand ==
  ASSUME Types, NEW p \in Process, settling[p].record = None \/ pass[p].pc \notin {"retry", "reconcile"}
  PROVE  settling[p] = NoRecord /\ settling[p].record = None /\ settling[p].up = {}
<1>1. settling[p].record = None /\ HandType(settling[p])
  BY WorkFacts
<1>2. settling[p] = NoRecord
  BY <1>1 DEF HandType
<1> QED BY <1>1, <1>2 DEF NoRecord

(* A capture says what it takes a baseline from. *)
LEMMA EnvironmentAccounts ==
  ASSUME Typing, Types, [Next]_vars, Environment \/ UNCHANGED vars, ~Reload, NEW r \in Record, NEW c \in Comm,
         Based(r, c) \/ <<r, c>> \in lost
  PROVE  Based(r, c)' \/ <<r, c>> \in lost'
<1>1. CASE <<r, c>> \in lost
  <2>1. lost \subseteq lost'
    BY DEF Environment, Edit, Commit, Build, CaptureBlind, Capture, vars, history
  <2> QED BY <1>1, <2>1
<1>2. CASE Based(r, c) /\ seen' = seen
  BY <1>2, BasedKept
<1>3. ASSUME NEW q \in Record, NEW e \in Entity, NEW covered \in Covered, Capture(q, e, covered), Based(r, c)
      PROVE  Based(r, c)' \/ <<r, c>> \in lost'
  <2>1. /\ lost' = lost \cup Unnoted(e, seen'[e], NoVacancy)
        /\ \A f \in Entity : f # e => seen'[f] = seen[f]
    BY <1>3 DEF Capture, Types, BoundType
  <2>2. PICK f \in Entity : leaf[r][f] # "none" /\ seen[f] = c
    BY <1>3 DEF Based
  <2>3. leaf'[r][f] # "none"
    BY <2>2, LeafKept
  <2>4. CASE seen'[f] = c
    BY <2>3, <2>4 DEF Based
  <2>5. CASE f = e /\ seen'[e] # c
    BY <2>1, <2>2, <2>5 DEF Unnoted, NoVacancy
  <2> QED BY <2>1, <2>2, <2>4, <2>5
<1>4. (\A q \in Record, e \in Entity, covered \in Covered : ~Capture(q, e, covered)) => seen' = seen
  BY DEF Environment, Edit, Commit, Build, CaptureBlind, vars, bindings
<1> QED BY <1>1, <1>2, <1>3, <1>4

LEMMA RestoreStep ==
  ASSUME Typing, Types, Alone, RestoreInv, [Next]_vars
  PROVE  RestoreInv'
<1>0. NoRecord.up = {}
  BY DEF NoRecord
<1>1. ASSUME NEW p \in Process, Acts(p) PROVE RestoreInv'
  <2>1. Only(p) /\ p \in Running /\ beside' = beside
    BY <1>1, ActsIs
  <2> SUFFICES ASSUME Lone(p) PROVE RestoreHolds(p)'
    BY <2>1, LoneActs DEF RestoreInv
  <2>2. RestoreHolds(p)
    BY DEF RestoreInv
  <2>3. CASE settling'[p] = NoRecord
    BY <1>0, <2>3 DEF RestoreHolds
  <2>4. CASE InLadder(p) \/ Goes(p)
    BY <2>3, <2>4, InLadderIs, GoesIs, EmptyHand, TaskKinds
  <2>5. CASE \E r \in Record : Weigh(p, r)
    <3> PICK r \in Record : Weigh(p, r)
      BY <2>5
    <3>1. settling'[p].up = Held(r) /\ settling'[p].record = r /\ leaf' = leaf /\ seen' = seen
      BY WeighIs DEF bindings
    <3>2. \A c \in Held(r) : Based(r, c)
      BY DEF Held, Holders, Based
    <3>3. \A c \in Held(r) : Based(r, c)'
      BY <3>1, <3>2 DEF Based
    <3> QED BY <3>1, <3>3 DEF RestoreHolds
  <2>6. CASE \E c \in Comm : Restore(p, c) \/ Retire(p, c)
    <3>1. /\ settling'[p].up \subseteq settling[p].up /\ settling'[p].record = settling[p].record
          /\ leaf' = leaf /\ seen' = seen /\ lost \subseteq lost'
      <4> PICK c \in Comm : Restore(p, c) \/ Retire(p, c)
        BY <2>6
      <4>1. CASE Restore(p, c)
        BY <4>1, RestoreIs
      <4>2. CASE Retire(p, c)
        BY <4>2, RetireIs DEF history
      <4> QED BY <4>1, <4>2
    <3>2. \A c : Based(settling[p].record, c) => Based(settling[p].record, c)'
      BY <3>1 DEF Based
    <3> QED BY <2>2, <3>1, <3>2 DEF RestoreHolds
  <2>7. CASE (\E r \in Record : ReconcileRaises(p, r)) \/ NextRecord(p)
    BY <2>3, <2>7, ReconcileRaisesIs, NextRecordIs, ReconciledIs
  <2>8. CASE Collect(p)
    BY <2>3, <2>8, CollectIs, EmptyHand, TaskKinds
  <2>9. CASE Renews(p)
    BY <2>3, <2>9, RememberIs, AcknowledgeIs, StopIs, CrashIs, EmptyHand, TaskKinds DEF Renews
  <2> QED BY <1>1, <2>4, <2>5, <2>6, <2>7, <2>8, <2>9 DEF Acts, Settles
<1>2. ASSUME NEW p \in Process, NEW own \in Modes, Begin(p, own) PROVE RestoreInv'
  <2>1. settling'[p] = NoRecord
    BY <1>2, BeginIs, EmptyHand
  <2> QED BY <1>0, <1>2, <2>1, LoneBegins DEF RestoreInv, RestoreHolds
<1>3. CASE Environment \/ UNCHANGED vars
  <2>1. settling' = settling
    BY <1>3, EnvironmentIs DEF work
  <2> SUFFICES ASSUME NEW p \in Process, Lone(p), ~Reload, NEW c \in settling[p].up
               PROVE  Based(settling[p].record, c)' \/ <<settling[p].record, c>> \in lost'
    BY <1>3, <2>1, LoneEnvironment DEF RestoreInv, RestoreHolds, Based
  <2>2. settling[p].record \in Record /\ c \in Comm
    BY WorkFacts, InHandRecord DEF HandType
  <2>3. Based(settling[p].record, c) \/ <<settling[p].record, c>> \in lost
    BY DEF RestoreInv, RestoreHolds
  <2> QED BY <1>3, <2>1, <2>2, <2>3, EnvironmentAccounts
<1> QED BY <1>1, <1>2, <1>3, StepsByKind

LEMMA SecuresKept ==
  ASSUME Typing, NEW p, NEW r \in Record, NEW c, pass[p].vacated[r] \subseteq pass'[p].vacated[r],
         pass[p].failed[r] \subseteq pass'[p].failed[r], settling'[p].record = None, Secures(p, r, c)
  PROVE  Secures(p, r, c)'
<1>1. None # r
  BY DEF Typing
<1> QED BY <1>1 DEF Secures

(* The bindings and lost stay: what is based or lost stays so. *)
LEMMA SameBasis ==
  ASSUME UNCHANGED <<seen, leaf>>, lost \subseteq lost', NEW r, NEW c
  PROVE  /\ Based(r, c) => Based(r, c)'
         /\ <<r, c>> \in lost => <<r, c>> \in lost'
BY DEF Based

LEMMA VacatedGrows ==
  ASSUME Typing, Types, NEW p \in Process, InLadder(p), NEW r \in Record
  PROVE  pass[p].vacated[r] \subseteq pass'[p].vacated[r]
<1>0. pass[p].vacated \in [Record -> SUBSET Comm]
  BY TaskKinds
<1>1. ASSUME Kept(p, {"todo", "snap", "uncommitted"}) \/ pass'[p] = pass[p]
      PROVE  pass[p].vacated[r] \subseteq pass'[p].vacated[r]
  BY <1>1 DEF Kept, Fields
<1>2. CASE \E q \in Record : WriteRow(p, q)
  <2>1. PICK q \in Record : pass'[p].vacated = [pass[p].vacated EXCEPT
              ![q] = IF visit[p].old = None THEN @ ELSE @ \cup {visit[p].old}]
    BY <1>2, WriteRowIs
  <2> QED BY <1>0, <2>1
<1>3. CASE (\E e \in Entity : Visit(p, e) \/ Raise(p, e)) \/ (\E q \in Record : WriteLeaf(p, q))
           \/ WriteEntity(p) \/ MoveOn(p)
  BY <1>1, <1>3, VisitIs, RaiseIs, WriteLeafIs, WriteEntityIs, MoveOnIs DEF Over, Ends, Stays
<1> QED BY <1>2, <1>3 DEF InLadder

LEMMA AccountLadder ==
  ASSUME Typing, Types, Alone, GroundsInv, AccountInv, [Next]_vars, NEW p \in Process, InLadder(p),
         NEW r \in Record, NEW c \in Comm, rows'[r][c] = "live"
  PROVE  Accounted(r, c)'
<1>0. /\ Only(p) /\ p \in Running /\ settling'[p].record = None /\ beside' = beside
      /\ pending1' = pending1 /\ pass'[p].pc = pass[p].pc /\ pass'[p].failed = pass[p].failed
      /\ pass[p].pc = "ladder"
  BY InLadderIs, EmptyHand DEF Running, meta
<1>1. Remembered(r, c) => Remembered(r, c)'
  BY <1>0, RememberedKept
<1>2. Secures(p, r, c) => Secures(p, r, c)'
  BY <1>0, VacatedGrows, SecuresKept
<1>3. ASSUME rows[r][c] = "live", Based(r, c) => Accounted(r, c)', <<r, c>> \in lost => Accounted(r, c)',
             <<r, c>> \in HalfWritten(p) => Accounted(r, c)'
      PROVE  Accounted(r, c)'
  <2>1. Accounted(r, c)
    BY <1>3 DEF AccountInv
  <2>2. Remembered(r, c)' \/ Secures(p, r, c)' => Accounted(r, c)'
    BY DEF Accounted
  <2> QED BY <1>0, <1>1, <1>2, <1>3, <2>1, <2>2, AccountLocally
<1>4. Based(r, c)' \/ <<r, c>> \in lost' \/ <<r, c>> \in HalfWritten(p)' => Accounted(r, c)'
  BY DEF Accounted
<1>5. ASSUME rows' = rows, UNCHANGED <<seen, leaf>>, lost \subseteq lost',
             <<r, c>> \in HalfWritten(p) => <<r, c>> \in HalfWritten(p)' \/ <<r, c>> \in lost'
      PROVE  Accounted(r, c)'
  BY <1>3, <1>4, <1>5, SameBasis
<1>6. CASE \E e \in Entity : Visit(p, e)
  <2>1. visit[p] = NoVisit /\ UNCHANGED <<rows, seen, leaf, lost>>
    BY <1>6, VisitIs DEF bindings
  <2>2. HalfWritten(p) = {}
    BY <2>1, NoHalfWritten DEF NoVisit
  <2> QED BY <1>5, <2>1, <2>2
<1>7. CASE \E e \in Entity : Raise(p, e)
  <2>1. UNCHANGED <<rows, seen, leaf>> /\ lost' = lost \cup HalfWritten(p)
    BY <1>7, RaiseIs DEF bindings
  <2> QED BY <1>5, <2>1
<1>8. CASE \E q \in Record : WriteRow(p, q)
  <2> PICK q \in Record : WriteRow(p, q)
    BY <1>8
  <2>1. /\ visit[p].stage = "rows" /\ q \in visit[p].list /\ UNCHANGED <<seen, leaf, lost>>
        /\ rows' = [rows EXCEPT ![q][visit[p].comm] = "live"]
        /\ GoesOn(p, visit[p], "rows", visit[p].list \ {q}, visit[p].wrote \cup {q})
    BY WriteRowIs DEF history
  <2>5. visit'[p].wrote = visit[p].wrote \cup {q} /\ visit'[p].comm = visit[p].comm
    BY <2>1 DEF GoesOn, TripFields
  <2>2. <<r, c>> \in HalfWritten(p) => <<r, c>> \in HalfWritten(p)'
    BY <2>5 DEF HalfWritten
  <2>3. CASE r = q /\ c = visit[p].comm
    <3>1. <<r, c>> \in HalfWritten(p)'
      BY <2>3, <2>5 DEF HalfWritten
    <3> QED BY <1>4, <3>1
  <2>4. CASE ~(r = q /\ c = visit[p].comm)
    <3>1. rows[r][c] = "live"
      BY <2>1, <2>4 DEF Types, BoundType
    <3> QED BY <1>3, <1>4, <2>1, <2>2, <3>1, SameBasis
  <2> QED BY <2>3, <2>4
<1>9. CASE WriteEntity(p)
  <2> DEFINE e == visit[p].entity
             comm == visit[p].comm
  <2>1. /\ visit[p].stage = "rows" /\ UNCHANGED <<rows, leaf>>
        /\ seen' = [seen EXCEPT ![e] = comm]
        /\ lost' = {x \in lost \cup Unnoted(e, comm, pass[p].vacated) :
                      ~(leaf[x[1]][e] # "none" /\ x[2] = comm)}
    BY <1>9, WriteEntityIs
  <2>2. e \in Entity /\ seen \in [Entity -> Comm \cup {None}]
    BY <2>1, WorkFacts DEF TaskType, Types, BoundType
  <2>3. leaf[r][e] # "none" /\ c = comm => Based(r, c)'
    BY <2>1, <2>2 DEF Based
  <2>4. <<r, c>> \in lost => Accounted(r, c)'
    BY <1>4, <2>1, <2>3
  <2>5. <<r, c>> \in HalfWritten(p) => Accounted(r, c)'
    <3>1. <<r, c>> \in HalfWritten(p) => leaf[r][e] # "none" /\ c = comm
      BY DEF HalfWritten, GroundsInv, Grounds
    <3> QED BY <1>4, <2>3, <3>1
  <2>6. Based(r, c) => Accounted(r, c)'
    <3> SUFFICES ASSUME NEW f \in Entity, leaf[r][f] # "none", seen[f] = c PROVE Accounted(r, c)'
      BY DEF Based
    <3>1. CASE f # e
      <4>1. Based(r, c)'
        BY <2>1, <2>2, <3>1 DEF Based
      <4> QED BY <1>4, <4>1
    <3>2. CASE f = e /\ c = comm
      BY <1>4, <2>3, <3>2
    <3>3. CASE f = e /\ c # comm /\ c \notin pass[p].vacated[r]
      <4>1. <<r, c>> \in Unnoted(e, comm, pass[p].vacated)
        BY <3>3 DEF Unnoted
      <4>2. <<r, c>> \in lost'
        BY <2>1, <3>3, <4>1
      <4> QED BY <1>4, <4>2
    <3>4. CASE c \in pass[p].vacated[r]
      <4>1. None # r
        BY DEF Typing
      <4>2. Secures(p, r, c)
        BY <1>0, <3>4, <4>1, EmptyHand DEF Secures
      <4> QED BY <1>2, <4>2 DEF Accounted
    <3> QED BY <3>1, <3>2, <3>3, <3>4
  <2> QED BY <1>3, <2>1, <2>4, <2>5, <2>6
<1>10. CASE \E q \in Record : WriteLeaf(p, q)
  <2>1. visit[p].stage = "leaves" /\ UNCHANGED <<rows, seen, lost>>
    BY <1>10, WriteLeafIs
  <2>2. HalfWritten(p) = {}
    BY <2>1, NoHalfWritten DEF GroundsInv, Grounds
  <2>3. Based(r, c) => Based(r, c)'
    BY <2>1, BasedKept
  <2> QED BY <1>3, <1>4, <2>1, <2>2, <2>3
<1>11. CASE MoveOn(p)
  <2>1. /\ visit[p].stage # "rows" \/ ~EntityIsWritten(visit[p])
        /\ UNCHANGED <<rows, seen, leaf, lost>>
    BY <1>11, MoveOnIs DEF bindings
  <2>2. visit[p].wrote = {}
    <3>0. None \notin Comm
      BY DEF Typing
    <3> QED BY <2>1, <3>0 DEF GroundsInv, Grounds, EntityIsWritten
  <2>3. HalfWritten(p) = {}
    BY <2>2, NoHalfWritten
  <2> QED BY <1>5, <2>1, <2>3
<1> QED BY <1>6, <1>7, <1>8, <1>9, <1>10, <1>11 DEF InLadder

(* A step of p outside its visits: what p secures is what it may disturb. *)
LEMMA AccountAround ==
  ASSUME Types, Alone, NEW p \in Process, Only(p), p \in Running, beside' = beside,
         pending1' = pending1, pass'[p].pc = "retry" => pass[p].pc = "retry",
         UNCHANGED <<seen, leaf>>, lost \subseteq lost', NEW r, NEW c, Accounted(r, c),
         <<r, c>> \in HalfWritten(p) => Accounted(r, c)', Secures(p, r, c) => Accounted(r, c)'
  PROVE  Accounted(r, c)'
<1>1. Remembered(r, c) => Remembered(r, c)'
  BY RememberedKept
<1>2. Based(r, c)' \/ <<r, c>> \in lost' \/ Remembered(r, c)' => Accounted(r, c)'
  BY DEF Accounted
<1> QED BY <1>1, <1>2, SameBasis, AccountLocally

LEMMA Forgets ==
  ASSUME Types, NEW p \in Process, NEW r \in Record, NEW kept, Reconciled(p, r, kept)
  PROVE  \A x \in Record : /\ pass'[p].failed[x] = IF x = r THEN kept ELSE pass[p].failed[x]
                           /\ x # r => pass'[p].vacated[x] = pass[p].vacated[x]
<1>1. /\ pass[p].vacated \in [Record -> SUBSET Comm]
      /\ pass[p].failed \in [Record -> SUBSET Comm]
      /\ pass = [q \in Process |-> pass[q]] /\ DOMAIN pass[p] = Fields
  BY WorkFacts DEF TaskType
<1>2. pass' = [pass EXCEPT ![p].vacated[r] = {}, ![p].failed[r] = kept]
  BY DEF Reconciled
<1> QED BY <1>1, <1>2 DEF Fields

LEMMA SameHalfWritten ==
  ASSUME NEW p, visit'[p] = visit[p]
  PROVE  HalfWritten(p)' = HalfWritten(p)
BY DEF HalfWritten

LEMMA AccountSettles ==
  ASSUME Typing, Types, Alone, VacanciesInv, RestoreInv, AccountInv, NEW p \in Process, Settles(p),
         NEW r \in Record, NEW c \in Comm, rows'[r][c] = "live"
  PROVE  Accounted(r, c)'
<1>0. /\ Only(p) /\ p \in Running /\ beside' = beside /\ pending1' = pending1
      /\ pass'[p].pc = "retry" => pass[p].pc = "retry"
      /\ UNCHANGED <<seen, leaf>>
      /\ HalfWritten(p)' = HalfWritten(p)
  BY SettlesIs, SameHalfWritten DEF Running, meta
<1>1. Secures(p, r, c)' \/ Based(r, c)' \/ <<r, c>> \in lost' \/ <<r, c>> \in HalfWritten(p)'
        => Accounted(r, c)'
  BY DEF Accounted
<1>2. ASSUME rows[r][c] = "live", lost \subseteq lost', Secures(p, r, c) => Accounted(r, c)'
      PROVE  Accounted(r, c)'
  BY <1>0, <1>1, <1>2, AccountAround DEF AccountInv
<1>3. /\ pass[p].vacated \in [Record -> SUBSET Comm] /\ pass[p].failed \in [Record -> SUBSET Comm]
      /\ pass[p].pc \in {"retry", "reconcile"}
      /\ \A q \in Record : pass[p].failed[q] # {} => pass[p].vacated[q] = {}
  BY TaskKinds, SettlesIs DEF VacanciesInv, Vacancies
<1>4. CASE \E q \in Record : Weigh(p, q)
  <2> PICK q \in Record : Weigh(p, q)
    BY <1>4
  <2>1. /\ pass'[p] = pass[p] /\ settling[p] = NoRecord /\ settling'[p].record = q
        /\ settling'[p].down = IF Abstains(q) THEN {} ELSE pass[p].vacated[q] \ Held(q)
        /\ settling'[p].keep = IF Abstains(q) /\ pass[p].pc = "retry" THEN pass[p].vacated[q] ELSE {}
        /\ lost' = IF Abstains(q) /\ pass[p].pc # "retry"
                   THEN lost \cup ({q} \X (pass[p].vacated[q] \ Held(q))) ELSE lost
        /\ rows' = rows
    BY WeighIs DEF bindings
  <2>2. CASE r = q /\ c \in Held(q)
    <3>1. Based(r, c)
      BY <2>2 DEF Held, Holders, Based
    <3> QED BY <1>0, <1>1, <3>1 DEF Based
  <2>3. CASE r # q \/ c \notin pass[p].vacated[r]
    <3>1. Secures(p, r, c) => Secures(p, r, c)'
      BY <2>1, <2>3 DEF Secures
    <3> QED BY <1>1, <1>2, <2>1, <3>1
  <2>4. CASE r = q /\ c \in pass[p].vacated[q] \ Held(q)
    <3>1. CASE Abstains(q) /\ pass[p].pc # "retry"
      BY <1>1, <2>1, <2>4, <3>1
    <3>2. CASE ~(Abstains(q) /\ pass[p].pc # "retry")
      <4>1. Secures(p, r, c)'
        BY <2>1, <2>4, <3>2 DEF Secures
      <4> QED BY <1>1, <4>1
    <3> QED BY <3>1, <3>2
  <2> QED BY <2>2, <2>3, <2>4
<1>5. CASE \E d \in Comm : Restore(p, d)
  <2> PICK d \in Comm : Restore(p, d)
    BY <1>5
  <2> DEFINE q == settling[p].record
  <2>1. /\ pass'[p] = pass[p] /\ d \in settling[p].up
        /\ settling'[p].record = q /\ settling'[p].down = settling[p].down
        /\ settling'[p].keep = settling[p].keep
        /\ rows' = [rows EXCEPT ![q][d] = IF @ = "orphaned" THEN "live" ELSE @]
        /\ lost' = IF p \in beside /\ ~Based(q, d) THEN lost \cup {<<q, d>>} ELSE lost
    BY RestoreIs
  <2>2. q \in Record
    BY <2>1, InHandRecord
  <2>3. CASE r = q /\ c = d
    <3>1. Lone(p) => Based(q, d) \/ <<q, d>> \in lost
      BY <2>1 DEF RestoreInv, RestoreHolds
    <3>2. Based(q, d) \/ <<q, d>> \in lost'
      BY <1>0, <2>1, <3>1 DEF Lone
    <3>3. Based(r, c) => Based(r, c)'
      BY <1>0 DEF Based
    <3> QED BY <1>1, <2>3, <3>2, <3>3
  <2>4. CASE ~(r = q /\ c = d)
    <3>1. rows[r][c] = "live"
      BY <2>1, <2>2, <2>4 DEF Types, BoundType
    <3>2. Secures(p, r, c) => Secures(p, r, c)'
      BY <2>1 DEF Secures
    <3> QED BY <1>1, <1>2, <2>1, <3>1, <3>2
  <2> QED BY <2>3, <2>4
<1>6. CASE \E d \in Comm : Retire(p, d)
  <2> PICK d \in Comm : Retire(p, d)
    BY <1>6
  <2> DEFINE q == settling[p].record
  <2>1. /\ pass'[p] = pass[p] /\ d \in settling[p].down
        /\ settling'[p].record = q /\ settling'[p].down = settling[p].down \ {d}
        /\ settling'[p].keep = settling[p].keep
        /\ rows' = [rows EXCEPT ![q][d] = IF @ = "none" THEN @ ELSE "orphaned"]
        /\ lost' = lost
    BY RetireIs DEF history
  <2>2. q \in Record
    BY <2>1, InHandRecord
  <2>3. ~(r = q /\ c = d) /\ rows[r][c] = "live"
    BY <2>1, <2>2 DEF Types, BoundType
  <2>4. Secures(p, r, c) => Secures(p, r, c)'
    BY <2>1, <2>3 DEF Secures
  <2> QED BY <1>1, <1>2, <2>1, <2>3, <2>4
<1>7. ASSUME NEW q \in Record, NEW kept \in SUBSET Comm, Reconciled(p, q, kept),
             settling[p].record \in {None, q}, pass[p].vacated[q] # {},
             c \in pass[p].vacated[q] /\ Secures(p, q, c) => c \in kept
      PROVE  Accounted(r, c)'
  <2>0. Reconciled(p, q, kept)
    BY <1>7
  <2>1. \A x \in Record : /\ pass'[p].failed[x] = IF x = q THEN kept ELSE pass[p].failed[x]
                          /\ x # q => pass'[p].vacated[x] = pass[p].vacated[x]
    BY ONLY <2>0, Types, p \in Process, q \in Record, Forgets
  <2>5. settling'[p] = NoRecord
    BY ONLY <2>0, Types, p \in Process, ReconciledIs
  <2>4. UNCHANGED <<bindings, history>>
    BY <2>0 DEF Reconciled
  <2>2. rows' = rows /\ lost' = lost /\ settling'[p].record # r
    BY <2>4, <2>5 DEF bindings, history, NoRecord, Typing
  <2>3. Secures(p, r, c) => Secures(p, r, c)'
    <3>1. CASE r = q
      <4>1. pass'[p].failed[r] = kept
        BY <1>3, <2>1, <3>1
      <4>2. Secures(p, r, c) => c \in pass[p].vacated[q]
        BY <1>3, <1>7, <3>1 DEF Secures
      <4> QED BY <1>7, <3>1, <4>1, <4>2 DEF Secures
    <3>2. CASE r # q
      BY <1>3, <2>1, <2>2, <3>2 DEF Secures
    <3> QED BY <3>1, <3>2
  <2> QED BY <1>1, <1>2, <2>2, <2>3
<1>8. CASE NextRecord(p)
  <2>1. /\ settling[p].record \in Record /\ settling[p].down = {}
        /\ settling[p].keep \in SUBSET Comm /\ pass[p].vacated[settling[p].record] # {}
        /\ Reconciled(p, settling[p].record, settling[p].keep)
    BY <1>8, NextRecordIs, WorkFacts
  <2>2. c \in pass[p].vacated[settling[p].record] /\ Secures(p, settling[p].record, c)
          => c \in settling[p].keep
    BY <1>3, <2>1 DEF Secures
  <2> QED BY <1>7, <2>1, <2>2
<1>9. CASE \E q \in Record : ReconcileRaises(p, q)
  <2> PICK q \in Record : ReconcileRaises(p, q)
    BY <1>9
  <2>1. /\ settling[p].record \in {None, q} /\ pass[p].vacated[q] \in SUBSET Comm
        /\ Reconciled(p, q, pass[p].vacated[q]) /\ pass[p].vacated[q] # {}
    BY ReconcileRaisesIs DEF ReconcileRaises
  <2> QED BY <1>7, <2>1
<1>10. CASE Collect(p)
  <2>1. /\ pass'[p].vacated = pass[p].vacated /\ settling'[p] = settling[p]
        /\ \/ pass[p].failed = NoVacancy
           \/ pass'[p].failed = [q \in Record |-> pass[p].failed[q] \cup pending1[q]]
        /\ rows' = rows /\ lost' = lost
    BY <1>10, CollectIs, KeptMore DEF bindings, history
  <2>2. Secures(p, r, c) => Secures(p, r, c)'
    BY <2>1 DEF Secures, NoVacancy
  <2> QED BY <1>1, <1>2, <2>1, <2>2
<1> QED BY <1>4, <1>5, <1>6, <1>8, <1>9, <1>10 DEF Settles

LEMMA NothingWritten ==
  ASSUME Types, NEW p \in Process, pass[p].pc # "ladder" \/ pass[p].todo = {}
  PROVE  visit[p] = NoVisit /\ HalfWritten(p) = {}
<1>1. visit[p] = NoVisit
  BY WorkFacts DEF TripType
<1> QED BY <1>1 DEF HalfWritten, NoVisit

LEMMA AccountGoes ==
  ASSUME Typing, Types, Alone, AccountInv, NEW p \in Process, Goes(p),
         NEW r \in Record, NEW c \in Comm, rows'[r][c] = "live"
  PROVE  Accounted(r, c)'
<1>1. /\ Only(p) /\ p \in Running /\ beside' = beside /\ pending1' = pending1
      /\ pass'[p].pc # "retry" /\ UNCHANGED <<rows, seen, leaf, lost>>
      /\ pass'[p].vacated = pass[p].vacated /\ pass'[p].failed = pass[p].failed
      /\ settling'[p] = settling[p] /\ HalfWritten(p) = {}
  BY GoesIs, KeptMore, NothingWritten DEF Running, bindings
<1>2. Secures(p, r, c) => Secures(p, r, c)'
  BY <1>1 DEF Secures
<1>3. Accounted(r, c)
  BY <1>1 DEF AccountInv
<1>4. Secures(p, r, c)' => Accounted(r, c)'
  BY DEF Accounted
<1> QED BY <1>1, <1>2, <1>3, <1>4, AccountAround

LEMMA AccountRenews ==
  ASSUME Typing, Types, Alone, VacanciesInv, RecallsInv, AccountInv, NEW p \in Process, Renews(p),
         NEW r \in Record, NEW c \in Comm, rows'[r][c] = "live"
  PROVE  Accounted(r, c)'
<1>0. /\ Only(p) /\ p \in Running /\ beside' = beside /\ UNCHANGED <<rows, seen, leaf>>
      /\ pass[p].vacated \in [Record -> SUBSET Comm] /\ pass[p].failed \in [Record -> SUBSET Comm]
  BY RenewsIs, TaskKinds DEF bindings
<1>1. /\ \A q \in Process : Lone(q)' => q = p /\ Lone(p)
      /\ Accounted(r, c) /\ Vacancies(pass[p])
  BY <1>0, LoneActs DEF AccountInv, VacanciesInv
<1>2. Based(r, c)' \/ <<r, c>> \in lost' \/ Remembered(r, c)' => Accounted(r, c)'
  BY DEF Accounted
<1>3. CASE Remember(p)
  <2>1. /\ pass[p].pc \in {"retry", "remember"} /\ pass[p].vacated = NoVacancy
        /\ pass'[p].pc # "retry" /\ pending1' = pass[p].failed
        /\ lost' = IF p \in beside THEN lost \cup (Pairs(pending1) \ Pairs(pass[p].failed)) ELSE lost
    <3>1. \A own, g, synced : Gates(pass'[p], own, g, synced) => pass'[p].pc # "retry"
      BY DEF Gates, Started, Idle
    <3> QED BY <1>1, <1>3, <3>1, RememberIs DEF Vacancies
  <2>2. c \in pass[p].failed[r] => Remembered(r, c)'
    BY <1>1, <2>1 DEF Remembered
  <2>3. Secures(p, r, c) => c \in pass[p].failed[r]
    BY <2>1 DEF Secures, NoVacancy
  <2>4. Remembered(r, c) => c \in pass[p].failed[r] \/ <<r, c>> \in lost'
    <3> SUFFICES ASSUME Remembered(r, c) PROVE c \in pass[p].failed[r] \/ <<r, c>> \in lost'
      OBVIOUS
    <3>1. CASE p \in beside
      BY <2>1, <3>1 DEF Remembered, Pairs
    <3>2. CASE p \notin beside
      BY <1>0, <2>1, <3>2 DEF Remembered, RecallsInv, Recalls, Lone
    <3> QED BY <3>1, <3>2
  <2>5. HalfWritten(p) = {}
    BY <2>1, NothingWritten
  <2> QED BY <1>0, <1>1, <1>2, <2>1, <2>2, <2>3, <2>4, <2>5, SameBasis, AccountLocally
<1>4. CASE Acknowledge(p) \/ Refused(p) \/ VerifyEnds(p)
  <2>1. /\ pass[p].pc \in {"finish", "acknowledge"} /\ pass'[p].pc # "retry"
        /\ pending1' = pending1 /\ lost' = lost
    <3>1. Idle.pc # "retry" /\ \A mode, own, g, todo : Started(pass'[p], mode, own, g, todo) => pass'[p].pc # "retry"
      BY DEF Started, Idle
    <3>2. CASE Acknowledge(p)
      <4>1. pass'[p].pc # "retry"
        BY <3>1, <3>2, AcknowledgeIs
      <4> QED BY <3>2, <4>1, AcknowledgeIs DEF history
    <3>3. CASE Refused(p) \/ VerifyEnds(p)
      <4>1. /\ pass[p].pc = "finish" /\ pass'[p] = Idle /\ UNCHANGED <<meta, lost>>
        BY <3>3, StopIs DEF history
      <4> QED BY <3>1, <4>1 DEF meta
    <3> QED BY <1>4, <3>2, <3>3
  <2>2. pass[p].vacated = NoVacancy /\ pass[p].failed = NoVacancy
    BY <1>1, <2>1 DEF Vacancies
  <2>3. ~Secures(p, r, c) /\ HalfWritten(p) = {}
    BY <2>1, <2>2, NothingWritten DEF Secures, NoVacancy
  <2> QED BY <1>0, <1>1, <2>1, <2>3, AccountAround
<1>5. CASE Crash(p)
  <2>1. /\ pass'[p].pc # "retry" /\ pending1' = pending1
        /\ lost' = lost \cup HalfWritten(p)
                     \cup ((Pairs(pass[p].vacated) \cup Pairs(pass[p].failed)) \ Pairs(pending1))
    BY <1>5, CrashIs DEF Idle, meta
  <2>2. Secures(p, r, c) => <<r, c>> \in lost' \/ c \in pending1[r]
    BY <2>1 DEF Secures, Pairs
  <2>3. c \in pending1[r] => Remembered(r, c)'
    BY <1>1, <2>1 DEF Remembered
  <2>4. (<<r, c>> \in HalfWritten(p) => <<r, c>> \in lost') /\ lost \subseteq lost'
    BY <2>1
  <2>5. pass'[p].pc = "retry" => pass[p].pc = "retry"
    BY <2>1
  <2>6. <<r, c>> \in HalfWritten(p) \/ Secures(p, r, c) => Accounted(r, c)'
    BY <1>2, <2>2, <2>3, <2>4
  <2>7. beside' = beside /\ pending1' = pending1 /\ UNCHANGED <<seen, leaf>> /\ Accounted(r, c)
    BY <1>0, <1>1, <2>1
  <2> QED BY <1>0, <2>4, <2>5, <2>6, <2>7, AccountAround
<1> QED BY <1>3, <1>4, <1>5 DEF Renews

LEMMA AccountBegin ==
  ASSUME Typing, Types, Alone, AccountInv, NEW p \in Process, NEW own \in Modes, Begin(p, own),
         NEW r \in Record, NEW c \in Comm, rows'[r][c] = "live"
  PROVE  Accounted(r, c)'
<1>1. /\ Only(p) /\ pass[p].pc = "idle" /\ settling'[p] = settling[p]
      /\ pending1 = NoVacancy \/ Retries(pass'[p], own)
      /\ UNCHANGED <<rows, seen, leaf, lost, pending1>>
  BY BeginIs DEF bindings, meta
<1>2. ~Secures(p, r, c) /\ HalfWritten(p) = {} /\ Accounted(r, c)
  <2>1. pass[p] = Idle
    BY <1>1, WorkFacts DEF TaskShape
  <2> QED BY <1>1, <2>1, NothingWritten DEF Secures, Idle, NoVacancy, AccountInv
<1>3. Based(r, c)' \/ <<r, c>> \in lost' \/ Remembered(r, c)' \/ Secures(p, r, c)' => Accounted(r, c)'
  BY DEF Accounted
<1>4. Remembered(r, c) => Remembered(r, c)' \/ Secures(p, r, c)'
  <2> SUFFICES ASSUME Remembered(r, c) PROVE Remembered(r, c)' \/ Secures(p, r, c)'
    OBVIOUS
  <2>1. Retries(pass'[p], own) /\ c \in pending1'[r]
    BY <1>1 DEF Remembered, NoVacancy
  <2>2. c \in pass'[p].vacated[r] /\ settling'[p].record # r
    BY <1>1, <2>1, EmptyHand DEF Retries, Typing
  <2> QED BY <2>2 DEF Secures
<1> QED BY <1>1, <1>2, <1>3, <1>4, SameBasis, AccountLocally

LEMMA AccountEnvironment ==
  ASSUME Typing, Types, Alone, AccountInv, [Next]_vars, Environment \/ UNCHANGED vars,
         NEW r \in Record, NEW c \in Comm, rows'[r][c] = "live"
  PROVE  Accounted(r, c)'
<1>1. ~Reload
  BY DEF Reload
<1>2. UNCHANGED <<pass, visit, settling>> /\ beside' = beside
  BY <1>1, EnvironmentIs DEF work
<1>3. pending1' = pending1
  BY <1>1 DEF Environment, Edit, Commit, Build, CaptureBlind, Capture, vars, meta
<1>4. CASE rows[r][c] = "live"
  <2>1. Remembered(r, c) => Remembered(r, c)'
    BY <1>2, <1>3, LoneEnvironment DEF Remembered
  <2>2. \A p \in Process : /\ Secures(p, r, c) => Secures(p, r, c)'
                           /\ <<r, c>> \in HalfWritten(p) => <<r, c>> \in HalfWritten(p)'
    BY <1>2 DEF Secures, HalfWritten
  <2>3. Based(r, c) \/ <<r, c>> \in lost => Based(r, c)' \/ <<r, c>> \in lost'
    BY <1>1, EnvironmentAccounts
  <2> QED BY <1>4, <2>1, <2>2, <2>3 DEF AccountInv, Accounted
<1>5. CASE rows[r][c] # "live"
  <2>1. PICK q \in Record, e \in Entity, covered \in Covered : Capture(q, e, covered)
    BY <1>1, <1>5 DEF Environment, Edit, Commit, Build, CaptureBlind, vars, bindings
  <2> DEFINE answer == Exact(e, desc[e], graph)
             d == IF answer.status = "resolved" THEN answer.community
                  ELSE IF answer.status = "ambiguous" THEN answer.community ELSE None
  <2>2. /\ leaf' = [leaf EXCEPT ![q][e] = CASE answer.status = "resolved" -> "live"
                                            [] answer.status = "unresolved" -> "orphaned"
                                            [] OTHER -> "none"]
        /\ seen' = [seen EXCEPT ![e] = IF answer.status = "resolved" THEN d ELSE @]
        /\ rows' = IF d = None \/ covered THEN rows
                   ELSE [rows EXCEPT ![q][d] = IF answer.status = "resolved" THEN "live" ELSE "degraded"]
    BY <2>1 DEF Capture
  <2> HIDE DEF d, answer
  <2>3. r = q /\ c = d /\ answer.status = "resolved"
    BY <1>5, <2>2 DEF Types, BoundType
  <2>4. leaf'[q][e] = "live" /\ seen'[e] = d
    BY <2>2, <2>3 DEF Types, BoundType
  <2> QED BY <2>3, <2>4 DEF Accounted, Based
<1> QED BY <1>4, <1>5

LEMMA AccountSteps ==
  ASSUME Typing, Types, Alone, GroundsInv, VacanciesInv, RecallsInv, RestoreInv, AccountInv, [Next]_vars
  PROVE  AccountInv'
<1> SUFFICES ASSUME NEW r \in Record, NEW c \in Comm, rows'[r][c] = "live" PROVE Accounted(r, c)'
  BY DEF AccountInv
<1>1. ASSUME NEW p \in Process, Acts(p) PROVE Accounted(r, c)'
  BY <1>1, AccountLadder, AccountSettles, AccountGoes, AccountRenews DEF Acts
<1> QED BY <1>1, AccountBegin, AccountEnvironment, StepsByKind

LEMMA RowsAlways == Spec => [](Types /\ Alone /\ GroundsInv /\ VacanciesInv /\ RecallsInv /\ RestoreInv /\ AccountInv)
<1> Typing
  BY Typing DEF Typing
<1>1. Init => Alone /\ GroundsInv /\ VacanciesInv /\ RecallsInv /\ RestoreInv /\ AccountInv
  <2> SUFFICES ASSUME Init
               PROVE  Alone /\ GroundsInv /\ VacanciesInv /\ RecallsInv /\ RestoreInv /\ AccountInv
    OBVIOUS
  <2>1. \A p \in Process : pass[p] = Idle /\ visit[p] = NoVisit /\ Idle.pc = "idle"
    BY DEF Init, Idle
  <2>2. \A p \in Process : ~Lone(p)
    BY <2>1 DEF Lone, Running
  <2>3. GroundsInv
    BY <2>1 DEF GroundsInv, Grounds, NoVisit
  <2>4. VacanciesInv
    BY <2>1, VacanciesAnew DEF VacanciesInv
  <2>5. AccountInv
    BY DEF Init, AccountInv
  <2> QED BY <2>2, <2>3, <2>4, <2>5 DEF Alone, RecallsInv, Recalls, RestoreInv
<1>2. Init => Types
  BY InitTypes
<1>3. (Types /\ Alone /\ GroundsInv /\ VacanciesInv /\ RecallsInv /\ RestoreInv /\ AccountInv) /\ [Next]_vars
        => (Types /\ Alone /\ GroundsInv /\ VacanciesInv /\ RecallsInv /\ RestoreInv /\ AccountInv)'
  BY StepTypes, AloneSteps, GroundsStep, VacanciesStep, RecallsStep, RestoreStep, AccountSteps
<1> QED BY <1>1, <1>2, <1>3, PTL DEF Spec

(* StaleRowsAreAccounted: wherever a visit, a reconcile or a pass is cut short,
   and whichever passes run beside one another, a live community row is held by
   a leaf, about to be settled or written, remembered, or known to be lost. *)
THEOREM RowsAreAccounted == Spec => []StaleRowsAreAccounted
<1>1. AccountInv => StaleRowsAreAccounted
  BY DEF AccountInv, Accounted, Remembered, Secures, StaleRowsAreAccounted
<1> QED BY <1>1, RowsAlways, PTL

-----------------------------------------------------------------------------
(* Versions: a build brings no graph back that a pass or the stamp has seen *)

LEMMA EventsGrow ==
  ASSUME Typing, Types, [Next]_vars
  PROVE  events' \in Nat /\ events \in Nat /\ events' >= events
<1>1. events \in Nat
  BY DEF Types
<1>2. Environment \/ UNCHANGED vars => events' = events \/ events' = events + 1
  BY DEF Environment, Edit, Commit, Build, CaptureBlind, Capture, Reload, Event, vars
<1>3. ASSUME NEW p \in Process, NEW own \in Modes, Begin(p, own) PROVE events' \in {events, events + 2}
  BY <1>3, BeginIs
<1>4. ASSUME NEW p \in Process, NEW e \in Entity, Visit(p, e) \/ Raise(p, e)
      PROVE  events' \in {events, events + 1}
  BY <1>4, VisitIs, RaiseIs
<1>5. ASSUME NEW p \in Process, NEW r \in Record, WriteRow(p, r) \/ WriteLeaf(p, r) \/ Weigh(p, r)
      PROVE  events' = events
  BY <1>5, WriteRowIs, WriteLeafIs, WeighIs
<1>6. ASSUME NEW p \in Process, NEW r \in Record, ReconcileRaises(p, r) PROVE events' = events + 1
  BY <1>6 DEF ReconcileRaises, Event
<1>7. ASSUME NEW p \in Process, NEW c \in Comm, Restore(p, c) \/ Retire(p, c) PROVE events' = events
  BY <1>7, RestoreIs, RetireIs
<1>8. ASSUME NEW p \in Process,
             \/ WriteEntity(p) \/ MoveOn(p) \/ RecordPendingMoves(p) \/ Collect(p) \/ Remember(p)
             \/ StampGraph(p) \/ ClearVolatile(p) \/ Acknowledge(p)
      PROVE  events' = events
  BY <1>8, WriteEntityIs, MoveOnIs, LadderDoneIs, CollectIs, RememberIs, StampGraphIs, ClearVolatileIs,
     AcknowledgeIs
<1>9. ASSUME NEW p \in Process, Refused(p) \/ VerifyEnds(p) \/ Crash(p) \/ NextRecord(p)
      PROVE  events' \in {events, events + 1}
  BY <1>9, StopIs, CrashIs DEF NextRecord
<1> DEFINE grows == events' \in Nat /\ events \in Nat /\ events' >= events
<1>10. events' = events \/ events' \in {events, events + 1} \/ events' \in {events, events + 2}
         \/ events' = events + 1 => grows
  BY <1>1
<1> HIDE DEF grows
<1>11. ASSUME NEW p \in Process, InLadder(p) PROVE grows
  BY <1>4, <1>5, <1>8, <1>10, <1>11 DEF InLadder
<1>12. ASSUME NEW p \in Process, Settles(p) PROVE grows
  BY <1>5, <1>6, <1>7, <1>8, <1>9, <1>10, <1>12 DEF Settles
<1>13. ASSUME NEW p \in Process, Goes(p) \/ Renews(p) PROVE grows
  BY <1>8, <1>9, <1>10, <1>13 DEF Goes, Renews
<1>14. CASE Environment \/ UNCHANGED vars
  BY <1>1, <1>2, <1>14 DEF grows
<1> QED BY <1>3, <1>10, <1>11, <1>12, <1>13, <1>14, StepsByKind DEF Acts, grows

(* What a step of a running process does to its graph and to the stamp. *)
LEMMA ActsStamp ==
  ASSUME Typing, Types, NEW p \in Process, Acts(p)
  PROVE  /\ pass'[p].pc = "idle" \/ pass'[p].graph = pass[p].graph
         /\ \/ UNCHANGED <<stamp, volatile>> /\ pass'[p].pc # "clear"
            \/ /\ pass[p].pc = "finish" /\ pass[p].mode = "full" /\ pass'[p].pc = "clear"
               /\ stamp' = [own |-> pass[p].own, graph |-> pass[p].graph] /\ volatile' = volatile
            \/ pass[p].pc = "clear" /\ pass'[p].pc = "acknowledge" /\ stamp' = stamp /\ volatile' = FALSE
<1>0. Idle.pc = "idle"
  BY DEF Idle
<1>1. CASE InLadder(p)
  BY <1>1, InLadderIs DEF meta
<1>2. CASE Settles(p)
  BY <1>2, SettlesIs DEF meta, Kept, Fields
<1>3. CASE Goes(p)
  <2>1. pass'[p].graph = pass[p].graph
    BY <1>3, GoesIs DEF Kept, Fields
  <2>2. CASE RecordPendingMoves(p)
    BY <2>1, <2>2, LadderDoneIs
  <2>3. CASE StampGraph(p)
    BY <2>1, <2>3, StampGraphIs
  <2>4. CASE ClearVolatile(p)
    BY <2>1, <2>4, ClearVolatileIs
  <2> QED BY <1>3, <2>2, <2>3, <2>4 DEF Goes
<1>4. CASE Renews(p)
  <2>1. \A mode, own, todo : Started(pass'[p], mode, own, pass[p].graph, todo)
           => pass'[p].pc = "ladder" /\ pass'[p].graph = pass[p].graph
    BY DEF Started
  <2>2. CASE Remember(p)
    <3>1. CASE Gates(pass'[p], pass[p].own, pass[p].graph, pass[p].synced)
      <4>1. pass'[p] = Idle \/ (pass'[p].pc = "ladder" /\ pass'[p].graph = pass[p].graph)
        BY <2>1, <3>1 DEF Gates
      <4> QED BY <1>0, <2>2, <4>1, RememberIs
    <3>2. CASE Kept(p, {"pc", "failed"}) /\ pass'[p].pc = "finish"
      BY <2>2, <3>2, RememberIs DEF Kept, Fields
    <3> QED BY <2>2, <3>1, <3>2, RememberIs
  <2>3. CASE Acknowledge(p)
    <3>1. pass'[p] = Idle \/ (pass'[p].pc = "ladder" /\ pass'[p].graph = pass[p].graph)
      BY <2>1, <2>3, AcknowledgeIs
    <3> QED BY <1>0, <2>3, <3>1, AcknowledgeIs
  <2>4. CASE Refused(p) \/ VerifyEnds(p)
    BY <1>0, <2>4, StopIs DEF meta
  <2>5. CASE Crash(p)
    BY <1>0, <2>5, CrashIs DEF meta
  <2> QED BY <1>4, <2>2, <2>3, <2>4, <2>5 DEF Renews
<1> QED BY <1>1, <1>2, <1>3, <1>4 DEF Acts

Numbered(g) == g.version \in 0 .. events
VersionInv ==
    /\ Numbered(graph)
    /\ ~volatile => Numbered(stamp.graph)
    /\ \A p \in Process : pass[p].pc # "idle" =>
          Numbered(pass[p].graph) /\ (pass[p].pc = "clear" => Numbered(stamp.graph))

LEMMA NumberedStays ==
  ASSUME Typing, Types, [Next]_vars, NEW v, v \in 0 .. events
  PROVE  v \in 0 .. events'
BY EventsGrow

LEMMA VersionStep ==
  ASSUME Typing, Types, VersionInv, [Next]_vars
  PROVE  VersionInv'
<1>1. \A v : v \in 0 .. events => v \in 0 .. events'
  BY NumberedStays
<1>2. ASSUME NEW p \in Process, Acts(p) PROVE VersionInv'
  <2>1. p \in Running /\ graph' = graph /\ \A q \in Process \ {p} : pass'[q] = pass[q]
    BY <1>2, ActsIs DEF Only
  <2>2. pass[p].pc # "idle" /\ pass[p].graph.version \in 0 .. events
    BY <2>1 DEF Running, VersionInv, Numbered
  <2>3. CASE UNCHANGED <<stamp, volatile>> /\ pass'[p].pc # "clear"
    BY <1>1, <1>2, <2>1, <2>2, <2>3, ActsStamp DEF VersionInv, Numbered
  <2>4. CASE /\ pass'[p].pc = "clear" /\ volatile' = volatile
             /\ stamp' = [own |-> pass[p].own, graph |-> pass[p].graph]
    BY <1>1, <1>2, <2>1, <2>2, <2>4, ActsStamp DEF VersionInv, Numbered
  <2>5. CASE pass[p].pc = "clear" /\ pass'[p].pc = "acknowledge" /\ stamp' = stamp /\ volatile' = FALSE
    BY <1>1, <1>2, <2>1, <2>2, <2>5, ActsStamp DEF VersionInv, Numbered
  <2> QED BY <1>2, <2>3, <2>4, <2>5, ActsStamp
<1>3. ASSUME NEW p \in Process, NEW own \in Modes, Begin(p, own) PROVE VersionInv'
  <2>1. /\ UNCHANGED <<graph, stamp, volatile>> /\ \A q \in Process \ {p} : pass'[q] = pass[q]
        /\ Gates(pass'[p], own, graph, Synced(own)) \/ Retries(pass'[p], own)
    BY <1>3, BeginIs DEF Only, meta
  <2>2. pass'[p].pc # "idle" => pass'[p].graph = graph /\ pass'[p].pc # "clear"
    BY <2>1 DEF Gates, Retries, Started, Idle
  <2> QED BY <1>1, <2>1, <2>2 DEF VersionInv, Numbered
<1>4. CASE Environment \/ UNCHANGED vars
  <2>1. pass' = pass
    BY <1>4, EnvironmentIs DEF work
  <2>2. stamp' = stamp /\ (volatile' = volatile \/ volatile' = TRUE)
    BY <1>4 DEF Environment, Edit, Commit, Build, CaptureBlind, Capture, Reload, vars, meta
  <2>3. graph' = graph \/ graph'.version \in 0 .. events'
    <3>1. CASE Build
      BY <3>1, EventsGrow DEF Build
    <3>2. CASE ~Build
      BY <1>4, <3>2 DEF Environment, Edit, Commit, CaptureBlind, Capture, Reload, vars
    <3> QED BY <3>1, <3>2
  <2> QED BY <1>1, <2>1, <2>2, <2>3 DEF VersionInv, Numbered
<1> QED BY <1>2, <1>3, <1>4, StepsByKind

LEMMA Fresh ==
  ASSUME Typing, Types, VersionInv, ~Returns, Build
  PROVE  /\ \A p \in Running : pass[p].graph # graph'
         /\ ~volatile => stamp.graph # graph'
<1>1. graph'.version = events + 1
  BY DEF Build, Event
<1>2. events + 1 \notin 0 .. events
  BY DEF Types
<1> QED BY <1>1, <1>2 DEF VersionInv, Numbered, Running

-----------------------------------------------------------------------------
(* Counters, and what a pass that ran beside another leaves behind *)

CounterInv ==
    /\ done <= gen /\ watch.head <= rev
    /\ \A p \in Process : /\ pass[p].gen <= gen /\ pass[p].head <= rev
                          /\ Lone(p) /\ pass[p].mode # "none" => done <= pass[p].gen

(* What a step of a running process does to the counters. *)
LEMMA ActsCount ==
  ASSUME Typing, Types, NEW p \in Process, Acts(p)
  PROVE  /\ gen' = gen /\ rev' = rev
         /\ \/ pass'[p] = Idle /\ done' \in {done, pass[p].gen}
            \/ pass'[p].gen = gen /\ pass'[p].head = rev /\ done' \in {done, pass[p].gen}
            \/ /\ pass'[p].gen = pass[p].gen /\ pass'[p].head = pass[p].head /\ done' = done
               /\ pass'[p].mode = pass[p].mode
         /\ watch' = watch \/ watch'.head = pass[p].head
<1>0. /\ \A mode, own, g, todo : Started(pass'[p], mode, own, g, todo)
           => pass'[p].gen = gen /\ pass'[p].head = rev
      /\ \A F \in {{"pc"}, {"vacated"}, {"pc", "failed"}, {"pc", "vacated", "failed"}, {"todo", "snap", "uncommitted"}} :
           Kept(p, F) => /\ pass'[p].gen = pass[p].gen /\ pass'[p].head = pass[p].head
                         /\ pass'[p].mode = pass[p].mode
  BY DEF Started, Kept, Fields
<1>1. CASE InLadder(p)
  <2>1. Kept(p, {"vacated"}) \/ Kept(p, {"todo", "snap", "uncommitted"}) \/ pass'[p] = pass[p]
    BY <1>1, VisitIs, RaiseIs, WriteRowIs, WriteEntityIs, WriteLeafIs, MoveOnIs DEF InLadder, Ends, Over, Stays
  <2> QED BY <1>0, <1>1, <2>1, InLadderIs DEF meta, checkout
<1>2. CASE Settles(p)
  BY <1>0, <1>2, SettlesIs DEF meta, checkout
<1>3. CASE Goes(p)
  <2>1. /\ pass'[p].gen = pass[p].gen /\ pass'[p].head = pass[p].head /\ pass'[p].mode = pass[p].mode
        /\ gen' = gen /\ rev' = rev /\ done' = done
    BY <1>0, <1>3, GoesIs DEF checkout
  <2>2. watch' = watch \/ watch'.head = pass[p].head
    <3>1. RecordPendingMoves(p) => watch' = watch \/ watch' = [head |-> pass[p].head, ids |-> pass[p].uncommitted]
      BY LadderDoneIs
    <3>2. StampGraph(p) \/ ClearVolatile(p) => watch' = watch
      BY StampGraphIs, ClearVolatileIs
    <3> QED BY <1>3, <3>1, <3>2 DEF Goes
  <2> QED BY <2>1, <2>2
<1>4. CASE Remember(p)
  <2>1. gen' = gen /\ rev' = rev /\ done' = done /\ watch' = watch
    BY <1>4, RememberIs DEF checkout
  <2>2. \/ pass'[p] = Idle \/ \E mode, own, g, todo : Started(pass'[p], mode, own, g, todo)
        \/ Kept(p, {"pc", "failed"})
    BY <1>4, RememberIs DEF Gates
  <2> QED BY <1>0, <2>1, <2>2
<1>5. CASE Acknowledge(p)
  BY <1>0, <1>5, AcknowledgeIs DEF checkout
<1>6. CASE Refused(p) \/ VerifyEnds(p) \/ Crash(p)
  BY <1>6, StopIs, CrashIs DEF checkout, meta
<1> QED BY <1>1, <1>2, <1>3, <1>4, <1>5, <1>6 DEF Acts, Renews

LEMMA CounterStep ==
  ASSUME Typing, Types, Alone, CounterInv, [Next]_vars
  PROVE  CounterInv'
<1>0. /\ done \in Nat /\ gen \in Nat /\ rev \in Nat /\ watch.head \in Nat
      /\ \A p \in Process : pass[p].gen \in Nat /\ pass[p].head \in Nat
  BY WorkFacts DEF Types, MetaType, CheckoutType, TaskType
<1>01. Idle.gen = 0 /\ Idle.head = 0 /\ Idle.mode = "none" /\ Idle.pc = "idle"
  BY DEF Idle
<1>1. ASSUME NEW p \in Process, Acts(p) PROVE CounterInv'
  <2>1. /\ \A q \in Process \ {p} : pass'[q] = pass[q]
        /\ \A q \in Process : Lone(q)' => q = p /\ Lone(p)
    BY <1>1, ActsIs, LoneActs DEF Only
  <2>2. pass[p].gen <= gen /\ pass[p].head <= rev /\ done <= gen /\ watch.head <= rev
    BY DEF CounterInv
  <2>3. done' <= gen' /\ watch'.head <= rev' /\ done' \in Nat /\ gen' = gen /\ rev' = rev
    BY <1>0, <1>1, <2>2, ActsCount
  <2>4. pass'[p].gen <= gen /\ pass'[p].head <= rev
    BY <1>0, <1>01, <1>1, <2>2, ActsCount
  <2>5. Lone(p)' /\ pass'[p].mode # "none" => done' <= pass'[p].gen
    <3>1. CASE pass'[p] = Idle
      BY <1>01, <3>1
    <3>2. CASE pass'[p].gen = gen
      BY <2>3, <3>2
    <3>3. CASE pass'[p].gen = pass[p].gen /\ done' = done /\ pass'[p].mode = pass[p].mode
      BY <2>1, <3>3 DEF CounterInv
    <3> QED BY <1>1, <3>1, <3>2, <3>3, ActsCount
  <2>6. ASSUME NEW q \in Process
        PROVE  /\ pass'[q].gen <= gen' /\ pass'[q].head <= rev'
               /\ Lone(q)' /\ pass'[q].mode # "none" => done' <= pass'[q].gen
    BY <2>1, <2>3, <2>4, <2>5 DEF CounterInv
  <2> QED BY <2>3, <2>6 DEF CounterInv
<1>2. ASSUME NEW p \in Process, NEW own \in Modes, Begin(p, own) PROVE CounterInv'
  <2>1. /\ \A q \in Process \ {p} : pass'[q] = pass[q]
        /\ \A q \in Process : Lone(q)' => q = p
        /\ Gates(pass'[p], own, graph, Synced(own)) \/ Retries(pass'[p], own)
        /\ UNCHANGED <<gen, rev, done, watch>>
    BY <1>2, BeginIs, LoneBegins DEF Only, meta, checkout
  <2>2. \/ pass'[p].gen = gen /\ pass'[p].head = rev
        \/ pass'[p].mode = "none" /\ pass'[p].gen = 0 /\ pass'[p].head = 0
    BY <1>01, <2>1 DEF Gates, Started, Retries
  <2>3. done <= gen /\ 0 <= gen /\ 0 <= rev /\ gen <= gen /\ rev <= rev
    BY <1>0 DEF CounterInv
  <2> QED BY <2>1, <2>2, <2>3 DEF CounterInv
<1>3. CASE Environment \/ UNCHANGED vars
  <2>1. /\ pass' = pass /\ done' = done /\ watch' = watch
        /\ gen' \in {gen, gen + 1} /\ rev' \in {rev, rev + 1}
    BY <1>3 DEF Environment, Edit, Commit, Build, CaptureBlind, Capture, Reload, vars, work, meta, checkout
  <2>2. gen <= gen' /\ rev <= rev' /\ gen' \in Nat /\ rev' \in Nat
    BY <1>0, <2>1
  <2>3. \A q \in Process : Lone(q)' => Lone(q)
    BY <1>3, LoneEnvironment
  <2>4. \A x, y, z \in Nat : x <= y /\ y <= z => x <= z
    OBVIOUS
  <2> QED BY <1>0, <2>1, <2>2, <2>3, <2>4 DEF CounterInv
<1> QED BY <1>1, <1>2, <1>3, StepsByKind

CrossInv == \A p \in Process : p \in Running /\ p \in beside => crossed

(* What a step of a process may make of crossed. *)
LEMMA CrossActs ==
  ASSUME Typing, Types, NEW p \in Process, Acts(p)
  PROVE  crossed' = crossed \/ (StampGraph(p) /\ crossed' = (crossed /\ p \in beside))
BY InLadderIs, SettlesIs, LadderDoneIs, StampGraphIs, ClearVolatileIs, RenewsIs DEF Acts, Goes, history

LEMMA CrossStep ==
  ASSUME Typing, Types, Alone, CrossInv, [Next]_vars
  PROVE  CrossInv'
<1>1. ASSUME NEW p \in Process, Acts(p) PROVE CrossInv'
  <2>1. Only(p) /\ p \in Running /\ beside' = beside
    BY <1>1, ActsIs
  <2>2. Running' \subseteq Running
    BY <2>1 DEF Running, Only
  <2>3. CASE crossed' = crossed
    BY <2>1, <2>2, <2>3 DEF CrossInv
  <2>4. CASE crossed' = (crossed /\ p \in beside)
    BY <2>1, <2>2, <2>4 DEF CrossInv, Alone, Lone
  <2> QED BY <1>1, <2>3, <2>4, CrossActs
<1>2. ASSUME NEW p \in Process, NEW own \in Modes, Begin(p, own) PROVE CrossInv'
  BY <1>2, BeginIs DEF CrossInv
<1>3. CASE Environment \/ UNCHANGED vars
  <2>1. CASE Reload
    <3>1. crossed' = (crossed \/ Running # {}) /\ Running' = Running
      BY <1>3, <2>1, EnvironmentIs
    <3>2. CASE Running = {}
      BY <3>1, <3>2 DEF CrossInv
    <3>3. CASE Running # {}
      BY <3>1, <3>3 DEF CrossInv
    <3> QED BY <3>2, <3>3
  <2>2. CASE ~Reload
    <3>1. crossed' = crossed /\ beside' = beside /\ Running' = Running
      BY <1>3, <2>2, EnvironmentIs
    <3> QED BY <3>1 DEF CrossInv
  <2> QED BY <2>1, <2>2
<1> QED BY <1>1, <1>2, <1>3, StepsByKind

-----------------------------------------------------------------------------
(* A pass that is alone knows what it works on *)

Stamps(p) == stamp = [own |-> pass[p].own, graph |-> pass[p].graph]
Stamped   == stamp = [own |-> TRUE, graph |-> graph] /\ ~volatile

(* The task t fits the meta rows, and the graph while the stamp says so. *)
Tracks(t) ==
    LET stamps == stamp = [own |-> t.own, graph |-> t.graph] IN
    /\ Stamped => t.graph = graph
    /\ t.pc = "retry" => (t.synced <=> stamps)
    /\ t.mode \in {"orphans", "verify"} => ~volatile /\ stamps
    /\ t.pc \in {"clear", "acknowledge"} => stamps
    /\ t.mode = "full" /\ t.pc \notin {"clear", "acknowledge"} => volatile \/ ~stamps
    /\ t.mode = "verify" => t.own = TRUE
    /\ t.mode = "verify" /\ t.pc = "ladder" => t.todo \subseteq watch.ids /\ watch.head < rev
    /\ t.mode = "orphans" => done < gen /\ (t.own => t.todo \cap watch.ids = {})
    /\ t.todo \cap t.uncommitted = {}
    /\ t.mode \in {"full", "verify"} /\ t.own /\ t.pc # "ladder" => watch.ids = t.uncommitted
TrackInv == \A p \in Process : Lone(p) => Tracks(pass[p])

LEMMA TracksGate ==
  ASSUME Types, CounterInv, NEW t, NEW own \in BOOLEAN, NEW g, NEW synced, Gates(t, own, g, synced),
         synced <=> stamp = [own |-> own, graph |-> g], Stamped => g = graph, t # Idle
  PROVE  Tracks(t)
<1>0. /\ done \in Nat /\ gen \in Nat /\ rev \in Nat /\ watch.head \in Nat
      /\ done <= gen /\ watch.head <= rev
  BY DEF Types, MetaType, CheckoutType, CounterInv
<1>1. CASE (~synced \/ volatile) /\ Started(t, "full", own, g, Entity)
  BY <1>1 DEF Started, Tracks
<1>2. CASE synced /\ ~volatile /\ gen # done
           /\ Started(t, "orphans", own, g, Entity \ (IF own THEN watch.ids ELSE {}))
  BY <1>0, <1>2 DEF Started, Tracks
<1>3. CASE synced /\ ~volatile /\ gen = done /\ VerifyDue(own) /\ Started(t, "verify", own, g, watch.ids)
  <2>1. own = TRUE /\ watch.head < rev
    BY <1>0, <1>3 DEF VerifyDue
  <2> QED BY <1>3, <2>1 DEF Started, Tracks
<1> QED BY <1>1, <1>2, <1>3 DEF Gates

LEMMA TracksRetry ==
  ASSUME Types, NEW t, NEW own \in BOOLEAN, Retries(t, own)
  PROVE  Tracks(t)
BY DEF Retries, Tracks, Synced

LEMMA TracksVerify ==
  ASSUME Types, CounterInv, NEW t, NEW g, Started(t, "verify", TRUE, g, watch.ids), VerifyDue(TRUE), ~volatile,
         stamp = [own |-> TRUE, graph |-> g]
  PROVE  Tracks(t)
<1>0. rev \in Nat /\ watch.head \in Nat /\ watch.head <= rev
  BY DEF Types, MetaType, CheckoutType, CounterInv
<1>1. watch.head < rev
  BY <1>0 DEF VerifyDue
<1> QED BY <1>1 DEF Started, Tracks, Stamped

(* A ladder only takes entities off its list. *)
LEMMA LadderTodo ==
  ASSUME Typing, Types, NEW p \in Process, InLadder(p)
  PROVE  /\ pass'[p].synced = pass[p].synced
         /\ \/ pass'[p].todo = pass[p].todo /\ pass'[p].uncommitted = pass[p].uncommitted
            \/ \E e \in Entity : /\ pass'[p].todo = pass[p].todo \ {e}
                                 /\ pass'[p].uncommitted \subseteq pass[p].uncommitted \cup {e}
<1>1. ASSUME NEW e \in Entity, NEW w, w \subseteq {e}, Over(p, e, w)
      PROVE  /\ pass'[p].synced = pass[p].synced /\ pass'[p].todo = pass[p].todo \ {e}
             /\ pass'[p].uncommitted \subseteq pass[p].uncommitted \cup {e}
  BY <1>1 DEF Over, Kept, Fields
<1>2. ASSUME Ends(p), visit[p].stage # "none"
      PROVE  /\ pass'[p].synced = pass[p].synced
             /\ \E e \in Entity : /\ pass'[p].todo = pass[p].todo \ {e}
                                  /\ pass'[p].uncommitted \subseteq pass[p].uncommitted \cup {e}
  <2>1. visit[p].entity \in Entity /\ {} \subseteq {visit[p].entity}
    BY <1>2, WorkFacts DEF TaskType
  <2>2. Over(p, visit[p].entity, {})
    BY <1>2 DEF Ends
  <2> QED BY <1>1, <2>1, <2>2
<1>3. ASSUME NEW e \in Entity, Visit(p, e) \/ Raise(p, e)
      PROVE  \/ pass'[p] = pass[p] \/ Over(p, e, {}) \/ Over(p, e, {e})
  BY <1>3, VisitIs, RaiseIs
<1>4. CASE \E e \in Entity : Visit(p, e) \/ Raise(p, e)
  <2> PICK e \in Entity : Visit(p, e) \/ Raise(p, e)
    BY <1>4
  <2>1. {} \subseteq {e} /\ {e} \subseteq {e}
    OBVIOUS
  <2>2. \/ pass'[p] = pass[p] \/ Over(p, e, {}) \/ Over(p, e, {e})
    BY <1>3
  <2> QED BY <1>1, <2>1, <2>2
<1>5. CASE \E r \in Record : WriteRow(p, r)
  BY <1>5, WriteRowIs DEF Kept, Fields
<1>6. CASE (\E r \in Record : WriteLeaf(p, r)) \/ WriteEntity(p) \/ MoveOn(p)
  <2>1. visit[p].stage # "none" /\ (Ends(p) \/ pass'[p] = pass[p])
    BY <1>6, WriteLeafIs, WriteEntityIs, MoveOnIs DEF Stays
  <2> QED BY <1>2, <2>1
<1> QED BY <1>4, <1>5, <1>6 DEF InLadder

LEMMA TrackLadder ==
  ASSUME Typing, Types, NEW p \in Process, InLadder(p), Tracks(pass[p])
  PROVE  Tracks(pass[p])'
<1>1. /\ pass[p].pc = "ladder" /\ pass'[p].pc = "ladder" /\ pass'[p].graph = pass[p].graph
      /\ pass'[p].own = pass[p].own /\ pass'[p].mode = pass[p].mode
      /\ UNCHANGED <<rev, graph, stamp, volatile, gen, done, watch>>
  BY InLadderIs DEF checkout, meta
<1>2. /\ pass'[p].todo \subseteq pass[p].todo /\ pass'[p].todo \cap pass'[p].uncommitted = {}
  <2>1. pass[p].todo \cap pass[p].uncommitted = {}
    BY DEF Tracks
  <2> QED BY <2>1, LadderTodo
<1> QED BY <1>1, <1>2 DEF Tracks, Stamped

LEMMA TrackGoes ==
  ASSUME Typing, Types, NEW p \in Process, Goes(p), Tracks(pass[p])
  PROVE  Tracks(pass[p])'
<1>1. /\ pass'[p].todo = {} /\ pass[p].pc # "retry" /\ pass'[p].pc # "retry" /\ pass'[p].pc # "ladder"
      /\ pass'[p].graph = pass[p].graph /\ pass'[p].own = pass[p].own /\ pass'[p].mode = pass[p].mode
      /\ pass'[p].uncommitted = pass[p].uncommitted
      /\ UNCHANGED <<rev, graph, gen, done>>
  BY GoesIs DEF Kept, Fields, checkout
<1>2. CASE RecordPendingMoves(p)
  <2>1. /\ pass[p].pc = "ladder" /\ pass'[p].pc \in {"finish", "reconcile"} /\ UNCHANGED <<stamp, volatile>>
        /\ watch' = IF pass[p].own /\ pass[p].mode # "orphans"
                    THEN [head |-> pass[p].head, ids |-> pass[p].uncommitted] ELSE watch
    BY <1>2, LadderDoneIs
  <2>2. pass[p].own /\ pass[p].mode # "orphans" => watch'.ids = pass[p].uncommitted
    BY <2>1
  <2> QED BY <1>1, <2>1, <2>2 DEF Tracks, Stamped
<1>3. CASE StampGraph(p)
  <2>1. /\ pass[p].pc = "finish" /\ pass[p].mode = "full" /\ pass'[p].pc = "clear"
        /\ stamp' = [own |-> pass[p].own, graph |-> pass[p].graph] /\ UNCHANGED <<volatile, watch>>
    BY <1>3, StampGraphIs
  <2>2. Stamped' => pass[p].graph = graph
    <3>1. stamp'.graph = pass[p].graph
      BY <2>1
    <3>2. stamp' = [own |-> TRUE, graph |-> graph'] => stamp'.graph = graph'
      OBVIOUS
    <3> QED BY <1>1, <3>1, <3>2 DEF Stamped
  <2> QED BY <1>1, <2>1, <2>2 DEF Tracks
<1>4. CASE ClearVolatile(p)
  <2>1. /\ pass[p].pc = "clear" /\ pass'[p].pc = "acknowledge" /\ volatile' = FALSE
        /\ UNCHANGED <<stamp, watch>> /\ pass[p].mode = "full"
    BY <1>4, ClearVolatileIs, WorkFacts DEF TaskShape
  <2>2. stamp = [own |-> pass[p].own, graph |-> pass[p].graph]
    BY <2>1 DEF Tracks
  <2>3. Stamped' => pass[p].graph = graph
    <3>1. stamp.graph = pass[p].graph
      BY <2>2
    <3>2. stamp' = [own |-> TRUE, graph |-> graph'] => stamp'.graph = graph'
      OBVIOUS
    <3> QED BY <1>1, <2>1, <3>1, <3>2 DEF Stamped
  <2> QED BY <1>1, <2>1, <2>2, <2>3 DEF Tracks
<1> QED BY <1>2, <1>3, <1>4 DEF Goes

LEMMA TrackRenews ==
  ASSUME Typing, Types, CounterInv, CounterInv', Types', NEW p \in Process, Renews(p), Lone(p)', Tracks(pass[p])
  PROVE  Tracks(pass[p])'
<1>0. pass'[p] # Idle /\ pass[p].own \in BOOLEAN /\ (pass[p].pc = "retry" => pass[p].synced \in BOOLEAN)
  BY WorkFacts DEF Lone, Running, Idle, TaskType
<1>1. CASE Remember(p)
  <2>1. UNCHANGED <<rev, graph, stamp, volatile, gen, done, watch, desc, seen>>
    BY <1>1, RememberIs DEF checkout, bindings
  <2>2. CASE pass[p].pc = "retry" /\ Gates(pass'[p], pass[p].own, pass[p].graph, pass[p].synced)
    <3>1. pass[p].synced <=> stamp = [own |-> pass[p].own, graph |-> pass[p].graph]
      BY <2>2 DEF Tracks
    <3>2. Stamped => pass[p].graph = graph
      BY DEF Tracks
    <3>3. Tracks(pass'[p])
      BY <1>0, <2>2, <3>1, <3>2, TracksGate
    <3> QED BY <2>1, <3>3 DEF Tracks, Stamped
  <2>3. CASE pass[p].pc = "remember" /\ Kept(p, {"pc", "failed"}) /\ pass'[p].pc = "finish"
    <3>1. /\ pass'[p].todo = {} /\ pass'[p].graph = pass[p].graph /\ pass'[p].own = pass[p].own
          /\ pass'[p].mode = pass[p].mode /\ pass'[p].uncommitted = pass[p].uncommitted
      BY <2>3, TaskKinds DEF Kept, Fields
    <3> QED BY <2>1, <2>3, <3>1 DEF Tracks, Stamped
  <2> QED BY <1>1, <2>2, <2>3, RememberIs
<1>2. CASE Acknowledge(p)
  <2>1. /\ pass[p].mode = "orphans" /\ VerifyDue(pass[p].own)
        /\ Started(pass'[p], "verify", TRUE, pass[p].graph, watch.ids)
        /\ UNCHANGED <<graph, stamp, volatile, gen, watch, rev>>
    BY <1>0, <1>2, AcknowledgeIs DEF checkout
  <2>2. pass[p].own = TRUE
    BY <1>0, <2>1 DEF VerifyDue
  <2>3. ~volatile /\ stamp = [own |-> TRUE, graph |-> pass[p].graph]
    BY <2>1, <2>2 DEF Tracks
  <2>4. VerifyDue(TRUE)
    BY <2>1, <2>2
  <2>5. Tracks(pass'[p])
    BY <2>1, <2>3, <2>4, TracksVerify
  <2>6. pass'[p].mode = "verify"
    BY <2>1 DEF Started
  <2> QED BY <2>1, <2>5, <2>6 DEF Tracks, Stamped
<1>3. CASE Refused(p) \/ VerifyEnds(p) \/ Crash(p)
  BY <1>0, <1>3, StopIs, CrashIs
<1> QED BY <1>1, <1>2, <1>3 DEF Renews

LEMMA TrackStep ==
  ASSUME Typing, Types, Types', ~Returns, Alone, VersionInv, CounterInv, CounterInv', TrackInv, [Next]_vars
  PROVE  TrackInv'
<1>1. ASSUME NEW p \in Process, Acts(p) PROVE TrackInv'
  <2> SUFFICES ASSUME Lone(p)', Lone(p) PROVE Tracks(pass[p])'
    BY <1>1, ActsIs, LoneActs DEF TrackInv
  <2>1. Tracks(pass[p])
    BY DEF TrackInv
  <2>2. CASE Settles(p)
    <3>1. /\ pass'[p].todo = {} /\ pass[p].pc \in {"retry", "reconcile"}
          /\ pass'[p].pc = pass[p].pc \/ pass'[p].pc \in {"remember", "finish"}
          /\ pass'[p].graph = pass[p].graph /\ pass'[p].own = pass[p].own /\ pass'[p].mode = pass[p].mode
          /\ pass'[p].uncommitted = pass[p].uncommitted /\ pass'[p].synced = pass[p].synced
          /\ UNCHANGED <<rev, graph, stamp, volatile, gen, done, watch>>
      BY <2>2, SettlesIs, TaskKinds DEF Kept, Fields, checkout, meta
    <3> QED BY <2>1, <3>1 DEF Tracks, Stamped
  <2> QED BY <1>1, <2>1, <2>2, TrackLadder, TrackGoes, TrackRenews DEF Acts
<1>2. ASSUME NEW p \in Process, NEW own \in Modes, Begin(p, own) PROVE TrackInv'
  <2>1. /\ \A q \in Process : Lone(q)' => q = p
        /\ Gates(pass'[p], own, graph, Synced(own)) \/ Retries(pass'[p], own)
        /\ UNCHANGED <<rev, graph, stamp, volatile, gen, done, watch>>
        /\ pass'[p] # Idle /\ own \in BOOLEAN
    BY <1>2, BeginIs, LoneBegins DEF meta, checkout
  <2>2. ASSUME Gates(pass'[p], own, graph, Synced(own)) PROVE Tracks(pass'[p])
    <3>1. Synced(own) <=> stamp = [own |-> own, graph |-> graph]
      BY DEF Synced
    <3> QED BY <2>1, <2>2, <3>1, TracksGate
  <2>3. Tracks(pass'[p])
    BY <2>1, <2>2, TracksRetry
  <2>4. Tracks(pass[p])'
    BY <2>1, <2>3 DEF Tracks, Stamped
  <2> QED BY <2>1, <2>4 DEF TrackInv
<1>3. CASE Environment \/ UNCHANGED vars
  <2> SUFFICES ASSUME NEW p \in Process, Lone(p)' PROVE Tracks(pass[p])'
    BY DEF TrackInv
  <2>1. /\ Lone(p) /\ ~Reload /\ pass' = pass
    BY <1>3, LoneEnvironment, EnvironmentIs DEF work
  <2>2. /\ Tracks(pass[p]) /\ p \in Running
    BY <2>1 DEF TrackInv, Lone
  <2>3. /\ UNCHANGED <<stamp, volatile, done, watch>> /\ gen' \in {gen, gen + 1} /\ rev' \in {rev, rev + 1}
    BY <1>3, <2>1 DEF Environment, Edit, Commit, Build, CaptureBlind, Capture, vars, meta, checkout
  <2>4. Stamped' => graph' = graph /\ Stamped
    <3>1. CASE Build
      <4>1. ~volatile => stamp.graph # graph'
        BY <3>1, Fresh
      <4>2. stamp' = [own |-> TRUE, graph |-> graph'] => stamp'.graph = graph'
        OBVIOUS
      <4> QED BY <2>3, <4>1, <4>2 DEF Stamped
    <3>2. CASE ~Build
      <4>1. graph' = graph
        BY <1>3, <2>1, <3>2 DEF Environment, Edit, Commit, CaptureBlind, Capture, vars
      <4> QED BY <2>3, <4>1 DEF Stamped
    <3> QED BY <3>1, <3>2
  <2>5. done \in Nat /\ gen \in Nat /\ rev \in Nat /\ watch.head \in Nat
    BY DEF Types, MetaType, CheckoutType
  <2>6. (done < gen => done' < gen') /\ (watch.head < rev => watch'.head < rev')
    BY <2>3, <2>5
  <2> QED BY <2>1, <2>2, <2>3, <2>4, <2>6 DEF Tracks
<1> QED BY <1>1, <1>2, <1>3, StepsByKind

-----------------------------------------------------------------------------
(* What a leaf may say *)

(* The status l fits an entity e that is described at d: it says what the graph
   says, and it is not taken for live where only another file has e. *)
Fine(l, e, d, g) ==
    LET exact == Exact(e, d, g).status IN
    /\ l # "none" => /\ exact = "resolved"  => l = "live"
                     /\ exact = "ambiguous" => l = "degraded"
                     /\ Hits(e, g) = {} => l = "orphaned"
    /\ exact = "unresolved" /\ Loose(e, g).status = "resolved" => l \in {"none", "orphaned"}

Pends(e, d, g) == Exact(e, d, g).status = "unresolved" /\ Hits(e, g) # {}

(* A leaf is fine, or a rebind of it is owed. *)
Rests(r, e, owes) ==
    Fine(leaf[r][e], e, desc[e], graph) \/ (leaf[r][e] = "orphaned" /\ owes)

LEMMA FineNone == ASSUME NEW e, NEW d, NEW g PROVE Fine("none", e, d, g)
BY DEF Fine

LEMMA FineAgrees ==
  ASSUME NEW r, NEW e, Fine(leaf[r][e], e, desc[e], graph)
  PROVE  Agrees(r, e)
BY DEF Fine, Agrees

LEMMA FinePlanned ==
  ASSUME NEW e, NEW g, NEW own, NEW v, PlanHolds(e, g, own, v), NEW l \in {"none", v.status}
  PROVE  Fine(l, e, v.desc, g)
BY DEF PlanHolds, Fine

LEMMA FinePending ==
  ASSUME NEW e, NEW d, NEW g, Pends(e, d, g)
  PROVE  Fine("orphaned", e, d, g)
BY DEF Fine, Pends

LEMMA FineCaptured ==
  ASSUME NEW e, NEW d, NEW g, NEW l,
         l = CASE Exact(e, d, g).status = "resolved" -> "live"
               [] Exact(e, d, g).status = "unresolved" -> "orphaned"
               [] OTHER -> "none"
  PROVE  Fine(l, e, d, g)
<1>1. CASE Exact(e, d, g).status = "resolved"
  <2>1. l = "live" /\ Hits(e, g) # {}
    BY <1>1, ExactAnswer
  <2> QED BY <1>1, <2>1 DEF Fine
<1>2. CASE Exact(e, d, g).status = "unresolved"
  BY <1>2 DEF Fine
<1>3. CASE Exact(e, d, g).status = "ambiguous"
  BY <1>3 DEF Fine
<1> QED BY <1>1, <1>2, <1>3, ExactAnswer

-----------------------------------------------------------------------------
(* What is settled *)

Trusted == Stamped /\ ~crossed

Watched(e) ==
    /\ Exact(e, desc[e], graph).status # "ambiguous" /\ Hits(e, graph) # {}
    /\ watch.head = rev => Pends(e, desc[e], graph)
WatchInv == Trusted => \A e \in watch.ids : Watched(e)

LeafInv ==
    Trusted => \A r \in Record, e \in Entity \ (raised \cup watch.ids) : Rests(r, e, gen # done)

(* The leaves that a visit has behind it. *)
Behind(p) ==
    visit[p].stage = "leaves" \/ visit[p].status = "degraded" =>
      \A r \in Record : (visit[p].stage = "leaves" => r \notin visit[p].list)
                           => Rests(r, visit[p].entity, gen # pass[p].gen)

(* The entities that a pass has behind it, but for those it leaves to another. *)
Spared(p)   == IF pass[p].mode = "orphans" THEN watch.ids ELSE pass[p].uncommitted
PassOwes(p) == gen # IF pass[p].mode = "verify" THEN done ELSE pass[p].gen
Visited(p) ==
    /\ \A e \in pass[p].uncommitted : Pends(e, desc[e], graph)
    /\ \A r \in Record, e \in Entity \ (pass[p].todo \cup raised \cup Spared(p)) :
          Rests(r, e, PassOwes(p))
Claims(p) ==
    pass[p].own = TRUE /\ pass[p].graph = graph /\ pass[p].mode # "none" /\ (pass[p].mode = "full" \/ ~crossed)

RestInv ==
    \A p \in Process : Lone(p) => /\ pass[p].graph = graph => Behind(p)
                                  /\ Claims(p) => Visited(p)
SettledInv == WatchInv /\ LeafInv /\ RestInv

(* What the environment does to leaves while the graph stays. *)
LEMMA EnvironmentLeaves ==
  ASSUME Typing, Types, Environment \/ UNCHANGED vars, ~Reload, ~Build,
         NEW r \in Record, NEW e \in Entity
  PROVE  /\ gen' \in {gen, gen + 1}
         /\ \/ leaf'[r][e] = leaf[r][e]
            \/ leaf'[r][e] = "orphaned" /\ gen' = gen + 1
            \/ Fine(leaf'[r][e], e, desc[e], graph)
<1>0. leaf \in [Record -> [Entity -> Status]]
  BY DEF Types, BoundType
<1>1. CASE \E q \in Record, f \in Entity : CaptureBlind(q, f)
  BY <1>0, <1>1 DEF CaptureBlind
<1>2. CASE \E q \in Record, f \in Entity, covered \in Covered : Capture(q, f, covered)
  <2> PICK q \in Record, f \in Entity, covered \in Covered : Capture(q, f, covered)
    BY <1>2
  <2> DEFINE s == CASE Exact(f, desc[f], graph).status = "resolved" -> "live"
                    [] Exact(f, desc[f], graph).status = "unresolved" -> "orphaned"
                    [] OTHER -> "none"
  <2>1. leaf' = [leaf EXCEPT ![q][f] = s] /\ gen' = gen
    BY DEF Capture, meta
  <2>2. Fine(s, f, desc[f], graph)
    BY FineCaptured
  <2> HIDE DEF s
  <2>3. CASE r = q /\ e = f
    BY <1>0, <2>1, <2>2, <2>3
  <2>4. CASE ~(r = q /\ e = f)
    BY <1>0, <2>1, <2>4
  <2> QED BY <2>3, <2>4
<1>3. CASE Edit \/ (\E S \in SUBSET Path : Commit(S)) \/ UNCHANGED vars
  BY <1>3 DEF Edit, Commit, vars, bindings, meta
<1> QED BY <1>1, <1>2, <1>3 DEF Environment

LEMMA RestsOn ==
  ASSUME Typing, Types, Environment \/ UNCHANGED vars, ~Reload, ~Build, NEW r \in Record, NEW e \in Entity,
         NEW x \in Nat, x <= gen, Rests(r, e, gen # x)
  PROVE  Fine(leaf'[r][e], e, desc'[e], graph') \/ (leaf'[r][e] = "orphaned" /\ gen' # x)
<1>1. desc' = desc
  BY EnvironmentIs
<1>2. graph' = graph
  BY DEF Environment, Edit, Commit, CaptureBlind, Capture, vars
<1>3. gen \in Nat
  BY DEF Types, MetaType
<1> QED BY <1>1, <1>2, <1>3, EnvironmentLeaves DEF Rests

LEMMA SettledEnvironment ==
  ASSUME Typing, Types, ~Returns, Alone, VersionInv, CounterInv, SettledInv, Environment \/ UNCHANGED vars
  PROVE  SettledInv'
<1>1. CASE Reload
  <2>1. ~Trusted' /\ \A p \in Process : ~Lone(p)'
    BY <1>1, LoneEnvironment DEF Trusted, Stamped, Reload
  <2> QED BY <2>1 DEF SettledInv, WatchInv, LeafInv, RestInv
<1>2. CASE Build
  <2>1. stamp' = stamp /\ volatile' = volatile /\ pass' = pass
    BY <1>2 DEF Build, meta, work
  <2>2. ~Stamped'
    <3>1. stamp' = [own |-> TRUE, graph |-> graph'] => stamp'.graph = graph'
      OBVIOUS
    <3> QED BY <1>2, <2>1, <3>1, Fresh DEF Stamped
  <2>3. \A p \in Process : Lone(p)' => pass'[p].graph # graph'
    BY <1>2, <2>1, Fresh DEF Lone, Running
  <2>4. \A p \in Process : Lone(p)' => ~Claims(p)'
    BY <2>3 DEF Claims
  <2> QED BY <2>2, <2>3, <2>4 DEF SettledInv, WatchInv, LeafInv, RestInv, Trusted
<1>3. CASE ~Reload /\ ~Build
  <2>1. /\ UNCHANGED <<pass, visit, desc, raised, crossed, stamp, volatile, done, watch, graph>>
        /\ rev' \in {rev, rev + 1}
    <3>1. UNCHANGED <<pass, visit, desc, raised, crossed>>
      BY <1>3, EnvironmentIs DEF work
    <3>2. UNCHANGED <<stamp, volatile, done, watch, graph>> /\ rev' \in {rev, rev + 1}
      BY <1>3 DEF Environment, Edit, Commit, CaptureBlind, Capture, vars, meta, checkout
    <3> QED BY <3>1, <3>2
  <2>2. /\ done \in Nat /\ gen \in Nat /\ done <= gen /\ rev \in Nat /\ watch.head \in Nat /\ watch.head <= rev
        /\ \A p \in Process : pass[p].gen \in Nat /\ pass[p].gen <= gen
    BY WorkFacts DEF Types, MetaType, CheckoutType, TaskType, CounterInv
  <2>3. WatchInv'
    <3>1. watch'.head = rev' => watch.head = rev
      BY <2>1, <2>2
    <3> QED BY <2>1, <3>1 DEF SettledInv, WatchInv, Watched, Trusted, Stamped
  <2>4. LeafInv'
    <3> SUFFICES ASSUME Trusted, NEW r \in Record, NEW e \in Entity \ (raised \cup watch.ids)
                 PROVE  Rests(r, e, gen # done)'
      BY <2>1 DEF LeafInv, Trusted, Stamped
    <3>1. Rests(r, e, gen # done)
      BY DEF SettledInv, LeafInv
    <3>2. Fine(leaf'[r][e], e, desc'[e], graph') \/ (leaf'[r][e] = "orphaned" /\ gen' # done)
      BY <1>3, <2>2, <3>1, RestsOn
    <3> QED BY <2>1, <3>2 DEF Rests
  <2>5. ASSUME NEW p \in Process, Lone(p)', pass'[p].graph = graph' PROVE Behind(p)'
    <3> SUFFICES ASSUME visit[p].stage = "leaves" \/ visit[p].status = "degraded", NEW r \in Record,
                        visit[p].stage = "leaves" => r \notin visit[p].list
                 PROVE  Rests(r, visit[p].entity, gen # pass[p].gen)'
      BY <2>1 DEF Behind
    <3>1. Lone(p) /\ Behind(p)
      BY <2>1, <2>5, LoneEnvironment DEF SettledInv, RestInv
    <3>2. visit[p].entity \in Entity
      <4>1. visit[p].stage # "none"
        BY WorkFacts DEF TripType, NoVisit
      <4> QED BY <4>1, WorkFacts DEF TaskType
    <3>3. Rests(r, visit[p].entity, gen # pass[p].gen)
      BY <3>1 DEF Behind
    <3>4. \/ Fine(leaf'[r][visit[p].entity], visit[p].entity, desc'[visit[p].entity], graph')
          \/ (leaf'[r][visit[p].entity] = "orphaned" /\ gen' # pass[p].gen)
      BY <1>3, <2>2, <3>2, <3>3, RestsOn
    <3> QED BY <2>1, <3>4 DEF Rests
  <2>6. ASSUME NEW p \in Process, Lone(p)', Claims(p)' PROVE Visited(p)'
    <3>1. Visited(p)
      BY <2>1, <2>6, LoneEnvironment DEF SettledInv, RestInv, Claims
    <3>2. \A e \in pass'[p].uncommitted : Pends(e, desc[e], graph)'
      BY <2>1, <3>1 DEF Visited
    <3>3. ASSUME NEW r \in Record, NEW e \in Entity \ (pass[p].todo \cup raised \cup Spared(p))
          PROVE  Rests(r, e, PassOwes(p))'
      <4> DEFINE x == IF pass[p].mode = "verify" THEN done ELSE pass[p].gen
      <4>1. x \in Nat /\ x <= gen
        BY <2>2
      <4>2. Rests(r, e, gen # x)
        BY <3>1 DEF Visited, PassOwes
      <4> HIDE DEF x
      <4>3. Fine(leaf'[r][e], e, desc'[e], graph') \/ (leaf'[r][e] = "orphaned" /\ gen' # x)
        BY <1>3, <4>1, <4>2, RestsOn
      <4> QED BY <2>1, <4>3 DEF Rests, PassOwes, x
    <3> QED BY <2>1, <3>2, <3>3 DEF Visited, Spared
  <2> QED BY <2>3, <2>4, <2>5, <2>6 DEF SettledInv, RestInv
<1> QED BY <1>1, <1>2, <1>3

(* A pass that the gate admits has nothing behind it but what was settled. *)
LEMMA VisitedAnew ==
  ASSUME Types, SettledInv, NEW p \in Process, NEW own, NEW g, NEW synced,
         Gates(pass'[p], own, g, synced), synced => stamp = [own |-> own, graph |-> g],
         UNCHANGED <<graph, desc, leaf, raised, stamp, volatile, gen, done, watch>>,
         crossed' = crossed, Claims(p)'
  PROVE  Visited(p)'
<1>0. pass'[p].own = TRUE /\ pass'[p].graph = graph /\ (pass'[p].mode = "full" \/ ~crossed)
  BY DEF Claims
<1>1. CASE Started(pass'[p], "full", own, g, Entity)
  BY <1>1 DEF Visited, Started
<1>2. CASE gen # done /\ Started(pass'[p], "orphans", own, g, Entity \ (IF own THEN watch.ids ELSE {}))
  <2>1. own = TRUE /\ pass'[p].todo = Entity \ watch.ids /\ pass'[p].uncommitted = {} /\ pass'[p].mode = "orphans"
    BY <1>0, <1>2 DEF Started
  <2> QED BY <2>1 DEF Visited, Spared
<1>3. CASE synced /\ ~volatile /\ Started(pass'[p], "verify", own, g, watch.ids)
  <2>1. own = TRUE /\ g = graph /\ pass'[p].todo = watch.ids /\ pass'[p].uncommitted = {} /\ pass'[p].mode = "verify"
    BY <1>0, <1>3 DEF Started
  <2>2. Trusted
    BY <1>0, <1>3, <2>1 DEF Trusted, Stamped
  <2>3. \A r \in Record, e \in Entity \ (raised \cup watch.ids) : Rests(r, e, gen # done)
    BY <2>2 DEF SettledInv, LeafInv
  <2>4. \A r \in Record, e \in Entity \ (raised \cup watch.ids) : Rests(r, e, PassOwes(p))'
    BY <2>1, <2>3 DEF Rests, PassOwes
  <2> QED BY <2>1, <2>4 DEF Visited
<1>4. Idle.mode = "none"
  BY DEF Idle
<1> QED BY <1>1, <1>2, <1>3, <1>4 DEF Gates, Claims

LEMMA SettledBegin ==
  ASSUME Typing, Types, Alone, SettledInv, NEW p \in Process, NEW own \in Modes, Begin(p, own)
  PROVE  SettledInv'
<1>1. /\ pass[p].pc = "idle" /\ visit'[p] = visit[p] /\ (crossed' = crossed \/ crossed' = TRUE)
      /\ UNCHANGED <<rev, graph, desc, leaf, raised, stamp, volatile, gen, done, watch>>
      /\ Gates(pass'[p], own, graph, Synced(own)) \/ Retries(pass'[p], own)
  BY BeginIs DEF bindings, meta, checkout
<1>2. \A q \in Process : Lone(q)' => q = p /\ crossed' = crossed
  BY LoneBegins
<1>3. WatchInv'
  BY <1>1 DEF SettledInv, WatchInv, Watched, Trusted, Stamped
<1>4. LeafInv'
  BY <1>1 DEF SettledInv, LeafInv, Rests, Trusted, Stamped
<1>5. Behind(p)'
  <2>1. visit[p] = NoVisit
    BY <1>1, WorkFacts DEF TripType
  <2> QED BY <1>1, <2>1 DEF Behind, NoVisit
<1>6. ASSUME crossed' = crossed, Claims(p)' PROVE Visited(p)'
  <2>1. CASE Retries(pass'[p], own)
    BY <1>6, <2>1 DEF Retries, Claims
  <2>2. CASE Gates(pass'[p], own, graph, Synced(own))
    <3>1. Synced(own) => stamp = [own |-> own, graph |-> graph]
      BY DEF Synced
    <3> QED BY <1>1, <1>6, <2>2, <3>1, VisitedAnew
  <2> QED BY <1>1, <2>1, <2>2
<1> QED BY <1>2, <1>3, <1>4, <1>5, <1>6 DEF SettledInv, RestInv

(* What a step of a lone pass has to keep. *)
LEMMA SettledActs ==
  ASSUME Typing, Types, Alone, CrossInv, SettledInv, NEW p \in Process, Acts(p),
         Lone(p) => WatchInv' /\ LeafInv',
         Lone(p) /\ Lone(p)' /\ pass'[p].graph = graph' => Behind(p)',
         Lone(p) /\ Lone(p)' /\ Claims(p)' => Visited(p)'
  PROVE  SettledInv'
<1>1. Only(p) /\ p \in Running /\ beside' = beside
  BY ActsIs
<1>2. \A q \in Process : Lone(q)' => q = p /\ Lone(p)
  BY <1>1, LoneActs
<1>3. CASE Lone(p)
  BY <1>2, <1>3 DEF SettledInv, RestInv
<1>4. CASE ~Lone(p)
  <2>1. p \in beside /\ crossed
    BY <1>1, <1>4 DEF Lone, CrossInv
  <2>2. crossed'
    BY <2>1, CrossActs
  <2> QED BY <1>2, <1>4, <2>2 DEF SettledInv, RestInv, WatchInv, LeafInv, Trusted
<1> QED BY <1>3, <1>4

LEMMA SettledSettles ==
  ASSUME Typing, Types, Alone, CrossInv, SettledInv, NEW p \in Process, Settles(p)
  PROVE  SettledInv'
<1>1. /\ visit'[p] = visit[p] /\ pass'[p].own = pass[p].own /\ pass'[p].graph = pass[p].graph
      /\ pass'[p].mode = pass[p].mode /\ pass'[p].gen = pass[p].gen /\ pass'[p].todo = pass[p].todo
      /\ pass'[p].uncommitted = pass[p].uncommitted
      /\ UNCHANGED <<rev, graph, desc, leaf, raised, stamp, volatile, gen, done, watch, crossed>>
  BY SettlesIs DEF Kept, Fields, checkout, meta
<1>2. WatchInv' /\ LeafInv'
  BY <1>1 DEF SettledInv, WatchInv, Watched, LeafInv, Rests, Trusted, Stamped
<1>3. ASSUME Lone(p), pass'[p].graph = graph' PROVE Behind(p)'
  <2>1. Behind(p)
    BY <1>1, <1>3 DEF SettledInv, RestInv
  <2>2. \A r \in Record : Rests(r, visit[p].entity, gen # pass[p].gen)
                              => Rests(r, visit[p].entity, gen # pass[p].gen)'
    BY <1>1 DEF Rests
  <2> QED BY <1>1, <2>1, <2>2 DEF Behind
<1>4. ASSUME Lone(p), Claims(p)' PROVE Visited(p)'
  <2>1. Visited(p)
    BY <1>1, <1>4 DEF SettledInv, RestInv, Claims
  <2> QED BY <1>1, <2>1 DEF Visited, Rests, PassOwes, Spared
<1> QED BY <1>2, <1>3, <1>4, SettledActs DEF Acts

(* A full pass that is alone and through its ladder has settled everything. *)
LEMMA FullSettles ==
  ASSUME Types, CounterInv, TrackInv, SettledInv, NEW p \in Process, Lone(p), pass[p].mode = "full",
         pass[p].pc # "ladder", pass[p].own = TRUE, pass[p].graph = graph
  PROVE  /\ \A e \in watch.ids : Watched(e)
         /\ \A r \in Record, e \in Entity \ (raised \cup watch.ids) : Rests(r, e, gen # done)
<1>1. watch.ids = pass[p].uncommitted /\ pass[p].todo = {}
  BY TaskKinds DEF TrackInv, Tracks
<1>2. Visited(p)
  BY DEF SettledInv, RestInv, Claims
<1>3. gen # pass[p].gen => gen # done
  <2>1. done \in Nat /\ gen \in Nat /\ pass[p].gen \in Nat /\ done <= pass[p].gen /\ pass[p].gen <= gen
    BY WorkFacts DEF Types, MetaType, TaskType, CounterInv
  <2> QED BY <2>1
<1>4. \A e \in watch.ids : Watched(e)
  BY <1>1, <1>2 DEF Visited, Watched, Pends
<1>5. \A r \in Record, e \in Entity \ (raised \cup watch.ids) : Rests(r, e, gen # pass[p].gen)
  BY <1>1, <1>2 DEF Visited, Spared, PassOwes
<1> QED BY <1>3, <1>4, <1>5 DEF Rests

LEMMA SettledGoes ==
  ASSUME Typing, Types, Alone, CrossInv, CounterInv, TrackInv, SettledInv, NEW p \in Process, Goes(p)
  PROVE  SettledInv'
<1>1. /\ visit'[p] = visit[p] /\ pass'[p].own = pass[p].own /\ pass'[p].graph = pass[p].graph
      /\ pass'[p].mode = pass[p].mode /\ pass'[p].gen = pass[p].gen /\ pass'[p].todo = pass[p].todo
      /\ pass'[p].uncommitted = pass[p].uncommitted /\ pass[p].todo = {}
      /\ UNCHANGED <<rev, graph, desc, leaf, raised, gen, done>>
  BY GoesIs DEF Kept, Fields, checkout, bindings
<1>2. Lone(p) /\ pass'[p].graph = graph' => Behind(p)'
  <2>1. visit[p] = NoVisit
    BY <1>1, WorkFacts DEF TripType
  <2> QED BY <1>1, <2>1 DEF Behind, NoVisit
<1>3. CASE RecordPendingMoves(p)
  <2>1. /\ pass[p].pc = "ladder" /\ UNCHANGED <<stamp, volatile, crossed>>
        /\ watch' = IF pass[p].own /\ pass[p].mode # "orphans"
                    THEN [head |-> pass[p].head, ids |-> pass[p].uncommitted] ELSE watch
    BY <1>3, LadderDoneIs DEF history
  <2>2. Spared(p)' = Spared(p)
    BY <1>1, <2>1 DEF Spared
  <2>3. ASSUME Lone(p), Claims(p)' PROVE Visited(p)'
    <3>1. Visited(p)
      BY <1>1, <2>1, <2>3 DEF SettledInv, RestInv, Claims
    <3> QED BY <1>1, <2>2, <3>1 DEF Visited, Rests, PassOwes
  <2>4. ASSUME Lone(p), Trusted PROVE (\A e \in watch'.ids : Watched(e)') /\ LeafInv'
    <3>1. Tracks(pass[p])
      BY <2>4 DEF TrackInv
    <3>2. CASE ~(pass[p].own /\ pass[p].mode # "orphans")
      <4>1. watch' = watch
        BY <2>1, <3>2
      <4> QED BY <1>1, <2>1, <2>4, <4>1 DEF SettledInv, WatchInv, Watched, LeafInv, Rests, Trusted, Stamped
    <3>3. CASE pass[p].own /\ pass[p].mode # "orphans"
      <4>1. pass[p].own = TRUE /\ pass[p].graph = graph
        BY <2>4, <3>1, <3>3, WorkFacts DEF TaskType, Tracks, Trusted
      <4>2. pass[p].mode = "verify"
        BY <2>1, <2>4, <3>1, <3>3, <4>1, WorkFacts DEF TaskType, TaskShape, Tracks, Trusted, Stamped
      <4>3. Visited(p)
        BY <2>4, <4>1, <4>2 DEF SettledInv, RestInv, Claims, Trusted
      <4>4. watch'.ids = pass[p].uncommitted
        BY <2>1, <3>3
      <4>5. \A e \in watch'.ids : Watched(e)'
        BY <1>1, <4>3, <4>4 DEF Visited, Watched, Pends
      <4>6. \A r \in Record, e \in Entity \ (raised \cup watch'.ids) : Rests(r, e, gen # done)
        BY <1>1, <4>2, <4>3, <4>4 DEF Visited, Spared, PassOwes
      <4> QED BY <1>1, <4>5, <4>6 DEF LeafInv, Rests
    <3> QED BY <3>2, <3>3
  <2>5. Trusted' => Trusted
    BY <1>1, <2>1 DEF Trusted, Stamped
  <2>6. Lone(p) => WatchInv' /\ LeafInv'
    BY <2>4, <2>5 DEF WatchInv, LeafInv
  <2> QED BY <1>2, <1>3, <2>3, <2>6, SettledActs DEF Acts, Goes
<1>4. CASE StampGraph(p) \/ ClearVolatile(p)
  <2>1. /\ pass[p].mode = "full" /\ pass[p].pc \in {"finish", "clear"} /\ watch' = watch
        /\ crossed' = crossed \/ crossed' = (crossed /\ p \in beside)
        /\ stamp' = [own |-> pass[p].own, graph |-> pass[p].graph] \/ (stamp' = stamp /\ pass[p].pc = "clear")
    BY <1>4, StampGraphIs, ClearVolatileIs, WorkFacts DEF TaskShape, history
  <2>2. ASSUME Lone(p), Trusted' PROVE pass[p].own = TRUE /\ pass[p].graph = graph
    <3>1. stamp' = [own |-> pass[p].own, graph |-> pass[p].graph]
      BY <2>1, <2>2 DEF TrackInv, Tracks
    <3>2. stamp' = [own |-> TRUE, graph |-> graph]
      BY <1>1, <2>2 DEF Trusted, Stamped
    <3>3. stamp'.own = pass[p].own /\ stamp'.graph = pass[p].graph
      BY ONLY <3>1
    <3>4. stamp'.own = TRUE /\ stamp'.graph = graph
      BY ONLY <3>2
    <3> QED BY <3>3, <3>4
  <2>3. ASSUME Lone(p) PROVE WatchInv' /\ LeafInv'
    <3> SUFFICES ASSUME Trusted' PROVE (\A e \in watch'.ids : Watched(e)')
                    /\ (\A r \in Record, e \in Entity \ (raised' \cup watch'.ids) : Rests(r, e, gen # done)')
      BY DEF WatchInv, LeafInv
    <3>1. /\ \A e \in watch.ids : Watched(e)
          /\ \A r \in Record, e \in Entity \ (raised \cup watch.ids) : Rests(r, e, gen # done)
      BY <2>1, <2>2, <2>3, FullSettles
    <3> QED BY <1>1, <2>1, <3>1 DEF Watched, Rests
  <2>4. ASSUME Lone(p), Claims(p)' PROVE Visited(p)'
    <3>1. Visited(p)
      BY <1>1, <2>1, <2>4 DEF SettledInv, RestInv, Claims
    <3> QED BY <1>1, <2>1, <3>1 DEF Visited, Rests, PassOwes, Spared
  <2> QED BY <1>2, <1>4, <2>3, <2>4, SettledActs DEF Acts, Goes
<1> QED BY <1>3, <1>4 DEF Goes

LEMMA SettledRenews ==
  ASSUME Typing, Types, Alone, CrossInv, CounterInv, TrackInv, SettledInv, NEW p \in Process, Renews(p)
  PROVE  SettledInv'
<1>1. /\ UNCHANGED <<graph, desc, leaf, raised, crossed, rev>> /\ visit'[p] = NoVisit
  BY RenewsIs DEF bindings, checkout
<1>2. Behind(p)'
  BY <1>1 DEF Behind, NoVisit
<1>3. ASSUME UNCHANGED <<stamp, volatile, gen, done, watch>> PROVE WatchInv' /\ LeafInv'
  BY <1>1, <1>3 DEF SettledInv, WatchInv, Watched, LeafInv, Rests, Trusted, Stamped
<1>4. CASE Remember(p)
  <2>1. UNCHANGED <<stamp, volatile, gen, done, watch>>
    BY <1>4, RememberIs
  <2>2. ASSUME Lone(p), Claims(p)' PROVE Visited(p)'
    <3>1. CASE pass[p].pc = "retry" /\ Gates(pass'[p], pass[p].own, pass[p].graph, pass[p].synced)
      <4>1. pass[p].synced => stamp = [own |-> pass[p].own, graph |-> pass[p].graph]
        BY <2>2, <3>1 DEF TrackInv, Tracks
      <4> QED BY <1>1, <2>1, <2>2, <3>1, <4>1, VisitedAnew
    <3>2. CASE Kept(p, {"pc", "failed"})
      <4>1. /\ pass'[p].own = pass[p].own /\ pass'[p].graph = pass[p].graph
            /\ pass'[p].mode = pass[p].mode /\ pass'[p].gen = pass[p].gen /\ pass'[p].todo = pass[p].todo
            /\ pass'[p].uncommitted = pass[p].uncommitted
        BY <3>2 DEF Kept, Fields
      <4>2. Visited(p)
        BY <1>1, <2>1, <2>2, <4>1 DEF SettledInv, RestInv, Claims
      <4> QED BY <1>1, <2>1, <4>1, <4>2 DEF Visited, Rests, PassOwes, Spared
    <3> QED BY <1>4, <3>1, <3>2, RememberIs
  <2> QED BY <1>2, <1>3, <1>4, <2>1, <2>2, SettledActs DEF Acts, Renews
<1>5. CASE Acknowledge(p)
  <2>1. /\ pass[p].pc = "acknowledge" \/ (pass[p].pc = "finish" /\ pass[p].mode = "orphans")
        /\ \/ /\ pass[p].mode = "orphans" /\ VerifyDue(pass[p].own)
              /\ Started(pass'[p], "verify", TRUE, pass[p].graph, watch.ids)
           \/ pass'[p] = Idle
        /\ done' = pass[p].gen /\ UNCHANGED <<stamp, volatile, gen, watch>>
    BY <1>5, AcknowledgeIs
  <2>2. pass[p].todo = {} /\ pass[p].mode \in {"full", "orphans"}
    BY <2>1, TaskKinds, WorkFacts DEF TaskShape
  <2>3. ASSUME Lone(p), Trusted PROVE LeafInv'
    <3>1. Tracks(pass[p])
      BY <2>3 DEF TrackInv
    <3>2. stamp = [own |-> pass[p].own, graph |-> pass[p].graph]
      BY <2>1, <3>1 DEF Tracks
    <3>3. stamp = [own |-> TRUE, graph |-> graph]
      BY <2>3 DEF Trusted, Stamped
    <3>4. stamp.own = pass[p].own /\ stamp.graph = pass[p].graph
      BY ONLY <3>2
    <3>5. stamp.own = TRUE /\ stamp.graph = graph
      BY ONLY <3>3
    <3>6. Visited(p)
      BY <2>2, <2>3, <3>4, <3>5 DEF SettledInv, RestInv, Claims, Trusted
    <3>7. Spared(p) = watch.ids
      BY <2>1, <2>2, <3>1, <3>4, <3>5 DEF Spared, Tracks
    <3>8. \A r \in Record, e \in Entity \ (raised \cup watch.ids) : Rests(r, e, gen # pass[p].gen)
      BY <2>2, <3>6, <3>7 DEF Visited, PassOwes
    <3> QED BY <1>1, <2>1, <3>8 DEF LeafInv, Rests
  <2>4. WatchInv' /\ (Trusted' => Trusted)
    BY <1>1, <2>1 DEF SettledInv, WatchInv, Watched, Trusted, Stamped
  <2>5. Lone(p) => LeafInv'
    BY <2>3, <2>4 DEF LeafInv
  <2>6. ASSUME Lone(p), Claims(p)' PROVE Visited(p)'
    <3>1. pass'[p] # Idle
      BY <2>6 DEF Claims, Idle
    <3>2. /\ pass[p].mode = "orphans" /\ VerifyDue(pass[p].own)
          /\ Started(pass'[p], "verify", TRUE, pass[p].graph, watch.ids)
      BY <2>1, <3>1
    <3>3. /\ pass'[p].todo = watch.ids /\ pass'[p].uncommitted = {} /\ pass'[p].mode = "verify"
          /\ pass[p].graph = graph /\ ~crossed
      BY <1>1, <2>6, <3>2 DEF Started, Claims
    <3>4. pass[p].own \in BOOLEAN /\ pass[p].own
      BY <3>2, WorkFacts DEF VerifyDue, TaskType
    <3>5. ~volatile /\ stamp = [own |-> pass[p].own, graph |-> pass[p].graph]
      BY <2>6, <3>2 DEF TrackInv, Tracks
    <3>6. Trusted'
      BY <1>1, <2>1, <3>3, <3>4, <3>5 DEF Trusted, Stamped
    <3>7. \A r \in Record, e \in Entity \ (raised' \cup watch'.ids) : Rests(r, e, gen # done)'
      BY <2>5, <2>6, <3>6 DEF LeafInv
    <3> QED BY <2>1, <3>3, <3>7 DEF Visited, Rests, PassOwes
  <2> QED BY <1>2, <1>5, <2>4, <2>5, <2>6, SettledActs DEF Acts, Renews
<1>6. CASE Refused(p) \/ VerifyEnds(p) \/ Crash(p)
  <2>1. pass'[p] = Idle /\ UNCHANGED <<stamp, volatile, gen, done, watch>>
    BY <1>6, StopIs, CrashIs DEF meta
  <2>2. ~Claims(p)'
    BY <2>1 DEF Claims, Idle
  <2> QED BY <1>2, <1>3, <1>6, <2>1, <2>2, SettledActs DEF Acts, Renews
<1> QED BY <1>4, <1>5, <1>6 DEF Renews

(* A visit that leaves everything as it is but for its own course. *)
LEMMA SettledQuietly ==
  ASSUME Typing, Types, Alone, CrossInv, SettledInv, NEW p \in Process, InLadder(p),
         UNCHANGED <<desc, leaf, raised>>, pass'[p].todo = pass[p].todo,
         pass'[p].uncommitted = pass[p].uncommitted,
         Lone(p) /\ pass[p].graph = graph => Behind(p)'
  PROVE  SettledInv'
<1>1. /\ pass'[p].graph = pass[p].graph /\ pass'[p].own = pass[p].own
      /\ pass'[p].mode = pass[p].mode /\ pass'[p].gen = pass[p].gen
      /\ UNCHANGED <<graph, crossed, rev, stamp, volatile, gen, done, watch>>
  BY InLadderIs DEF meta, checkout
<1>2. WatchInv' /\ LeafInv'
  BY <1>1 DEF SettledInv, WatchInv, Watched, LeafInv, Rests, Trusted, Stamped
<1>3. ASSUME Lone(p), Claims(p)' PROVE Visited(p)'
  <2>1. Visited(p)
    BY <1>1, <1>3 DEF SettledInv, RestInv, Claims
  <2> QED BY <1>1, <2>1 DEF Visited, Rests, PassOwes, Spared
<1> QED BY <1>1, <1>2, <1>3, SettledActs DEF Acts

(* A visit that ends, with every leaf of its entity at rest. *)
LEMMA SettledEnds ==
  ASSUME Typing, Types, Alone, CrossInv, CounterInv, TrackInv, SettledInv, NEW p \in Process, InLadder(p), Ends(p),
         NEW e \in Entity, visit[p].entity = e, desc' = desc,
         \A r \in Record, f \in Entity \ {e} : leaf'[r][f] = leaf[r][f],
         Lone(p) /\ pass[p].graph = graph => \A r \in Record : Rests(r, e, gen # pass[p].gen)'
  PROVE  SettledInv'
<1>1. /\ pass'[p].graph = pass[p].graph /\ pass'[p].own = pass[p].own
      /\ pass'[p].mode = pass[p].mode /\ pass'[p].gen = pass[p].gen
      /\ UNCHANGED <<graph, crossed, rev, stamp, volatile, gen, done, watch>>
  BY InLadderIs DEF meta, checkout
<1>2. /\ visit'[p] = NoVisit /\ raised' = raised \ {e} /\ pass'[p].todo = pass[p].todo \ {e}
      /\ pass'[p].uncommitted = pass[p].uncommitted
  BY DEF Ends, Over
<1>4. ASSUME Lone(p), pass[p].graph = graph, NEW r \in Record
      PROVE  Rests(r, e, gen # pass[p].gen)' /\ Rests(r, e, gen # done)' /\ Rests(r, e, PassOwes(p))'
  <2>1. Rests(r, e, gen # pass[p].gen)'
    BY <1>4
  <2>2. gen # pass[p].gen => gen # done
    <3>1. pass[p].mode # "none"
      BY InLadderIs, TaskKinds
    <3>2. done \in Nat /\ gen \in Nat /\ pass[p].gen \in Nat /\ done <= pass[p].gen /\ pass[p].gen <= gen
      BY <1>4, <3>1, WorkFacts DEF Types, MetaType, TaskType, CounterInv
    <3> QED BY <3>2
  <2> QED BY <1>1, <2>1, <2>2 DEF Rests, PassOwes
<1>5. ASSUME NEW r \in Record, NEW f \in Entity, f # e, NEW owes, Rests(r, f, owes)
      PROVE  Fine(leaf'[r][f], f, desc'[f], graph') \/ (leaf'[r][f] = "orphaned" /\ owes)
  BY <1>1, <1>5 DEF Rests
<1>6. WatchInv'
  BY <1>1 DEF SettledInv, WatchInv, Watched, Trusted, Stamped
<1>7. ASSUME Lone(p) PROVE LeafInv'
  <2> SUFFICES ASSUME Trusted, NEW r \in Record, NEW f \in Entity \ (raised' \cup watch.ids)
               PROVE  Rests(r, f, gen # done)'
    BY <1>1 DEF LeafInv, Trusted, Stamped
  <2>1. CASE f = e
    <3>1. pass[p].graph = graph
      BY <1>7 DEF TrackInv, Tracks, Trusted
    <3> QED BY <1>4, <1>7, <2>1, <3>1
  <2>2. CASE f # e
    <3>1. Rests(r, f, gen # done)
      BY <1>2, <2>2 DEF SettledInv, LeafInv
    <3> QED BY <1>1, <1>5, <2>2, <3>1 DEF Rests
  <2> QED BY <2>1, <2>2
<1>8. ASSUME Lone(p), Claims(p)' PROVE Visited(p)'
  <2>1. Visited(p) /\ pass[p].graph = graph
    BY <1>1, <1>8 DEF SettledInv, RestInv, Claims
  <2>2. \A f \in pass'[p].uncommitted : Pends(f, desc[f], graph)'
    BY <1>1, <1>2, <2>1 DEF Visited
  <2>3. ASSUME NEW r \in Record, NEW f \in Entity \ (pass'[p].todo \cup raised' \cup Spared(p))
        PROVE  Rests(r, f, PassOwes(p))'
    <3>1. CASE f = e
      BY <1>4, <1>8, <2>1, <3>1
    <3>2. CASE f # e
      <4>1. Rests(r, f, PassOwes(p))
        BY <1>2, <2>1, <2>3, <3>2 DEF Visited
      <4> QED BY <1>1, <1>5, <3>2, <4>1 DEF Rests, PassOwes
    <3> QED BY <3>1, <3>2
  <2>4. Spared(p)' = Spared(p)
    BY <1>1, <1>2 DEF Spared
  <2> QED BY <2>2, <2>3, <2>4 DEF Visited
<1>9. Behind(p)'
  BY <1>2 DEF Behind, NoVisit
<1> QED BY <1>6, <1>7, <1>8, <1>9, SettledActs DEF Acts

-----------------------------------------------------------------------------
(* What a visit does to what is settled *)

(* A pass that the gate admitted is trusted as long as it claims anything. *)
LEMMA ClaimsTrust ==
  ASSUME NEW p \in Process, TrackInv, Lone(p), Claims(p), pass[p].mode \in {"orphans", "verify"}
  PROVE  Trusted
<1>1. /\ ~volatile /\ stamp = [own |-> pass[p].own, graph |-> pass[p].graph]
      /\ pass[p].own = TRUE /\ pass[p].graph = graph /\ ~crossed
  BY DEF TrackInv, Tracks, Claims
<1> QED BY <1>1 DEF Trusted, Stamped

(* The descriptor that a lone pass has read is still the entity's. *)
LEMMA ReadHolds ==
  ASSUME Typing, Types, NEW p \in Process, DescHolds(p), NEW e \in Entity,
         pass[p].pc = "ladder", e \in pass[p].todo, visit[p] = NoVisit
  PROVE  Read(p, e).desc = desc[e]
<1>1. None \notin Entity /\ NoVisit.entity = None
  BY DEF Typing, NoVisit
<1>2. CASE pass[p].mode = "verify"
  BY <1>2 DEF Read
<1>3. CASE pass[p].mode # "verify"
  <2>1. pass[p].mode \in {"full", "orphans"}
    BY <1>3, WorkFacts DEF TaskType, TaskShape
  <2>2. visit[p].entity # e
    BY <1>1
  <2> QED BY <1>3, <2>1, <2>2 DEF Read, DescHolds
<1> QED BY <1>2, <1>3

(* A pass that passes over an entity, which is at rest, pends or has raised. *)
LEMMA SettledPasses ==
  ASSUME Typing, Types, Alone, CrossInv, SettledInv, NEW p \in Process, InLadder(p),
         NEW e \in Entity, NEW w \in SUBSET {e}, Over(p, e, w), visit'[p] = NoVisit,
         UNCHANGED <<desc, leaf>>, raised' = raised \/ raised' = raised \cup {e},
         Lone(p) /\ Claims(p) =>
           /\ w # {} => Pends(e, desc[e], graph)
           /\ \/ e \in raised' \/ (pass[p].mode # "orphans" /\ w = {e})
              \/ pass[p].mode = "orphans" /\ e \in watch.ids
              \/ \A r \in Record : Rests(r, e, PassOwes(p))
  PROVE  SettledInv'
<1>1. /\ pass'[p].graph = pass[p].graph /\ pass'[p].own = pass[p].own
      /\ pass'[p].mode = pass[p].mode /\ pass'[p].gen = pass[p].gen
      /\ UNCHANGED <<graph, crossed, rev, stamp, volatile, gen, done, watch>>
  BY InLadderIs DEF meta, checkout
<1>2. WatchInv' /\ LeafInv'
  BY <1>1 DEF SettledInv, WatchInv, Watched, LeafInv, Rests, Trusted, Stamped
<1>3. ASSUME Lone(p), Claims(p)' PROVE Visited(p)'
  <2>1. Claims(p) /\ Visited(p)
    BY <1>1, <1>3 DEF SettledInv, RestInv, Claims
  <2>2. pass'[p].todo = pass[p].todo \ {e} /\ pass'[p].uncommitted = pass[p].uncommitted \cup w
    BY DEF Over
  <2>3. \A f \in pass'[p].uncommitted : Pends(f, desc[f], graph)'
    <3>1. \A f \in pass'[p].uncommitted : Pends(f, desc[f], graph)
      BY <1>3, <2>1, <2>2 DEF Visited
    <3> QED BY <1>1, <3>1
  <2>4. ASSUME NEW r \in Record, NEW f \in Entity \ (pass'[p].todo \cup raised' \cup Spared(p)')
        PROVE  Rests(r, f, PassOwes(p))'
    <3>1. Rests(r, f, PassOwes(p))
      <4>1. CASE f = e
        <5>1. ~(e \in raised' \/ (pass[p].mode # "orphans" /\ w = {e})
                  \/ (pass[p].mode = "orphans" /\ e \in watch.ids))
          BY <1>1, <2>2, <2>4, <4>1 DEF Spared
        <5> QED BY <1>3, <2>1, <4>1, <5>1
      <4>2. CASE f # e
        <5>1. f \notin pass[p].todo \cup raised \cup Spared(p)
          BY <1>1, <2>2, <2>4, <4>2 DEF Spared
        <5> QED BY <2>1, <5>1 DEF Visited
      <4> QED BY <4>1, <4>2
    <3> QED BY <1>1, <3>1 DEF Rests, PassOwes
  <2> QED BY <2>3, <2>4 DEF Visited
<1>4. Behind(p)'
  BY DEF Behind, NoVisit
<1> QED BY <1>2, <1>3, <1>4, SettledActs DEF Acts

LEMMA SettledVisit ==
  ASSUME Typing, Types, Alone, CrossInv, TrackInv, DescInv, SettledInv, NEW p \in Process,
         NEW e \in Entity, Visit(p, e)
  PROVE  SettledInv'
<1>1. /\ pass[p].pc = "ladder" /\ e \in pass[p].todo /\ visit[p] = NoVisit /\ InLadder(p)
      /\ UNCHANGED <<desc, leaf, raised>>
  BY VisitIs DEF InLadder, bindings
<1>2. Lone(p) => Read(p, e).desc = desc[e]
  BY <1>1, ReadHolds DEF DescInv
<1>3. ASSUME Lone(p), Claims(p), pass[p].mode \in {"orphans", "verify"}
      PROVE  /\ pass[p].mode = "verify" => e \in watch.ids /\ Watched(e)
             /\ e \in raised \/ e \in watch.ids \/ \A r \in Record : Rests(r, e, gen # done)
  <2>1. Trusted
    BY <1>3, ClaimsTrust
  <2>2. pass[p].mode = "verify" => e \in watch.ids
    BY <1>1, <1>3 DEF TrackInv, Tracks
  <2> QED BY <2>1, <2>2 DEF SettledInv, WatchInv, LeafInv
<1>4. pass[p].mode \in {"full", "orphans", "verify"}
  BY <1>1, WorkFacts DEF TaskType, TaskShape
<1>5. CASE ~Visits(p, e) /\ visit'[p] = NoVisit /\ Over(p, e, IF pass[p].mode = "verify" THEN {e} ELSE {})
  <2> DEFINE w == IF pass[p].mode = "verify" THEN {e} ELSE {}
  <2>1. pass[p].mode # "full"
    BY <1>5 DEF Visits
  <2>2. ASSUME Lone(p), Claims(p), pass[p].mode = "verify" PROVE Pends(e, desc[e], graph)
    <3>1. Exact(e, desc[e], graph).status # "resolved"
      BY <1>5, <2>2 DEF Visits, Claims
    <3> QED BY <1>3, <2>2, <3>1, ExactAnswer DEF Watched, Pends
  <2>3. ASSUME Lone(p), Claims(p), pass[p].mode = "orphans", e \notin raised \cup watch.ids, NEW r \in Record
        PROVE  Rests(r, e, PassOwes(p))
    <3>1. leaf[r][e] # "orphaned"
      BY <1>5, <2>3 DEF Visits
    <3> QED BY <1>3, <2>3, <3>1 DEF Rests
  <2>4. w \in SUBSET {e} /\ Over(p, e, w) /\ (w # {} => pass[p].mode = "verify")
        /\ (pass[p].mode = "verify" => pass[p].mode # "orphans" /\ w = {e})
    BY <1>5
  <2> HIDE DEF w
  <2> QED BY <1>1, <1>4, <1>5, <2>1, <2>2, <2>3, <2>4, SettledPasses
<1>6. CASE /\ Visits(p, e) /\ visit'[p] = NoVisit /\ Over(p, e, {e})
           /\ Exact(e, Read(p, e).desc, pass[p].graph).status = "unresolved"
           /\ Hits(e, pass[p].graph) # {}
  <2>1. Lone(p) /\ Claims(p) => Pends(e, desc[e], graph)
    BY <1>2, <1>6 DEF Pends, Claims
  <2>2. ASSUME Lone(p), Claims(p), pass[p].mode = "orphans", e \notin raised \cup watch.ids, NEW r \in Record
        PROVE  Rests(r, e, PassOwes(p))
    BY <1>3, <2>1, <2>2, FinePending DEF Rests
  <2>3. {e} \in SUBSET {e}
    OBVIOUS
  <2> QED BY <1>1, <1>6, <2>1, <2>2, <2>3, SettledPasses
<1>7. CASE /\ pass'[p] = pass[p]
           /\ Planned(e, Read(p, e).desc, Read(p, e).seen, pass[p].graph, pass[p].own, visit'[p])
           /\ PlanHolds(e, pass[p].graph, pass[p].own, visit'[p])
  <2>1. ASSUME Lone(p), pass[p].graph = graph, visit'[p].stage = "leaves" \/ visit'[p].status = "degraded",
               NEW r \in Record, visit'[p].stage = "leaves" => r \notin visit'[p].list
        PROVE  Rests(r, visit[p].entity, gen # pass[p].gen)'
    <3>1. /\ visit'[p].entity = e /\ visit'[p].status = "degraded" /\ visit'[p].list = Leaves(e, "degraded")
          /\ visit'[p].was = desc[e] /\ visit'[p].stage = "leaves"
      BY <1>2, <1>7, <2>1 DEF Planned
    <3>2. visit'[p].desc = desc[e]
      BY <1>7, <3>1 DEF PlanHolds
    <3>3. leaf[r][e] \in {"none", "degraded"}
      BY <2>1, <3>1 DEF Leaves
    <3>4. Fine(leaf[r][e], e, desc[e], graph)
      BY <1>7, <2>1, <3>1, <3>2, <3>3, FinePlanned
    <3>5. graph' = graph
      BY <1>1, InLadderIs
    <3> QED BY <1>1, <3>1, <3>4, <3>5 DEF Rests
  <2>2. Lone(p) /\ pass[p].graph = graph => Behind(p)'
    BY <2>1 DEF Behind
  <2> QED BY <1>1, <1>7, <2>2, SettledQuietly
<1> QED BY <1>5, <1>6, <1>7, VisitIs

LEMMA SettledRaise ==
  ASSUME Typing, Types, Alone, CrossInv, SettledInv, NEW p \in Process, NEW e \in Entity, Raise(p, e)
  PROVE  SettledInv'
<1>1. /\ Over(p, e, {}) /\ visit'[p] = NoVisit /\ raised' = raised \cup {e} /\ InLadder(p)
      /\ UNCHANGED <<desc, leaf>> /\ {} \in SUBSET {e} /\ e \in raised'
  BY RaiseIs DEF InLadder, bindings
<1> QED BY <1>1, SettledPasses

LEMMA SettledWriteRow ==
  ASSUME Typing, Types, Alone, CrossInv, SettledInv, NEW p \in Process, NEW r \in Record, WriteRow(p, r)
  PROVE  SettledInv'
<1>0. /\ visit[p].stage = "rows" /\ Kept(p, {"vacated"})
      /\ GoesOn(p, visit[p], "rows", visit[p].list \ {r}, visit[p].wrote \cup {r})
      /\ UNCHANGED <<desc, leaf, raised, graph, gen>>
  BY WriteRowIs DEF history, meta
<1>1. /\ visit'[p].stage = "rows" /\ visit'[p].status = visit[p].status
      /\ visit'[p].entity = visit[p].entity /\ pass'[p].gen = pass[p].gen
      /\ pass'[p].todo = pass[p].todo /\ pass'[p].uncommitted = pass[p].uncommitted
  BY <1>0 DEF GoesOn, TripFields, Kept, Fields
<1>2. InLadder(p)
  BY DEF InLadder
<1>3. Lone(p) /\ pass[p].graph = graph => Behind(p)'
  BY <1>0, <1>1 DEF Behind, Rests, SettledInv, RestInv
<1> QED BY <1>0, <1>1, <1>2, <1>3, SettledQuietly

(* Where a lone visit stands: the entity is as it was read, or as it is to be. *)
LEMMA VisitStands ==
  ASSUME Typing, Types, DescInv, PlanInv, NEW p \in Process, Lone(p), visit[p].stage # "none"
  PROVE  /\ PlanHolds(visit[p].entity, pass[p].graph, pass[p].own, visit[p])
         /\ visit[p].entity \in Entity
         /\ visit[p].stage = "rows" => visit[p].was = desc[visit[p].entity]
         /\ visit[p].stage # "rows" \/ ~EntityIsWritten(visit[p]) => visit[p].desc = desc[visit[p].entity]
<1>1. PlanHolds(visit[p].entity, pass[p].graph, pass[p].own, visit[p]) /\ DescHolds(p)
  BY DEF PlanInv, Planwise, DescInv
<1>2. visit[p].entity \in Entity /\ visit[p].stage \in {"rows", "written", "leaves"}
  BY WorkFacts DEF TaskType, TripType
<1>3. visit[p].stage = "rows" => visit[p].was = desc[visit[p].entity]
  BY <1>1 DEF DescHolds, Unwritten
<1>4. visit[p].status # "live" => visit[p].desc = visit[p].was
  BY <1>1 DEF PlanHolds
<1>5. CASE visit[p].stage = "rows" /\ ~EntityIsWritten(visit[p])
  BY <1>1, <1>2, <1>3, <1>4, <1>5 DEF EntityIsWritten
<1>6. CASE visit[p].stage # "rows"
  <2>1. CASE visit[p].status = "degraded" /\ visit[p].stage = "leaves"
    BY <1>1, <1>2, <1>3, <1>4, <2>1 DEF DescHolds, Unwritten
  <2>2. CASE ~(visit[p].status = "degraded" /\ visit[p].stage = "leaves")
    BY <1>1, <1>2, <1>3, <1>6, <2>2 DEF DescHolds, Unwritten
  <2> QED BY <2>1, <2>2
<1> QED BY <1>1, <1>2, <1>3, <1>5, <1>6

(* The entity follows a move: its leaves are orphaned still, or it is watched. *)
LEMMA SettledMoves ==
  ASSUME Typing, Types, Alone, PlanInv, DescInv, CrossInv, CounterInv, TrackInv, SettledInv,
         NEW p \in Process, WriteEntity(p), Lone(p), visit[p].desc # visit[p].was
  PROVE  SettledInv'
<1>1. PICK e \in Entity : visit[p].entity = e
  BY WriteEntityIs, VisitStands
<1>2. /\ visit[p].stage = "rows" /\ InLadder(p) /\ pass[p].pc = "ladder" /\ e \in pass[p].todo
      /\ desc' = [desc EXCEPT ![e] = visit[p].desc] /\ leaf' = leaf
  BY <1>1, WriteEntityIs, WorkFacts DEF InLadder
<1>3. /\ pass[p].own = TRUE /\ visit[p].status = "live"
      /\ Exact(e, visit[p].desc, pass[p].graph).status = "resolved"
      /\ Exact(e, desc[e], pass[p].graph).status = "unresolved"
      /\ Loose(e, pass[p].graph).status = "resolved"
  <2>1. PlanHolds(e, pass[p].graph, pass[p].own, visit[p]) /\ visit[p].was = desc[e]
    BY <1>1, <1>2, VisitStands
  <2>2. pass[p].own \in BOOLEAN
    BY WorkFacts DEF TaskType
  <2> QED BY <2>1, <2>2 DEF PlanHolds
<1>4. /\ pass'[p] = pass[p] /\ raised' = raised /\ visit'[p].stage = "written" /\ visit'[p].status = "live"
  <2>1. Stays(p) /\ GoesOn(p, visit[p], "written", {}, {})
    BY <1>3, WriteEntityIs
  <2> QED BY <1>3, <2>1 DEF Stays, GoesOn, TripFields
<1>5. UNCHANGED <<graph, crossed, rev, stamp, volatile, gen, done, watch>>
  BY <1>2, InLadderIs DEF meta, checkout
<1>6. desc'[e] = visit[p].desc /\ \A f \in Entity \ {e} : desc'[f] = desc[f]
  BY <1>2 DEF Types, BoundType
<1>7. Tracks(pass[p])
  BY DEF TrackInv
<1>8. ASSUME Trusted
      PROVE  /\ pass[p].graph = graph /\ pass[p].mode \in {"orphans", "verify"}
             /\ pass[p].mode = "orphans" => e \notin watch.ids /\ gen # done
             /\ pass[p].mode = "verify" => e \in watch.ids /\ watch.head # rev
  <2>1. pass[p].graph = graph /\ stamp = [own |-> TRUE, graph |-> graph] /\ ~volatile
    BY <1>7, <1>8 DEF Tracks, Trusted, Stamped
  <2>2. pass[p].mode \in {"full", "orphans", "verify"}
    BY <1>2, WorkFacts DEF TaskType, TaskShape
  <2>3. pass[p].mode # "full"
    BY <1>2, <1>3, <1>7, <2>1 DEF Tracks
  <2>4. gen \in Nat /\ done \in Nat /\ rev \in Nat /\ watch.head \in Nat
    BY DEF Types, MetaType, CheckoutType
  <2>5. done < gen => gen # done
    BY <2>4
  <2>6. watch.head < rev => watch.head # rev
    BY <2>4
  <2> QED BY <1>2, <1>3, <1>7, <2>1, <2>2, <2>3, <2>5, <2>6 DEF Tracks
<1>9. WatchInv'
  <2> SUFFICES ASSUME Trusted, NEW f \in watch.ids PROVE Watched(f)'
    BY <1>5 DEF WatchInv, Trusted, Stamped
  <2>1. f \in Entity /\ Watched(f)
    BY DEF SettledInv, WatchInv, Types, MetaType
  <2>2. CASE f = e
    <3>1. Exact(e, desc'[e], graph).status = "resolved" /\ watch.head # rev
      BY <1>3, <1>6, <1>8, <2>2
    <3>2. Hits(e, graph) # {}
      BY <3>1, ExactAnswer
    <3> QED BY <1>5, <2>2, <3>1, <3>2 DEF Watched
  <2>3. CASE f # e
    BY <1>5, <1>6, <2>1, <2>3 DEF Watched
  <2> QED BY <2>2, <2>3
<1>10. LeafInv'
  <2> SUFFICES ASSUME Trusted, NEW r \in Record, NEW f \in Entity \ (raised \cup watch.ids)
               PROVE  Rests(r, f, gen # done)'
    BY <1>4, <1>5 DEF LeafInv, Trusted, Stamped
  <2>1. Rests(r, f, gen # done)
    BY DEF SettledInv, LeafInv
  <2>2. CASE f = e
    <3>1. gen # done /\ pass[p].graph = graph
      BY <1>8, <2>2
    <3>2. leaf[r][e] \in {"none", "orphaned"}
      BY <1>3, <2>1, <2>2, <3>1 DEF Rests, Fine
    <3>3. CASE leaf[r][e] = "none"
      <4>1. Fine("none", e, desc'[e], graph')
        BY FineNone
      <4> QED BY <1>2, <2>2, <3>3, <4>1 DEF Rests
    <3>4. CASE leaf[r][e] = "orphaned"
      BY <1>2, <1>5, <2>2, <3>1, <3>4 DEF Rests
    <3> QED BY <3>2, <3>3, <3>4
  <2>3. CASE f # e
    BY <1>2, <1>5, <1>6, <2>1, <2>3 DEF Rests
  <2> QED BY <2>2, <2>3
<1>11. ASSUME Claims(p)' PROVE Visited(p)'
  <2>1. Visited(p)
    BY <1>4, <1>5, <1>11 DEF SettledInv, RestInv, Claims
  <2>2. e \notin pass[p].uncommitted /\ pass[p].uncommitted \subseteq Entity
    BY <1>2, <1>7, WorkFacts DEF Tracks, TaskType
  <2>3. \A f \in pass'[p].uncommitted : Pends(f, desc[f], graph)'
    BY <1>4, <1>5, <1>6, <2>1, <2>2 DEF Visited
  <2>4. ASSUME NEW r \in Record, NEW f \in Entity \ (pass'[p].todo \cup raised' \cup Spared(p)')
        PROVE  Rests(r, f, PassOwes(p))'
    <3>1. f # e /\ Rests(r, f, PassOwes(p))
      BY <1>2, <1>4, <1>5, <2>1, <2>4 DEF Visited, Spared
    <3> QED BY <1>2, <1>4, <1>5, <1>6, <3>1 DEF Rests, PassOwes
  <2> QED BY <2>3, <2>4 DEF Visited
<1>12. Behind(p)'
  BY <1>4 DEF Behind
<1> QED BY <1>2, <1>9, <1>10, <1>11, <1>12, SettledActs DEF Acts

LEMMA SettledWriteEntity ==
  ASSUME Typing, Types, Alone, PlanInv, DescInv, CrossInv, CounterInv, TrackInv, SettledInv,
         NEW p \in Process, WriteEntity(p)
  PROVE  SettledInv'
<1>1. /\ visit[p].stage = "rows" /\ InLadder(p) /\ Acts(p) /\ leaf' = leaf
      /\ desc' = [desc EXCEPT ![visit[p].entity] = visit[p].desc]
      /\ \/ visit[p].status = "degraded" /\ Ends(p)
         \/ visit[p].status # "degraded" /\ Stays(p) /\ GoesOn(p, visit[p], "written", {}, {})
      /\ UNCHANGED <<graph, gen>>
  BY WriteEntityIs DEF InLadder, Acts, meta
<1>2. CASE ~Lone(p)
  BY <1>1, <1>2, SettledActs
<1>3. CASE Lone(p) /\ visit[p].desc # visit[p].was
  BY <1>3, SettledMoves
<1>4. CASE Lone(p) /\ visit[p].desc = visit[p].was
  <2>1. PICK e \in Entity : visit[p].entity = e
    BY <1>1, <1>4, VisitStands
  <2>2. desc' = desc
    <3>1. visit[p].desc = desc[e] /\ desc \in [Entity -> Path]
      BY <1>1, <1>4, <2>1, VisitStands DEF Types, BoundType
    <3> QED BY <1>1, <2>1, <3>1
  <2>3. CASE visit[p].status = "degraded" /\ Ends(p)
    <3>1. pass'[p].gen = pass[p].gen
      BY <1>1, InLadderIs
    <3>2. pass[p].graph = graph => \A r \in Record : Rests(r, e, gen # pass[p].gen)
      BY <1>1, <1>4, <2>1, <2>3 DEF SettledInv, RestInv, Behind
    <3>3. pass[p].graph = graph => \A r \in Record : Rests(r, e, gen # pass[p].gen)'
      BY <1>1, <2>2, <3>1, <3>2 DEF Rests
    <3> QED BY <1>1, <2>1, <2>2, <2>3, <3>3, SettledEnds
  <2>4. CASE visit[p].status # "degraded" /\ Stays(p) /\ GoesOn(p, visit[p], "written", {}, {})
    <3>1. /\ raised' = raised /\ pass'[p] = pass[p] /\ visit'[p].stage = "written"
          /\ visit'[p].status # "degraded"
      BY <2>4 DEF Stays, GoesOn, TripFields
    <3>2. Behind(p)'
      BY <3>1 DEF Behind
    <3> QED BY <1>1, <2>2, <3>1, <3>2, SettledQuietly
  <2> QED BY <1>1, <2>3, <2>4
<1> QED BY <1>2, <1>3, <1>4

LEMMA SettledWriteLeaf ==
  ASSUME Typing, Types, Alone, PlanInv, DescInv, CrossInv, CounterInv, TrackInv, SettledInv,
         NEW p \in Process, NEW r \in Record, WriteLeaf(p, r)
  PROVE  SettledInv'
<1>1. /\ visit[p].stage = "leaves" /\ r \in visit[p].list /\ InLadder(p) /\ Acts(p)
      /\ leaf' = [leaf EXCEPT ![r][visit[p].entity] = visit[p].status]
      /\ \/ visit[p].list = {r} /\ Ends(p)
         \/ Stays(p) /\ GoesOn(p, visit[p], "leaves", visit[p].list \ {r}, visit[p].wrote)
      /\ desc' = desc
  BY WriteLeafIs DEF InLadder, Acts
<1>2. /\ pass'[p].gen = pass[p].gen /\ pass'[p].graph = pass[p].graph
      /\ pass'[p].own = pass[p].own /\ pass'[p].mode = pass[p].mode
      /\ UNCHANGED <<graph, crossed, rev, stamp, volatile, gen, done, watch>>
  BY <1>1, InLadderIs DEF meta, checkout
<1>3. CASE ~Lone(p)
  BY <1>1, <1>3, SettledActs
<1>4. CASE Lone(p)
  <2>1. PICK e \in Entity : visit[p].entity = e
    BY <1>1, <1>4, VisitStands
  <2>2. visit[p].desc = desc[e] /\ PlanHolds(e, pass[p].graph, pass[p].own, visit[p])
    BY <1>1, <1>4, <2>1, VisitStands
  <2>3. leaf \in [Record -> [Entity -> Status]]
    BY DEF Types, BoundType
  <2>4. /\ leaf'[r][e] = visit[p].status
        /\ \A q \in Record, f \in Entity : f # e \/ q # r => leaf'[q][f] = leaf[q][f]
    BY <1>1, <2>1, <2>3
  <2>5. pass[p].graph = graph => Fine(leaf'[r][e], e, desc'[e], graph')
    BY <1>1, <1>2, <2>2, <2>4, FinePlanned
  <2>6. ASSUME NEW q \in Record, NEW f \in Entity, NEW owes, Rests(q, f, owes), pass[p].graph = graph
        PROVE  Fine(leaf'[q][f], f, desc'[f], graph') \/ (leaf'[q][f] = "orphaned" /\ owes)
    <3>1. CASE q = r /\ f = e
      BY <2>5, <2>6, <3>1
    <3>2. CASE ~(q = r /\ f = e)
      BY <1>1, <1>2, <2>4, <2>6, <3>2 DEF Rests
    <3> QED BY <3>1, <3>2
  <2>7. ASSUME pass[p].graph = graph, NEW q \in Record, q \notin visit[p].list \ {r}
        PROVE  Rests(q, e, gen # pass[p].gen)'
    <3>1. CASE q = r
      BY <2>5, <2>7, <3>1 DEF Rests
    <3>2. CASE q # r
      <4>1. Rests(q, e, gen # pass[p].gen)
        BY <1>1, <1>4, <2>1, <2>7, <3>2 DEF SettledInv, RestInv, Behind
      <4> QED BY <1>2, <2>6, <2>7, <4>1 DEF Rests
    <3> QED BY <3>1, <3>2
  <2>8. CASE visit[p].list = {r} /\ Ends(p)
    BY <1>1, <2>1, <2>4, <2>7, <2>8, SettledEnds
  <2>9. CASE Stays(p) /\ GoesOn(p, visit[p], "leaves", visit[p].list \ {r}, visit[p].wrote)
    <3>1. /\ pass'[p] = pass[p] /\ raised' = raised /\ visit'[p].entity = e
          /\ visit'[p].stage = "leaves" /\ visit'[p].list = visit[p].list \ {r}
      BY <2>1, <2>9 DEF Stays, GoesOn, TripFields
    <3>2. WatchInv'
      BY <1>1, <1>2 DEF SettledInv, WatchInv, Watched, Trusted, Stamped
    <3>3. LeafInv'
      <4> SUFFICES ASSUME Trusted, NEW q \in Record, NEW f \in Entity \ (raised \cup watch.ids)
                   PROVE  Rests(q, f, gen # done)'
        BY <1>2, <3>1 DEF LeafInv, Trusted, Stamped
      <4>1. Rests(q, f, gen # done)
        BY DEF SettledInv, LeafInv
      <4>2. pass[p].graph = graph
        BY <1>4 DEF TrackInv, Tracks, Trusted
      <4> QED BY <1>2, <2>6, <4>1, <4>2 DEF Rests
    <3>4. ASSUME Claims(p)' PROVE Visited(p)'
      <4>1. Visited(p) /\ pass[p].graph = graph
        BY <1>2, <1>4, <3>4 DEF SettledInv, RestInv, Claims
      <4>2. \A f \in pass'[p].uncommitted : Pends(f, desc[f], graph)'
        BY <1>1, <1>2, <3>1, <4>1 DEF Visited
      <4>3. ASSUME NEW q \in Record, NEW f \in Entity \ (pass'[p].todo \cup raised' \cup Spared(p)')
            PROVE  Rests(q, f, PassOwes(p))'
        <5>1. Rests(q, f, PassOwes(p))
          BY <1>2, <3>1, <4>1, <4>3 DEF Visited, Spared
        <5> QED BY <1>2, <2>6, <4>1, <5>1 DEF Rests, PassOwes
      <4> QED BY <4>2, <4>3 DEF Visited
    <3>5. pass'[p].graph = graph' => Behind(p)'
      <4> SUFFICES ASSUME pass[p].graph = graph, NEW q \in Record, q \notin visit[p].list \ {r}
                   PROVE  Rests(q, visit[p].entity, gen # pass[p].gen)'
        BY <1>2, <3>1 DEF Behind
      <4> QED BY <2>7, <3>1 DEF Rests
    <3> QED BY <1>1, <3>2, <3>3, <3>4, <3>5, SettledActs
  <2> QED BY <1>1, <2>8, <2>9
<1> QED BY <1>3, <1>4

LEMMA SettledMoveOn ==
  ASSUME Typing, Types, Alone, PlanInv, DescInv, CrossInv, CounterInv, TrackInv, SettledInv,
         NEW p \in Process, MoveOn(p)
  PROVE  SettledInv'
<1> DEFINE L == Leaves(visit[p].entity, visit[p].status)
           R == Repointed(visit[p].entity, visit[p].old, visit[p].comm)
<1>1. /\ visit[p].stage # "none" /\ InLadder(p) /\ Acts(p) /\ UNCHANGED <<desc, leaf>>
      /\ \/ /\ \/ visit[p].stage = "written"
               \/ visit[p].stage = "rows" /\ visit[p].list = {} /\ ~EntityIsWritten(visit[p])
            /\ \/ (L = {} \/ visit[p].status = "degraded") /\ Ends(p)
               \/ visit[p].status # "degraded" /\ Stays(p) /\ GoesOn(p, visit[p], "leaves", L, visit[p].wrote)
         \/ /\ visit[p].stage = "leaves" /\ visit[p].list = {} /\ Stays(p)
            /\ GoesOn(p, visit[p], "rows", R, visit[p].wrote)
  BY MoveOnIs DEF InLadder, Acts, bindings
<1>2. pass'[p].gen = pass[p].gen /\ UNCHANGED <<graph, gen>>
  BY <1>1, InLadderIs DEF meta
<1>3. CASE ~Lone(p)
  BY <1>1, <1>3, SettledActs
<1>4. CASE Lone(p)
  <2>1. PICK e \in Entity : visit[p].entity = e
    BY <1>1, <1>4, VisitStands
  <2>2. leaf \in [Record -> [Entity -> Status]]
    BY DEF Types, BoundType
  <2>3. ASSUME visit[p].stage # "rows" \/ ~EntityIsWritten(visit[p]), pass[p].graph = graph,
               NEW q \in Record, q \notin L
        PROVE  Fine(leaf[q][e], e, desc[e], graph)
    <3>1. visit[p].desc = desc[e] /\ PlanHolds(e, graph, pass[p].own, visit[p])
      BY <1>1, <1>4, <2>1, <2>3, VisitStands
    <3>2. leaf[q][e] \in {"none", visit[p].status}
      BY <2>1, <2>3 DEF Leaves
    <3> QED BY <3>1, <3>2, FinePlanned
  <2> HIDE DEF L, R
  <2>4. CASE /\ \/ visit[p].stage = "written"
                \/ visit[p].stage = "rows" /\ visit[p].list = {} /\ ~EntityIsWritten(visit[p])
             /\ (L = {} \/ visit[p].status = "degraded") /\ Ends(p)
    <3>1. ASSUME pass[p].graph = graph, NEW q \in Record PROVE Rests(q, e, gen # pass[p].gen)
      <4>1. CASE visit[p].status = "degraded"
        <5>1. visit[p].stage = "rows"
          BY <2>4, <4>1, WorkFacts DEF TripType
        <5> QED BY <1>4, <2>1, <3>1, <4>1, <5>1 DEF SettledInv, RestInv, Behind
      <4>2. CASE L = {}
        BY <2>3, <2>4, <3>1, <4>2 DEF Rests
      <4> QED BY <2>4, <4>1, <4>2
    <3>2. pass[p].graph = graph => \A q \in Record : Rests(q, e, gen # pass[p].gen)'
      BY <1>1, <1>2, <3>1 DEF Rests
    <3> QED BY <1>1, <2>1, <2>4, <3>2, SettledEnds
  <2>5. CASE /\ visit[p].stage # "rows" \/ ~EntityIsWritten(visit[p])
             /\ visit[p].status # "degraded" /\ Stays(p) /\ GoesOn(p, visit[p], "leaves", L, visit[p].wrote)
    <3>1. /\ pass'[p] = pass[p] /\ raised' = raised /\ visit'[p].entity = e
          /\ visit'[p].stage = "leaves" /\ visit'[p].list = L
      BY <2>1, <2>5 DEF Stays, GoesOn, TripFields
    <3>2. pass[p].graph = graph => Behind(p)'
      <4> SUFFICES ASSUME pass[p].graph = graph, NEW q \in Record, q \notin L
                   PROVE  Rests(q, visit[p].entity, gen # pass[p].gen)'
        BY <3>1 DEF Behind
      <4>1. Fine(leaf[q][e], e, desc[e], graph)
        BY <2>3, <2>5
      <4> QED BY <1>1, <1>2, <3>1, <4>1 DEF Rests
    <3> QED BY <1>1, <3>1, <3>2, SettledQuietly
  <2>6. CASE /\ visit[p].stage = "leaves" /\ visit[p].list = {} /\ Stays(p)
             /\ GoesOn(p, visit[p], "rows", R, visit[p].wrote)
    <3>1. /\ pass'[p] = pass[p] /\ raised' = raised /\ visit'[p].entity = e /\ visit'[p].stage = "rows"
      BY <2>1, <2>6 DEF Stays, GoesOn, TripFields
    <3>2. pass[p].graph = graph => \A q \in Record : Rests(q, e, gen # pass[p].gen)
      BY <1>4, <2>1, <2>6 DEF SettledInv, RestInv, Behind
    <3>3. pass[p].graph = graph => Behind(p)'
      BY <1>1, <1>2, <3>1, <3>2 DEF Behind, Rests
    <3> QED BY <1>1, <3>1, <3>3, SettledQuietly
  <2>7. visit[p].stage = "written" => visit[p].stage # "rows"
    OBVIOUS
  <2> QED BY <1>1, <2>4, <2>5, <2>6, <2>7
<1> QED BY <1>3, <1>4

LEMMA SettledStep ==
  ASSUME Typing, Types, ~Returns, Alone, PlanInv, DescInv, VersionInv, CounterInv, CrossInv, TrackInv,
         SettledInv, [Next]_vars
  PROVE  SettledInv'
<1>1. ASSUME NEW p \in Process, InLadder(p) PROVE SettledInv'
  BY <1>1, SettledVisit, SettledRaise, SettledWriteRow, SettledWriteEntity, SettledWriteLeaf, SettledMoveOn
     DEF InLadder
<1>2. ASSUME NEW p \in Process, Settles(p) PROVE SettledInv'
  BY <1>2, SettledSettles
<1>3. ASSUME NEW p \in Process, Goes(p) \/ Renews(p) PROVE SettledInv'
  BY <1>3, SettledGoes, SettledRenews
<1>4. ASSUME NEW p \in Process, NEW own \in Modes, Begin(p, own) PROVE SettledInv'
  BY <1>4, SettledBegin
<1>5. CASE Environment \/ UNCHANGED vars
  BY <1>5, SettledEnvironment
<1> QED BY <1>1, <1>2, <1>3, <1>4, <1>5, StepsByKind DEF Acts

LEMMA SettledAlways ==
  ~Returns => (Spec => [](Types /\ Alone /\ PlanInv /\ DescInv /\ VersionInv /\ CounterInv /\ CrossInv
                          /\ TrackInv /\ SettledInv))
<1> SUFFICES ASSUME ~Returns
             PROVE  Spec => [](Types /\ Alone /\ PlanInv /\ DescInv /\ VersionInv /\ CounterInv /\ CrossInv
                               /\ TrackInv /\ SettledInv)
  OBVIOUS
<1> Typing
  BY Typing DEF Typing
<1>1. Init => Types
  BY InitTypes
<1>2. Init => Alone /\ PlanInv /\ DescInv /\ VersionInv /\ CounterInv /\ CrossInv /\ TrackInv /\ SettledInv
  <2> SUFFICES ASSUME Init
               PROVE  /\ Alone /\ PlanInv /\ DescInv /\ VersionInv /\ CounterInv /\ CrossInv
                      /\ TrackInv /\ SettledInv
    OBVIOUS
  <2>1. \A p \in Process : /\ visit[p].stage = "none" /\ pass[p].pc = "idle"
                           /\ pass[p].gen = 0 /\ pass[p].head = 0
    BY DEF Init, NoVisit, Idle
  <2>2. volatile = TRUE /\ gen = 0 /\ done = 0 /\ rev = 0 /\ watch.head = 0 /\ events = 0
    BY DEF Init
  <2>3. graph.version = 0
    BY DEF Init
  <2>4. Alone /\ PlanInv /\ DescInv /\ CrossInv /\ TrackInv /\ CounterInv
    BY <2>1, <2>2 DEF Alone, Lone, Running, PlanInv, Planwise, DescInv, CrossInv, TrackInv, CounterInv
  <2>5. VersionInv
    BY <2>1, <2>2, <2>3 DEF VersionInv, Numbered
  <2>6. SettledInv
    BY <2>1, <2>2 DEF SettledInv, WatchInv, LeafInv, RestInv, Trusted, Stamped, Lone, Running
  <2> QED BY <2>4, <2>5, <2>6
<1>3. /\ Types /\ Alone /\ PlanInv /\ DescInv /\ VersionInv /\ CounterInv /\ CrossInv /\ TrackInv /\ SettledInv
      /\ [Next]_vars
      => (Types /\ Alone /\ PlanInv /\ DescInv /\ VersionInv /\ CounterInv /\ CrossInv /\ TrackInv /\ SettledInv)'
  <2> SUFFICES ASSUME Types, Alone, PlanInv, DescInv, VersionInv, CounterInv, CrossInv, TrackInv, SettledInv,
                      [Next]_vars
               PROVE  (Types /\ Alone /\ PlanInv /\ DescInv /\ VersionInv /\ CounterInv /\ CrossInv
                       /\ TrackInv /\ SettledInv)'
    OBVIOUS
  <2>1. Types' /\ Alone' /\ PlanInv' /\ DescInv'
    BY StepTypes, AloneSteps, PlanSteps, DescSteps
  <2>2. VersionInv' /\ CounterInv' /\ CrossInv'
    BY VersionStep, CounterStep, CrossStep
  <2>3. TrackInv'
    BY <2>1, <2>2, TrackStep
  <2>4. SettledInv'
    BY SettledStep
  <2> QED BY <2>1, <2>2, <2>3, <2>4
<1> QED BY <1>1, <1>2, <1>3, PTL DEF Spec

(* SettledMeansRebound, unless a build may bring back, as it was, a graph that an
   earlier pass has stamped: when the gate of a sync on the store's own graph
   admits no pass and none is running, every leaf says what the graph on disk
   says of its entity, wherever a pass died, and whatever was captured or
   reloaded in between.  Excepted are entities whose last visit raised, and all
   of them from the moment that two passes ran side by side, or one while the
   index was reloaded, until a full pass that ran alone has set its stamp. *)
THEOREM SkippedSyncIsSafe == ~Returns => (Spec => []SettledMeansRebound)
<1> SUFFICES ASSUME ~Returns PROVE Spec => []SettledMeansRebound
  OBVIOUS
<1>1. ASSUME Types, SettledInv PROVE SettledMeansRebound
  <2> SUFFICES ASSUME UpToDate, ~crossed, NEW r \in Record, NEW e \in Entity \ raised PROVE Agrees(r, e)
    BY DEF SettledMeansRebound
  <2>1. Gates(Idle, TRUE, graph, Synced(TRUE)) /\ Idle.pc = "idle"
    BY GateIs DEF UpToDate, Idle
  <2>2. Synced(TRUE) /\ ~volatile /\ gen = done /\ ~VerifyDue(TRUE)
    BY <2>1 DEF Gates, Started
  <2>3. Trusted
    BY <2>2 DEF Trusted, Stamped, Synced
  <2>4. CASE e \in watch.ids
    <3>1. watch.head = rev
      BY <2>2, <2>4 DEF VerifyDue
    <3>2. Pends(e, desc[e], graph)
      BY <1>1, <2>3, <2>4, <3>1 DEF SettledInv, WatchInv, Watched
    <3> QED BY <3>2 DEF Pends, Agrees
  <2>5. CASE e \notin watch.ids
    <3>1. Rests(r, e, gen # done)
      BY <1>1, <2>3, <2>5 DEF SettledInv, LeafInv
    <3> QED BY <2>2, <3>1, FineAgrees DEF Rests
  <2> QED BY <2>4, <2>5
<1>2. Types /\ SettledInv => SettledMeansRebound
  BY <1>1
<1> QED BY <1>2, SettledAlways, PTL
=============================================================================
