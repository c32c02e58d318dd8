------------------------- MODULE DriftChecks_proofs -------------------------
(***************************************************************************)
(* Recording a check, refreshing the cached answer, folding check files and   *)
(* moving HEAD, in any order, for any number of checks, paths and commits.    *)
(*                                                                         *)
(* IInv: what of a fold's plan still holds while git moves HEAD.  What a fold  *)
(* packs is in the image it writes, and what it drops is outdated by the      *)
(* image, or the commit it planned on has the decision closed.  So a fold     *)
(* changes no check that decides.                                          *)
(* AgesInv: what the cached answer says of the last episode of drift.         *)
(* ScanInv: what a refresh has read, as long as nothing disturbs it.          *)
(* CommitInv: what may be committed after a fold.                           *)
(* RecordedInv: every check that is anywhere was recorded.                   *)
(***************************************************************************)
EXTENDS DriftChecks, NaturalsInduction, WellFoundedInduction, TLAPS

CommitType == [tree : Tree, code : [Paths -> Contents \cup {None}]]

FoldType == [pc : {"idle", "raise", "publish", "recheck", "unlink"}, head : Nat,
             current : {None} \cup SUBSET Keys, image : SUBSET Keys,
             packs : SUBSET Keys, drops : SUBSET Keys]

\* The check k is outdated by what is in the image, or its decision is closed.
Outdated(k) == (\E j \in fold.image : k < j) \/ commits[fold.head].tree.closed

PlanInv ==
    /\ fold.head \in DOMAIN commits
    /\ fold.packs \subseteq fold.image
    /\ fold.packs \cup fold.drops \subseteq commits[fold.head].tree.files
    /\ \A k \in fold.drops : Outdated(k)
    /\ \A k \in Lines([packed |-> fold.current]) \ fold.image : Outdated(k)

\* What the image adds to the lines is in files, where HEAD has them.
SourcesInv ==
    /\ fold.image \subseteq Lines([packed |-> fold.current]) \cup fold.packs
    /\ \A k \in fold.packs : k \in Landed.files => k \in store.files

IInv ==
    /\ store \in Tree
    /\ commits \in Seq(CommitType) /\ head \in DOMAIN commits
    /\ Landed.closed => store.closed
    /\ fold \in FoldType
    /\ fold.pc # "idle" => PlanInv
    /\ fold.pc \in {"raise", "publish"} => SourcesInv

-----------------------------------------------------------------------------

LEMMA CommitsTyped ==
  ASSUME commits \in Seq(CommitType), NEW c \in DOMAIN commits
  PROVE  commits[c].tree \in Tree /\ commits[c].code \in [Paths -> Contents \cup {None}]
<1>1. commits[c] \in CommitType
  OBVIOUS
<1> QED  BY <1>1 DEF CommitType

(* Some numbers have a least one. *)
LEMMA LeastOf ==
  ASSUME NEW S \in SUBSET Nat, S # {}
  PROVE  LET k == CHOOSE i \in S : \A j \in S : i <= j
         IN  k \in S /\ \A j \in S : k <= j
<1> DEFINE R == OpToRel(<, Nat)
<1>1. IsWellFoundedOn(R, Nat)
  BY NatLessThanWellFounded
<1>2. \A x, y \in Nat : <<x, y>> \in R <=> x < y
  BY DEF OpToRel
<1> HIDE DEF R
<1>3. PICK m \in S : \A n \in S : ~(<<n, m>> \in R)
  BY <1>1, WFMin
<1>4. \A j \in S : j \in Nat /\ m \in Nat /\ ~(j < m)
  BY <1>2, <1>3
<1>5. \E i \in S : \A j \in S : i <= j
  BY <1>4
<1> QED  BY <1>5

(* Some checks have a greatest key. *)
LEMMA LatestIsGreatest ==
  ASSUME NEW S \in SUBSET Keys, S # {}
  PROVE  /\ Latest(S) \in S
         /\ \A k \in S : k <= Latest(S)
<1> DEFINE Bound == {m \in Nat : \A k \in S : k <= m}
           m == CHOOSE i \in Bound : \A j \in Bound : i <= j
<1>1. MaxKey \in Bound
  BY MaxKeyAssumption DEF Keys
<1>2. m \in Bound /\ \A j \in Bound : m <= j
  <2>1. Bound \in SUBSET Nat /\ Bound # {}
    BY <1>1
  <2> HIDE DEF Bound
  <2> QED  BY <2>1, LeastOf
<1> HIDE DEF m
<1>3. m \in Nat /\ \A k \in S : k <= m
  BY <1>2
<1>4. m \in S
  <2>1. SUFFICES ASSUME m \notin S PROVE FALSE
    OBVIOUS
  <2>2. \A k \in S : k \in Nat /\ k >= 1 /\ k < m
    BY <1>3, <2>1 DEF Keys
  <2>3. PICK k \in S : TRUE
    OBVIOUS
  <2>4. m - 1 \in Nat /\ \A j \in S : j <= m - 1
    BY <1>3, <2>2, <2>3
  <2>5. m - 1 \in Bound
    BY <2>4
  <2>6. m <= m - 1
    BY <1>2, <2>5
  <2> QED  BY <1>3, <2>6
<1>5. \E k \in S : \A j \in S : j <= k
  BY <1>3, <1>4
<1> QED  BY <1>5 DEF Latest

(* Checks that have the same greatest key. *)
LEMMA SameLatest ==
  ASSUME NEW S \in SUBSET Keys, NEW T \in SUBSET Keys,
         \A k \in S \ T : \E j \in T : k < j,
         \A k \in T \ S : \E j \in S : k < j
  PROVE  Latest(S) = Latest(T)
<1>1. CASE S = {} \/ T = {}
  BY <1>1 DEF Latest
<1>2. CASE S # {} /\ T # {}
  <2>1. /\ Latest(S) \in S /\ \A k \in S : k <= Latest(S)
        /\ Latest(T) \in T /\ \A k \in T : k <= Latest(T)
    BY <1>2, LatestIsGreatest
  <2>2. Latest(S) \in Nat /\ Latest(T) \in Nat
    <3>1. Latest(S) \in Keys /\ Latest(T) \in Keys
      BY <2>1
    <3> QED  BY <3>1 DEF Keys
  <2>3. Latest(S) <= Latest(T)
    BY <2>1, <2>2 DEF Keys
  <2>4. Latest(T) <= Latest(S)
    BY <2>1, <2>2 DEF Keys
  <2> QED  BY <2>2, <2>3, <2>4
<1> QED  BY <1>1, <1>2

(* What a plan drops is outdated by what it writes. *)
LEMMA DeadIsOutdated ==
  ASSUME NEW tree \in Tree, NEW landed \in Tree, NEW k \in Dead(tree, landed)
  PROVE  (\E j \in Image(tree, landed) : k < j) \/ landed.closed
<1> DEFINE S == Superseders(tree, landed)
<1>1. CASE landed.closed
  BY <1>1
<1>2. CASE ~landed.closed
  <2>1. k \in Nat \ {0} /\ Latest(S) > k
    BY <1>2 DEF Dead, Eligible, Lines, Tree, Keys
  <2>2. S \in SUBSET Keys /\ S # {}
    BY <2>1 DEF Superseders, Eligible, Lines, Tree, Latest
  <2>3. Latest(S) \in S
    BY <2>2, LatestIsGreatest
  <2>4. Latest(S) \in Image(tree, landed)
    <3>1. Latest(S) \in Nat
      BY <2>2, <2>3 DEF Keys
    <3> QED  BY <1>2, <2>3, <3>1 DEF Image, Dead, Superseders, Eligible, Lines
  <2> QED  BY <2>1, <2>4
<1> QED  BY <1>1, <1>2

-----------------------------------------------------------------------------
(* A fold step keeps the check that decides. *)

(* Writing packed.shard: the lines it adds are files, those it loses are      *)
(* outdated.                                                               *)
LEMMA PublishKeepsChecks ==
  ASSUME IInv, FoldPublish, ~store.closed
  PROVE  Latest(Checks(store')) = Latest(Checks(store))
<1>1. CASE head # fold.head \/ Witness = None \/ store.packed # fold.current
  <2>1. store' = store
    BY <1>1 DEF FoldPublish, IInv, Tree
  <2> QED  BY <2>1
<1>2. CASE ~(head # fold.head \/ Witness = None \/ store.packed # fold.current)
  <2>1. PlanInv /\ SourcesInv /\ fold \in FoldType
    BY DEF IInv, FoldPublish
  <2>2. store \in Tree /\ Lines(store) = Lines([packed |-> fold.current])
    BY <1>2 DEF IInv, Lines
  <2>3. store'.files = store.files /\ Lines(store') = fold.image
    BY <1>2, <2>1, <2>2, NoneAssumption DEF FoldPublish, Witness, Lines, Tree, FoldType
  <2>4. ~commits[fold.head].tree.closed
    BY <1>2 DEF IInv, Landed
  <2>5. \A k \in Lines(store) \ fold.image : \E j \in fold.image : k < j
    BY <2>1, <2>2, <2>4 DEF PlanInv, Outdated
  <2>6. fold.image \subseteq Lines(store) \cup store.files
    BY <1>2, <2>1, <2>2 DEF PlanInv, SourcesInv, Landed
  <2>7. /\ Checks(store) = store.files \cup Lines(store)
        /\ Checks(store') = store.files \cup fold.image
        /\ Checks(store) \in SUBSET Keys /\ Checks(store') \in SUBSET Keys
    BY <2>1, <2>2, <2>3 DEF Checks, Lines, Tree, FoldType
  <2> QED  BY <2>5, <2>6, <2>7, SameLatest
<1> QED  BY <1>1, <1>2

(* Removing a file: its check is a line, or outdated by one. *)
LEMMA UnlinkKeepsChecks ==
  ASSUME IInv, FoldUnlink, ~store.closed
  PROVE  Latest(Checks(store')) = Latest(Checks(store))
<1> DEFINE rest == fold.packs \cup fold.drops
           k == CHOOSE i \in rest : \A j \in rest : i <= j
<1>1. PlanInv /\ store \in Tree /\ fold \in FoldType
  BY DEF IInv, FoldUnlink
<1>2. CASE rest = {} \/ ~MayUnlink(k)
  BY <1>2 DEF FoldUnlink
<1>3. CASE rest # {} /\ MayUnlink(k)
  <2>1. store'.files = store.files \ {k} /\ store'.packed = store.packed
    BY <1>1, <1>3 DEF FoldUnlink, Tree
  <2>2. Lines(store) = fold.image /\ Lines(store') = fold.image
    BY <1>1, <1>3, <2>1, NoneAssumption DEF MayUnlink, Witness, Lines, FoldType, Tree
  <2>3. k \in rest
    <3>1. rest \subseteq Nat
      BY <1>1, MaxKeyAssumption DEF FoldType, Keys
    <3> QED  BY <1>3, <3>1, LeastOf
  <2>4. k \in fold.image \/ \E j \in fold.image : k < j
    <3>1. CASE k \in fold.packs
      BY <1>1, <3>1 DEF PlanInv
    <3>2. CASE k \in fold.drops
      BY <1>1, <1>3, <3>2 DEF MayUnlink, PlanInv, Outdated, IInv, Landed
    <3> QED  BY <2>3, <3>1, <3>2
  <2>5. /\ Checks(store) = store.files \cup fold.image
        /\ Checks(store') = (store.files \ {k}) \cup fold.image
        /\ Checks(store) \in SUBSET Keys /\ Checks(store') \in SUBSET Keys
    BY <1>1, <2>1, <2>2 DEF Checks, Tree, FoldType
  <2> HIDE DEF k
  <2> QED  BY <2>4, <2>5, SameLatest
<1> QED  BY <1>2, <1>3

LEMMA StepKeepsChecks ==
  ASSUME IInv, FoldStep, ~store.closed
  PROVE  Latest(Checks(store')) = Latest(Checks(store))
<1>1. CASE FoldPlan \/ FoldRecheck \/ FoldDies
  BY <1>1 DEF FoldPlan, FoldRecheck, FoldDies
<1>2. CASE FoldRaise
  BY <1>2 DEF FoldRaise, IInv, Tree, Checks, Lines
<1> QED  BY <1>1, <1>2, PublishKeepsChecks, UnlinkKeepsChecks DEF FoldStep

-----------------------------------------------------------------------------
(* The invariant. *)

LEMMA InitOk == Init => IInv
<1> SUFFICES ASSUME Init PROVE IInv
  OBVIOUS
<1>0. PICK s \in Settings : \E code \in s.codes : commits = <<[tree |-> EmptyStore, code |-> code]>>
  BY DEF Init
<1>1. PICK code \in s.codes : commits = <<[tree |-> EmptyStore, code |-> code]>>
  BY <1>0
<1>2. EmptyStore \in Tree /\ code \in [Paths -> Contents \cup {None}]
  BY <1>1, SettingsAssumption DEF EmptyStore, Tree
<1>3. commits \in Seq(CommitType) /\ head \in DOMAIN commits
  BY <1>1, <1>2 DEF Init, CommitType
<1> QED  BY <1>2, <1>3 DEF Init, IInv, NoFold, EmptyStore, Landed, FoldType

(* A fold step. *)
LEMMA PlanOk ==
  ASSUME IInv, FoldPlan
  PROVE  IInv'
<1> USE DEF FoldPlan, Folded, CodeUnchanged
<1>1. store \in Tree /\ Landed \in Tree /\ Landed.closed = commits[head].tree.closed
  BY CommitsTyped DEF IInv, Landed
<1>2. Dead(store, Landed) \in SUBSET Keys /\ Eligible(store, Landed) \in SUBSET Keys
  BY <1>1 DEF Dead, Eligible, Lines, Tree
<1>3. \A k \in Dead(store, Landed) : (\E j \in Image(store, Landed) : k < j) \/ Landed.closed
  BY <1>1, DeadIsOutdated
<1>4. \A k \in Dead(store, Landed) : Outdated(k)'
  BY <1>1, <1>3 DEF Outdated
<1>5. Lines([packed |-> fold.current])' = Lines(store)
  BY DEF Lines
<1>6. PlanInv'
  BY <1>1, <1>2, <1>4, <1>5 DEF PlanInv, Image, Eligible, Landed, IInv, Lines, Tree
<1>7. SourcesInv'
  BY <1>1, <1>5 DEF SourcesInv, Image, Eligible, Landed
<1>8. fold' \in FoldType
  BY <1>1, <1>2 DEF FoldType, Image, Lines, Tree, IInv
<1> QED  BY <1>6, <1>7, <1>8 DEF IInv, Landed

LEMMA FoldStepOk ==
  ASSUME IInv, FoldStep
  PROVE  IInv'
<1> USE DEF Folded, CodeUnchanged
<1>1. CASE FoldRaise
  BY <1>1 DEF FoldRaise, IInv, PlanInv, SourcesInv, Outdated, Landed, Tree, FoldType
<1>2. CASE FoldPublish
  BY <1>2 DEF FoldPublish, IInv, PlanInv, Outdated, Landed, Tree, Witness, NoFold, FoldType
<1>3. CASE FoldRecheck
  BY <1>3 DEF FoldRecheck, IInv, PlanInv, Outdated, Landed, NoFold, FoldType
<1>4. CASE FoldUnlink
  <2>1. CASE UNCHANGED store /\ fold' = NoFold
    BY <1>4, <2>1 DEF FoldUnlink, IInv, Landed, NoFold, FoldType
  <2>2. ASSUME NEW k, /\ store' = [store EXCEPT !.files = @ \ {k}]
                      /\ fold' = [fold EXCEPT !.packs = @ \ {k}, !.drops = @ \ {k}]
        PROVE  IInv'
    <3>1. PlanInv /\ fold \in FoldType /\ store \in Tree /\ UNCHANGED <<commits, head>>
      BY <1>4 DEF FoldUnlink, IInv
    <3>2. fold' \in FoldType /\ store' \in Tree /\ store'.closed = store.closed
      BY <2>2, <3>1 DEF FoldType, Tree
    <3>3. /\ fold'.packs = fold.packs \ {k} /\ fold'.drops = fold.drops \ {k}
          /\ fold'.image = fold.image /\ fold'.head = fold.head
          /\ fold'.current = fold.current /\ fold'.pc = "unlink"
      BY <1>4, <2>2, <3>1 DEF FoldUnlink, FoldType
    <3>4. PlanInv'
      BY <3>1, <3>3 DEF PlanInv, Outdated, Lines
    <3> QED  BY <3>1, <3>2, <3>3, <3>4 DEF IInv, Landed
  <2> QED  BY <1>4, <2>1, <2>2 DEF FoldUnlink
<1>5. CASE FoldDies
  BY <1>5 DEF FoldDies, IInv, NoFold, Landed, FoldType
<1> QED  BY <1>1, <1>2, <1>3, <1>4, <1>5, PlanOk DEF FoldStep

(* A new commit keeps what a plan says of the commit it was made on. *)
LEMMA NewCommitOk ==
  ASSUME IInv, NEW tree \in Tree, NEW code \in [Paths -> Contents \cup {None}],
         NewCommit(tree, code), UNCHANGED fold, store' \in Tree,
         tree.closed => store'.closed,
         store.files \subseteq store'.files,
         \A k \in tree.files : k \in Landed.files \/ k \in store'.files
  PROVE  IInv'
<1>1. /\ commits' \in Seq(CommitType) /\ head' \in DOMAIN commits'
      /\ \A c \in DOMAIN commits : c \in DOMAIN commits' /\ commits'[c] = commits[c]
      /\ Landed' = tree
  BY DEF IInv, NewCommit, CommitType, Landed
<1>2. PlanInv => PlanInv'
  BY <1>1 DEF PlanInv, Outdated
<1>3. SourcesInv => SourcesInv'
  BY <1>1 DEF SourcesInv
<1> QED  BY <1>1, <1>2, <1>3 DEF IInv

LEMMA WorldOk ==
  ASSUME IInv, World
  PROVE  IInv'
<1> USE DEF Elsewhere
<1>1. Landed \in Tree /\ Code \in [Paths -> Contents \cup {None}] /\ store \in Tree
  BY CommitsTyped DEF IInv, Landed, Code
<1>2. ASSUME NEW p \in Paths, NEW content \in Contents \cup {None}, EditCode(p, content)
      PROVE  IInv'
  BY <1>1, <1>2, NewCommitOk DEF EditCode, IInv
<1>3. ASSUME NEW p \in Paths, NEW anchor \in Anchor, Rebind(p, anchor)
      PROVE  IInv'
  BY <1>3 DEF Rebind, IInv, PlanInv, SourcesInv, Outdated, Landed
<1>4. CASE CommitAll
  BY <1>1, <1>4, NewCommitOk DEF CommitAll
<1>5. ASSUME NEW k \in Keys, Pull(k)
      PROVE  IInv'
  <2> DEFINE tree == [Landed EXCEPT !.files = @ \cup {k}]
  <2>1. tree \in Tree /\ store' \in Tree
    BY <1>1, <1>5 DEF Pull, Tree
  <2>2. NewCommit(tree, Code) /\ UNCHANGED fold /\ store'.files = store.files \cup {k}
        /\ store'.closed = store.closed
    BY <1>1, <1>5 DEF Pull, Tree
  <2>3. tree.files = Landed.files \cup {k} /\ tree.closed = Landed.closed
    BY <1>1 DEF Tree
  <2> QED  BY <1>1, <2>1, <2>2, <2>3, NewCommitOk DEF IInv
<1>6. ASSUME NEW c \in DOMAIN commits, Checkout(c)
      PROVE  IInv'
  <2> DEFINE to == commits[c].tree
  <2>1. to \in Tree /\ Landed' = to
    BY <1>6, CommitsTyped DEF IInv, Checkout, Landed
  <2>2. store' = CheckedOut(store, Landed, to) /\ MayCheckOut(store, Landed, to)
    BY <1>6 DEF Checkout
  <2>3. store' \in Tree
    BY <1>1, <2>1, <2>2 DEF CheckedOut, Tree
  <2>4. to.closed => store'.closed
    BY <1>1, <2>1, <2>2 DEF CheckedOut, MayCheckOut, Tree, IInv
  <2>5. ASSUME NEW k \in Keys, k \in to.files, k \in Landed.files => k \in store.files
        PROVE  k \in store'.files
    BY <2>2, <2>5 DEF CheckedOut
  <2>6. PlanInv => PlanInv'
    BY <1>6 DEF PlanInv, Outdated, Checkout
  <2>7. PlanInv /\ SourcesInv => SourcesInv'
    <3>1. fold.packs \subseteq Keys /\ fold' = fold
      BY <1>6 DEF IInv, FoldType, Checkout
    <3> QED  BY <2>1, <2>5, <3>1 DEF SourcesInv
  <2> QED  BY <1>6, <2>1, <2>3, <2>4, <2>6, <2>7 DEF IInv, Checkout
<1>7. CASE Close
  BY <1>1, <1>7 DEF Close, IInv, PlanInv, SourcesInv, Outdated, Landed, Tree
<1> QED  BY <1>2, <1>3, <1>4, <1>5, <1>6, <1>7, Zenon DEF World

LEMMA RecorderOk ==
  ASSUME IInv, Recorder
  PROVE  IInv'
<1>1. ASSUME NEW k \in Keys, NEW dies \in BOOLEAN, Publish(k, dies)
      PROVE  IInv'
  BY <1>1 DEF Publish, IInv, PlanInv, SourcesInv, Outdated, Landed, Tree
<1>2. ASSUME NEW checked \in SUBSET Paths, Begin(checked)
      PROVE  IInv'
  BY <1>2 DEF Begin, IInv, PlanInv, SourcesInv, Outdated, Landed
<1>3. CASE GiveUp
  BY <1>3 DEF GiveUp, IInv, PlanInv, SourcesInv, Outdated, Landed
<1> QED  BY <1>1, <1>2, <1>3 DEF Recorder

(* Nothing the invariant speaks of changes. *)
LEMMA QuietOk ==
  ASSUME IInv, UNCHANGED <<commits, head, store, fold>>
  PROVE  IInv'
BY DEF IInv, PlanInv, SourcesInv, Outdated, Landed

LEMMA RefresherOk ==
  ASSUME IInv, Refresher
  PROVE  IInv'
<1>1. UNCHANGED <<commits, head, store, fold>>
  BY DEF Refresher, ScanBegin, ScanDiff, ScanList, ScanFiles, ScanPacked, ScanPublish, Age,
         StoreUnchanged
<1> QED  BY <1>1, QuietOk

(* The inductive invariant of a fold holds in every state. *)
THEOREM DriftInvariant == Spec => []IInv
<1>1. IInv /\ [Next]_vars => IInv'
  <2> SUFFICES ASSUME IInv, [Next]_vars PROVE IInv'
    OBVIOUS
  <2>1. CASE UNCHANGED vars
    BY <2>1, QuietOk DEF vars
  <2> QED  BY <2>1, RecorderOk, RefresherOk, FoldStepOk, WorldOk DEF Next
<1> QED  BY <1>1, InitOk, PTL DEF Spec

(* No step of a fold, wherever it dies and whatever git does in between,      *)
(* changes the check that decides for an open decision.                      *)
THEOREM FoldsKeepChecks == Spec => FoldKeepsChecks
<1>1. IInv => (FoldStep /\ ~store.closed => Latest(Checks(store')) = Latest(Checks(store)))
  BY StepKeepsChecks
<1> QED  BY <1>1, DriftInvariant, PTL DEF FoldKeepsChecks

-----------------------------------------------------------------------------
(* The age of an episode. *)

(* The last episode is over when a check ended it, which the cached answer     *)
(* marks while the decision is listed, and when its tombstone is gone or old.  *)
AgesInv ==
    /\ cache \in {None} \cup Caches
    /\ cache = None => ended
    /\ cache # None =>
           IF cache.listed THEN cache.tomb = None /\ (cache.mark <=> ended)
           ELSE ended <=> (cache.tomb = None \/ cache.tomb.old)
    /\ ended \in BOOLEAN

LEMMA AgesInit == Init => AgesInv
BY DEF Init, AgesInv

(* What a check does to the cached answer. *)
LEMMA PublishAges ==
  ASSUME AgesInv, NEW k \in Keys, NEW dies \in BOOLEAN, Publish(k, dies)
  PROVE  AgesInv'
<1>1. CASE UNCHANGED <<cache, ended>>
  BY <1>1 DEF AgesInv
<1>2. CASE cache' = Cleared /\ ended' = TRUE
  <2>1. CASE cache = None
    BY <1>2, <2>1 DEF AgesInv, Cleared
  <2>2. CASE cache # None /\ Covers
    <3> DEFINE none == [listed |-> FALSE, stamp |-> None, tomb |-> None, mark |-> FALSE]
    <3>1. none \in Caches /\ none.listed = FALSE /\ none.tomb = None
      BY DEF Caches, Stamps
    <3>2. cache' = none
      BY <1>2, <2>2 DEF Cleared
    <3> QED  BY <1>2, <3>1, <3>2, AbsenceAssumption DEF AgesInv
  <2>3. CASE cache # None /\ ~Covers
    <3> DEFINE marked == cache.mark \/ cache.listed
               new == [listed |-> cache.listed, stamp |-> cache.stamp, tomb |-> None, mark |-> marked]
    <3>0. cache \in Caches /\ marked \in BOOLEAN
      BY <2>3 DEF AgesInv, Caches
    <3>1. cache' = [cache EXCEPT !.mark = marked, !.tomb = None]
      BY <1>2, <2>3 DEF Cleared
    <3>2. cache.listed => marked
      OBVIOUS
    <3> HIDE DEF marked
    <3>3. cache' = new
      BY <3>0, <3>1 DEF Caches
    <3>4. new \in Caches /\ new.listed = cache.listed /\ new.tomb = None /\ new.mark = marked
      BY <3>0 DEF Caches
    <3> HIDE DEF new
    <3> QED  BY <1>2, <3>0, <3>2, <3>3, <3>4, AbsenceAssumption DEF AgesInv
  <2> QED  BY <2>1, <2>2, <2>3
<1> QED  BY <1>1, <1>2 DEF Publish

LEMMA AnswerTyped ==
  /\ Answer.listed \in BOOLEAN /\ Answer.retained \in BOOLEAN
  /\ scan.failed = "no" => Answer.retained = FALSE
<1> DEFINE advisory == [listed |-> scan.changed # {}, retained |-> TRUE]
           key == Latest(scan.found)
           code == commits[scan.head].code
           before == [listed |-> cache # None /\ cache.listed, retained |-> FALSE]
           compared == [listed |-> Listed(scan, code, key), retained |-> FALSE]
<1>1. Answer = before \/ Answer = advisory \/ Answer = compared
  BY DEF Answer
<1> QED  BY <1>1 DEF Answer, Listed

(* What a refresh writes. *)
LEMMA RefreshAges ==
  ASSUME AgesInv, ScanPublish
  PROVE  AgesInv'
<1> DEFINE listed == Answer.listed
           stamp == IF listed THEN Stamp(Answer) ELSE None
           tomb == Tomb(Answer)
           first == [listed |-> listed, stamp |-> IF listed THEN "unknown" ELSE None,
                     tomb |-> None, mark |-> FALSE]
           later == [listed |-> listed, stamp |-> stamp, tomb |-> tomb, mark |-> FALSE]
<1>1. listed \in BOOLEAN
  BY AnswerTyped
<1>2. CASE cache = None
  <2>1. cache' = first /\ ended' = (ended /\ ~listed)
    BY <1>2 DEF ScanPublish, Refreshed
  <2>2. ended
    BY <1>2 DEF AgesInv
  <2> HIDE DEF listed
  <2>3. first \in Caches /\ first.listed = listed /\ first.tomb = None /\ first.mark = FALSE
    BY <1>1 DEF Caches, Stamps
  <2> HIDE DEF first
  <2> QED  BY <1>1, <2>1, <2>2, <2>3, AbsenceAssumption DEF AgesInv
<1>3. CASE cache # None
  <2>1. cache' = later /\ ended' = (ended /\ ~listed)
    BY <1>3 DEF ScanPublish, Refreshed
  <2>2. cache \in Caches
    BY <1>3 DEF AgesInv
  <2>3. Earlier(cache.stamp) \in Stamps \ {"now"}
    BY <2>2 DEF Caches, Stamps, Earlier
  <2>4. stamp \in Stamps
    BY <2>2, <2>3 DEF Stamp, Caches, Tombs, Stamps
  <2>5. tomb \in {None} \cup Tombs
    BY <2>2, <2>3 DEF Tomb, Caches, Tombs
  <2>6. IF listed THEN tomb = None
        ELSE (ended <=> (tomb = None \/ tomb.old))
    <3> DEFINE fresh == [stamp |-> Earlier(cache.stamp), old |-> FALSE]
    <3>1. fresh \in Tombs /\ fresh.old = FALSE
      BY <2>3 DEF Tombs
    <3>2. CASE listed
      BY <3>2 DEF Tomb
    <3>3. CASE ~listed /\ cache.listed
      <4>1. tomb = IF cache.mark THEN None ELSE fresh
        BY <3>3 DEF Tomb
      <4>2. cache.mark <=> ended
        BY <1>3, <3>3 DEF AgesInv
      <4> HIDE DEF tomb, fresh
      <4> QED  BY <3>1, <3>3, <4>1, <4>2, AbsenceAssumption
    <3>4. CASE ~listed /\ ~cache.listed
      <4>1. tomb = IF cache.tomb # None /\ cache.tomb.old THEN None ELSE cache.tomb
        BY <3>4 DEF Tomb
      <4>2. ended <=> (cache.tomb = None \/ cache.tomb.old)
        BY <1>3, <3>4 DEF AgesInv
      <4> HIDE DEF tomb
      <4> QED  BY <3>4, <4>1, <4>2
    <3> QED  BY <3>2, <3>3, <3>4
  <2> HIDE DEF listed, stamp, tomb
  <2>7. later \in Caches /\ later.listed = listed /\ later.tomb = tomb /\ later.mark = FALSE
    BY <1>1, <2>4, <2>5 DEF Caches
  <2> HIDE DEF later
  <2> QED  BY <1>1, <2>1, <2>6, <2>7, AbsenceAssumption DEF AgesInv
<1> QED  BY <1>2, <1>3

LEMMA AgeAges ==
  ASSUME AgesInv, Age
  PROVE  AgesInv'
<1> DEFINE yes == TRUE
           t == [cache.tomb EXCEPT !.old = yes]
<1>1. cache \in Caches /\ cache.tomb \in Tombs /\ ~cache.listed
  BY DEF AgesInv, Age, Caches
<1>2. cache' = [cache EXCEPT !.tomb = t] /\ ended'
  BY DEF Age
<1>3. yes \in BOOLEAN /\ yes
  OBVIOUS
<1> HIDE DEF yes
<1>4. t \in Tombs /\ t.old = yes
  BY <1>1, <1>3 DEF Tombs
<1> HIDE DEF t
<1>5. cache' \in Caches /\ cache'.listed = FALSE /\ cache'.tomb = t
  BY <1>1, <1>2, <1>4 DEF Caches
<1> QED  BY <1>2, <1>3, <1>4, <1>5, AbsenceAssumption DEF AgesInv, Age

(* No other step touches the cached answer. *)
LEMMA AgesStep == AgesInv /\ [Next]_vars => AgesInv'
<1> SUFFICES ASSUME AgesInv, [Next]_vars PROVE AgesInv'
  OBVIOUS
<1>1. CASE UNCHANGED <<cache, ended>>
  BY <1>1 DEF AgesInv
<1>2. ASSUME NEW k \in Keys, NEW dies \in BOOLEAN, Publish(k, dies)
      PROVE  AgesInv'
  BY <1>2, PublishAges
<1>3. CASE ScanPublish \/ Age
  BY <1>3, RefreshAges, AgeAges
<1>4. CASE FoldStep
  <2>1. UNCHANGED <<cache, ended>>
    BY <1>4 DEF FoldStep, FoldPlan, FoldRaise, FoldPublish, FoldRecheck, FoldUnlink, FoldDies,
       CodeUnchanged
  <2> QED  BY <1>1, <2>1
<1>5. CASE World
  <2>1. UNCHANGED <<cache, ended>>
    BY <1>5 DEF World, EditCode, Rebind, CommitAll, Pull, Checkout, Close, Elsewhere
  <2> QED  BY <1>1, <2>1
<1>6. ASSUME NEW checked \in SUBSET Paths, Begin(checked)
      PROVE  UNCHANGED <<cache, ended>>
  BY <1>6 DEF Begin
<1>7. CASE GiveUp
  BY <1>1, <1>7 DEF GiveUp
<1>8. ASSUME Refresher, ~ScanPublish, ~Age
      PROVE  UNCHANGED <<cache, ended>>
  BY <1>8 DEF Refresher, ScanBegin, ScanDiff, ScanList, ScanFiles, ScanPacked
<1>9. CASE UNCHANGED vars
  BY <1>1, <1>9 DEF vars
<1> QED  BY <1>1, <1>2, <1>3, <1>4, <1>5, <1>6, <1>7, <1>8, <1>9 DEF Next, Recorder

(* AgesInv in every state (store_layout.stamp_cache).                            *)
THEOREM SpecAgesInv == Spec => []AgesInv
BY AgesInit, AgesStep, PTL DEF Spec

(* A decision that comes back on the list is new if and only if its last       *)
(* episode was ended.                                                       *)
LEMMA StampIsRight ==
  ASSUME AgesInv, ScanPublish, cache # None, ~cache.listed, cache'.listed
  PROVE  IF scan.failed = "no" THEN (cache'.stamp = "now") = ended
         ELSE cache'.stamp = "now" => ended
<1> DEFINE listed == Answer.listed
           stamp == IF listed THEN Stamp(Answer) ELSE None
           tomb == Tomb(Answer)
           later == [listed |-> listed, stamp |-> stamp, tomb |-> tomb, mark |-> FALSE]
<1>1. cache' = later
  BY DEF ScanPublish, Refreshed
<1>2. listed /\ cache'.stamp = stamp
  BY <1>1
<1>3. cache \in Caches /\ (ended <=> (cache.tomb = None \/ cache.tomb.old)) /\ ended \in BOOLEAN
  BY DEF AgesInv
<1>4. stamp = IF cache.tomb # None /\ ~cache.tomb.old THEN cache.tomb.stamp
              ELSE IF Answer.retained THEN "unknown" ELSE "now"
  BY <1>2 DEF Stamp
<1>5. cache.tomb # None => cache.tomb.stamp # "now"
  BY <1>3 DEF Caches, Tombs
<1>6. stamp = "now" => ended
  BY <1>3, <1>4, <1>5
<1>7. scan.failed = "no" /\ ended => stamp = "now"
  BY <1>3, <1>4, AnswerTyped
<1> HIDE DEF stamp
<1> QED  BY <1>2, <1>3, <1>6, <1>7

(* A decision that comes back on the list gets a new age exactly when its last  *)
(* episode was over (store_layout.stamp_cache).                               *)
THEOREM AgesCountEpisodes == Spec => AgesAreRight
<1>1. AgesInv => (ScanPublish /\ cache # None /\ ~cache.listed /\ cache'.listed =>
           IF scan.failed = "no" THEN (cache'.stamp = "now") = ended
           ELSE cache'.stamp = "now" => ended)
  BY StampIsRight
<1> QED  BY <1>1, SpecAgesInv, PTL DEF AgesAreRight

-----------------------------------------------------------------------------
(* What a refresh that nothing disturbs reads. *)

Failures == {"no", "diff", "checks", "compare", "then"}

ScanType == [pc : {"idle", "diff", "head", "files", "packed", "publish"}, known : BOOLEAN,
             leaves : SUBSET Paths, orphaned : SUBSET Paths, changed : SUBSET Paths, head : Nat,
             names : SUBSET Keys, found : SUBSET Keys, failed : Failures, calm : BOOLEAN]

(* Files only go, into lines; so what was found is no later than the check     *)
(* that decides, and that one was found or is a line still.                   *)
ReadInv ==
    LET key == Latest(Checks(store)) IN
    /\ scan.pc = "files" => store.files \subseteq scan.names /\ \A k \in scan.names : k <= key
    /\ scan.pc = "packed" => /\ \A k \in scan.found : k <= key
                             /\ key # 0 => key \in WithPacked
    /\ scan.pc = "publish" /\ scan.failed # "diff" => Latest(scan.found) = key

(* What it has read of the anchors and of the code. *)
SeenInv ==
    /\ scan.leaves = Leaves
    /\ scan.orphaned = IF scan.known THEN Leaves \ Live ELSE {}
    /\ scan.pc # "diff" => scan.changed = ScanOfNow(scan.known).changed
    /\ scan.pc \in {"files", "packed"} \/ (scan.pc = "publish" /\ scan.failed # "diff") =>
           scan.head = head

ScanInv ==
    /\ scan \in ScanType
    /\ scan.pc # "idle" /\ scan.calm => ~store.closed /\ ReadInv /\ SeenInv

(* A line that a fold loses is outdated by one that it writes. *)
LEMMA FoldKeepsLines ==
  ASSUME IInv, FoldStep, ~store.closed
  PROVE  /\ \A k \in Lines(store) : k \in Lines(store') \/ \E j \in Lines(store') : k < j
         /\ store'.files \subseteq store.files
         /\ store' \in Tree /\ ~store'.closed
<1>1. CASE UNCHANGED store
  BY <1>1 DEF IInv
<1>2. CASE FoldRaise
  BY <1>2 DEF FoldRaise, IInv, Tree, Lines
<1>3. CASE FoldUnlink
  BY <1>1, <1>3 DEF FoldUnlink, IInv, Tree, Lines
<1>4. CASE FoldPublish /\ ~UNCHANGED store
  <2>1. PlanInv /\ fold \in FoldType /\ store \in Tree
    BY <1>4 DEF IInv, FoldPublish
  <2>2. /\ head = fold.head /\ store.packed = fold.current
        /\ store' = [store EXCEPT !.packed = fold.image]
    BY <1>4, <2>1 DEF FoldPublish, Witness, Tree
  <2>3. /\ Lines(store) = Lines([packed |-> fold.current]) /\ Lines(store') = fold.image
        /\ store'.files = store.files /\ store' \in Tree /\ store'.closed = store.closed
    BY <2>1, <2>2, NoneAssumption DEF Lines, Tree, FoldType
  <2>4. ~commits[fold.head].tree.closed
    BY <2>2 DEF IInv, Landed
  <2> QED  BY <2>1, <2>3, <2>4 DEF PlanInv, Outdated
<1> QED  BY <1>1, <1>2, <1>3, <1>4 DEF FoldStep, FoldPlan, FoldRecheck, FoldDies

LEMMA FoldKeepsScan ==
  ASSUME IInv, ScanInv, FoldStep
  PROVE  ScanInv'
<1>1. UNCHANGED <<commits, head, anchors, scan>>
  BY DEF FoldStep, FoldPlan, FoldRaise, FoldPublish, FoldRecheck, FoldUnlink, FoldDies, CodeUnchanged
<1> SUFFICES ASSUME scan.pc # "idle", scan.calm PROVE ~store'.closed /\ ReadInv' /\ SeenInv'
  BY <1>1 DEF ScanInv
<1>2. ~store.closed /\ ReadInv /\ SeenInv /\ scan \in ScanType /\ store \in Tree
  BY DEF ScanInv, IInv
<1> DEFINE key == Latest(Checks(store))
<1>3. Latest(Checks(store')) = key
  BY <1>2, StepKeepsChecks
<1>4. /\ \A k \in Lines(store) : k \in Lines(store') \/ \E j \in Lines(store') : k < j
      /\ store'.files \subseteq store.files
      /\ store' \in Tree /\ ~store'.closed
  BY <1>2, FoldKeepsLines
<1>5. ASSUME key # 0, key \in scan.found \cup Lines(store)
      PROVE  key \in scan.found \cup Lines(store')
  <2>1. SUFFICES ASSUME key \in Lines(store), NEW j \in Lines(store'), key < j PROVE FALSE
    BY <1>4, <1>5
  <2>2. Checks(store') \in SUBSET Keys /\ j \in Checks(store')
    BY <1>4 DEF Checks, Lines, Tree
  <2>3. j <= key
    BY <1>3, <2>2, LatestIsGreatest
  <2>4. j \in Nat /\ key \in Nat
    BY <1>2, <2>2, <2>1 DEF Keys, Lines, Tree
  <2> HIDE DEF key
  <2> QED  BY <2>1, <2>3, <2>4
<1>6. ReadInv'
  BY <1>1, <1>2, <1>3, <1>4, <1>5 DEF ReadInv, WithPacked
<1>7. SeenInv'
  BY <1>1, <1>2 DEF SeenInv, ScanOfNow, Leaves, Live, Code, Captured
<1> QED  BY <1>4, <1>6, <1>7

(* Reading the anchors, and the code. *)
LEMMA BeginKeepsScan ==
  ASSUME IInv, ScanInv, NEW known \in BOOLEAN, ScanBegin(known)
  PROVE  ScanInv'
<1> DEFINE orphaned == IF known THEN Leaves \ Live ELSE {}
<1>1. UNCHANGED <<commits, head, anchors, store>> /\ ~store.closed
  BY DEF ScanBegin, StoreUnchanged
<1>2. Leaves \in SUBSET Paths /\ orphaned \in SUBSET Paths
  BY DEF Leaves
<1>3. NoScan \in ScanType /\ NoScan.failed = "no"
  BY DEF NoScan, ScanType, Failures
<1>4. scan' = [NoScan EXCEPT !.pc = "diff", !.known = known, !.leaves = Leaves, !.orphaned = orphaned]
  BY DEF ScanBegin
<1> HIDE DEF orphaned
<1>5. /\ scan' \in ScanType /\ scan'.pc = "diff" /\ scan'.known = known
      /\ scan'.leaves = Leaves /\ scan'.orphaned = orphaned /\ scan'.failed = "no"
  BY <1>2, <1>3, <1>4 DEF ScanType
<1>6. Leaves' = Leaves /\ Live' = Live
  BY <1>1 DEF Leaves, Live
<1> QED  BY <1>1, <1>5, <1>6 DEF ScanInv, ReadInv, SeenInv, orphaned

LEMMA DiffKeepsScan ==
  ASSUME ScanInv, NEW failed \in {"no", "diff"}, ScanDiff(failed)
  PROVE  ScanInv'
<1> DEFINE changed == {p \in scan.leaves \ scan.orphaned :
                          /\ Code[p] # Captured[p]
                          /\ scan.known \/ Code[p] # None}
           pc == IF failed = "no" THEN "head" ELSE "publish"
<1>1. UNCHANGED <<commits, head, anchors, store>>
  BY DEF ScanDiff, StoreUnchanged
<1>2. scan \in ScanType
  BY DEF ScanInv
<1>3. changed \in SUBSET Paths /\ pc \in {"head", "publish"} /\ (pc = "publish" => failed = "diff")
  BY <1>2 DEF ScanType
<1>4. scan' = [scan EXCEPT !.pc = pc, !.failed = failed, !.changed = changed]
  BY DEF ScanDiff
<1>5. SeenInv => changed = ScanOfNow(scan.known).changed
  BY DEF ScanOfNow, SeenInv
<1> HIDE DEF changed, pc
<1>6. /\ scan' \in ScanType /\ scan'.pc = pc /\ scan'.failed = failed /\ scan'.changed = changed
      /\ scan'.known = scan.known /\ scan'.leaves = scan.leaves /\ scan'.orphaned = scan.orphaned
      /\ scan'.calm = scan.calm
  BY <1>2, <1>3, <1>4 DEF ScanType, Failures
<1>7. scan.calm => ~store.closed /\ SeenInv
  BY DEF ScanInv, ScanDiff
<1>8. ScanOfNow(scan.known)' = ScanOfNow(scan'.known)
  BY <1>1, <1>6 DEF ScanOfNow, Leaves, Live, Code, Captured
<1>9. scan.calm => ReadInv' /\ SeenInv'
  BY <1>1, <1>3, <1>5, <1>6, <1>7 DEF ReadInv, SeenInv, ScanOfNow, Leaves, Live, Code, Captured
<1> QED  BY <1>1, <1>6, <1>7, <1>9 DEF ScanInv

(* The names, the files, the lines. *)
LEMMA ListKeepsScan ==
  ASSUME IInv, ScanInv, ScanList
  PROVE  ScanInv'
<1>1. UNCHANGED <<commits, head, anchors, store>>
  BY DEF ScanList, StoreUnchanged
<1>2. scan \in ScanType /\ store \in Tree /\ head \in Nat
  BY DEF ScanInv, IInv
<1>3. scan' = [scan EXCEPT !.pc = "files", !.head = head, !.names = store.files]
  BY DEF ScanList
<1>4. /\ scan' \in ScanType /\ scan'.pc = "files" /\ scan'.names = store.files /\ scan'.head = head
      /\ scan'.known = scan.known /\ scan'.leaves = scan.leaves /\ scan'.orphaned = scan.orphaned
      /\ scan'.calm = scan.calm /\ scan'.changed = scan.changed
  BY <1>2, <1>3 DEF ScanType, Tree
<1>5. scan.calm => ~store.closed /\ SeenInv /\ scan.pc = "head"
  BY DEF ScanInv, ScanList
<1>6. scan.calm => SeenInv'
  BY <1>1, <1>4, <1>5 DEF SeenInv, ScanOfNow, Leaves, Live, Code, Captured
<1>7. \A k \in store.files : k <= Latest(Checks(store))
  <2>1. Checks(store) \in SUBSET Keys /\ store.files \subseteq Checks(store)
    BY <1>2 DEF Checks, Lines, Tree
  <2> QED  BY <2>1, LatestIsGreatest
<1>8. ReadInv'
  BY <1>1, <1>4, <1>7 DEF ReadInv
<1> QED  BY <1>1, <1>4, <1>5, <1>6, <1>8 DEF ScanInv

LEMMA FilesKeepScan ==
  ASSUME IInv, ScanInv, ScanFiles
  PROVE  ScanInv'
<1> DEFINE key == Latest(Checks(store))
<1>1. UNCHANGED <<commits, head, anchors, store>>
  BY DEF ScanFiles, StoreUnchanged
<1>2. scan \in ScanType /\ store \in Tree
  BY DEF ScanInv, IInv
<1>3. scan' = [scan EXCEPT !.pc = "packed", !.found = scan.names \cap store.files]
  BY DEF ScanFiles
<1>4. /\ scan' \in ScanType /\ scan'.pc = "packed" /\ scan'.found = scan.names \cap store.files
      /\ scan'.known = scan.known /\ scan'.leaves = scan.leaves /\ scan'.orphaned = scan.orphaned
      /\ scan'.calm = scan.calm /\ scan'.changed = scan.changed /\ scan'.head = scan.head
  BY <1>2, <1>3 DEF ScanType, Tree
<1> SUFFICES ASSUME scan.calm PROVE ReadInv' /\ SeenInv' /\ ~store'.closed
  BY <1>4 DEF ScanInv
<1>5. ~store.closed /\ SeenInv /\ ReadInv /\ scan.pc = "files"
  BY DEF ScanInv, ScanFiles
<1>6. SeenInv'
  BY <1>1, <1>4, <1>5 DEF SeenInv, ScanOfNow, Leaves, Live, Code, Captured
<1>7. key # 0 => key \in store.files \cup Lines(store)
  <2>1. Checks(store) \in SUBSET Keys
    BY <1>2 DEF Checks, Lines, Tree
  <2>2. Checks(store) # {} => key \in Checks(store)
    BY <2>1, LatestIsGreatest
  <2> QED  BY <2>2 DEF Latest, Checks
<1>8. ReadInv'
  BY <1>1, <1>4, <1>5, <1>7 DEF ReadInv, WithPacked
<1> QED  BY <1>1, <1>5, <1>6, <1>8

LEMMA PackedKeepsScan ==
  ASSUME IInv, ScanInv, NEW failed \in {"no", "checks", "compare", "then"}, ScanPacked(failed)
  PROVE  ScanInv'
<1> DEFINE key == Latest(Checks(store))
<1>1. UNCHANGED <<commits, head, anchors, store>>
  BY DEF ScanPacked, StoreUnchanged
<1>2. scan \in ScanType /\ store \in Tree /\ WithPacked \in SUBSET Keys
  BY DEF ScanInv, IInv, WithPacked, ScanType, Lines, Tree
<1>3. scan' = [scan EXCEPT !.pc = "publish", !.failed = failed, !.found = WithPacked]
  BY DEF ScanPacked
<1>4. /\ scan' \in ScanType /\ scan'.pc = "publish" /\ scan'.found = WithPacked
      /\ scan'.known = scan.known /\ scan'.leaves = scan.leaves /\ scan'.orphaned = scan.orphaned
      /\ scan'.calm = scan.calm /\ scan'.changed = scan.changed /\ scan'.head = scan.head
  BY <1>2, <1>3 DEF ScanType, Failures
<1> SUFFICES ASSUME scan.calm PROVE ReadInv' /\ SeenInv' /\ ~store'.closed
  BY <1>4 DEF ScanInv
<1>5. ~store.closed /\ SeenInv /\ ReadInv /\ scan.pc = "packed"
  BY DEF ScanInv, ScanPacked
<1>6. SeenInv'
  BY <1>1, <1>4, <1>5 DEF SeenInv, ScanOfNow, Leaves, Live, Code, Captured
<1>7. Latest(WithPacked) = key
  <2>1. Checks(store) \in SUBSET Keys
    BY <1>2 DEF Checks, Lines, Tree
  <2>2. \A k \in Checks(store) : k <= key
    BY <2>1, LatestIsGreatest
  <2>3. \A k \in WithPacked : k <= key
    BY <1>5, <2>2 DEF ReadInv, WithPacked, Checks
  <2>4. CASE key = 0
    <3>1. WithPacked = {}
      BY <1>2, <2>3, <2>4 DEF Keys
    <3> QED  BY <2>4, <3>1 DEF Latest
  <2>5. CASE key # 0
    <3>1. key \in WithPacked
      BY <1>5, <2>5 DEF ReadInv
    <3>2. Latest(WithPacked) \in WithPacked /\ key <= Latest(WithPacked)
      BY <1>2, <3>1, LatestIsGreatest
    <3> DEFINE last == Latest(WithPacked)
    <3>3. last \in WithPacked /\ key <= last
      BY <3>2
    <3> HIDE DEF key, last
    <3>4. last <= key /\ last \in Keys /\ key \in Keys
      BY <1>2, <2>3, <3>1, <3>3
    <3>5. last = key
      BY <3>3, <3>4 DEF Keys
    <3> QED  BY <3>5 DEF last
  <2> QED  BY <2>4, <2>5
<1>8. ReadInv'
  BY <1>1, <1>4, <1>7 DEF ReadInv
<1> QED  BY <1>1, <1>5, <1>6, <1>8

LEMMA ScanInit == Init => ScanInv
BY DEF Init, ScanInv, ScanType, NoScan, Failures

LEMMA ScanStep == IInv /\ ScanInv /\ [Next]_vars => ScanInv'
<1> SUFFICES ASSUME IInv, ScanInv, [Next]_vars PROVE ScanInv'
  OBVIOUS
<1>1. ASSUME Disturb PROVE ScanInv'
  <2> DEFINE no == FALSE
  <2>1. scan' = [scan EXCEPT !.calm = no] /\ no \in BOOLEAN /\ ~no
    BY <1>1 DEF Disturb
  <2> HIDE DEF no
  <2>2. scan' \in ScanType /\ scan'.calm = no
    BY <2>1 DEF ScanInv, ScanType
  <2> QED  BY <2>1, <2>2 DEF ScanInv
<1>2. ASSUME UNCHANGED <<commits, head, store, anchors, scan>> PROVE ScanInv'
  BY <1>2 DEF ScanInv, ReadInv, SeenInv, WithPacked, ScanOfNow, Leaves, Live, Code, Captured
<1>3. CASE Recorder
  BY <1>1, <1>2, <1>3 DEF Recorder, Begin, Publish, GiveUp
<1>4. CASE World
  BY <1>1, <1>4 DEF World, EditCode, Rebind, CommitAll, Pull, Checkout, Close
<1>5. CASE Refresher
  <2>1. CASE ScanPublish
    BY <2>1 DEF ScanPublish, ScanInv, ScanType, NoScan, Failures
  <2>2. CASE Age
    BY <1>2, <2>2 DEF Age, StoreUnchanged
  <2> QED  BY <1>5, <2>1, <2>2, BeginKeepsScan, DiffKeepsScan, ListKeepsScan, FilesKeepScan,
              PackedKeepsScan DEF Refresher
<1>6. CASE UNCHANGED vars
  BY <1>2, <1>6 DEF vars
<1> QED  BY <1>3, <1>4, <1>5, <1>6, FoldKeepsScan DEF Next

(* ScanInv in every state of a refresh (drift_checks.load_check_inventory).      *)
THEOREM SpecScanInv == Spec => []ScanInv
BY ScanInit, ScanStep, DriftInvariant, PTL DEF Spec

(* A refresh that lists the check files while a fold moves them into           *)
(* packed.shard, and that nothing else disturbs, has the check that decides.  *)
THEOREM ScansReadTheLatest == Spec => []ReadsLatest
<1>1. ScanInv => ReadsLatest
  BY DEF ScanInv, ReadInv, ReadsLatest
<1> QED  BY <1>1, SpecScanInv, PTL

(* What a refresh leaves off the list was seen.                             *)
LEMMA QuietIsSeen ==
  ASSUME ScanInv, ScanPublish, scan.calm, scan.failed # "diff", ~cache'.listed, NEW p \in Live
  PROVE  \/ Code[p] = Captured[p]
         \/ SeenByCheck(p)
         \/ ~scan.known /\ Code[p] = None
<1> DEFINE key == Latest(scan.found)
           check == body[key]
           aside == Aside(scan, Code, check, TRUE)
<1>1. SeenInv /\ ReadInv /\ scan.pc = "publish"
  BY DEF ScanInv, ScanPublish
<1>2. scan.head = head /\ key = Latest(Checks(store)) /\ Code = commits[scan.head].code
  BY <1>1 DEF SeenInv, ReadInv, Code
<1>3. cache'.listed = Answer.listed
  BY DEF ScanPublish, Refreshed
<1>4. \/ ~(scan.changed # {})
      \/ ~Listed(scan, Code, key)
  BY <1>2, <1>3 DEF Answer
<1>5. p \in Leaves \ (IF scan.known THEN Leaves \ Live ELSE {})
  BY DEF Leaves, Live
<1>6. p \in scan.changed \/ Code[p] = Captured[p] \/ (~scan.known /\ Code[p] = None)
  BY <1>1, <1>5 DEF SeenInv, ScanOfNow
<1>7. CASE p \in scan.changed
  <2>1. key # 0 /\ CheckSettles(scan, Code, check, TRUE)
    BY <1>4, <1>7 DEF Listed
  <2>2. p \in check.checked \cup aside /\ \A r \in check.checked : Code[r] = check.code[r]
    BY <1>7, <2>1 DEF CheckSettles
  <2>3. p \in aside => ~scan.known /\ (Code[p] = None \/ Code[p] = check.code[p])
    BY DEF Aside
  <2> HIDE DEF aside
  <2> QED  BY <1>2, <2>1, <2>2, <2>3 DEF SeenByCheck
<1> QED  BY <1>6, <1>7

(* A refresh that nothing disturbs leaves the decision off the list only if    *)
(* the capture or the check that decides has seen every anchored file as it   *)
(* is, also when comparisons fail and a fold runs.                           *)
THEOREM QuietRefreshesSaw == Spec => QuietMeansSeen
<1>1. ScanInv => (ScanPublish /\ scan.calm /\ scan.failed # "diff" /\ ~cache'.listed =>
           \A p \in Live : \/ Code[p] = Captured[p]
                           \/ SeenByCheck(p)
                           \/ ~scan.known /\ Code[p] = None)
  BY QuietIsSeen
<1> QED  BY <1>1, SpecScanInv, PTL DEF QuietMeansSeen

-----------------------------------------------------------------------------
(* The commit of what a fold has left. *)

(* While nothing of another branch is in the store, it may be committed; the   *)
(* marker is raised before the lines are written.                            *)
CommitInv ==
    ~mixed =>
        /\ NoneLost(Landed, store)
        /\ LinesHaveSources(Landed, store)
        /\ PackedIsDeclared(Landed) => PackedIsDeclared(store)
        /\ fold.pc = "publish" /\ head = fold.head => store.marker

LEMMA CommitInit == Init => CommitInv
<1> SUFFICES ASSUME Init PROVE CommitInv
  OBVIOUS
<1>1. PICK s \in Settings : \E code \in s.codes : commits = <<[tree |-> EmptyStore, code |-> code]>>
  BY DEF Init
<1>2. Landed = EmptyStore /\ store = EmptyStore
  BY <1>1 DEF Init, Landed
<1> QED  BY <1>2 DEF Init, CommitInv, NoneLost, LinesHaveSources, PackedIsDeclared, NoFold,
                     EmptyStore, Checks, Lines

(* Removing files leaves the rest of the store as it is. *)
LEMMA UnlinkKeepsRest ==
  ASSUME store \in Tree, fold \in FoldType, FoldUnlink
  PROVE  /\ store' \in Tree /\ fold'.pc # "publish"
         /\ store'.packed = store.packed /\ store'.marker = store.marker
         /\ store'.closed = store.closed
<1> DEFINE rest == fold.packs \cup fold.drops
           k == CHOOSE i \in rest : \A j \in rest : i <= j
<1>1. CASE rest = {} \/ ~MayUnlink(k)
  BY <1>1 DEF FoldUnlink, Folded, NoFold
<1>2. CASE rest # {} /\ MayUnlink(k)
  <2>1. /\ store' = [store EXCEPT !.files = @ \ {k}]
        /\ fold' = [fold EXCEPT !.packs = @ \ {k}, !.drops = @ \ {k}]
        /\ fold.pc = "unlink"
    BY <1>2 DEF FoldUnlink, Folded
  <2> HIDE DEF k
  <2> QED  BY <2>1 DEF Tree, FoldType
<1> QED  BY <1>1, <1>2

LEMMA FoldKeepsCommits ==
  ASSUME IInv, CommitInv, FoldStep
  PROVE  CommitInv'
<1>1. UNCHANGED <<commits, head, mixed>> /\ Landed' = Landed
  BY DEF FoldStep, FoldPlan, FoldRaise, FoldPublish, FoldRecheck, FoldUnlink, FoldDies,
     CodeUnchanged, Landed
<1> SUFFICES ASSUME ~mixed PROVE CommitInv'
  BY <1>1 DEF CommitInv
<1>2. /\ store \in Tree /\ Landed \in Tree /\ fold \in FoldType
      /\ Landed.closed => store.closed
  BY CommitsTyped DEF IInv, Landed
<1>3. /\ NoneLost(Landed, store) /\ LinesHaveSources(Landed, store)
      /\ PackedIsDeclared(Landed) => PackedIsDeclared(store)
  BY DEF CommitInv
<1>4. store' \in Tree /\ (store.closed => store'.closed)
  <2>1. CASE UNCHANGED store
    BY <1>2, <2>1
  <2>2. CASE FoldRaise \/ FoldPublish
    BY <1>2, <2>2 DEF FoldRaise, FoldPublish, Witness, Tree, FoldType
  <2> QED  BY <1>2, <2>1, <2>2, UnlinkKeepsRest DEF FoldStep, FoldPlan, FoldRecheck, FoldDies
<1>5. NoneLost(Landed, store')
  <2>1. CASE store.closed
    BY <1>4, <2>1 DEF NoneLost
  <2>2. CASE ~store.closed
    <3> DEFINE key == Latest(Checks(store))
    <3>1. Latest(Checks(store')) = key
      BY <2>2, StepKeepsChecks
    <3>2. SUFFICES ASSUME NEW k \in Checks(Landed) \ Checks(store') PROVE key > k
      BY <3>1 DEF NoneLost
    <3>3. CASE k \notin Checks(store)
      BY <1>3, <2>2, <3>3 DEF NoneLost
    <3>4. CASE k \in Checks(store)
      <4>1. Checks(store) \in SUBSET Keys /\ Checks(store') \in SUBSET Keys
        BY <1>2, <1>4 DEF Checks, Lines, Tree
      <4>2. key \in Keys /\ k <= key /\ k \in Keys
        BY <3>4, <4>1, LatestIsGreatest
      <4>3. key \in Checks(store')
        <5>1. Checks(store') # {}
          BY <3>1, <4>2 DEF Latest, Keys
        <5> QED  BY <3>1, <4>1, <5>1, LatestIsGreatest
      <4> HIDE DEF key
      <4> QED  BY <4>2, <4>3 DEF Keys
    <3> QED  BY <3>3, <3>4
  <2> QED  BY <2>1, <2>2
<1>6. CASE Lines(store') = Lines(store) /\ (fold'.pc = "publish" => store'.marker)
           /\ (PackedIsDeclared(store) => PackedIsDeclared(store'))
  BY <1>1, <1>3, <1>5, <1>6 DEF CommitInv, LinesHaveSources
<1>7. CASE FoldRaise
  BY <1>2, <1>6, <1>7 DEF FoldRaise, Folded, Lines, Tree, PackedIsDeclared
<1>8. CASE FoldUnlink
  BY <1>2, <1>6, <1>8, UnlinkKeepsRest DEF Lines, PackedIsDeclared
<1>9. CASE FoldPlan \/ FoldRecheck \/ FoldDies
  BY <1>2, <1>6, <1>9 DEF FoldPlan, FoldRecheck, FoldDies, Folded, Lines, PackedIsDeclared,
     NoFold, FoldType
<1>10. CASE FoldPublish
  <2>1. PlanInv /\ SourcesInv
    BY <1>10 DEF FoldPublish, IInv
  <2>2. CASE UNCHANGED store
    BY <1>2, <1>6, <1>10, <2>2 DEF FoldPublish, Folded, Lines, PackedIsDeclared, NoFold, FoldType
  <2>3. CASE ~UNCHANGED store
    <3>1. /\ head = fold.head /\ store.packed = fold.current
          /\ store' = [store EXCEPT !.packed = fold.image]
          /\ fold'.pc # "publish" /\ store.marker
      BY <1>2, <1>10, <2>3 DEF FoldPublish, Folded, Witness, Tree, FoldType, CommitInv
    <3>2. Lines(store') = fold.image /\ store'.marker
      BY <1>2, <3>1, NoneAssumption DEF Lines, Tree, FoldType
    <3>3. Lines([packed |-> fold.current]) = Lines(store)
      BY <3>1 DEF Lines
    <3>4. Lines(store') \subseteq Checks(Landed)
      BY <1>3, <2>1, <3>1, <3>2, <3>3 DEF PlanInv, SourcesInv, LinesHaveSources, Landed, Checks
    <3> QED  BY <1>1, <1>5, <3>1, <3>2, <3>4 DEF CommitInv, LinesHaveSources, PackedIsDeclared
  <2> QED  BY <2>2, <2>3
<1> QED  BY <1>7, <1>8, <1>9, <1>10 DEF FoldStep

(* A later store has more checks, or its decision closed. *)
LEMMA NoneLostGrows ==
  ASSUME NEW old \in Tree, NEW new \in Tree, NEW next \in Tree, NoneLost(old, new),
         Checks(new) \subseteq Checks(next), new.closed => next.closed
  PROVE  NoneLost(old, next)
<1> SUFFICES ASSUME NEW k \in Checks(old) \ Checks(next), ~next.closed
             PROVE  Latest(Checks(next)) > k
  BY DEF NoneLost
<1> DEFINE one == Latest(Checks(new))
           two == Latest(Checks(next))
<1>1. one > k
  BY DEF NoneLost
<1>2. Checks(new) \in SUBSET Keys /\ Checks(next) \in SUBSET Keys /\ k \in Keys
  BY DEF Checks, Lines, Tree
<1>3. Checks(new) # {}
  BY <1>1, <1>2 DEF Latest, Keys
<1>4. one \in Checks(new)
  BY <1>2, <1>3, LatestIsGreatest
<1>5. two \in Checks(next) /\ one <= two
  BY <1>2, <1>4, LatestIsGreatest
<1>6. one \in Keys /\ two \in Keys
  BY <1>2, <1>4, <1>5
<1> HIDE DEF one, two
<1>7. two > k
  BY <1>1, <1>2, <1>5, <1>6 DEF Keys
<1> QED  BY <1>7 DEF two

(* Other writers add checks, or close the decision. *)
LEMMA WritersKeepCommits ==
  ASSUME IInv, CommitInv, UNCHANGED <<commits, head, mixed, fold>>,
         store' \in Tree, store.files \subseteq store'.files, store'.packed = store.packed,
         store'.marker = store.marker, store.closed => store'.closed
  PROVE  CommitInv'
<1>1. store \in Tree /\ Landed \in Tree /\ Landed' = Landed
  BY CommitsTyped DEF IInv, Landed
<1>2. Lines(store') = Lines(store) /\ Checks(store) \subseteq Checks(store')
  BY DEF Lines, Checks
<1>3. NoneLost(Landed, store) => NoneLost(Landed, store')
  BY <1>1, <1>2, NoneLostGrows
<1> QED  BY <1>1, <1>2, <1>3 DEF CommitInv, LinesHaveSources, PackedIsDeclared

LEMMA WorldKeepsCommits ==
  ASSUME IInv, CommitInv, World
  PROVE  CommitInv'
<1> USE DEF Elsewhere
<1>1. /\ Landed \in Tree /\ store \in Tree /\ commits \in Seq(CommitType) /\ fold \in FoldType
      /\ head \in DOMAIN commits /\ (fold.pc = "publish" => fold.head \in DOMAIN commits)
  BY CommitsTyped DEF IInv, Landed, PlanInv
<1>2. ASSUME NEW tree \in Tree, NEW code, NewCommit(tree, code), fold' = fold
      PROVE  Landed' = tree /\ (fold'.pc = "publish" => head' # fold'.head)
  BY <1>1, <1>2 DEF NewCommit, Landed
<1>3. ASSUME NEW p \in Paths, NEW content \in Contents \cup {None}, EditCode(p, content)
      PROVE  CommitInv'
  <2>1. Landed' = Landed /\ (fold'.pc = "publish" => head' # fold'.head)
    BY <1>1, <1>2, <1>3 DEF EditCode
  <2> QED  BY <1>3, <2>1 DEF EditCode, CommitInv
<1>4. ASSUME NEW p \in Paths, NEW anchor \in Anchor, Rebind(p, anchor)
      PROVE  CommitInv'
  BY <1>1, <1>4, WritersKeepCommits DEF Rebind
<1>5. CASE CommitAll
  <2>1. Landed' = store /\ store' = store /\ (fold'.pc = "publish" => head' # fold'.head)
    BY <1>1, <1>2, <1>5 DEF CommitAll
  <2> QED  BY <2>1 DEF CommitInv, NoneLost, LinesHaveSources, Checks
<1>6. ASSUME NEW k \in Keys, Pull(k)
      PROVE  CommitInv'
  <2> DEFINE tree == [Landed EXCEPT !.files = @ \cup {k}]
  <2>1. tree \in Tree /\ store' \in Tree
    BY <1>1, <1>6 DEF Pull, Tree
  <2>2. /\ tree.files = Landed.files \cup {k} /\ tree.packed = Landed.packed
        /\ tree.marker = Landed.marker
        /\ store'.files = store.files \cup {k} /\ store'.packed = store.packed
        /\ store'.marker = store.marker /\ store'.closed = store.closed
    BY <1>1, <1>6 DEF Pull, Tree
  <2>3. NewCommit(tree, Code) /\ UNCHANGED <<fold, mixed>>
    BY <1>6 DEF Pull
  <2> HIDE DEF tree
  <2>4. Landed' = tree /\ (fold'.pc = "publish" => head' # fold'.head)
    BY <1>2, <2>1, <2>3
  <2>5. /\ Checks(store') = Checks(store) \cup {k} /\ Checks(tree) = Checks(Landed) \cup {k}
        /\ Lines(store') = Lines(store)
    BY <2>2 DEF Checks, Lines
  <2>6. NoneLost(Landed, store) => NoneLost(Landed, store')
    BY <1>1, <2>1, <2>2, <2>5, NoneLostGrows
  <2>7. NoneLost(Landed, store) => NoneLost(tree, store')
    BY <2>5, <2>6 DEF NoneLost
  <2> QED  BY <2>2, <2>3, <2>4, <2>5, <2>7 DEF CommitInv, LinesHaveSources, PackedIsDeclared
<1>7. ASSUME NEW c \in DOMAIN commits, Checkout(c)
      PROVE  CommitInv'
  <2> DEFINE to == commits[c].tree
  <2> SUFFICES ASSUME ~mixed' PROVE CommitInv'
    BY DEF CommitInv
  <2>1. store = Landed /\ fold'.pc = "idle" /\ Landed' = to /\ to \in Tree
    BY <1>1, <1>7, CommitsTyped DEF Checkout, Landed
  <2>2. store' = CheckedOut(Landed, Landed, to)
    BY <1>7, <2>1 DEF Checkout
  <2>3. /\ store'.files = to.files /\ store'.packed = to.packed /\ store'.marker = to.marker
    BY <1>1, <2>1, <2>2 DEF CheckedOut, Tree
  <2>4. Checks(store') = Checks(to) /\ Lines(store') = Lines(to)
    BY <2>3 DEF Checks, Lines
  <2> HIDE DEF to
  <2> QED  BY <2>1, <2>3, <2>4 DEF CommitInv, NoneLost, LinesHaveSources, PackedIsDeclared, Checks
<1>8. CASE Close
  <2>1. /\ store' \in Tree /\ store'.files = store.files /\ store'.packed = store.packed
        /\ store'.marker = store.marker /\ store'.closed
    BY <1>1, <1>8 DEF Close, Tree
  <2> QED  BY <1>8, <2>1, WritersKeepCommits DEF Close
<1> QED  BY <1>3, <1>4, <1>5, <1>6, <1>7, <1>8, Zenon DEF World

LEMMA CommitStep == IInv /\ CommitInv /\ [Next]_vars => CommitInv'
<1> SUFFICES ASSUME IInv, CommitInv, [Next]_vars PROVE CommitInv'
  OBVIOUS
<1>1. store \in Tree
  BY DEF IInv
<1>2. ASSUME UNCHANGED <<commits, head, store, mixed, fold>> PROVE CommitInv'
  BY <1>2 DEF CommitInv, Landed
<1>3. ASSUME NEW k \in Keys, NEW dies \in BOOLEAN, Publish(k, dies)
      PROVE  CommitInv'
  <2>1. /\ store' \in Tree /\ store'.files = store.files \cup {k}
        /\ store'.packed = store.packed /\ store'.marker = store.marker
        /\ store'.closed = store.closed
    BY <1>1, <1>3 DEF Publish, Tree
  <2> QED  BY <1>3, <2>1, WritersKeepCommits DEF Publish
<1>4. CASE Recorder
  BY <1>2, <1>3, <1>4 DEF Recorder, Begin, GiveUp
<1>5. CASE Refresher
  BY <1>2, <1>5 DEF Refresher, ScanBegin, ScanDiff, ScanList, ScanFiles, ScanPacked, ScanPublish,
     Age, StoreUnchanged
<1>6. CASE UNCHANGED vars
  BY <1>2, <1>6 DEF vars
<1> QED  BY <1>4, <1>5, <1>6, FoldKeepsCommits, WorldKeepsCommits DEF Next

(* CommitInv in every state of a fold (maintenance.publish_check_fold).          *)
THEOREM SpecCommitInv == Spec => []CommitInv
BY CommitInit, CommitStep, DriftInvariant, PTL DEF Spec

(* The commit of a store in which a fold has run, complete or not, passes      *)
(* `sidegraph-verify --against` the commit before.                           *)
THEOREM FoldsMayBeCommitted == Spec => CommitsPassVerify
<1>1. IInv /\ CommitInv => (CommitAll /\ ~mixed /\ PackedIsDeclared(Landed) =>
           Passes(Landed, commits'[head'].tree))
  <2> SUFFICES ASSUME IInv, CommitInv, CommitAll, ~mixed, PackedIsDeclared(Landed)
               PROVE  Passes(Landed, commits'[head'].tree)
    OBVIOUS
  <2>1. commits \in Seq(CommitType)
    BY DEF IInv
  <2>2. commits'[head'].tree = store
    BY <2>1 DEF CommitAll, NewCommit
  <2> QED  BY <2>2 DEF CommitInv, Passes
<1> QED  BY <1>1, DriftInvariant, SpecCommitInv, PTL DEF CommitsPassVerify

-----------------------------------------------------------------------------
(* Every check that is anywhere was recorded. *)

Recorded == {k \in Keys : body[k] # None}

RecordedInv ==
    /\ anchors \in [Paths -> Anchor]
    /\ body \in [Keys -> {None} \cup CheckBody]
    /\ rec.checked \in SUBSET Paths
    /\ Checks(store) \subseteq Recorded
    /\ \A c \in DOMAIN commits : Checks(commits[c].tree) \subseteq Recorded
    /\ fold.image \subseteq Recorded

LEMMA RecordedInit == Init => RecordedInv
<1> SUFFICES ASSUME Init PROVE RecordedInv
  OBVIOUS
<1>1. PICK s \in Settings : /\ anchors \in s.anchors
                            /\ \E code \in s.codes : commits = <<[tree |-> EmptyStore, code |-> code]>>
  BY DEF Init
<1>2. anchors \in [Paths -> Anchor]
  BY <1>1, SettingsAssumption
<1>3. Checks(EmptyStore) = {}
  BY DEF EmptyStore, Checks, Lines
<1>4. \A c \in DOMAIN commits : Checks(commits[c].tree) = {}
  BY <1>1, <1>3
<1> QED  BY <1>2, <1>3, <1>4 DEF Init, RecordedInv, NoRecord, NoFold

(* A check that is recorded is a check. *)
LEMMA BodyGrows ==
  ASSUME IInv, RecordedInv, NEW k \in Keys, NEW check \in CheckBody,
         body' = [body EXCEPT ![k] = check]
  PROVE  /\ body' \in [Keys -> {None} \cup CheckBody]
         /\ body'[k] = check
         /\ Recorded \subseteq Recorded' /\ k \in Recorded'
<1>1. body \in [Keys -> {None} \cup CheckBody] /\ check # None
  BY AbsenceAssumption DEF RecordedInv
<1> QED  BY <1>1 DEF Recorded

LEMMA CheckTyped ==
  ASSUME IInv, RecordedInv
  PROVE  /\ Check \in CheckBody
         /\ [code |-> Code, checked |-> There(Code, Live), required |-> There(Code, Live),
             subject |-> Leaves] \in CheckBody
<1>1. Code \in [Paths -> Contents \cup {None}]
  BY CommitsTyped DEF IInv, Code
<1> QED  BY <1>1 DEF RecordedInv, Check, CheckBody, There, Live, Leaves

LEMMA FoldKeepsRecorded ==
  ASSUME IInv, RecordedInv, FoldStep
  PROVE  RecordedInv'
<1>1. UNCHANGED <<commits, anchors, body, rec>> /\ Recorded' = Recorded
  BY DEF FoldStep, FoldPlan, FoldRaise, FoldPublish, FoldRecheck, FoldUnlink, FoldDies,
     CodeUnchanged, Recorded
<1>2. store \in Tree /\ fold \in FoldType
  BY DEF IInv
<1>3. CASE Checks(store') \subseteq Checks(store) \cup fold.image
           /\ fold'.image \subseteq Checks(store) \cup fold.image
  BY <1>1, <1>3 DEF RecordedInv
<1>4. CASE FoldPlan
  BY <1>2, <1>3, <1>4 DEF FoldPlan, Folded, Image, Eligible, Checks, Lines
<1>5. CASE FoldRaise \/ FoldRecheck \/ FoldDies
  BY <1>2, <1>3, <1>5 DEF FoldRaise, FoldRecheck, FoldDies, Folded, NoFold, Checks, Lines, Tree, FoldType
<1>6. CASE FoldPublish
  <2>1. /\ store'.files = store.files
        /\ store'.packed \in {store.packed, None, fold.image}
        /\ fold'.image \subseteq fold.image
    BY <1>2, <1>6 DEF FoldPublish, Folded, NoFold, Witness, Tree, FoldType
  <2> QED  BY <1>3, <2>1 DEF Checks, Lines
<1>7. CASE FoldUnlink
  <2> DEFINE rest == fold.packs \cup fold.drops
             k == CHOOSE i \in rest : \A j \in rest : i <= j
  <2>1. CASE rest = {} \/ ~MayUnlink(k)
    BY <1>3, <1>7, <2>1 DEF FoldUnlink, Folded, NoFold
  <2>2. CASE rest # {} /\ MayUnlink(k)
    <3>1. /\ store' = [store EXCEPT !.files = @ \ {k}]
          /\ fold' = [fold EXCEPT !.packs = @ \ {k}, !.drops = @ \ {k}]
      BY <1>7, <2>2 DEF FoldUnlink, Folded
    <3> HIDE DEF k
    <3>2. /\ store'.files \subseteq store.files /\ store'.packed = store.packed
          /\ fold'.image = fold.image
      BY <1>2, <3>1 DEF Tree, FoldType
    <3> QED  BY <1>3, <3>2 DEF Checks, Lines
  <2> QED  BY <2>1, <2>2
<1> QED  BY <1>4, <1>5, <1>6, <1>7 DEF FoldStep

LEMMA WorldKeepsRecorded ==
  ASSUME IInv, RecordedInv, World
  PROVE  RecordedInv'
<1> USE DEF Elsewhere
<1>1. Landed \in Tree /\ store \in Tree /\ commits \in Seq(CommitType) /\ head \in DOMAIN commits
  BY CommitsTyped DEF IInv, Landed
<1>2. ASSUME NEW tree \in Tree, NEW code, NewCommit(tree, code)
      PROVE  \A c \in DOMAIN commits' :
                 \/ c \in DOMAIN commits /\ commits'[c] = commits[c]
                 \/ commits'[c].tree = tree
  BY <1>1, <1>2 DEF NewCommit
<1>3. ASSUME NEW p \in Paths, NEW content \in Contents \cup {None}, EditCode(p, content)
      PROVE  RecordedInv'
  <2>1. NewCommit(Landed, [Code EXCEPT ![p] = content]) /\ UNCHANGED <<store, anchors, body, rec, fold>>
    BY <1>3 DEF EditCode
  <2> QED  BY <1>1, <1>2, <2>1 DEF RecordedInv, Recorded, Landed
<1>4. ASSUME NEW p \in Paths, NEW anchor \in Anchor, Rebind(p, anchor)
      PROVE  RecordedInv'
  <2>1. anchors' \in [Paths -> Anchor] /\ UNCHANGED <<store, commits, body, rec, fold>>
    BY <1>4 DEF Rebind, RecordedInv
  <2> QED  BY <2>1 DEF RecordedInv, Recorded
<1>5. CASE CommitAll
  <2>1. NewCommit(store, Code) /\ UNCHANGED <<store, anchors, body, rec, fold>>
    BY <1>5 DEF CommitAll
  <2> QED  BY <1>1, <1>2, <2>1 DEF RecordedInv, Recorded
<1>6. ASSUME NEW k \in Keys, Pull(k)
      PROVE  RecordedInv'
  <2> DEFINE tree == [Landed EXCEPT !.files = @ \cup {k}]
  <2>1. tree \in Tree /\ Checks(tree) = Checks(Landed) \cup {k}
        /\ Checks(store') = Checks(store) \cup {k}
    BY <1>1, <1>6 DEF Pull, Tree, Checks, Lines
  <2>2. NewCommit(tree, Code) /\ UNCHANGED <<anchors, rec, fold>>
    BY <1>6 DEF Pull
  <2>3. body' \in [Keys -> {None} \cup CheckBody] /\ Recorded \subseteq Recorded' /\ k \in Recorded'
    BY <1>6, CheckTyped, BodyGrows DEF Pull
  <2>4. Checks(Landed) \subseteq Recorded
    BY <1>1 DEF RecordedInv, Landed
  <2> HIDE DEF tree
  <2>5. \A c \in DOMAIN commits' : Checks(commits'[c].tree) \subseteq Recorded'
    BY <1>2, <2>1, <2>2, <2>3, <2>4 DEF RecordedInv
  <2> QED  BY <2>1, <2>2, <2>3, <2>5 DEF RecordedInv
<1>7. ASSUME NEW c \in DOMAIN commits, Checkout(c)
      PROVE  RecordedInv'
  <2>1. /\ store' = CheckedOut(store, Landed, commits[c].tree)
        /\ UNCHANGED <<commits, anchors, body, rec, fold>>
    BY <1>7 DEF Checkout
  <2>2. commits[c].tree \in Tree
    BY <1>1, CommitsTyped
  <2>3. Checks(store') \subseteq Checks(store) \cup Checks(commits[c].tree)
    BY <1>1, <2>1, <2>2 DEF CheckedOut, Checks, Lines, Tree
  <2> QED  BY <2>1, <2>3 DEF RecordedInv, Recorded
<1>8. CASE Close
  <2>1. Checks(store') = Checks(store) /\ UNCHANGED <<commits, anchors, body, rec, fold>>
    BY <1>1, <1>8 DEF Close, Checks, Lines, Tree
  <2> QED  BY <2>1 DEF RecordedInv, Recorded
<1> QED  BY <1>3, <1>4, <1>5, <1>6, <1>7, <1>8, Zenon DEF World

LEMMA RecordedStep == IInv /\ RecordedInv /\ [Next]_vars => RecordedInv'
<1> SUFFICES ASSUME IInv, RecordedInv, [Next]_vars PROVE RecordedInv'
  OBVIOUS
<1>1. ASSUME UNCHANGED <<commits, store, anchors, body, fold>>, rec'.checked \in SUBSET Paths
      PROVE  RecordedInv'
  BY <1>1 DEF RecordedInv, Recorded
<1>2. ASSUME NEW k \in Keys, NEW dies \in BOOLEAN, Publish(k, dies)
      PROVE  RecordedInv'
  <2>1. Checks(store') = Checks(store) \cup {k}
    BY <1>2 DEF Publish, IInv, Tree, Checks, Lines
  <2>2. /\ body' \in [Keys -> {None} \cup CheckBody]
        /\ Recorded \subseteq Recorded' /\ k \in Recorded'
    BY <1>2, CheckTyped, BodyGrows DEF Publish
  <2>3. UNCHANGED <<commits, anchors, fold>> /\ rec'.checked = {}
    BY <1>2 DEF Publish, NoRecord
  <2> QED  BY <2>1, <2>2, <2>3 DEF RecordedInv
<1>3. CASE Recorder
  BY <1>1, <1>2, <1>3 DEF Recorder, Begin, GiveUp, NoRecord
<1>4. CASE Refresher
  <2>1. UNCHANGED <<commits, store, anchors, body, fold, rec>>
    BY <1>4 DEF Refresher, ScanBegin, ScanDiff, ScanList, ScanFiles, ScanPacked, ScanPublish,
       Age, StoreUnchanged
  <2> QED  BY <1>1, <2>1 DEF RecordedInv
<1>5. CASE UNCHANGED vars
  BY <1>1, <1>5 DEF vars, RecordedInv
<1> QED  BY <1>3, <1>4, <1>5, FoldKeepsRecorded, WorldKeepsRecorded DEF Next

(* RecordedInv in every state (Store.record_drift_check).                        *)
THEOREM SpecRecordedInv == Spec => []RecordedInv
BY RecordedInit, RecordedStep, DriftInvariant, PTL DEF Spec

(* Every check that a file, a line or a commit has was recorded, and every     *)
(* part of the state has its type.                                          *)
THEOREM DriftTypes == Spec => []TypeOK
<1>1. IInv /\ AgesInv /\ RecordedInv => TypeOK
  <2> SUFFICES ASSUME IInv, AgesInv, RecordedInv PROVE TypeOK
    OBVIOUS
  <2>1. \A c \in DOMAIN commits : commits[c].tree \in Tree
    BY CommitsTyped DEF IInv
  <2> QED  BY <2>1 DEF IInv, AgesInv, RecordedInv, Recorded, TypeOK
<1> QED  BY <1>1, DriftInvariant, SpecAgesInv, SpecRecordedInv, PTL

-----------------------------------------------------------------------------
(* A check that clears the cached answer. *)

(* The check that was just recorded settles a scan of the same state. *)
LEMMA CoveringCheckSettles ==
  ASSUME NEW known \in BOOLEAN, Covers
  PROVE  CheckSettles(ScanOfNow(known), Code, Check, TRUE)
<1> DEFINE s == ScanOfNow(known)
           required == There(Code, Live)
           orphaned == IF known THEN Leaves \ Live ELSE {}
           aside == Aside(s, Code, Check, TRUE)
<1>1. /\ s.known = known /\ s.leaves = Leaves /\ s.orphaned = orphaned
      /\ s.changed = {p \in Leaves \ orphaned : Code[p] # Captured[p] /\ (known \/ Code[p] # None)}
  BY DEF ScanOfNow
<1>2. /\ Check.subject = Leaves /\ Check.required = required /\ Check.checked = rec.checked
      /\ Check.code = Code
  BY DEF Check
<1>3. Live \subseteq Leaves /\ Live \subseteq rec.checked /\ required \subseteq Live
  BY DEF Live, Leaves, Covers, There
<1>4. aside = IF known THEN {} ELSE Leaves \ required
  BY <1>1, <1>2 DEF Aside
<1>5. There(Code, (Leaves \ orphaned) \ aside) = required
  BY <1>3, <1>4 DEF There
<1>6. s.changed \subseteq rec.checked \cup aside
  BY <1>1, <1>3, <1>4
<1> HIDE DEF s, aside
<1> QED  BY <1>1, <1>2, <1>5, <1>6 DEF CheckSettles, s, aside

LEMMA ClearsWhatAScanWould ==
  ASSUME IInv, AgesInv, RecordedInv, NEW k \in Keys, Publish(k, FALSE),
         cache # None, cache.listed, ~cache'.listed
  PROVE  ~WouldList'
<1>1. UNCHANGED <<commits, head, anchors>> /\ store \in Tree
  BY DEF Publish, IInv
<1>2. cache' = Cleared /\ cache \in Caches
  BY DEF Publish, AgesInv
<1>3. Covers
  <2>1. CASE ~Covers
    BY <1>2, <2>1 DEF Cleared, Caches
  <2> QED  BY <2>1
<1>4. body'[k] = Check
  BY CheckTyped, BodyGrows DEF Publish
<1>5. Latest(Checks(store')) = k
  <2> DEFINE S == Checks(store')
             last == Latest(S)
  <2>1. S = Checks(store) \cup {k}
    BY <1>1 DEF Publish, Tree, Checks, Lines
  <2>2. S \in SUBSET Keys /\ k \in S
    BY <1>1, <2>1 DEF Checks, Lines, Tree
  <2>3. \A j \in S : ~(j > k)
    BY <2>1, <2>2 DEF Publish, NextKey, Keys
  <2>4. last \in S /\ k <= last
    BY <2>2, LatestIsGreatest
  <2> HIDE DEF S, last
  <2>5. last = k
    BY <2>2, <2>3, <2>4 DEF Keys
  <2> QED  BY <2>5 DEF last, S
<1>6. k # 0
  BY DEF Keys
<1>7. \A known \in BOOLEAN : ScanOfNow(known)' = ScanOfNow(known) /\ Code' = Code
  BY <1>1 DEF ScanOfNow, Leaves, Live, Code, Captured
<1>8. ASSUME NEW known \in BOOLEAN
      PROVE  ~Listed(ScanOfNow(known), Code, k)'
  <2>1. CheckSettles(ScanOfNow(known), Code, Check, TRUE)
    BY <1>3, CoveringCheckSettles
  <2> QED  BY <1>4, <1>6, <1>7, <2>1 DEF Listed
<1> QED  BY <1>5, <1>8 DEF WouldList

(* A check takes its decision off the list at once only where the next         *)
(* refresh would do so, whatever it can read of the statuses of the anchors.  *)
THEOREM ChecksClearWhatScansWould == Spec => ClearedAsScanned
<1>1. IInv /\ AgesInv /\ RecordedInv =>
          ((\E k \in Keys : Publish(k, FALSE)) /\ cache # None /\ cache.listed /\ ~cache'.listed =>
           ~WouldList')
  BY ClearsWhatAScanWould
<1> QED  BY <1>1, DriftInvariant, SpecAgesInv, SpecRecordedInv, PTL DEF ClearedAsScanned

=============================================================================
