--------------------------- MODULE Records_proofs ---------------------------
(***************************************************************************)
(* Two modules that run the rules of RecordRules, for any number of         *)
(* records: a store that crashes (CanonicalFiles) and clones that merge      *)
(* (Clones).                                                                *)
(*                                                                         *)
(* Crashes.  A reload takes for the truth whatever a crash left on disk, so *)
(* neither the files nor the index keep Lifecycle's chain invariant: a       *)
(* successor and the record it replaces may both be accepted.  What         *)
(* survives is less: Sound says what a set of rows needs for a call on it    *)
(* to be sound again, and Ahead that the files only run in front of the      *)
(* index.  The proof follows the order of the publishes: what closes a       *)
(* record is on disk before the record is closed.  What a call may do to one *)
(* row (Change) is all that is used of the rules.                           *)
(*                                                                         *)
(* Clones.  A merge combines rows of two tables that grew from one, so the   *)
(* proof needs, besides what a table satisfies (ChainsHold), an order in     *)
(* which both are ahead of the table they grew from (Later).  Two facts of   *)
(* it carry the merge: a record that one side closed stays closed, and a     *)
(* chain that one side built on a record in force contains nothing the       *)
(* other side knows.                                                        *)
(***************************************************************************)
EXTENDS CanonicalFiles, Clones, FiniteSetTheorems, TLAPS


NoPending(t, p) == \A x \in Records : t[x].status = "proposed" => t[x].supersedes # p

(* How a call that leads from t to u may change the row of r. *)
Written(t, u, r) ==
    /\ t[r].status = "unwritten" /\ u[r].status \in {"proposed", "accepted", "rejected"}
    /\ u[r].supersedes # None => /\ t[u[r].supersedes].status = "accepted"
                                 /\ NoPending(t, u[r].supersedes)
    /\ \A d \in u[r].supports : t[d].status # "unwritten"
    /\ u[r].status = "proposed" => \A x \in Records \ {r} : u[x] = t[x]

Judged(t, u, r) ==
    /\ t[r].status = "proposed" /\ u[r].status \in {"accepted", "rejected"}
    /\ u[r] = [t[r] EXCEPT !.status = u[r].status]

Closed(t, u, r) ==
    /\ t[r].status = "accepted" /\ u[r] = [t[r] EXCEPT !.status = "superseded"]
    /\ \E s \in Records : /\ t[s].status \in {"unwritten", "proposed"}
                          /\ u[s].status \in {"accepted", "rejected"}
                          /\ u[s].supersedes = r

Retired(t, u, r) ==
    /\ t[r].status = "accepted" /\ u[r] = [t[r] EXCEPT !.status = "deprecated"]
    /\ r \in Decisions
    /\ NoPending(t, r)

Change(t, u, r) ==
    Written(t, u, r) \/ Judged(t, u, r) \/ Closed(t, u, r) \/ Retired(t, u, r)

Changes(t, u) ==
    /\ u \in [Records -> Row]
    /\ \A r \in Records : u[r] # t[r] => Change(t, u, r)

(* Nothing refers to a record that is not there, nothing was closed by a      *)
(* mere proposal.                                                            *)
Sound(t) ==
    /\ \A r \in Records : t[r].status = "superseded" =>
          \E s \in Records : /\ t[s].supersedes = r
                             /\ t[s].status \notin {"unwritten", "proposed"}
    /\ \A r \in Records :
          /\ t[r].supersedes # None => t[t[r].supersedes].status # "unwritten"
          /\ \A d \in t[r].supports : t[d].status # "unwritten"

(* What the index holds is on disk, there perhaps with a later verdict. *)
Ahead ==
    \A r \in Records : index[r].status # "unwritten" =>
        /\ files[r].status # "unwritten"
        /\ files[r].supersedes = index[r].supersedes
        /\ files[r].supports = index[r].supports
        /\ index[r].status # "proposed" => files[r].status # "proposed"

(* What the open call changes is still to be published or on disk. *)
Published ==
    \A r \in Records :
        /\ r \in todo => /\ target[r] # index[r]
                         /\ index[r].status = "unwritten" => files[r].status = "unwritten"
        /\ (r \notin todo /\ target[r] # index[r]) => files[r] = target[r]

OpenCall == target # index => Outcome(index, target)

DiskInv == TypeOK /\ Sound(files) /\ Sound(index) /\ Ahead /\ Published /\ OpenCall

(* While no call was decided on a stale index: a proposal is about a live     *)
(* record and is the only one, and what the open call has not published yet   *)
(* is on disk as the index has it.                                           *)
Queue(t) ==
    \A s \in Records : (t[s].status = "proposed" /\ t[s].supersedes # None) =>
        /\ t[t[s].supersedes].status = "accepted"
        /\ \A x \in Records : (/\ t[x].status = "proposed"
                               /\ t[x].supersedes = t[s].supersedes) => x = s

InStep ==
    \A r \in Records :
        (target # index /\ (r \in todo \/ target[r] = index[r])) => files[r] = index[r]

HistoryInv == ~stale => Queue(files) /\ Queue(index) /\ InStep

(* Before the first crash the files are never ahead between calls. *)
EarlyInv == crashes = 0 => ~stale /\ (target = index => files = index)

-----------------------------------------------------------------------------
(* What a verdict does to a row: only the status moves. *)

LEMMA WithRow ==
    ASSUME NEW t \in [Records -> Row], NEW S, NEW st \in Status
    PROVE  /\ With(t, S, st) \in [Records -> Row]
           /\ \A r \in S \cap Records : With(t, S, st)[r] = [t[r] EXCEPT !.status = st]
           /\ \A r \in Records \ S : With(t, S, st)[r] = t[r]
BY DEF With, Row

LEMMA RowStatus ==
    ASSUME NEW row \in Row, NEW st \in Status
    PROVE  [row EXCEPT !.status = st].status = st
BY DEF Row

LEMMA AddChanges ==
    ASSUME NEW t \in [Records -> Row], NEW u, NEW x \in Records, NEW row \in Row,
           row.status \in {"proposed", "accepted", "rejected"},
           CanAdd(t, x, row), u = AfterAdd(t, x, row)
    PROVE  Changes(t, u)
<1> DEFINE written == [t EXCEPT ![x] = row]
           C == ClosedBy(written, {x})
<1>1. /\ written \in [Records -> Row] /\ written[x] = row /\ t[x].status = "unwritten"
      /\ \A r \in Records \ {x} : written[r] = t[r]
  BY DEF CanAdd
<1>2. row.supersedes # None => /\ row.supersedes \in Records
                               /\ t[row.supersedes].status = "accepted"
                               /\ NoPending(t, row.supersedes)
  BY DEF CanAdd, MayBeSuperseded, PendingSuccessors, Successors, NoPending, Row, Table, Records
<1>3. C \subseteq {row.supersedes} /\ C \subseteq Records
  BY <1>1 DEF ClosedBy
<1>4. x \notin C /\ None \notin Records
  BY <1>1, <1>2, <1>3, RecordIds DEF Records
<1>5. \A d \in row.supports : t[d].status # "unwritten"
  BY DEF CanAdd
<1>6. CASE row.status = "proposed"
  <2>1. u = written
    BY <1>6 DEF AfterAdd
  <2>2. Written(t, u, x)
    BY <2>1, <1>1, <1>2, <1>5 DEF Written
  <2> QED BY <2>1, <2>2, <1>1 DEF Changes, Change
<1>7. CASE row.status # "proposed"
  <2>1. u = With(written, C, "superseded")
    BY <1>7 DEF AfterAdd
  <2> HIDE DEF written, C
  <2>2. /\ u \in [Records -> Row] /\ u[x] = row
        /\ \A r \in Records \ {x} : r \notin C => u[r] = t[r]
        /\ \A r \in C : u[r] = [t[r] EXCEPT !.status = "superseded"]
    BY <2>1, <1>1, <1>3, <1>4, WithRow DEF Status
  <2>3. Written(t, u, x)
    BY <2>2, <1>1, <1>2, <1>5, <1>7 DEF Written
  <2>4. \A r \in C : Closed(t, u, r)
    BY <2>2, <1>1, <1>2, <1>3, <1>4, <1>7 DEF Closed
  <2> QED BY <2>2, <2>3, <2>4 DEF Changes, Change
<1> QED BY <1>6, <1>7

LEMMA AcceptChanges ==
    ASSUME NEW t \in [Records -> Row], NEW u, NEW A \in SUBSET Records,
           \A a \in A : t[a].status = "proposed" /\ ~StalePredecessor(t, a),
           u = With(With(t, A, "accepted"), ClosedBy(t, A), "superseded")
    PROVE  Changes(t, u)
<1> DEFINE C == ClosedBy(t, A)
           w == With(t, A, "accepted")
<1>1. \A p \in C : /\ p \in Records /\ t[p].status = "accepted"
                   /\ \E a \in A : t[a].supersedes = p
  BY RecordIds DEF ClosedBy, StalePredecessor, Records
<1>2. A \cap C = {}
  BY <1>1
<1>3. /\ w \in [Records -> Row]
      /\ \A a \in A : w[a] = [t[a] EXCEPT !.status = "accepted"]
      /\ \A r \in Records \ A : w[r] = t[r]
  BY WithRow DEF Status
<1>4. u = With(w, C, "superseded")
  OBVIOUS
<1> HIDE DEF C, w
<1>5. /\ u \in [Records -> Row]
      /\ \A a \in A : u[a] = [t[a] EXCEPT !.status = "accepted"]
      /\ \A p \in C : u[p] = [t[p] EXCEPT !.status = "superseded"]
      /\ \A r \in Records : r \notin A /\ r \notin C => u[r] = t[r]
  BY <1>1, <1>2, <1>3, <1>4, WithRow DEF Status
<1>6. \A a \in A : u[a].status = "accepted" /\ u[a].supersedes = t[a].supersedes
  <2> SUFFICES ASSUME NEW a \in A
               PROVE  u[a].status = "accepted" /\ u[a].supersedes = t[a].supersedes
    OBVIOUS
  <2>1. t[a] \in Row /\ u[a] = [t[a] EXCEPT !.status = "accepted"]
    BY <1>5
  <2> QED BY <2>1 DEF Row
<1>7. \A a \in A : Judged(t, u, a)
  BY <1>5, <1>6 DEF Judged
<1>8. \A p \in C : Closed(t, u, p)
  BY <1>1, <1>5, <1>6 DEF Closed
<1> QED BY <1>5, <1>7, <1>8 DEF Changes, Change

LEMMA RejectChanges ==
    ASSUME NEW t \in [Records -> Row], NEW u, NEW A \in SUBSET Records,
           \A a \in A : t[a].status = "proposed", u = With(t, A, "rejected")
    PROVE  Changes(t, u)
<1>1. /\ u \in [Records -> Row]
      /\ \A a \in A : u[a] = [t[a] EXCEPT !.status = "rejected"]
      /\ \A r \in Records \ A : u[r] = t[r]
  BY WithRow DEF Status
<1>2. \A a \in A : u[a].status = "rejected"
  <2> SUFFICES ASSUME NEW a \in A
               PROVE  u[a].status = "rejected"
    OBVIOUS
  <2>1. t[a] \in Row /\ u[a] = [t[a] EXCEPT !.status = "rejected"]
    BY <1>1
  <2> QED BY <2>1 DEF Row
<1>3. \A a \in A : Judged(t, u, a)
  BY <1>1, <1>2 DEF Judged
<1> QED BY <1>1, <1>3 DEF Changes, Change

LEMMA RetireChanges ==
    ASSUME NEW t \in [Records -> Row], NEW u, NEW d \in Decisions, NEW dup,
           CanRetire(t, d, dup), u = AfterRetire(t, d)
    PROVE  Changes(t, u)
<1>1. /\ u \in [Records -> Row]
      /\ u[d] = [t[d] EXCEPT !.status = "deprecated"]
      /\ \A r \in Records \ {d} : u[r] = t[r]
  BY WithRow DEF AfterRetire, Status, Records
<1>2. Retired(t, u, d)
  BY <1>1 DEF Retired, CanRetire, NoPending, PendingSuccessors, Successors
<1> QED BY <1>1, <1>2 DEF Changes, Change

(* Every call changes rows in one of the four ways. *)
LEMMA OutcomeChanges ==
    ASSUME NEW t \in [Records -> Row], NEW u, Outcome(t, u)
    PROVE  Changes(t, u)
<1>1. ASSUME NEW d \in Decisions, NEW row \in OnDisk!NewDecision,
             CanAdd(t, d, row), u = AfterAdd(t, d, row)
      PROVE  Changes(t, u)
  <2>1. /\ d \in Records /\ row \in Row
        /\ row.status \in {"proposed", "accepted", "rejected"}
    BY DEF Records, OnDisk!Records, OnDisk!NewDecision, Row, Status
  <2> QED BY <1>1, <2>1, AddChanges
<1>2. ASSUME NEW f \in Facts, NEW row \in OnDisk!NewFact,
             CanAdd(t, f, row), u = AfterAdd(t, f, row)
      PROVE  Changes(t, u)
  <2>1. /\ f \in Records /\ row \in Row
        /\ row.status \in {"proposed", "accepted", "rejected"}
    BY DEF Records, OnDisk!Records, OnDisk!NewFact, Row, Status
  <2> QED BY <1>2, <2>1, AddChanges
<1>3. ASSUME NEW d \in Decisions, CanRatify(t, d), u = AfterRatify(t, d)
      PROVE  Changes(t, u)
  <2> DEFINE A == {d} \cup Evidence(t, d)
  <2>1. /\ A \in SUBSET Records
        /\ \A a \in A : t[a].status = "proposed" /\ ~StalePredecessor(t, a)
    BY <1>3 DEF CanRatify, Evidence, Records
  <2>2. u = With(With(t, A, "accepted"), ClosedBy(t, A), "superseded")
    BY <1>3 DEF AfterRatify
  <2> HIDE DEF A
  <2> QED BY <2>1, <2>2, AcceptChanges
<1>4. ASSUME NEW d \in Decisions, CanDrop(t, d), u = AfterDrop(t, d)
      PROVE  Changes(t, u)
  <2>1. PICK F \in SUBSET Facts : /\ \A f \in F : t[f].status = "proposed"
                                  /\ u = With(With(t, {d}, "rejected"), F, "rejected")
    BY <1>4 DEF AfterDrop
  <2> DEFINE A == {d} \cup F
  <2>2. A \in SUBSET Records /\ \A a \in A : t[a].status = "proposed"
    BY <1>4, <2>1 DEF CanDrop, Records
  <2>3. u = With(t, A, "rejected")
    BY <2>1 DEF With, Row
  <2> HIDE DEF A
  <2> QED BY <2>2, <2>3, RejectChanges
<1>5. ASSUME NEW d \in Decisions, NEW dup \in Decisions \cup {None},
             CanRetire(t, d, dup), u = AfterRetire(t, d)
      PROVE  Changes(t, u)
  BY <1>5, RetireChanges
<1>6. ASSUME NEW f \in Facts, CanRatifyFact(t, f), u = AfterRatifyFact(t, f)
      PROVE  Changes(t, u)
  BY <1>6, AcceptChanges DEF CanRatifyFact, AfterRatifyFact, Records
<1>7. ASSUME NEW f \in Facts, CanDropFact(t, f), u = AfterDropFact(t, f)
      PROVE  Changes(t, u)
  BY <1>7, RejectChanges DEF CanDropFact, AfterDropFact, Records
<1> QED BY <1>1, <1>2, <1>3, <1>4, <1>5, <1>6, <1>7 DEF Outcome

-----------------------------------------------------------------------------
LEMMA ChangedRow ==
    ASSUME NEW t \in [Records -> Row], NEW u, Changes(t, u), NEW r \in Records, u[r] # t[r]
    PROVE  /\ u[r].status # "unwritten"
           /\ t[r].status # "unwritten" =>
                 /\ u[r].status # "proposed"
                 /\ u[r].supersedes = t[r].supersedes
                 /\ u[r].supports = t[r].supports
           /\ t[r].status = "unwritten" =>
                 /\ u[r].supersedes # None => t[u[r].supersedes].status # "unwritten"
                 /\ \A d \in u[r].supports : t[d].status # "unwritten"
           /\ u[r].status = "superseded" => Closed(t, u, r)
<1>1. t[r] \in Row /\ Change(t, u, r)
  BY DEF Changes
<1>2. CASE Written(t, u, r)
  BY <1>2 DEF Written
<1>3. CASE Judged(t, u, r)
  BY <1>3, <1>1 DEF Judged, Row
<1>4. CASE Closed(t, u, r)
  <2>1. u[r] = [t[r] EXCEPT !.status = "superseded"] /\ t[r].status = "accepted"
    BY <1>4 DEF Closed
  <2> QED BY <2>1, <1>1, <1>4 DEF Row
<1>5. CASE Retired(t, u, r)
  <2>1. u[r] = [t[r] EXCEPT !.status = "deprecated"] /\ t[r].status = "accepted"
    BY <1>5 DEF Retired
  <2> QED BY <2>1, <1>1 DEF Row
<1> QED BY <1>1, <1>2, <1>3, <1>4, <1>5 DEF Change

LEMMA StaysWritten ==
    ASSUME NEW t \in [Records -> Row], NEW u, Changes(t, u), NEW r \in Records,
           t[r].status # "unwritten"
    PROVE  /\ u[r].status # "unwritten"
           /\ u[r].supersedes = t[r].supersedes
           /\ u[r].supports = t[r].supports
           /\ t[r].status # "proposed" => u[r].status # "proposed"
BY ChangedRow

(* What a call returns is as sound as what it was called on. *)
LEMMA SoundAfter ==
    ASSUME NEW t \in [Records -> Row], NEW u, Changes(t, u), Sound(t)
    PROVE  Sound(u)
<1>u. u \in [Records -> Row]
  BY DEF Changes
<1>1. ASSUME NEW r \in Records, u[r].status = "superseded"
      PROVE  \E s \in Records : /\ u[s].supersedes = r
                                /\ u[s].status \notin {"unwritten", "proposed"}
  <2>1. CASE u[r] = t[r]
    <3>1. PICK s \in Records : /\ t[s].supersedes = r
                               /\ t[s].status \notin {"unwritten", "proposed"}
      BY <1>1, <2>1 DEF Sound
    <3> QED BY <3>1, StaysWritten
  <2>2. CASE u[r] # t[r]
    <3>1. Closed(t, u, r)
      BY <1>1, <2>2, ChangedRow
    <3> QED BY <3>1 DEF Closed
  <2> QED BY <2>1, <2>2
<1>2. ASSUME NEW r \in Records
      PROVE  /\ u[r].supersedes # None => u[u[r].supersedes].status # "unwritten"
             /\ \A d \in u[r].supports : u[d].status # "unwritten"
  <2>1. u[r].supersedes \in Records \cup {None} /\ u[r].supports \subseteq Records
    BY <1>u DEF Row, Records
  <2>2. /\ u[r].supersedes # None => t[u[r].supersedes].status # "unwritten"
        /\ \A d \in u[r].supports : t[d].status # "unwritten"
    <3>1. CASE u[r] = t[r]
      BY <3>1 DEF Sound
    <3>2. CASE u[r] # t[r] /\ t[r].status = "unwritten"
      BY <3>2, ChangedRow
    <3>3. CASE u[r] # t[r] /\ t[r].status # "unwritten"
      BY <3>3, StaysWritten DEF Sound
    <3> QED BY <3>1, <3>2, <3>3
  <2> QED BY <2>1, <2>2, StaysWritten
<1> QED BY <1>1, <1>2 DEF Sound

LEMMA OpenChanges ==
    ASSUME DiskInv
    PROVE  Changes(index, target)
<1>1. CASE target = index
  BY <1>1 DEF DiskInv, TypeOK, Changes
<1>2. CASE target # index
  BY <1>2, OutcomeChanges DEF DiskInv, TypeOK, OpenCall
<1> QED BY <1>1, <1>2

-----------------------------------------------------------------------------
(* DiskInv is inductive. *)

LEMMA InitDiskInv == Init => DiskInv
<1> SUFFICES ASSUME Init PROVE DiskInv
  OBVIOUS
<1>1. Unwritten \in Row
  BY DEF Unwritten, Row, Status
<1>2. \A r \in Records : /\ files[r] = Unwritten /\ index[r] = Unwritten
  BY DEF Init
<1>3. TypeOK
  BY <1>1 DEF Init, TypeOK
<1>4. Sound(files) /\ Sound(index)
  BY <1>2 DEF Sound, Unwritten
<1> QED BY <1>2, <1>3, <1>4 DEF Init, DiskInv, Ahead, Published, OpenCall, Unwritten

LEMMA BeginKeepsDiskInv == DiskInv /\ Begin => DiskInv'
<1> SUFFICES ASSUME DiskInv, Begin PROVE DiskInv'
  OBVIOUS
<1>1. /\ target' \in [Records -> Row] /\ Outcome(index, target')
      /\ files' = files /\ index' = index /\ crashes' = crashes
      /\ todo' = {r \in Records : target'[r] # index[r]}
      /\ \A r \in todo' : index[r].status = "unwritten" => files[r].status = "unwritten"
  BY OutcomeChanges DEF DiskInv, TypeOK, Begin, Changes
<1>2. TypeOK'
  <2>1. stale' \in BOOLEAN
    BY DEF DiskInv, TypeOK, Begin
  <2>2. target' = index' => todo' = {}
    BY <1>1
  <2> QED BY <1>1, <2>1, <2>2 DEF DiskInv, TypeOK
<1>3. Published'
  BY <1>1 DEF Published
<1>4. OpenCall'
  <2>1. Outcome(index', target')
    BY <1>1
  <2> QED BY <2>1 DEF OpenCall
<1>5. Sound(files)' /\ Sound(index)' /\ Ahead'
  BY <1>1 DEF DiskInv, Sound, Ahead
<1> QED BY <1>2, <1>3, <1>4, <1>5 DEF DiskInv

(* The order of the publishes: what closes r is on disk before r is closed. *)
LEMMA PublishKeepsDiskInv ==
    ASSUME DiskInv, NEW r \in Records, Publish(r)
    PROVE  DiskInv'
<1>t. /\ files \in [Records -> Row] /\ index \in [Records -> Row] /\ target \in [Records -> Row]
      /\ Changes(index, target) /\ r \in todo
      /\ Sound(files) /\ Sound(index) /\ Ahead /\ Published
  BY OpenChanges DEF DiskInv, TypeOK, Publish
<1>1. /\ files' = [files EXCEPT ![r] = target[r]]
      /\ todo' = todo \ {r}
      /\ index' = index /\ target' = target /\ crashes' = crashes /\ stale' = stale
  BY DEF Publish
<1>2. /\ files'[r] = target[r]
      /\ \A q \in Records \ {r} : files'[q] = files[q]
      /\ target[r] # index[r]
      /\ index[r].status = "unwritten" => files[r].status = "unwritten"
  BY <1>t, <1>1 DEF Published
<1>3. \A q \in Records : files[q].status # "unwritten" => files'[q].status # "unwritten"
  BY <1>t, <1>2, ChangedRow
<1>4. ASSUME NEW q \in Records, files'[q].status = "superseded"
      PROVE  \E s \in Records : /\ files'[s].supersedes = q
                                /\ files'[s].status \notin {"unwritten", "proposed"}
  <2>1. CASE q = r
    <3>1. Closed(index, target, r)
      BY <1>t, <1>2, <1>4, <2>1, ChangedRow
    <3>2. PICK s \in Records : /\ index[s].status \in {"unwritten", "proposed"}
                               /\ target[s].status \in {"accepted", "rejected"}
                               /\ target[s].supersedes = r
      BY <3>1 DEF Closed
    <3>3. s \notin todo
      BY <3>2 DEF Publish, Precedes
    <3>4. files[s] = target[s] /\ s # r
      BY <3>2, <3>3, <1>t DEF Published
    <3> QED BY <3>2, <3>4, <1>2, <2>1
  <2>2. CASE q # r
    <3>1. PICK s \in Records : /\ files[s].supersedes = q
                               /\ files[s].status \notin {"unwritten", "proposed"}
      BY <1>2, <1>4, <1>t, <2>2 DEF Sound
    <3>2. CASE s # r
      BY <3>1, <3>2, <1>2
    <3>3. CASE s = r
      <4>1. index[r].status # "unwritten"
        BY <3>1, <3>3, <1>2
      <4>2. target[r].supersedes = q /\ target[r].status \notin {"unwritten", "proposed"}
        BY <4>1, <3>1, <3>3, <1>t, <1>2, ChangedRow DEF Ahead
      <4> QED BY <4>2, <1>2
    <3> QED BY <3>2, <3>3
  <2> QED BY <2>1, <2>2
<1>5. ASSUME NEW q \in Records
      PROVE  /\ files'[q].supersedes # None => files'[files'[q].supersedes].status # "unwritten"
             /\ \A d \in files'[q].supports : files'[d].status # "unwritten"
  <2>1. CASE q # r
    <3>1. files[q].supersedes \in Records \cup {None} /\ files[q].supports \subseteq Records
      BY <1>t DEF Row, Records
    <3> QED BY <3>1, <2>1, <1>2, <1>3, <1>t DEF Sound
  <2>2. CASE q = r
    <3>1. target[r].supersedes \in Records \cup {None} /\ target[r].supports \subseteq Records
      BY <1>t DEF Row, Records
    <3>2. /\ target[r].supersedes # None => index[target[r].supersedes].status # "unwritten"
          /\ \A d \in target[r].supports : index[d].status # "unwritten"
      <4>1. CASE index[r].status = "unwritten"
        BY <4>1, <1>t, <1>2, ChangedRow
      <4>2. CASE index[r].status # "unwritten"
        BY <4>2, <1>t, <1>2, StaysWritten DEF Sound
      <4> QED BY <4>1, <4>2
    <3>3. \A x \in Records : index[x].status # "unwritten" => files'[x].status # "unwritten"
      BY <1>t, <1>3 DEF Ahead
    <3> QED BY <3>1, <3>2, <3>3, <2>2, <1>2
  <2> QED BY <2>1, <2>2
<1>6. Sound(files)'
  BY <1>4, <1>5 DEF Sound
<1>7. Ahead'
  BY <1>t, <1>1, <1>2, StaysWritten DEF Ahead
<1>8. Published'
  BY <1>t, <1>1, <1>2 DEF Published
<1>9. TypeOK'
  BY <1>t, <1>1 DEF DiskInv, TypeOK
<1>10. OpenCall' /\ Sound(index)'
  BY <1>t, <1>1 DEF DiskInv, OpenCall, Outcome, Sound
<1> QED BY <1>6, <1>7, <1>8, <1>9, <1>10 DEF DiskInv

LEMMA CommitKeepsDiskInv == DiskInv /\ Commit => DiskInv'
<1> SUFFICES ASSUME DiskInv, Commit PROVE DiskInv'
  OBVIOUS
<1>t. /\ files \in [Records -> Row] /\ index \in [Records -> Row] /\ target \in [Records -> Row]
      /\ Changes(index, target) /\ Ahead /\ Published /\ todo = {}
  BY OpenChanges DEF DiskInv, TypeOK, Commit
<1>1. /\ index' = target /\ files' = files /\ target' = target /\ todo' = {}
      /\ crashes' = crashes /\ stale' = stale
  BY <1>t DEF Commit
<1>2. Sound(index)' /\ Sound(files)'
  <2>1. Sound(target)
    BY <1>t, SoundAfter DEF DiskInv
  <2> QED BY <2>1, <1>1 DEF Sound, DiskInv
<1>3. Ahead'
  BY <1>t, <1>1 DEF Ahead, Published
<1> QED BY <1>t, <1>1, <1>2, <1>3 DEF DiskInv, TypeOK, Published, OpenCall

LEMMA CrashKeepsDiskInv == DiskInv /\ Crash => DiskInv'
<1> SUFFICES ASSUME DiskInv, Crash PROVE DiskInv'
  OBVIOUS
<1>1. /\ index' = index /\ files' = files /\ target' = index /\ todo' = {}
      /\ crashes' \in Nat /\ stale' = stale
  BY DEF DiskInv, TypeOK, Crash
<1>2. Sound(index)' /\ Sound(files)' /\ Ahead'
  BY <1>1 DEF DiskInv, Sound, Ahead
<1> QED BY <1>1, <1>2 DEF DiskInv, TypeOK, Published, OpenCall

LEMMA ReloadKeepsDiskInv == DiskInv /\ Reload => DiskInv'
<1> SUFFICES ASSUME DiskInv, Reload PROVE DiskInv'
  OBVIOUS
<1>1. /\ index' = files /\ files' = files /\ target' = files /\ todo' = {}
      /\ crashes' = crashes /\ stale' = stale
  BY DEF DiskInv, TypeOK, Reload
<1>2. Sound(index)' /\ Sound(files)' /\ Ahead'
  BY <1>1 DEF DiskInv, Sound, Ahead
<1> QED BY <1>1, <1>2 DEF DiskInv, TypeOK, Published, OpenCall

LEMMA NextKeepsDiskInv == DiskInv /\ [Next]_vars => DiskInv'
<1>1. DiskInv /\ UNCHANGED vars => DiskInv'
  BY DEF vars, DiskInv, TypeOK, Sound, Ahead, Published, OpenCall, Outcome
<1>2. \A r \in Records : DiskInv /\ Publish(r) => DiskInv'
  BY PublishKeepsDiskInv
<1> QED BY <1>1, <1>2, BeginKeepsDiskInv, CommitKeepsDiskInv, CrashKeepsDiskInv,
           ReloadKeepsDiskInv DEF Next

(* DiskInv in every state: types, sound files and a sound index, and files that *)
(* are ahead of the index only by what a call of Store published.              *)
THEOREM SpecDiskInv == Spec => []DiskInv
BY InitDiskInv, NextKeepsDiskInv, PTL DEF Spec

(* Rows stay rows, on disk and in the index. *)
THEOREM DiskTypes == Spec => []TypeOK
<1>1. DiskInv => TypeOK
  BY DEF DiskInv
<1> QED BY <1>1, SpecDiskInv, PTL

(* At every instant of a call, of a crash and of the reload after it, and     *)
(* also when a call was decided on an index the files were ahead of: no file *)
(* holds a record that nothing superseded or refers to one that is not there  *)
(* (the order of the publishes in Store._mutation).                          *)
THEOREM DiskStaysWhole == Spec => []DiskIsWhole
<1>1. DiskInv => DiskIsWhole
  BY DEF DiskInv, DiskIsWhole, SupersededOnDisk, NothingDangles, Sound, OnDisk!Records,
         OnDisk!SupersededHasSuccessor, OnDisk!Successors, Records
<1> QED BY <1>1, SpecDiskInv, PTL

-----------------------------------------------------------------------------
(* HistoryInv is inductive: what is on disk in the middle of a call is the    *)
(* index with some rows of the target, successors before what they close.     *)

LEMMA PublishKeepsHistoryInv ==
    ASSUME DiskInv, HistoryInv, NEW r \in Records, Publish(r)
    PROVE  HistoryInv'
<1> SUFFICES ASSUME ~stale
             PROVE  Queue(files)' /\ Queue(index)' /\ InStep'
  BY DEF HistoryInv, Publish
<1>t. /\ files \in [Records -> Row] /\ index \in [Records -> Row] /\ target \in [Records -> Row]
      /\ Changes(index, target) /\ r \in todo /\ target # index
      /\ Queue(files) /\ Queue(index) /\ InStep /\ Published
  BY OpenChanges DEF DiskInv, TypeOK, Publish, Published, HistoryInv
<1>1. /\ files' = [files EXCEPT ![r] = target[r]]
      /\ todo' = todo \ {r}
      /\ index' = index /\ target' = target
  BY DEF Publish
<1>2. /\ files'[r] = target[r] /\ target[r] # index[r]
      /\ \A q \in Records \ {r} : files'[q] = files[q]
  BY <1>t, <1>1 DEF Published
<1>3. \A q \in Records : \/ files'[q] = index[q]
                         \/ files'[q] = target[q] /\ target[q] # index[q] /\ q \notin todo'
  BY <1>t, <1>1, <1>2 DEF InStep, Published
<1>4. Queue(index)'
  BY <1>t, <1>1 DEF Queue
<1>5. InStep'
  BY <1>t, <1>1, <1>2 DEF InStep
<1>6. ASSUME NEW x \in Records, files'[x].status = "proposed",
             index[x].status # "unwritten"
      PROVE  files'[x] = index[x]
  BY <1>3, <1>6, <1>t, ChangedRow
<1>7. ASSUME NEW x \in Records, files'[x].status = "proposed", index[x].status = "unwritten"
      PROVE  Written(index, target, x) /\ files'[x] = target[x]
  <2>1. files'[x] = target[x] /\ target[x] # index[x]
    BY <1>3, <1>7
  <2>2. Change(index, target, x)
    BY <1>t, <2>1 DEF Changes
  <2> QED BY <1>7, <2>1, <2>2 DEF Change, Judged, Closed, Retired
<1>8. ASSUME NEW s \in Records, files'[s].status = "proposed", files'[s].supersedes # None
      PROVE  /\ files'[files'[s].supersedes].status = "accepted"
             /\ \A x \in Records : (/\ files'[x].status = "proposed"
                                    /\ files'[x].supersedes = files'[s].supersedes) => x = s
  <2> DEFINE p == files'[s].supersedes
  <2>1. p \in Records
    BY <1>3, <1>8, <1>t DEF Row
  <2>2. CASE index[s].status = "unwritten"
    <3>1. /\ index[p].status = "accepted" /\ NoPending(index, p)
          /\ \A x \in Records \ {s} : target[x] = index[x]
          /\ p # s
      BY <1>7, <1>8, <2>2 DEF Written
    <3>2. files'[p].status = "accepted"
      BY <3>1, <2>1, <1>3
    <3>3. ASSUME NEW x \in Records, files'[x].status = "proposed",
                 files'[x].supersedes = p, x # s
          PROVE  FALSE
      BY <3>1, <3>3, <1>3 DEF NoPending
    <3> QED BY <3>2, <3>3
  <2>3. CASE index[s].status # "unwritten"
    <3>1. files'[s] = index[s] /\ index[s].status = "proposed" /\ index[s].supersedes = p
      BY <1>6, <1>8, <2>3
    <3>2. /\ index[p].status = "accepted"
          /\ \A x \in Records : (index[x].status = "proposed" /\ index[x].supersedes = p) => x = s
      BY <3>1, <1>8, <1>t DEF Queue
    <3>3. ~NoPending(index, p)
      BY <3>1 DEF NoPending
    <3>4. ASSUME NEW x \in Records, files'[x].status = "proposed", files'[x].supersedes = p
          PROVE  x = s
      <4>1. CASE index[x].status = "unwritten"
        <5>1. Written(index, target, x) /\ target[x].supersedes = p
          BY <1>7, <3>4, <4>1
        <5>2. NoPending(index, p)
          BY <5>1, <1>8 DEF Written
        <5> QED BY <5>2, <3>3
      <4>2. CASE index[x].status # "unwritten"
        BY <1>6, <3>4, <4>2, <3>2
      <4> QED BY <4>1, <4>2
    <3>5. CASE files'[p] = index[p]
      BY <3>2, <3>4, <3>5
    <3>6. CASE files'[p] # index[p]
      <4>1. files'[p] = target[p] /\ target[p] # index[p]
        BY <3>6, <2>1, <1>3
      <4>2. Closed(index, target, p)
        <5>1. Change(index, target, p)
          BY <4>1, <2>1, <1>t DEF Changes
        <5> QED BY <5>1, <3>2, <3>3 DEF Change, Written, Judged, Retired
      <4>3. PICK x \in Records : /\ index[x].status \in {"unwritten", "proposed"}
                                 /\ target[x].status \in {"accepted", "rejected"}
                                 /\ target[x].supersedes = p
        BY <4>2 DEF Closed
      <4>4. target[x] # index[x] /\ Change(index, target, x)
        BY <4>3, <1>t DEF Changes
      <4>5. index[x].status = "proposed" /\ index[x].supersedes = p
        <5>1. CASE index[x].status = "unwritten"
          <6>1. Written(index, target, x)
            BY <4>4, <5>1 DEF Change, Judged, Closed, Retired
          <6> QED BY <6>1, <4>3, <3>3, <1>8 DEF Written
        <5>2. CASE index[x].status = "proposed"
          BY <5>2, <4>3, <4>4, <1>t, ChangedRow
        <5> QED BY <4>3, <5>1, <5>2
      <4>6. x = s
        BY <4>5, <3>2
      <4>7. p = r
        <5>1. CASE p # r
          <6>1. files[p] = target[p]
            BY <5>1, <4>1, <1>2, <2>1
          <6>2. files[s] = index[s]
            <7>1. s # r
              BY <4>4, <4>6, <3>1, <1>2
            <7> QED BY <7>1, <3>1, <1>2
          <6>3. files[p].status = "accepted"
            BY <6>2, <3>1, <1>8, <1>t DEF Queue
          <6>4. index[p] \in Row /\ target[p].status = "superseded"
            BY <4>2, <2>1, <1>t DEF Closed, Row
          <6> QED BY <6>1, <6>3, <6>4
        <5> QED BY <5>1
      <4>8. s \notin todo
        BY <4>3, <4>6, <4>7 DEF Publish, Precedes
      <4>9. files[s] = target[s] /\ s # r
        BY <4>4, <4>6, <4>8, <1>t DEF Published
      <4>10. files'[s] = target[s]
        BY <4>9, <1>2
      <4> QED BY <4>10, <4>4, <4>6, <3>1
    <3> QED BY <3>5, <3>6
  <2> QED BY <2>2, <2>3
<1>9. Queue(files)'
  BY <1>8 DEF Queue
<1> QED BY <1>4, <1>5, <1>9

(* A call that commits has every row it changed on disk. *)
LEMMA CommittedIsOnDisk ==
    ASSUME DiskInv, HistoryInv, Commit, ~stale
    PROVE  target = files
<1>1. /\ files \in [Records -> Row] /\ target \in [Records -> Row]
      /\ Published /\ InStep /\ todo = {} /\ target # index
  BY DEF DiskInv, TypeOK, HistoryInv, Commit
<1>2. \A r \in Records : files[r] = target[r]
  BY <1>1 DEF Published, InStep
<1> QED BY <1>1, <1>2

LEMMA NextKeepsHistoryInv == DiskInv /\ HistoryInv /\ [Next]_vars => HistoryInv'
<1> SUFFICES ASSUME DiskInv, HistoryInv, [Next]_vars PROVE HistoryInv'
  OBVIOUS
<1>1. CASE Begin
  <2> SUFFICES ASSUME ~stale' PROVE Queue(files)' /\ Queue(index)' /\ InStep'
    BY DEF HistoryInv
  <2>1. files' = files /\ index' = index /\ index = files /\ ~stale
    BY <1>1 DEF Begin, DiskInv, TypeOK
  <2> QED BY <2>1 DEF HistoryInv, Queue, InStep
<1>2. ASSUME NEW r \in Records, Publish(r) PROVE HistoryInv'
  BY <1>2, PublishKeepsHistoryInv
<1>3. CASE Commit
  <2> SUFFICES ASSUME ~stale' PROVE Queue(files)' /\ Queue(index)' /\ InStep'
    BY DEF HistoryInv
  <2>1. files' = files /\ index' = target /\ target' = target /\ ~stale
    BY <1>3 DEF Commit
  <2>2. target = files
    BY <1>3, <2>1, CommittedIsOnDisk
  <2> QED BY <2>1, <2>2 DEF HistoryInv, Queue, InStep
<1>4. CASE Crash
  <2>1. files' = files /\ index' = index /\ target' = index' /\ stale' = stale
    BY <1>4 DEF Crash
  <2> QED BY <2>1 DEF HistoryInv, Queue, InStep
<1>5. CASE Reload
  <2>1. files' = files /\ index' = files /\ target' = index' /\ stale' = stale
    BY <1>5 DEF Reload
  <2> QED BY <2>1 DEF HistoryInv, Queue, InStep
<1>6. CASE UNCHANGED vars
  BY <1>6 DEF vars, HistoryInv, Queue, InStep
<1> QED BY <1>1, <1>2, <1>3, <1>4, <1>5, <1>6 DEF Next

(* HistoryInv in every state: until a call is decided on a stale index, the     *)
(* queue of proposals is settleable on disk too (Store._mutation).             *)
THEOREM SpecHistoryInv == Spec => []HistoryInv
<1>1. Init => HistoryInv
  BY DEF Init, HistoryInv, Queue, InStep, Unwritten
<1> QED BY <1>1, SpecDiskInv, NextKeepsHistoryInv, PTL DEF Spec

-----------------------------------------------------------------------------
(* The step of a file: verify's transitions, as OnDisk!Appended has them. *)
LEMMA ChangeAppends ==
    ASSUME NEW t \in [Records -> Row], NEW u, Changes(t, u), NEW r \in Records,
           u[r] # t[r], t[r].status # "unwritten"
    PROVE  /\ <<t[r].status, u[r].status>> \in OnDisk!VerifyTransitions
           /\ u[r] = [t[r] EXCEPT !.status = u[r].status]
           /\ r \in Facts => u[r].status # "deprecated"
<1>1. t[r] \in Row /\ Change(t, u, r) /\ ~Written(t, u, r)
  BY DEF Changes, Written
<1>2. CASE Judged(t, u, r)
  BY <1>2 DEF Judged, OnDisk!VerifyTransitions
<1>3. CASE Closed(t, u, r)
  <2>1. u[r] = [t[r] EXCEPT !.status = "superseded"] /\ t[r].status = "accepted"
    BY <1>3 DEF Closed
  <2>2. u[r].status = "superseded"
    BY <2>1, <1>1 DEF Row
  <2> QED BY <2>1, <2>2 DEF OnDisk!VerifyTransitions
<1>4. CASE Retired(t, u, r)
  <2>1. u[r] = [t[r] EXCEPT !.status = "deprecated"] /\ t[r].status = "accepted" /\ r \notin Facts
    BY <1>4, RecordIds DEF Retired
  <2>2. u[r].status = "deprecated"
    BY <2>1, <1>1 DEF Row
  <2> QED BY <2>1, <2>2 DEF OnDisk!VerifyTransitions
<1> QED BY <1>1, <1>2, <1>3, <1>4 DEF Change

(* As long as no call was decided on a stale index: no recovery rewrites       *)
(* history, and a proposal whose first ratification died half way can still   *)
(* be dropped without losing the rule it would have replaced.                 *)
THEOREM DiskHistory == Spec => DiskKeepsHistory
<1>1. ASSUME DiskInv, HistoryInv, Next, ~stale, files' # files
      PROVE  \E r \in Records : /\ files'= [files EXCEPT ![r] = target[r]]
                                /\ files[r] = index[r] /\ target[r] # index[r]
                                /\ index[r].status = "unwritten" => files[r].status = "unwritten"
  <2>1. PICK r \in Records : Publish(r)
    BY <1>1 DEF Next, Begin, Commit, Crash, Reload
  <2>2. r \in todo /\ Published /\ InStep
    BY <1>1, <2>1 DEF Publish, DiskInv, HistoryInv
  <2> QED BY <2>1, <2>2 DEF Publish, Published, InStep
<1>2. ASSUME DiskInv, HistoryInv, [Next]_vars
      PROVE  [~stale => OnDisk!Appended]_files
  <2> SUFFICES ASSUME files' # files, ~stale
               PROVE  OnDisk!Appended
    OBVIOUS
  <2>1. Next
    BY <1>2 DEF vars
  <2>2. PICK r \in Records : /\ files'= [files EXCEPT ![r] = target[r]]
                             /\ files[r] = index[r] /\ target[r] # index[r]
    BY <1>1, <1>2, <2>1
  <2>3. files \in [Records -> Row] /\ index \in [Records -> Row] /\ Changes(index, target)
    BY <1>2, OpenChanges DEF DiskInv, TypeOK
  <2>4. \A q \in Records : files'[q] = IF q = r THEN target[r] ELSE files[q]
    BY <2>2, <2>3
  <2>5. \/ index[r].status = "unwritten"
        \/ /\ <<index[r].status, target[r].status>> \in OnDisk!VerifyTransitions
           /\ target[r] = [index[r] EXCEPT !.status = target[r].status]
           /\ r \in Facts => target[r].status # "deprecated"
    BY <2>2, <2>3, ChangeAppends
  <2> QED BY <2>2, <2>4, <2>5 DEF OnDisk!Appended, OnDisk!Records, Records
<1>3. ASSUME DiskInv, HistoryInv, [Next]_vars, ~stale, vars' # vars, NEW s \in Records,
             files[s].status \notin {"unwritten", "rejected"},
             files'[s].status = "rejected", files[s].supersedes # None
      PROVE  files[files[s].supersedes].status # "superseded"
  <2>1. PICK r \in Records : /\ files'= [files EXCEPT ![r] = target[r]]
                             /\ files[r] = index[r] /\ target[r] # index[r]
    BY <1>1, <1>3
  <2>2. files \in [Records -> Row] /\ index \in [Records -> Row] /\ Changes(index, target)
    BY <1>3, OpenChanges DEF DiskInv, TypeOK
  <2>3. s = r /\ target[s].status = "rejected"
    BY <1>3, <2>1, <2>2
  <2>4. <<index[s].status, target[s].status>> \in OnDisk!VerifyTransitions
    BY <1>3, <2>1, <2>2, <2>3, ChangeAppends
  <2>5. files[s].status = "proposed"
    BY <2>1, <2>3, <2>4 DEF OnDisk!VerifyTransitions
  <2> QED BY <1>3, <2>5 DEF HistoryInv, Queue
<1>4. DiskInv /\ HistoryInv /\ [Next]_vars =>
        [~stale => \A s \in Records :
          (/\ files[s].status \notin {"unwritten", "rejected"}
           /\ files'[s].status = "rejected"
           /\ files[s].supersedes # None) =>
              files[files[s].supersedes].status # "superseded"]_vars
  BY <1>3
<1> QED BY <1>2, <1>4, SpecDiskInv, SpecHistoryInv, PTL
        DEF Spec, DiskKeepsHistory, FilesAppendOnly, DropLosesNoRule

-----------------------------------------------------------------------------
(* The index implements Lifecycle until the first crash.                      *)

LEMMA EarlyIsInductive ==
    ASSUME DiskInv, HistoryInv, EarlyInv, [Next]_vars
    PROVE  EarlyInv'
<1> SUFFICES ASSUME crashes' = 0
             PROVE  ~stale' /\ (target' = index' => files' = index')
  BY DEF EarlyInv
<1>1. crashes \in Nat
  BY DEF DiskInv, TypeOK
<1>2. CASE Begin
  BY <1>2 DEF Begin, EarlyInv
<1>3. ASSUME NEW r \in Records, Publish(r)
      PROVE  ~stale' /\ (target' = index' => files' = index')
  BY <1>3 DEF Publish, Published, DiskInv, EarlyInv
<1>4. CASE Commit
  <2>1. crashes = 0 /\ ~stale /\ stale' = stale /\ index' = target /\ files' = files
    BY <1>4 DEF Commit, EarlyInv
  <2> QED BY <1>4, <2>1, CommittedIsOnDisk
<1>5. CASE Crash
  BY <1>1, <1>5 DEF Crash
<1>6. CASE Reload
  BY <1>6 DEF Reload, EarlyInv
<1>7. CASE UNCHANGED vars
  BY <1>7 DEF vars, EarlyInv
<1> QED BY <1>2, <1>3, <1>4, <1>5, <1>6, <1>7 DEF Next

(* EarlyInv in every state: without a crash the files never run ahead of the    *)
(* index between two calls (Store._mutation).                                 *)
THEOREM SpecEarlyInv == Spec => []EarlyInv
<1>1. Init => EarlyInv
  BY DEF Init, EarlyInv
<1> QED BY <1>1, SpecDiskInv, SpecHistoryInv, EarlyIsInductive, PTL DEF Spec

(* The rules of the instance are the rules. *)
LEMMA SameRules ==
    ASSUME NEW r, NEW row, NEW dup, NEW t
    PROVE  /\ InIndex!CanAdd(t, r, row) <=> CanAdd(t, r, row)
           /\ InIndex!AfterAdd(t, r, row) = AfterAdd(t, r, row)
           /\ InIndex!CanRatify(t, r) <=> CanRatify(t, r)
           /\ InIndex!AfterRatify(t, r) = AfterRatify(t, r)
           /\ InIndex!CanDrop(t, r) <=> CanDrop(t, r)
           /\ InIndex!AfterDrop(t, r) = AfterDrop(t, r)
           /\ InIndex!CanRetire(t, r, dup) <=> CanRetire(t, r, dup)
           /\ InIndex!AfterRetire(t, r) = AfterRetire(t, r)
           /\ InIndex!CanRatifyFact(t, r) <=> CanRatifyFact(t, r)
           /\ InIndex!AfterRatifyFact(t, r) = AfterRatifyFact(t, r)
           /\ InIndex!CanDropFact(t, r) <=> CanDropFact(t, r)
           /\ InIndex!AfterDropFact(t, r) = AfterDropFact(t, r)
           /\ InIndex!NewDecision = OnDisk!NewDecision
           /\ InIndex!NewFact = OnDisk!NewFact
BY DEF Records, InIndex!Records, Table, InIndex!Table, With, InIndex!With, Successors,
       InIndex!Successors, PendingSuccessors, InIndex!PendingSuccessors, Chain,
       InIndex!Chain, LiveHeadsAfter, InIndex!LiveHeadsAfter, MayBeSuperseded,
       InIndex!MayBeSuperseded, CanAdd, InIndex!CanAdd, ClosedBy, InIndex!ClosedBy,
       AfterAdd, InIndex!AfterAdd, StalePredecessor, InIndex!StalePredecessor, Evidence,
       InIndex!Evidence, CanRatify, InIndex!CanRatify, AfterRatify, InIndex!AfterRatify,
       CanDrop, InIndex!CanDrop, AfterDrop, InIndex!AfterDrop, CanRatifyFact,
       InIndex!CanRatifyFact, AfterRatifyFact, InIndex!AfterRatifyFact, CanDropFact,
       InIndex!CanDropFact, AfterDropFact, InIndex!AfterDropFact, CanRetire,
       InIndex!CanRetire, AfterRetire, InIndex!AfterRetire, InIndex!NewDecision,
       OnDisk!NewDecision, InIndex!NewFact, OnDisk!NewFact, OnDisk!Records

LEMMA OutcomeIsAStep == Outcome(index, index') => InIndex!Next
<1> SUFFICES ASSUME Outcome(index, index') PROVE InIndex!Next
  OBVIOUS
<1> USE SameRules
<1>1. ASSUME NEW d \in Decisions, NEW row \in OnDisk!NewDecision,
             CanAdd(index, d, row), index' = AfterAdd(index, d, row)
      PROVE  InIndex!Next
  BY <1>1 DEF InIndex!Next, InIndex!AddDecision
<1>2. ASSUME NEW f \in Facts, NEW row \in OnDisk!NewFact,
             CanAdd(index, f, row), index' = AfterAdd(index, f, row)
      PROVE  InIndex!Next
  BY <1>2 DEF InIndex!Next, InIndex!AddFact
<1>3. ASSUME NEW d \in Decisions, CanRatify(index, d), index' = AfterRatify(index, d)
      PROVE  InIndex!Next
  BY <1>3 DEF InIndex!Next, InIndex!Ratify
<1>4. ASSUME NEW d \in Decisions, CanDrop(index, d), index' = AfterDrop(index, d)
      PROVE  InIndex!Next
  BY <1>4 DEF InIndex!Next, InIndex!Drop
<1>5. ASSUME NEW d \in Decisions, NEW dup \in Decisions \cup {None},
             CanRetire(index, d, dup), index' = AfterRetire(index, d)
      PROVE  InIndex!Next
  BY <1>5 DEF InIndex!Next, InIndex!Retire
<1>6. ASSUME NEW f \in Facts, CanRatifyFact(index, f), index' = AfterRatifyFact(index, f)
      PROVE  InIndex!Next
  BY <1>6 DEF InIndex!Next, InIndex!RatifyFact
<1>7. ASSUME NEW f \in Facts, CanDropFact(index, f), index' = AfterDropFact(index, f)
      PROVE  InIndex!Next
  BY <1>7 DEF InIndex!Next, InIndex!DropFact
<1> QED BY <1>1, <1>2, <1>3, <1>4, <1>5, <1>6, <1>7 DEF Outcome

(* Published file by file and committed at the end, a call is one step of the *)
(* abstract store for whoever reads the index.                               *)
THEOREM IndexImplementsLifecycle == Spec => ImplementsLifecycle
<1>1. Init => InIndex!Init
  BY DEF Init, InIndex!Init, InIndex!Records, InIndex!Unwritten, Records, Unwritten
<1>2. ASSUME DiskInv, EarlyInv, [Next]_vars
      PROVE  [crashes = 0 => InIndex!Next]_index
  <2> SUFFICES ASSUME index' # index, crashes = 0
               PROVE  InIndex!Next
    OBVIOUS
  <2>1. CASE Commit
    <3>1. index' = target /\ Outcome(index, target)
      BY <1>2, <2>1 DEF Commit, DiskInv, OpenCall
    <3> QED BY <3>1, OutcomeIsAStep
  <2>2. CASE Reload
    BY <1>2, <2>2 DEF Reload, EarlyInv
  <2> QED BY <1>2, <2>1, <2>2 DEF Next, Begin, Publish, Crash, vars
<1> QED BY <1>1, <1>2, SpecDiskInv, SpecEarlyInv, PTL DEF Spec, ImplementsLifecycle

-----------------------------------------------------------------------------
(* Clones: chains. *)

(* What the records of one table owe each other, whoever wrote them. *)
Ever(T, r) == T[r].status \in {"accepted", "superseded", "deprecated"}
Settled(T, r) == T[r].status \in {"accepted", "superseded"}
Past(T, r) == T[r].status \in {"superseded", "deprecated"}

RefersBack(T) ==
    \A r \in Records :
        /\ T[r].status = "unwritten" => T[r] = Unwritten
        /\ T[r].supersedes # None => T[r].supersedes \in Table(r) /\ Ever(T, T[r].supersedes)
ClosesPast(T) ==
    \A s \in Records : Ever(T, s) /\ T[s].supersedes # None => Past(T, T[s].supersedes)
Ends(T, r) == \E s \in Records : T[s].status = "deprecated" /\ T[s].supersedes \in Chain(T, r)
Continued(T) == \A r \in Records : T[r].status = "superseded" => Ends(T, r) \/ LiveHeads(T, r) # {}
OneHeir(T) ==
    \A r \in Records : T[r].status = "superseded" /\ ~Ends(T, r) =>
        \A s, t \in Records :
            Settled(T, s) /\ Settled(T, t) /\ T[s].supersedes = r /\ T[t].supersedes = r => s = t
ChainsHold(T) == T \in [Records -> Row] /\ RefersBack(T) /\ ClosesPast(T) /\ Continued(T) /\ OneHeir(T)

(* U is a table that T may become, by calls or merges. *)
Later(T, U) ==
    \A r \in Records :
        /\ T[r].status # "unwritten" => U[r].status # "unwritten" /\ U[r].supersedes = T[r].supersedes
        /\ T[r].status = "accepted" => Ever(U, r)
        /\ Past(T, r) => U[r].status = T[r].status

LEMMA TableOf ==
  ASSUME NEW r \in Records, NEW x \in Table(r)
  PROVE  x \in Records /\ Table(x) = Table(r) /\ r \in Table(r) /\ x # None
BY RecordIds DEF Records, Table

-----------------------------------------------------------------------------
(* Chains. *)

LEMMA ChainLeast ==
  ASSUME NEW T, NEW r \in Records, NEW C \in SUBSET Table(r), r \in C,
         \A s \in Table(r) : T[s].supersedes \in C /\ Settled(T, s) => s \in C
  PROVE  Chain(T, r) \subseteq C
BY DEF Chain, Settled

LEMMA ChainGrows ==
  ASSUME NEW T, NEW r \in Records
  PROVE  /\ Chain(T, r) \subseteq Table(r) /\ r \in Chain(T, r)
         /\ \A s \in Table(r) : T[s].supersedes \in Chain(T, r) /\ Settled(T, s) => s \in Chain(T, r)
<1>1. Chain(T, r) \subseteq Table(r)
  BY DEF Chain
<1>2. r \in Chain(T, r)
  BY DEF Chain, Table, Records
<1>3. ASSUME NEW s \in Table(r), T[s].supersedes \in Chain(T, r), Settled(T, s)
      PROVE  s \in Chain(T, r)
  <2> DEFINE Closes(C) == \A x \in Table(r) :
                (T[x].supersedes \in C /\ T[x].status \in {"accepted", "superseded"}) => x \in C
  <2>1. ASSUME NEW C \in SUBSET Table(r), r \in C, Closes(C) PROVE s \in C
    <3>1. T[s].supersedes \in C
      BY <1>3, <2>1 DEF Chain
    <3> QED
      BY <1>3, <2>1, <3>1 DEF Settled
  <2> QED
    BY <2>1 DEF Chain
<1> QED
  BY <1>1, <1>2, <1>3

(* Who is in a chain came there by a predecessor in it. *)
LEMMA ChainBack ==
  ASSUME NEW T, NEW r \in Records, NEW s \in Chain(T, r), s # r
  PROVE  s \in Table(r) /\ Settled(T, s) /\ T[s].supersedes \in Chain(T, r)
<1> DEFINE C == {x \in Chain(T, r) : x = r \/ (Settled(T, x) /\ T[x].supersedes \in Chain(T, r))}
<1>1. C \in SUBSET Table(r) /\ r \in C
  BY ChainGrows
<1>2. ASSUME NEW x \in Table(r), T[x].supersedes \in C, Settled(T, x) PROVE x \in C
  BY <1>2, ChainGrows
<1>3. Chain(T, r) \subseteq C
  BY <1>1, <1>2, ChainLeast
<1> QED
  BY <1>1, <1>3

LEMMA ChainInChain ==
  ASSUME NEW T, NEW r \in Records, NEW x \in Chain(T, r)
  PROVE  x \in Records /\ Table(x) = Table(r) /\ Chain(T, x) \subseteq Chain(T, r)
<1>1. x \in Table(r) /\ x \in Records /\ Table(x) = Table(r)
  BY ChainGrows, TableOf
<1>2. /\ Chain(T, r) \in SUBSET Table(x)
      /\ \A s \in Table(x) : T[s].supersedes \in Chain(T, r) /\ Settled(T, s) => s \in Chain(T, r)
  BY <1>1, ChainGrows
<1>3. Chain(T, x) \subseteq Chain(T, r)
  BY <1>1, <1>2, ChainLeast
<1> QED
  BY <1>1, <1>3

(* Who is in a chain is in the chain of its first member's successor. *)
LEMMA ChainFirst ==
  ASSUME NEW T, NEW r \in Records, NEW s \in Chain(T, r), s # r
  PROVE  \E z \in Table(r) : Settled(T, z) /\ T[z].supersedes = r /\ s \in Chain(T, z)
<1> DEFINE C == {x \in Table(r) : x = r \/ \E z \in Table(r) :
                                      Settled(T, z) /\ T[z].supersedes = r /\ x \in Chain(T, z)}
<1>1. C \in SUBSET Table(r) /\ r \in C
  BY DEF Table, Records
<1>2. ASSUME NEW x \in Table(r), T[x].supersedes \in C, Settled(T, x) PROVE x \in C
  <2>1. CASE T[x].supersedes = r
    <3>1. x \in Chain(T, x)
      BY ChainGrows, TableOf
    <3> QED
      BY <1>2, <2>1, <3>1
  <2>2. CASE T[x].supersedes # r
    <3>1. PICK z \in Table(r) : Settled(T, z) /\ T[z].supersedes = r /\ T[x].supersedes \in Chain(T, z)
      BY <1>2, <2>2
    <3>2. z \in Records /\ x \in Table(z)
      BY TableOf
    <3>3. x \in Chain(T, z)
      BY <1>2, <3>1, <3>2, ChainGrows
    <3> QED
      BY <3>1, <3>3
  <2> QED
    BY <2>1, <2>2
<1>3. Chain(T, r) \subseteq C
  BY <1>1, <1>2, ChainLeast
<1> QED
  BY <1>3

(* The chain of a record in force is that record. *)
LEMMA ChainOfHead ==
  ASSUME NEW T, ClosesPast(T), NEW r \in Records, ~Past(T, r), NEW s \in Chain(T, r)
  PROVE  s = r
<1> SUFFICES ASSUME s # r PROVE FALSE
  OBVIOUS
<1>1. PICK z \in Table(r) : Settled(T, z) /\ T[z].supersedes = r
  BY ChainFirst
<1>2. z \in Records /\ r # None /\ Ever(T, z)
  BY <1>1, TableOf, RecordIds DEF Settled, Ever, Records
<1> QED
  BY <1>1, <1>2 DEF ClosesPast

(* A chain that does not end has one head. *)
LEMMA HeadIsUnique ==
  ASSUME NEW T, ChainsHold(T), NEW r \in Records, T[r].status = "superseded", ~Ends(T, r),
         NEW s \in LiveHeads(T, r), NEW t \in LiveHeads(T, r)
  PROVE  s = t
<1>1. /\ s \in Chain(T, r) /\ T[s].status = "accepted" /\ t \in Chain(T, r) /\ T[t].status = "accepted"
      /\ s \in Records /\ t \in Records
  BY ChainInChain DEF LiveHeads
<1> DEFINE C == {x \in Chain(T, r) : s \in Chain(T, x)}
<1>2. C \in SUBSET Table(r) /\ r \in C
  BY <1>1, ChainGrows
<1>3. ASSUME NEW y \in Table(r), T[y].supersedes \in C, Settled(T, y) PROVE y \in C
  <2> DEFINE x == T[y].supersedes
  <2>1. y \in Chain(T, r) /\ x \in Chain(T, r) /\ s \in Chain(T, x) /\ x \in Records /\ y \in Records
    BY <1>3, ChainGrows, ChainInChain, TableOf
  <2>2. Past(T, x) /\ x # s
    <3>1. Ever(T, y) /\ x # None
      BY <1>3, <2>1, RecordIds DEF Settled, Ever, Records
    <3>2. Past(T, x)
      BY <2>1, <3>1 DEF ChainsHold, ClosesPast
    <3> QED
      BY <3>2, <1>1 DEF Past
  <2>3. T[x].status = "superseded" /\ ~Ends(T, x)
    <3>1. x = r \/ Settled(T, x)
      BY <2>1, ChainBack
    <3>2. Chain(T, x) \subseteq Chain(T, r)
      BY <2>1, ChainInChain
    <3> QED
      BY <3>1, <3>2, <2>2 DEF Past, Settled, Ends
  <2>4. PICK z \in Table(x) : Settled(T, z) /\ T[z].supersedes = x /\ s \in Chain(T, z)
    BY <2>1, <2>2, ChainFirst
  <2>5. z = y
    BY <2>1, <2>3, <2>4, <1>3, TableOf DEF ChainsHold, OneHeir
  <2> QED
    BY <2>1, <2>4, <2>5
<1>4. Chain(T, r) \subseteq C
  BY <1>2, <1>3, ChainLeast
<1>5. s \in Chain(T, t)
  BY <1>1, <1>4
<1> QED
  BY <1>1, <1>5, ChainOfHead DEF ChainsHold, Past

LEMMA OneHead ==
  ASSUME NEW T, ChainsHold(T), NEW r \in Records, Settled(T, r), ~Ended(T, r)
  PROVE  Cardinality(LiveHeads(T, r)) = 1
<1>1. \E h : LiveHeads(T, r) = {h}
  <2>1. CASE T[r].status = "accepted"
    <3>1. \A s \in Chain(T, r) : s = r
      BY <2>1, ChainOfHead DEF ChainsHold, Past
    <3>2. LiveHeads(T, r) = {r}
      BY <2>1, <3>1, ChainGrows DEF LiveHeads
    <3> QED
      BY <3>2
  <2>2. CASE T[r].status = "superseded"
    <3>1. ~Ends(T, r)
      BY DEF Ends, Ended
    <3>2. LiveHeads(T, r) # {}
      BY <2>2, <3>1 DEF ChainsHold, Continued
    <3>3. \A s, t \in LiveHeads(T, r) : s = t
      BY <2>2, <3>1, HeadIsUnique
    <3> QED
      BY <3>2, <3>3
  <2> QED
    BY <2>1, <2>2 DEF Settled
<1> QED
  BY <1>1, FS_Singleton

-----------------------------------------------------------------------------
(* Time passes. *)

LEMMA LaterKeeps ==
  ASSUME NEW T, NEW U, Later(T, U), NEW r \in Records
  PROVE  /\ Ever(T, r) => Ever(U, r) /\ U[r].supersedes = T[r].supersedes
         /\ Past(T, r) => Past(U, r) /\ U[r].status = T[r].status
         /\ Settled(T, r) => Settled(U, r) \/ U[r].status = "deprecated"
BY DEF Later, Ever, Past, Settled

(* A member of a chain stays in it, or the chain ends. *)
LEMMA StaysInChain ==
  ASSUME NEW T, NEW U, RefersBack(T), ClosesPast(T), Later(T, U), NEW r \in Records, NEW s \in Chain(T, r)
  PROVE  /\ s \in Chain(U, r) \/ (Ends(U, r) /\ U[s].status = "deprecated")
         /\ U[s].status = "deprecated" /\ s # r => Ends(U, r)
<1> DEFINE C == {x \in Chain(T, r) : x \in Chain(U, r) \/ (x # r /\ U[x].status = "deprecated")}
<1>1. C \in SUBSET Table(r) /\ r \in C
  BY ChainGrows
<1>2. ASSUME NEW y \in Table(r), T[y].supersedes \in C, Settled(T, y) PROVE y \in C
  <2> DEFINE x == T[y].supersedes
  <2>1. y \in Chain(T, r) /\ x \in Chain(T, r) /\ x \in Records /\ y \in Records
    BY <1>2, ChainGrows, ChainInChain, TableOf
  <2>2. U[y].supersedes = x /\ (Settled(U, y) \/ U[y].status = "deprecated") /\ y # r => y \in C
    <3>1. ASSUME Settled(U, y), x \in Chain(U, r), U[y].supersedes = x PROVE y \in Chain(U, r)
      BY <3>1, ChainGrows
    <3>2. x \in Chain(U, r)
      <4>1. ASSUME x # r, U[x].status = "deprecated" PROVE FALSE
        <5>1. Settled(T, x)
          BY <4>1, <2>1, ChainBack
        <5>2. Past(T, x)
          BY <1>2, <2>1, RecordIds DEF ClosesPast, Ever, Settled, Records
        <5>3. U[x].status = T[x].status
          BY <2>1, <5>2, LaterKeeps
        <5> QED
          BY <5>1, <5>3, <4>1 DEF Settled
      <4> QED
        BY <4>1, <1>2
    <3> QED
      BY <2>1, <3>1, <3>2
  <2>3. U[y].supersedes = x /\ (Settled(U, y) \/ U[y].status = "deprecated")
    BY <1>2, <2>1, LaterKeeps DEF Settled, Ever
  <2> QED
    BY <1>1, <2>2, <2>3
<1>3. Chain(T, r) \subseteq C
  BY <1>1, <1>2, ChainLeast
<1>4. ASSUME U[s].status = "deprecated", s # r PROVE Ends(U, r)
  <2> DEFINE x == T[s].supersedes
  <2>1. s \in Records /\ Settled(T, s) /\ x \in Chain(T, r) /\ x \in Records
    BY <1>4, ChainBack, ChainInChain
  <2>2. Past(T, x) /\ (x = r \/ Settled(T, x))
    BY <2>1, ChainBack, RecordIds DEF ClosesPast, Ever, Settled, Records
  <2>3. x \in Chain(U, r)
    <3>1. x = r \/ U[x].status # "deprecated"
      BY <2>1, <2>2, LaterKeeps DEF Settled
    <3> QED
      BY <3>1, <2>1, <1>3
  <2>4. U[s].supersedes = x
    BY <2>1, LaterKeeps DEF Settled, Ever
  <2> QED
    BY <1>4, <2>1, <2>3, <2>4 DEF Ends
<1> QED
  BY <1>3, <1>4

LEMMA StaysEnded ==
  ASSUME NEW T, NEW U, RefersBack(T), ClosesPast(T), Later(T, U), NEW r \in Records, Ends(T, r)
  PROVE  Ends(U, r)
<1>1. PICK s \in Records : T[s].status = "deprecated" /\ T[s].supersedes \in Chain(T, r)
  BY DEF Ends
<1>2. U[s].status = "deprecated" /\ U[s].supersedes = T[s].supersedes
  BY <1>1, LaterKeeps DEF Ever, Past
<1>3. U[s].supersedes \in Chain(U, r) \/ Ends(U, r)
  BY <1>1, <1>2, StaysInChain
<1> QED
  BY <1>1, <1>2, <1>3 DEF Ends

(* Where a chain ends, the chains that lead there end. *)
LEMMA EndsAbove ==
  ASSUME NEW T, NEW r \in Records, NEW x \in Chain(T, r), Ends(T, x)
  PROVE  Ends(T, r)
BY ChainInChain DEF Ends

LEMMA LaterTrans ==
  ASSUME NEW S, NEW T, NEW U, Later(S, T), Later(T, U)
  PROVE  Later(S, U)
BY DEF Later, Ever, Past

LEMMA LaterSame == \A T : Later(T, T)
BY DEF Later, Ever, Past
-----------------------------------------------------------------------------
(* A call, as far as chains are concerned. *)

Accepts(T, U) == {r \in Records : U[r].status = "accepted" /\ T[r].status # "accepted"}

CallMoves(T, U) ==
    /\ U \in [Records -> Row] /\ Later(T, U)
    /\ \A r \in Records :
          /\ U[r].status = "unwritten" => U[r] = T[r]
          /\ T[r].status = "unwritten" /\ U[r].supersedes # None =>
                U[r].supersedes \in Table(r) /\ T[U[r].supersedes].status = "accepted"
          /\ U[r].status = "superseded" => Settled(T, r)
          /\ U[r].status = "deprecated" => T[r].status \in {"accepted", "deprecated"}
          /\ T[r].status = "accepted" /\ U[r].status = "superseded" =>
                \E a \in Accepts(T, U) : U[a].supersedes = r
    /\ \A a \in Accepts(T, U) : U[a].supersedes # None =>
          /\ Past(U, U[a].supersedes)
          /\ T[U[a].supersedes].status # "accepted" => LiveHeads(T, U[a].supersedes) = {}
    /\ \A a, b \in Accepts(T, U) : U[a].supersedes = U[b].supersedes => a = b \/ U[a].supersedes = None

LEMMA MovesClose ==
  ASSUME NEW T, NEW U, ChainsHold(T), CallMoves(T, U)
  PROVE  RefersBack(U) /\ ClosesPast(U)
<1>1. ASSUME NEW r \in Records, U[r].supersedes # None
      PROVE  U[r].supersedes \in Table(r) /\ Ever(T, U[r].supersedes) /\ Ever(U, U[r].supersedes)
  <2>1. U[r].supersedes \in Table(r) /\ Ever(T, U[r].supersedes)
    <3>1. CASE T[r].status = "unwritten"
      BY <1>1, <3>1 DEF CallMoves, Ever
    <3>2. CASE T[r].status # "unwritten"
      <4>1. U[r].supersedes = T[r].supersedes
        BY <3>2 DEF CallMoves, Later
      <4> QED
        BY <4>1, <1>1 DEF ChainsHold, RefersBack
    <3> QED
      BY <3>1, <3>2
  <2> QED
    BY <2>1, TableOf, LaterKeeps DEF CallMoves
<1>2. ASSUME NEW r \in Records, U[r].status = "unwritten" PROVE U[r] = Unwritten
  <2>1. U[r] = T[r]
    BY <1>2 DEF CallMoves
  <2> QED
    BY <1>2, <2>1 DEF ChainsHold, RefersBack
<1>3. ASSUME NEW s \in Records, Ever(U, s), U[s].supersedes # None PROVE Past(U, U[s].supersedes)
  <2>1. CASE Ever(T, s)
    <3>1. U[s].supersedes = T[s].supersedes
      BY <2>1, LaterKeeps DEF CallMoves
    <3>2. Past(T, T[s].supersedes)
      BY <2>1, <3>1, <1>3 DEF ChainsHold, ClosesPast
    <3> QED
      BY <3>1, <3>2, <1>1, <1>3, TableOf, LaterKeeps DEF CallMoves
  <2>2. CASE ~Ever(T, s)
    <3>1. U[s].status = "accepted" /\ T[s].status # "accepted"
      BY <2>2, <1>3 DEF CallMoves, Ever, Settled
    <3> QED
      BY <3>1, <1>3 DEF CallMoves, Accepts
  <2> QED
    BY <2>1, <2>2
<1> QED
  BY <1>1, <1>2, <1>3 DEF RefersBack, ClosesPast

LEMMA MovesContinue ==
  ASSUME NEW T, NEW U, ChainsHold(T), CallMoves(T, U), NEW r \in Records, U[r].status = "superseded"
  PROVE  Ends(U, r) \/ LiveHeads(U, r) # {}
<1>1. ASSUME NEW a \in Accepts(T, U), U[a].supersedes \in Chain(U, r) PROVE LiveHeads(U, r) # {}
  <2>1. a \in Records /\ U[a].status = "accepted" /\ U[a].supersedes \in Table(r)
    BY <1>1, ChainGrows DEF Accepts
  <2>2. a \in Table(r)
    <3>1. U[a].supersedes # None
      BY <2>1, TableOf
    <3>2. U[a].supersedes \in Table(a)
      BY <2>1, <3>1, MovesClose DEF RefersBack
    <3> QED
      BY <2>1, <3>2, TableOf
  <2>3. a \in Chain(U, r)
    BY <1>1, <2>1, <2>2, ChainGrows DEF Settled
  <2> QED
    BY <2>1, <2>3 DEF LiveHeads
<1>2. CASE T[r].status = "accepted"
  <2>1. PICK a \in Accepts(T, U) : U[a].supersedes = r
    BY <1>2 DEF CallMoves
  <2> QED
    BY <2>1, <1>1, ChainGrows
<1>3. CASE T[r].status # "accepted"
  <2>1. T[r].status = "superseded"
    BY <1>3 DEF CallMoves, Settled
  <2>2. CASE Ends(T, r)
    BY <2>2, StaysEnded DEF ChainsHold, CallMoves
  <2>3. CASE LiveHeads(T, r) # {}
    <3>1. PICK h \in Chain(T, r) : T[h].status = "accepted"
      BY <2>3 DEF LiveHeads
    <3>2. h \in Records /\ h # r
      BY <3>1, <2>1, ChainInChain
    <3>3. h \in Chain(U, r) \/ Ends(U, r)
      BY <3>1, StaysInChain DEF ChainsHold, CallMoves
    <3>4. U[h].status = "deprecated" => Ends(U, r)
      BY <3>1, <3>2, StaysInChain DEF ChainsHold, CallMoves
    <3>5. U[h].status \in {"accepted", "superseded", "deprecated"}
      BY <3>1, <3>2 DEF CallMoves, Later, Ever
    <3>6. CASE h \in Chain(U, r) /\ U[h].status = "superseded"
      <4>1. PICK a \in Accepts(T, U) : U[a].supersedes = h
        BY <3>1, <3>2, <3>6 DEF CallMoves
      <4> QED
        BY <4>1, <3>6, <1>1
    <3>7. CASE h \in Chain(U, r) /\ U[h].status = "accepted"
      BY <3>7 DEF LiveHeads
    <3> QED
      BY <3>3, <3>4, <3>5, <3>6, <3>7
  <2> QED
    BY <2>1, <2>2, <2>3 DEF ChainsHold, Continued
<1> QED
  BY <1>2, <1>3

LEMMA MovesOneHeir ==
  ASSUME NEW T, NEW U, ChainsHold(T), CallMoves(T, U), NEW r \in Records, U[r].status = "superseded",
         ~Ends(U, r), NEW s \in Records, NEW t \in Records, Settled(U, s), Settled(U, t),
         U[s].supersedes = r, U[t].supersedes = r
  PROVE  s = t
<1>n. r # None
  BY RecordIds DEF Records
<1>1. ~Ends(T, r)
  BY StaysEnded DEF ChainsHold, CallMoves
<1>2. ASSUME NEW x \in Records, Settled(U, x), U[x].supersedes = r, x \notin Accepts(T, U)
      PROVE  Settled(T, x) /\ T[x].supersedes = r
  <2>1. Settled(T, x)
    BY <1>2 DEF CallMoves, Accepts, Settled
  <2> QED
    BY <2>1, <1>2, LaterKeeps DEF CallMoves, Settled, Ever
<1>3. CASE T[r].status = "accepted"
  <2>1. \A x \in Records : Settled(T, x) => T[x].supersedes # r
    BY <1>3, <1>n DEF ChainsHold, ClosesPast, Settled, Ever, Past
  <2>2. s \in Accepts(T, U) /\ t \in Accepts(T, U)
    BY <1>2, <2>1
  <2> QED
    BY <2>2, <1>n DEF CallMoves
<1>4. CASE T[r].status # "accepted"
  <2>1. T[r].status = "superseded"
    BY <1>4 DEF CallMoves, Settled
  <2>2. LiveHeads(T, r) # {}
    BY <1>1, <2>1 DEF ChainsHold, Continued
  <2>3. \A a \in Accepts(T, U) : U[a].supersedes # r
    BY <2>1, <2>2, <1>n DEF CallMoves
  <2>4. Settled(T, s) /\ Settled(T, t) /\ T[s].supersedes = r /\ T[t].supersedes = r
    BY <2>3, <1>2
  <2> QED
    BY <1>1, <2>1, <2>4 DEF ChainsHold, OneHeir
<1> QED
  BY <1>3, <1>4

LEMMA MovesHold ==
  ASSUME NEW T, NEW U, ChainsHold(T), CallMoves(T, U)
  PROVE  ChainsHold(U)
<1>1. U \in [Records -> Row] /\ RefersBack(U) /\ ClosesPast(U)
  BY MovesClose DEF CallMoves
<1>2. Continued(U)
  BY MovesContinue DEF Continued
<1>3. OneHeir(U)
  BY MovesOneHeir DEF OneHeir
<1> QED
  BY <1>1, <1>2, <1>3 DEF ChainsHold

-----------------------------------------------------------------------------
(* A merge without conflicts: no row was changed on both sides. *)

Merged(O, A, B, M) ==
    \A r \in Records : (A[r] = O[r] /\ M[r] = B[r]) \/ (B[r] = O[r] /\ M[r] = A[r])

LEMMA MergedSwaps ==
  ASSUME NEW O, NEW A, NEW B, NEW M, Merged(O, A, B, M)
  PROVE  Merged(O, B, A, M)
BY DEF Merged

LEMMA MergedLater ==
  ASSUME NEW O, NEW A, NEW B, NEW M, Later(O, A), Later(O, B), Merged(O, A, B, M)
  PROVE  Later(A, M)
<1> SUFFICES ASSUME NEW r \in Records
             PROVE  /\ A[r].status # "unwritten" =>
                          M[r].status # "unwritten" /\ M[r].supersedes = A[r].supersedes
                    /\ A[r].status = "accepted" => Ever(M, r)
                    /\ Past(A, r) => M[r].status = A[r].status
  BY DEF Later
<1>1. CASE M[r] = A[r]
  BY <1>1 DEF Ever
<1>2. CASE A[r] = O[r] /\ M[r] = B[r]
  <2>1. /\ O[r].status # "unwritten" => B[r].status # "unwritten" /\ B[r].supersedes = O[r].supersedes
        /\ O[r].status = "accepted" => Ever(B, r)
        /\ Past(O, r) => B[r].status = O[r].status
    BY DEF Later
  <2> QED
    BY <1>2, <2>1 DEF Ever, Past
<1> QED
  BY <1>1, <1>2 DEF Merged

(* Of a chain that a clone built on a record in force, nothing is older. *)
LEMMA ChainIsNew ==
  ASSUME NEW O, NEW B, ClosesPast(O), Later(O, B), NEW h \in Records, NEW s \in Chain(B, h), s # h,
         Ever(O, s)
  PROVE  Past(O, h)
<1> DEFINE C == {x \in Chain(B, h) : x # h /\ Ever(O, x) => Past(O, h)}
<1>1. C \in SUBSET Table(h) /\ h \in C
  BY ChainGrows
<1>2. ASSUME NEW y \in Table(h), B[y].supersedes \in C, Settled(B, y) PROVE y \in C
  <2> DEFINE x == B[y].supersedes
  <2>1. y \in Chain(B, h) /\ x \in Chain(B, h) /\ x \in Records /\ y \in Records /\ x # None
    BY <1>2, ChainGrows, TableOf
  <2>2. ASSUME Ever(O, y) PROVE Past(O, h)
    <3>1. O[y].supersedes = x
      BY <2>1, <2>2, LaterKeeps
    <3>2. Past(O, x)
      BY <2>1, <2>2, <3>1 DEF ClosesPast
    <3>3. CASE x = h
      BY <3>2, <3>3
    <3>4. CASE x # h
      BY <3>2, <3>4, <1>2 DEF Past, Ever
    <3> QED
      BY <3>3, <3>4
  <2> QED
    BY <2>1, <2>2
<1>3. Chain(B, h) \subseteq C
  BY <1>1, <1>2, ChainLeast
<1> QED
  BY <1>3

LEMMA MergedContinues ==
  ASSUME NEW O, NEW A, NEW B, NEW M, ChainsHold(O), ChainsHold(A), ChainsHold(B),
         Later(O, A), Later(O, B), Merged(O, A, B, M),
         NEW r \in Records, A[r].status = "superseded"
  PROVE  Ends(M, r) \/ LiveHeads(M, r) # {}
<1>1. Later(A, M) /\ Later(B, M)
  BY MergedLater, MergedSwaps
<1>2. CASE Ends(A, r)
  BY <1>1, <1>2, StaysEnded DEF ChainsHold
<1>3. CASE LiveHeads(A, r) # {} /\ ~Ends(M, r)
  <2>1. PICK h \in Chain(A, r) : A[h].status = "accepted"
    BY <1>3 DEF LiveHeads
  <2>2. h \in Records /\ h # r
    BY <2>1, ChainInChain
  <2>3. h \in Chain(M, r) /\ M[h].status # "deprecated"
    BY <1>1, <1>3, <2>1, <2>2, StaysInChain DEF ChainsHold
  <2>4. Ever(M, h)
    BY <1>1, <2>1, <2>2, LaterKeeps DEF Ever
  <2>5. CASE M[h].status = "accepted"
    BY <2>3, <2>5 DEF LiveHeads
  <2>6. CASE M[h].status = "superseded"
    <3>1. A[h] = O[h] /\ M[h] = B[h]
      BY <2>1, <2>2, <2>6 DEF Merged
    <3>2. ~Ends(M, h)
      BY <1>3, <2>3, EndsAbove
    <3>3. ~Ends(B, h)
      BY <1>1, <2>2, <3>2, StaysEnded DEF ChainsHold
    <3>4. PICK g \in Chain(B, h) : B[g].status = "accepted"
      BY <2>2, <2>6, <3>1, <3>3 DEF ChainsHold, Continued, LiveHeads
    <3>5. g \in Records /\ g # h
      BY <2>2, <2>6, <3>1, <3>4, ChainInChain
    <3>6. g \in Chain(M, h)
      BY <1>1, <2>2, <3>2, <3>4, StaysInChain DEF ChainsHold
    <3>7. M[g].status = "accepted"
      <4>1. ASSUME M[g] = A[g], B[g] = O[g] PROVE FALSE
        <5>1. Ever(O, g)
          BY <3>4, <4>1 DEF Ever
        <5>2. Past(O, h)
          BY <2>2, <3>4, <3>5, <5>1, ChainIsNew DEF ChainsHold
        <5> QED
          BY <2>1, <3>1, <5>2 DEF Past
      <4> QED
        BY <3>4, <3>5, <4>1 DEF Merged
    <3>8. g \in Chain(M, r)
      BY <2>3, <3>6, ChainInChain
    <3> QED
      BY <3>7, <3>8 DEF LiveHeads
  <2> QED
    BY <2>3, <2>4, <2>5, <2>6 DEF Ever
<1> QED
  BY <1>2, <1>3 DEF ChainsHold, Continued

(* An heir of a record that the base had closed is the heir it had there. *)
LEMMA MergedOldHeir ==
  ASSUME NEW O, NEW A, NEW M, ChainsHold(O), ChainsHold(A), Later(O, A), Later(A, M),
         NEW r \in Records, O[r].status = "superseded", ~Ends(M, r),
         NEW w \in Records, Settled(O, w), O[w].supersedes = r,
         NEW s \in Records, Settled(A, s), A[s].supersedes = r
  PROVE  s = w
<1>1. ~Ends(A, r)
  BY StaysEnded DEF ChainsHold
<1>2. A[r].status = "superseded"
  BY LaterKeeps DEF Past
<1>3. A[w].supersedes = r
  BY LaterKeeps DEF Settled, Ever
<1>4. Settled(A, w)
  <2>1. Settled(A, w) \/ A[w].status = "deprecated"
    BY LaterKeeps
  <2>2. r \in Chain(A, r)
    BY ChainGrows
  <2> QED
    BY <1>1, <1>3, <2>1, <2>2 DEF Ends
<1> QED
  BY <1>1, <1>2, <1>3, <1>4 DEF ChainsHold, OneHeir

LEMMA MergedHeirs ==
  ASSUME NEW O, NEW A, NEW B, NEW M, ChainsHold(O), ChainsHold(A), ChainsHold(B),
         Later(O, A), Later(O, B), Merged(O, A, B, M),
         NEW r \in Records, A[r].status = "superseded", M[r] = A[r], Past(O, r) \/ B[r] = O[r],
         ~Ends(M, r), NEW s \in Records, NEW t \in Records, Settled(M, s), Settled(M, t),
         M[s].supersedes = r, M[t].supersedes = r
  PROVE  s = t
<1>n. r # None
  BY RecordIds DEF Records
<1>1. Later(A, M) /\ Later(B, M)
  BY MergedLater, MergedSwaps
<1>2. CASE Past(O, r)
  <2>1. O[r].status = "superseded"
    BY <1>2, LaterKeeps
  <2>2. ~Ends(A, r)
    BY <1>1, StaysEnded DEF ChainsHold
  <2>3. ~Ends(O, r)
    BY <2>2, StaysEnded DEF ChainsHold
  <2>4. PICK h \in Chain(O, r) : O[h].status = "accepted"
    BY <2>1, <2>3 DEF ChainsHold, Continued, LiveHeads
  <2>5. PICK w \in Table(r) : Settled(O, w) /\ O[w].supersedes = r
    BY <2>1, <2>4, ChainFirst
  <2>6. w \in Records
    BY TableOf
  <2>7. ASSUME NEW x \in Records, Settled(M, x), M[x].supersedes = r PROVE x = w
    <3>1. (Settled(A, x) /\ A[x].supersedes = r) \/ (Settled(B, x) /\ B[x].supersedes = r)
      BY <2>7 DEF Merged, Settled
    <3> QED
      BY <3>1, <1>1, <2>1, <2>5, <2>6, MergedOldHeir
  <2> QED
    BY <2>7
<1>3. CASE ~Past(O, r) /\ B[r] = O[r]
  <2>1. \A x \in Records : Settled(B, x) => B[x].supersedes # r
    BY <1>3, <1>n DEF ChainsHold, ClosesPast, Settled, Ever, Past
  <2>2. ASSUME NEW x \in Records, Settled(M, x), M[x].supersedes = r
        PROVE  Settled(A, x) /\ A[x].supersedes = r
    BY <2>1, <2>2 DEF Merged, Settled
  <2>3. ~Ends(A, r)
    BY <1>1, StaysEnded DEF ChainsHold
  <2> QED
    BY <2>2, <2>3 DEF ChainsHold, OneHeir
<1> QED
  BY <1>2, <1>3

LEMMA MergeHolds ==
  ASSUME NEW O, NEW A, NEW B, NEW M \in [Records -> Row], ChainsHold(O), ChainsHold(A), ChainsHold(B),
         Later(O, A), Later(O, B), Merged(O, A, B, M)
  PROVE  ChainsHold(M)
<1>1. Later(A, M) /\ Later(B, M) /\ Merged(O, B, A, M)
  BY MergedLater, MergedSwaps
<1>2. RefersBack(M)
  <2> SUFFICES ASSUME NEW r \in Records
               PROVE  /\ M[r].status = "unwritten" => M[r] = Unwritten
                      /\ M[r].supersedes # None =>
                            M[r].supersedes \in Table(r) /\ Ever(M, M[r].supersedes)
    BY DEF RefersBack
  <2>1. CASE M[r] = A[r]
    BY <1>1, <2>1, TableOf, LaterKeeps DEF ChainsHold, RefersBack
  <2>2. CASE M[r] = B[r]
    BY <1>1, <2>2, TableOf, LaterKeeps DEF ChainsHold, RefersBack
  <2> QED
    BY <2>1, <2>2 DEF Merged
<1>3. ClosesPast(M)
  <2> SUFFICES ASSUME NEW s \in Records, Ever(M, s), M[s].supersedes # None
               PROVE  Past(M, M[s].supersedes)
    BY DEF ClosesPast
  <2>1. M[s].supersedes \in Records
    BY <1>2, TableOf DEF RefersBack
  <2>2. CASE M[s] = A[s]
    BY <1>1, <2>1, <2>2, LaterKeeps DEF ChainsHold, ClosesPast, Ever
  <2>3. CASE M[s] = B[s]
    BY <1>1, <2>1, <2>3, LaterKeeps DEF ChainsHold, ClosesPast, Ever
  <2> QED
    BY <2>2, <2>3 DEF Merged
<1>4. Continued(M)
  <2> SUFFICES ASSUME NEW r \in Records, M[r].status = "superseded"
               PROVE  Ends(M, r) \/ LiveHeads(M, r) # {}
    BY DEF Continued
  <2>1. A[r].status = "superseded" \/ B[r].status = "superseded"
    BY DEF Merged
  <2> QED
    BY <1>1, <2>1, MergedContinues
<1>5. OneHeir(M)
  <2> SUFFICES ASSUME NEW r \in Records, M[r].status = "superseded", ~Ends(M, r),
                      NEW s \in Records, NEW t \in Records, Settled(M, s), Settled(M, t),
                      M[s].supersedes = r, M[t].supersedes = r
               PROVE  s = t
    BY DEF OneHeir
  <2>1. CASE B[r] = O[r] /\ M[r] = A[r]
    BY <2>1, MergedHeirs
  <2>2. CASE A[r] = O[r] /\ M[r] = B[r]
    BY <1>1, <2>2, MergedHeirs
  <2> QED
    BY <2>1, <2>2 DEF Merged
<1> QED
  BY <1>2, <1>3, <1>4, <1>5 DEF ChainsHold

-----------------------------------------------------------------------------
(* The store's calls move a table like that. *)

LEMMA WithIs ==
  ASSUME NEW T \in [Records -> Row], NEW S, NEW st \in Status
  PROVE  /\ With(T, S, st) \in [Records -> Row]
         /\ \A r \in Records :
               /\ With(T, S, st)[r].status = IF r \in S THEN st ELSE T[r].status
               /\ With(T, S, st)[r].supersedes = T[r].supersedes
               /\ With(T, S, st)[r].supports = T[r].supports
               /\ r \notin S => With(T, S, st)[r] = T[r]
<1>1. ASSUME NEW r \in Records
      PROVE  /\ With(T, S, st)[r] \in Row
             /\ With(T, S, st)[r].status = IF r \in S THEN st ELSE T[r].status
             /\ With(T, S, st)[r].supersedes = T[r].supersedes
             /\ With(T, S, st)[r].supports = T[r].supports
             /\ r \notin S => With(T, S, st)[r] = T[r]
  <2>1. T[r] \in Row
    OBVIOUS
  <2>2. With(T, S, st)[r] = IF r \in S THEN [T[r] EXCEPT !.status = st] ELSE T[r]
    BY DEF With
  <2> QED
    BY <2>1, <2>2 DEF Row
<1>2. With(T, S, st) = [r \in Records |-> With(T, S, st)[r]]
  BY DEF With
<1>3. With(T, S, st) \in [Records -> Row]
  BY <1>1, <1>2
<1> QED
  BY <1>1, <1>3

LEMMA AcceptMoves ==
  ASSUME NEW T, ChainsHold(T), NEW S \in SUBSET Records,
         \A s \in S : T[s].status = "proposed" /\ ~StalePredecessor(T, s),
         \A s, t \in S : T[s].supersedes = T[t].supersedes => s = t \/ T[s].supersedes = None,
         NEW U, U = With(With(T, S, "accepted"), ClosedBy(T, S), "superseded")
  PROVE  CallMoves(T, U)
<1> DEFINE V == With(T, S, "accepted")
<1>t. T \in [Records -> Row]
  BY DEF ChainsHold
<1>1. /\ V \in [Records -> Row]
      /\ \A r \in Records : /\ V[r].status = IF r \in S THEN "accepted" ELSE T[r].status
                            /\ V[r].supersedes = T[r].supersedes
                            /\ r \notin S => V[r] = T[r]
  BY <1>t, WithIs DEF Status
<1>2. /\ U \in [Records -> Row]
      /\ \A r \in Records : /\ U[r].status = IF r \in ClosedBy(T, S) THEN "superseded" ELSE V[r].status
                            /\ U[r].supersedes = V[r].supersedes
                            /\ r \notin ClosedBy(T, S) => U[r] = V[r]
  <2> HIDE DEF V
  <2> QED
    BY <1>1, WithIs DEF Status, V
<1> HIDE DEF V
<1>3. ASSUME NEW s \in S, T[s].supersedes # None
      PROVE  T[s].supersedes \in Records /\ Ever(T, T[s].supersedes)
  BY <1>3, TableOf DEF ChainsHold, RefersBack
<1>4. ASSUME NEW p \in ClosedBy(T, S)
      PROVE  p \in Records /\ T[p].status = "accepted" /\ \E s \in S : T[s].supersedes = p
  <2>1. PICK s \in S : T[s].supersedes = p
    BY <1>4 DEF ClosedBy
  <2>2. p \in Records /\ p # None
    BY <1>4, RecordIds DEF ClosedBy, Records
  <2> QED
    BY <2>1, <2>2, <1>3, <1>4 DEF ClosedBy, Ever
<1>5. \A r \in Records :
         \/ r \in S /\ T[r].status = "proposed" /\ U[r].status = "accepted" /\ U[r].supersedes = T[r].supersedes
         \/ /\ r \in ClosedBy(T, S) /\ r \notin S /\ T[r].status = "accepted" /\ U[r].status = "superseded"
            /\ U[r].supersedes = T[r].supersedes
         \/ r \notin S /\ r \notin ClosedBy(T, S) /\ U[r] = T[r]
  BY <1>1, <1>2, <1>4
<1>6. Accepts(T, U) = S
  BY <1>5 DEF Accepts
<1>7. Later(T, U)
  BY <1>5 DEF Later, Ever, Past
<1>8. \A r \in Records :
          /\ U[r].status = "unwritten" => U[r] = T[r]
          /\ T[r].status = "unwritten" => U[r].supersedes = None
          /\ U[r].status = "superseded" => Settled(T, r)
          /\ U[r].status = "deprecated" => T[r].status \in {"accepted", "deprecated"}
  <2>1. \A r \in Records : T[r].status = "unwritten" => T[r].supersedes = None
    BY DEF ChainsHold, RefersBack, Unwritten
  <2> QED
    BY <2>1, <1>5 DEF Settled
<1>9. \A r \in Records : T[r].status = "accepted" /\ U[r].status = "superseded" =>
                            \E a \in Accepts(T, U) : U[a].supersedes = r
  <2> SUFFICES ASSUME NEW r \in Records, T[r].status = "accepted", U[r].status = "superseded"
               PROVE  \E a \in S : U[a].supersedes = r
    BY <1>6
  <2>1. PICK s \in S : T[s].supersedes = r
    BY <1>4, <1>5
  <2> QED
    BY <2>1, <1>5
<1>10. ASSUME NEW a \in Accepts(T, U), U[a].supersedes # None
       PROVE  /\ Past(U, U[a].supersedes)
              /\ T[U[a].supersedes].status # "accepted" => LiveHeads(T, U[a].supersedes) = {}
  <2> DEFINE p == T[a].supersedes
  <2>1. a \in S /\ a \in Records /\ U[a].supersedes = p /\ p # None
    BY <1>5, <1>6, <1>10
  <2>2. p \in Records /\ Ever(T, p)
    BY <2>1, <1>3
  <2>3. T[p].status = "accepted" => p \in ClosedBy(T, S)
    BY <2>1, <2>2 DEF ClosedBy
  <2>4. Past(U, p)
    <3>1. CASE T[p].status = "accepted"
      BY <3>1, <2>2, <2>3, <1>2 DEF Past
    <3>2. CASE Past(T, p)
      BY <3>2, <2>2, <1>7 DEF Later, Past
    <3> QED
      BY <3>1, <3>2, <2>2 DEF Ever, Past
  <2>5. T[p].status # "accepted" => LiveHeads(T, p) = {}
    <3>1. LiveHeadsAfter(T, p) \ {a} = {}
      BY <2>1, <2>2 DEF StalePredecessor, Ever
    <3>2. T[a].status # "accepted"
      BY <2>1
    <3> QED
      BY <3>1, <3>2 DEF LiveHeadsAfter, LiveHeads
  <2> QED
    BY <2>1, <2>4, <2>5
<1>11. \A a, b \in Accepts(T, U) : U[a].supersedes = U[b].supersedes => a = b \/ U[a].supersedes = None
  BY <1>5, <1>6
<1> QED
  BY <1>2, <1>7, <1>8, <1>9, <1>10, <1>11 DEF CallMoves

LEMMA RejectMoves ==
  ASSUME NEW T, ChainsHold(T), NEW U \in [Records -> Row],
         \A r \in Records :
            \/ U[r] = T[r]
            \/ T[r].status = "proposed" /\ U[r].status = "rejected" /\ U[r].supersedes = T[r].supersedes
  PROVE  CallMoves(T, U)
<1>1. Later(T, U)
  BY DEF Later, Ever, Past
<1>2. Accepts(T, U) = {}
  BY DEF Accepts
<1>3. \A r \in Records : T[r].status = "unwritten" => T[r].supersedes = None
  BY DEF ChainsHold, RefersBack, Unwritten
<1>4. \A r \in Records :
          /\ U[r].status = "unwritten" => U[r] = T[r]
          /\ T[r].status = "unwritten" => U[r].supersedes = None
          /\ U[r].status = "superseded" => T[r].status = "superseded"
          /\ U[r].status = "deprecated" => T[r].status = "deprecated"
  BY <1>3
<1> QED
  BY <1>1, <1>2, <1>4 DEF CallMoves, Settled

LEMMA RetireMoves ==
  ASSUME NEW T, ChainsHold(T), NEW d \in Records, T[d].status = "accepted"
  PROVE  CallMoves(T, AfterRetire(T, d))
<1> DEFINE U == AfterRetire(T, d)
<1>0. T \in [Records -> Row]
  BY DEF ChainsHold
<1>1. /\ U \in [Records -> Row]
      /\ \A r \in Records : /\ U[r].status = IF r \in {d} THEN "deprecated" ELSE T[r].status
                            /\ U[r].supersedes = T[r].supersedes
                            /\ r \notin {d} => U[r] = T[r]
  BY <1>0, WithIs DEF AfterRetire, Status
<1> HIDE DEF U
<1>2. Later(T, U)
  BY <1>1 DEF Later, Ever, Past
<1>3. Accepts(T, U) = {}
  BY <1>1 DEF Accepts
<1>4. \A r \in Records : T[r].status = "unwritten" => T[r].supersedes = None
  BY DEF ChainsHold, RefersBack, Unwritten
<1>5. \A r \in Records :
          /\ U[r].status = "unwritten" => U[r] = T[r]
          /\ T[r].status = "unwritten" => U[r].supersedes = None
          /\ U[r].status = "superseded" => T[r].status = "superseded"
          /\ U[r].status = "deprecated" => T[r].status \in {"accepted", "deprecated"}
  BY <1>1, <1>4
<1>6. CallMoves(T, U)
  BY <1>1, <1>2, <1>3, <1>5 DEF CallMoves, Settled
<1> QED
  BY <1>6 DEF U

LEMMA AddMoves ==
  ASSUME NEW T, ChainsHold(T), NEW r \in Records, NEW row \in NewRow(r), CanAdd(T, r, row)
  PROVE  CallMoves(T, AfterAdd(T, r, row))
<1> DEFINE W == [T EXCEPT ![r] = row]
           p == row.supersedes
           U == AfterAdd(T, r, row)
<1>0. T \in [Records -> Row] /\ T[r].status = "unwritten"
  BY DEF ChainsHold, CanAdd
<1>1. row \in Row /\ row.status \in {"proposed", "accepted"} /\ p \in Table(r) \cup {None}
  BY TableOf DEF NewRow, Row, Status, Table, Records
<1>2. W \in [Records -> Row] /\ W[r] = row /\ \A x \in Records \ {r} : W[x] = T[x]
  BY <1>0, <1>1
<1>3. p # None => p \in Table(r) /\ p \in Records /\ T[p].status = "accepted" /\ p # r /\ W[p] = T[p]
  <2>1. p # None => p \in Table(r) /\ T[p].status = "accepted"
    BY DEF CanAdd, MayBeSuperseded
  <2> QED
    BY <2>1, <1>0, <1>2, TableOf
<1>4. ClosedBy(W, {r}) = IF p = None THEN {} ELSE {p}
  <2>1. CASE p = None
    <3>1. \A x \in Records : x # p
      BY <2>1, RecordIds DEF Records
    <3> QED
      BY <2>1, <3>1, <1>2 DEF ClosedBy
  <2>2. CASE p # None
    BY <2>2, <1>2, <1>3 DEF ClosedBy
  <2> QED
    BY <2>1, <2>2
<1>5. /\ U \in [Records -> Row]
      /\ U[r] = row
      /\ \A x \in Records \ {r} :
            /\ U[x].supersedes = T[x].supersedes
            /\ \/ U[x] = T[x]
               \/ row.status = "accepted" /\ x = p /\ p # None /\ U[x].status = "superseded"
      /\ row.status = "accepted" /\ p # None => U[p].status = "superseded"
  <2>1. CASE row.status = "proposed"
    <3>1. U = W
      BY <2>1 DEF AfterAdd
    <3> QED
      BY <2>1, <3>1, <1>2
  <2>2. CASE row.status = "accepted"
    <3>1. U = With(W, ClosedBy(W, {r}), "superseded")
      BY <2>2 DEF AfterAdd
    <3>2. r \notin ClosedBy(W, {r})
      BY <1>3, <1>4
    <3>3. /\ U \in [Records -> Row]
          /\ \A x \in Records :
               /\ U[x].status = IF x \in ClosedBy(W, {r}) THEN "superseded" ELSE W[x].status
               /\ U[x].supersedes = W[x].supersedes
               /\ x \notin ClosedBy(W, {r}) => U[x] = W[x]
      <4> HIDE DEF W, U
      <4> QED
        BY <3>1, <1>2, WithIs DEF Status
    <3> HIDE DEF U, W, p
    <3>4. U[r] = row
      BY <3>2, <3>3, <1>2
    <3>5. \A x \in Records \ {r} :
            /\ U[x].supersedes = T[x].supersedes
            /\ \/ U[x] = T[x]
               \/ row.status = "accepted" /\ x = p /\ p # None /\ U[x].status = "superseded"
      BY <2>2, <3>3, <1>2, <1>4
    <3>6. p # None => U[p].status = "superseded"
      BY <3>3, <1>3, <1>4
    <3> QED
      BY <3>3, <3>4, <3>5, <3>6
  <2> QED
    BY <2>1, <2>2, <1>1
<1> HIDE DEF U, W, p
<1>6. Later(T, U)
  BY <1>0, <1>3, <1>5 DEF Later, Ever, Past
<1>7. Accepts(T, U) = IF row.status = "accepted" THEN {r} ELSE {}
  BY <1>0, <1>1, <1>5 DEF Accepts
<1>8. \A x \in Records : T[x].status = "unwritten" => T[x].supersedes = None
  BY DEF ChainsHold, RefersBack, Unwritten
<1>9. \A x \in Records :
          /\ U[x].status = "unwritten" => U[x] = T[x]
          /\ T[x].status = "unwritten" /\ U[x].supersedes # None => x = r
          /\ U[x].status = "superseded" => Settled(T, x)
          /\ U[x].status = "deprecated" => T[x].status = "deprecated"
          /\ T[x].status = "accepted" /\ U[x].status = "superseded" =>
                row.status = "accepted" /\ x = p /\ p # None
  BY <1>0, <1>1, <1>3, <1>5, <1>8 DEF Settled
<1>10. U[r].supersedes # None => U[r].supersedes \in Table(r) /\ T[U[r].supersedes].status = "accepted"
  BY <1>3, <1>5 DEF p
<1>11. \A x \in Records : T[x].status = "accepted" /\ U[x].status = "superseded" =>
                             \E a \in Accepts(T, U) : U[a].supersedes = x
  BY <1>5, <1>7, <1>9 DEF p
<1>12. \A a \in Accepts(T, U) : U[a].supersedes # None =>
          /\ Past(U, U[a].supersedes)
          /\ T[U[a].supersedes].status # "accepted" => LiveHeads(T, U[a].supersedes) = {}
  BY <1>3, <1>5, <1>7 DEF p, Past
<1>13. \A a, b \in Accepts(T, U) : U[a].supersedes = U[b].supersedes => a = b \/ U[a].supersedes = None
  BY <1>7
<1>14. CallMoves(T, U)
  BY <1>5, <1>6, <1>9, <1>10, <1>11, <1>12, <1>13 DEF CallMoves
<1> QED
  BY <1>14 DEF U

LEMMA RatifyMoves ==
  ASSUME NEW T, ChainsHold(T), NEW d \in Decisions, CanRatify(T, d)
  PROVE  CallMoves(T, AfterRatify(T, d))
<1> DEFINE S == {d} \cup Evidence(T, d)
<1>1. S \in SUBSET Records
  BY DEF Evidence, Records
<1>2. \A s \in S : T[s].status = "proposed" /\ ~StalePredecessor(T, s)
  BY DEF CanRatify, Evidence
<1>3. \A f \in Facts : T[f].supersedes # None => T[f].supersedes \in Facts
  BY RecordIds DEF ChainsHold, RefersBack, Records, Table
<1>4. T[d].supersedes # None => T[d].supersedes \in Decisions
  BY RecordIds DEF ChainsHold, RefersBack, Records, Table
<1>5. ASSUME NEW s \in S, NEW t \in S, T[s].supersedes = T[t].supersedes, T[s].supersedes # None
      PROVE  s = t
  <2>1. (s = d \/ s \in Evidence(T, d)) /\ (t = d \/ t \in Evidence(T, d)) /\ Evidence(T, d) \subseteq Facts
    BY DEF Evidence
  <2> QED
    BY <2>1, <1>3, <1>4, <1>5, RecordIds DEF CanRatify
<1>6. AfterRatify(T, d) = With(With(T, S, "accepted"), ClosedBy(T, S), "superseded")
  BY DEF AfterRatify
<1> HIDE DEF S
<1> QED
  BY <1>1, <1>2, <1>5, <1>6, AcceptMoves

LEMMA RatifyFactMoves ==
  ASSUME NEW T, ChainsHold(T), NEW f \in Facts, CanRatifyFact(T, f)
  PROVE  CallMoves(T, AfterRatifyFact(T, f))
<1>1. {f} \in SUBSET Records
  BY DEF Records
<1>2. \A s \in {f} : T[s].status = "proposed" /\ ~StalePredecessor(T, s)
  BY DEF CanRatifyFact
<1> QED
  BY <1>1, <1>2, AcceptMoves DEF AfterRatifyFact

LEMMA DropMoves ==
  ASSUME NEW T, ChainsHold(T), NEW d \in Records, T[d].status = "proposed"
  PROVE  CallMoves(T, AfterDrop(T, d)) /\ CallMoves(T, AfterDropFact(T, d))
<1> DEFINE V == With(T, {d}, "rejected")
           follows == {f \in Facts : /\ T[f].status = "proposed" /\ T[f].supports # {}
                                     /\ \A s \in T[f].supports : V[s].status = "rejected"}
           U == With(V, follows, "rejected")
<1>1. T \in [Records -> Row] /\ "rejected" \in Status
  BY DEF ChainsHold, Status
<1>2. /\ V \in [Records -> Row]
      /\ \A r \in Records : /\ V[r].status = IF r \in {d} THEN "rejected" ELSE T[r].status
                            /\ V[r].supersedes = T[r].supersedes
                            /\ r \notin {d} => V[r] = T[r]
  BY <1>1, WithIs
<1>3. V = AfterDropFact(T, d) /\ U = AfterDrop(T, d)
  BY DEF AfterDropFact, AfterDrop
<1>4. \A r \in follows : T[r].status = "proposed"
  OBVIOUS
<1> HIDE DEF V, follows
<1>5. /\ U \in [Records -> Row]
      /\ \A r \in Records : /\ U[r].status = IF r \in follows THEN "rejected" ELSE V[r].status
                            /\ U[r].supersedes = V[r].supersedes
                            /\ r \notin follows => U[r] = V[r]
  BY <1>1, <1>2, WithIs
<1> HIDE DEF U
<1>6. CallMoves(T, V)
  <2>1. \A r \in Records :
            \/ V[r] = T[r]
            \/ T[r].status = "proposed" /\ V[r].status = "rejected" /\ V[r].supersedes = T[r].supersedes
    BY <1>2
  <2> QED
    BY <2>1, <1>2, RejectMoves
<1>7. CallMoves(T, U)
  <2>1. \A r \in Records :
            \/ U[r] = T[r]
            \/ T[r].status = "proposed" /\ U[r].status = "rejected" /\ U[r].supersedes = T[r].supersedes
    BY <1>2, <1>4, <1>5
  <2> QED
    BY <2>1, <1>5, RejectMoves
<1> QED
  BY <1>3, <1>6, <1>7

LEMMA CallOf ==
  ASSUME NEW c \in Clones, ChainsHold(rows[c]), Call(c)
  PROVE  \E after : CallMoves(rows[c], after) /\ Becomes(c, after)
<1>1. \A r \in Decisions \cup Facts : r \in Records
  BY DEF Records
<1>2. ASSUME NEW r \in Fresh \cap Records, NEW row \in NewRow(r), Add(c, r, row)
      PROVE  \E after : CallMoves(rows[c], after) /\ Becomes(c, after)
  BY <1>2, AddMoves DEF Add
<1>3. ASSUME NEW d \in Decisions, Ratify(c, d)
      PROVE  \E after : CallMoves(rows[c], after) /\ Becomes(c, after)
  BY <1>3, RatifyMoves DEF Ratify
<1>4. ASSUME NEW d \in Decisions, Drop(c, d)
      PROVE  \E after : CallMoves(rows[c], after) /\ Becomes(c, after)
  BY <1>1, <1>4, DropMoves DEF Drop, CanDrop
<1>5. ASSUME NEW d \in Decisions, NEW dup \in Decisions \cup {None}, Retire(c, d, dup)
      PROVE  \E after : CallMoves(rows[c], after) /\ Becomes(c, after)
  BY <1>1, <1>5, RetireMoves DEF Retire, CanRetire
<1>6. ASSUME NEW f \in Facts, RatifyFact(c, f)
      PROVE  \E after : CallMoves(rows[c], after) /\ Becomes(c, after)
  BY <1>6, RatifyFactMoves DEF RatifyFact
<1>7. ASSUME NEW f \in Facts, DropFact(c, f)
      PROVE  \E after : CallMoves(rows[c], after) /\ Becomes(c, after)
  BY <1>1, <1>7, DropMoves DEF DropFact, CanDropFact
<1> QED
  BY <1>2, <1>3, <1>4, <1>5, <1>6, <1>7 DEF Call

-----------------------------------------------------------------------------
(* The clones together. *)

(* Every clone's chains hold, and every clone is ahead of the merge base. *)
RowsInv ==
    /\ rows \in [Clones -> [Records -> Row]]
    /\ ChainsHold(base.rows)
    /\ \A c \in Clones : ChainsHold(rows[c]) /\ Later(base.rows, rows[c])

LEMMA EmptyHolds == ChainsHold([r \in Records |-> Unwritten])
<1> DEFINE T == [r \in Records |-> Unwritten]
<1>1. T \in [Records -> Row]
  BY DEF Unwritten, Row, Status
<1>2. \A r \in Records : T[r] = Unwritten /\ T[r].status = "unwritten" /\ T[r].supersedes = None
  BY DEF Unwritten
<1> HIDE DEF T
<1>3. RefersBack(T) /\ ClosesPast(T) /\ Continued(T) /\ OneHeir(T)
  BY <1>2 DEF RefersBack, ClosesPast, Continued, OneHeir, Ever
<1>4. ChainsHold(T)
  BY <1>1, <1>3 DEF ChainsHold
<1> QED
  BY <1>4 DEF T

LEMMA RowsInit == ClonesInit => RowsInv
<1> SUFFICES ASSUME ClonesInit PROVE RowsInv
  OBVIOUS
<1> DEFINE T == [r \in Records |-> Unwritten]
<1>1. ChainsHold(T) /\ T \in [Records -> Row]
  BY EmptyHolds DEF ChainsHold
<1>2. rows = [c \in Clones |-> T] /\ base.rows = T
  BY DEF ClonesInit, Empty
<1> HIDE DEF T
<1> QED
  BY <1>1, <1>2, LaterSame DEF RowsInv

(* What a pull without conflicts leaves. *)
LEMMA PullMerges ==
  ASSUME RowsInv, NEW c \in Clones, NEW from \in Clones \ {c}, Pull(c, from)
  PROVE  \E M \in [Records -> Row] :
            /\ Merged(base.rows, rows[c], rows[from], M)
            /\ rows' = [rows EXCEPT ![c] = M]
<1>1. PICK M \in Merges(base.rows, rows[c], rows[from]) : rows' = [rows EXCEPT ![c] = M]
  BY DEF Pull
<1>2. base.rows \in [Records -> Row] /\ rows[c] \in [Records -> Row] /\ rows[from] \in [Records -> Row]
  BY DEF RowsInv, ChainsHold
<1>3. DOMAIN base.rows = Records
  BY <1>2
<1>4. Changed(base.rows, rows[c]) \cap Changed(base.rows, rows[from]) = {}
  BY DEF Pull, Conflicts
<1>5. M = [r \in Records |-> IF rows[c][r] = base.rows[r] THEN rows[from][r] ELSE rows[c][r]]
  BY <1>3, <1>4 DEF Merges
<1>6. M \in [Records -> Row]
  BY <1>2, <1>5
<1>7. Merged(base.rows, rows[c], rows[from], M)
  BY <1>3, <1>4, <1>5 DEF Merged, Changed
<1> QED
  BY <1>1, <1>6, <1>7

LEMMA RowsStep == RowsInv /\ [ClonesNext]_clonesVars => RowsInv'
<1> SUFFICES ASSUME RowsInv, [ClonesNext]_clonesVars PROVE RowsInv'
  OBVIOUS
<1>1. ASSUME NEW c \in Clones, Call(c) PROVE RowsInv'
  <2>1. PICK after : CallMoves(rows[c], after) /\ Becomes(c, after)
    BY <1>1, CallOf DEF RowsInv
  <2>2. rows' = [rows EXCEPT ![c] = after] /\ base' = base
    BY <2>1 DEF Becomes
  <2>3. ChainsHold(after) /\ Later(rows[c], after) /\ after \in [Records -> Row]
    BY <2>1, MovesHold DEF RowsInv, CallMoves
  <2>4. Later(base.rows, after)
    BY <2>3, LaterTrans DEF RowsInv
  <2> QED
    BY <2>2, <2>3, <2>4 DEF RowsInv
<1>2. ASSUME NEW c \in Clones, DomainCall(c) PROVE RowsInv'
  <2>1. rows' = rows /\ base' = base
    BY <1>2 DEF DomainCall, AddDomain, SupersedeDomain, AcceptDomain, DropDomain, DomainsBecome
  <2> QED
    BY <2>1 DEF RowsInv
<1>3. ASSUME NEW c \in Clones, NEW from \in Clones \ {c}, Pull(c, from) PROVE RowsInv'
  <2>1. PICK M \in [Records -> Row] : /\ Merged(base.rows, rows[c], rows[from], M)
                                      /\ rows' = [rows EXCEPT ![c] = M]
    BY <1>3, PullMerges
  <2>2. base' = [rows |-> rows[from], domains |-> domains[from]] /\ base'.rows = rows[from]
    BY <1>3 DEF Pull
  <2>3. ChainsHold(M) /\ Later(rows[from], M)
    <3>1. Merged(base.rows, rows[from], rows[c], M)
      BY <2>1, MergedSwaps
    <3> QED
      BY <2>1, <3>1, MergeHolds, MergedLater DEF RowsInv
  <2>4. \A k \in Clones : k = c \/ k = from
    BY ClonesAssumption
  <2>5. \A k \in Clones : rows'[k] = (IF k = c THEN M ELSE rows[k])
    BY <2>1 DEF RowsInv
  <2>6. rows' \in [Clones -> [Records -> Row]]
    BY <2>1 DEF RowsInv
  <2> QED
    BY <2>2, <2>3, <2>4, <2>5, <2>6, LaterSame DEF RowsInv
<1>4. CASE UNCHANGED clonesVars
  BY <1>4 DEF RowsInv, clonesVars
<1> QED
  BY <1>1, <1>2, <1>3, <1>4 DEF ClonesNext

LEMMA RowsAlways == ClonesSpec => []RowsInv
BY RowsInit, RowsStep, PTL DEF ClonesSpec

(* However the clones work side by side, what was ever accepted is continued *)
(* by one record in force, unless a record on the way was retired            *)
(* (_refuse_stale_predecessor, re-checked by ratify and ratify_fact).        *)
THEOREM ChainsKeepOneHead == ClonesSpec => []OneLiveHead
<1>1. RowsInv => OneLiveHead
  <2> SUFFICES ASSUME RowsInv, NEW c \in Clones, NEW r \in WrittenIds \cap Records,
                      rows[c][r].status \in {"accepted", "superseded"}, ~Ended(rows[c], r)
               PROVE  Cardinality(LiveHeads(rows[c], r)) = 1
    BY DEF OneLiveHead
  <2>1. ChainsHold(rows[c]) /\ r \in Records /\ Settled(rows[c], r)
    BY DEF RowsInv, Settled
  <2> QED
    BY <2>1, OneHead
<1> QED
  BY <1>1, RowsAlways, PTL

-----------------------------------------------------------------------------
(* Domains in a clone that was never merged. *)

TreeTyped(T) ==
    /\ T \in [Domains -> Dom!Row]
    /\ \A d \in Domains : T[d].status = "unwritten" => T[d] = Dom!Unwritten

(* A domain has one pending successor. *)
OnePending(T) ==
    \A d, e \in Domains :
        (/\ T[d].status = "proposed" /\ T[e].status = "proposed"
         /\ T[d].supersedes = T[e].supersedes /\ T[d].supersedes # None) => d = e

(* d proposes a revision of an accepted holder of its slug. *)
Revises(T, d) ==
    /\ T[d].status = "proposed" /\ T[d].supersedes \in Domains
    /\ T[T[d].supersedes].status = "accepted" /\ T[T[d].supersedes].slug = T[d].slug

Holders(T, s) == {d \in Dom!LiveHolders(T, s) : ~Revises(T, d)}

OneHolder(T) == OnePending(T) /\ \A s \in Slugs : \A d, e \in Holders(T, s) : d = e

LEMMA HolderIs ==
  ASSUME NEW T, NEW s, NEW d
  PROVE  d \in Holders(T, s) <=>
            /\ d \in Domains /\ T[d].slug = s /\ T[d].status \in {"proposed", "accepted"}
            /\ ~Revises(T, d)
BY DEF Holders, Dom!LiveHolders

LEMMA RivalsAreHolders ==
  ASSUME NEW T, OnePending(T), NEW s
  PROVE  Dom!Rivals(T, s) = Holders(T, s)
<1> DEFINE L == Dom!LiveHolders(T, s)
<1>0. None \notin Domains
  BY ClonesAssumption
<1>1. \A d : d \in L <=> d \in Domains /\ T[d].slug = s /\ T[d].status \in {"proposed", "accepted"}
  BY DEF Dom!LiveHolders
<1>2. \A d \in L : d \in Dom!PendingRevisions(T, L) <=> Revises(T, d)
  <2> HIDE DEF L
  <2> QED
    BY <1>1 DEF Dom!PendingRevisions, Revises
<1>3. Dom!SinglePendingRevisions(T, L) = Dom!PendingRevisions(T, L)
  <2>1. ASSUME NEW d \in Dom!PendingRevisions(T, L), NEW e \in Dom!PendingRevisions(T, L),
               T[e].supersedes = T[d].supersedes
        PROVE  e = d
    <3>1. /\ T[d].status = "proposed" /\ T[e].status = "proposed" /\ d \in L /\ e \in L
          /\ T[d].supersedes \in L
      BY <2>1 DEF Dom!PendingRevisions
    <3> QED
      BY <3>1, <2>1, <1>0, <1>1 DEF OnePending
  <2> QED
    BY <2>1 DEF Dom!SinglePendingRevisions
<1>4. Dom!Rivals(T, s) = L \ Dom!PendingRevisions(T, L)
  BY <1>3 DEF Dom!Rivals
<1>5. Holders(T, s) = {d \in L : ~Revises(T, d)}
  BY DEF Holders
<1> HIDE DEF L
<1> QED
  BY <1>2, <1>4, <1>5

LEMMA AddIs ==
  ASSUME NEW T, TreeTyped(T), NEW d \in Domains, NEW slug \in Slugs
  PROVE  LET U == Dom!AfterAdd(T, d, slug)
         IN  /\ U \in [Domains -> Dom!Row]
             /\ U[d].status = "proposed" /\ U[d].slug = slug /\ U[d].supersedes = None
             /\ \A e \in Domains \ {d} : U[e] = T[e]
<1> DEFINE new == [status |-> "proposed", slug |-> slug, supersedes |-> None]
           U == Dom!AfterAdd(T, d, slug)
<1>1. U = [T EXCEPT ![d] = new] /\ T \in [Domains -> Dom!Row]
  BY DEF Dom!AfterAdd, TreeTyped
<1>2. new.status = "proposed" /\ new.slug = slug /\ new.supersedes = None
  OBVIOUS
<1>3. new \in Dom!Row
  BY DEF Dom!Row, Dom!Status
<1> HIDE DEF new, U
<1>4. U \in [Domains -> Dom!Row] /\ U[d] = new /\ \A e \in Domains \ {d} : U[e] = T[e]
  BY <1>1, <1>3
<1> QED
  BY <1>2, <1>4 DEF U

LEMMA AddKeepsHolder ==
  ASSUME NEW T, TreeTyped(T), OneHolder(T), NEW d \in Domains, NEW slug \in Slugs, Dom!CanAdd(T, d, slug)
  PROVE  OneHolder(Dom!AfterAdd(T, d, slug))
<1> DEFINE U == Dom!AfterAdd(T, d, slug)
<1>0. None \notin Domains
  BY ClonesAssumption
<1>1. /\ U[d].status = "proposed" /\ U[d].slug = slug /\ U[d].supersedes = None
      /\ \A e \in Domains \ {d} : U[e] = T[e]
  BY AddIs
<1>2. T[d].status = "unwritten" /\ \A s \in Slugs : \A x \in Holders(T, s) : x # d
  BY HolderIs DEF Dom!CanAdd
<1>3. Holders(T, slug) = {}
  BY RivalsAreHolders DEF Dom!CanAdd, OneHolder
<1> HIDE DEF U
<1>4. OnePending(U)
  BY <1>1 DEF OneHolder, OnePending
<1>5. ASSUME NEW e \in Domains \ {d} PROVE Revises(U, e) <=> Revises(T, e)
  <2>1. CASE T[e].supersedes = d
    BY <2>1, <1>1, <1>2, <1>5 DEF Revises
  <2>2. CASE T[e].supersedes # d
    BY <2>2, <1>1, <1>5 DEF Revises
  <2> QED
    BY <2>1, <2>2
<1>6. ASSUME NEW s \in Slugs, NEW x \in Holders(U, s), x # d PROVE x \in Holders(T, s) /\ s # slug
  <2>1. x \in Domains /\ U[x] = T[x] /\ (Revises(U, x) <=> Revises(T, x))
    BY <1>1, <1>5, <1>6, HolderIs
  <2>2. x \in Holders(T, s)
    BY <2>1, <1>6, HolderIs
  <2> QED
    BY <2>2, <1>3
<1>7. ASSUME NEW s \in Slugs, d \in Holders(U, s) PROVE s = slug
  BY <1>1, <1>7, HolderIs
<1>8. OneHolder(U)
  BY <1>4, <1>6, <1>7 DEF OneHolder
<1> QED
  BY <1>8 DEF U

LEMMA SupersedeIs ==
  ASSUME NEW T, TreeTyped(T), NEW old \in Domains, NEW d \in Domains, d # old, NEW slug \in Slugs
  PROVE  LET U == Dom!AfterSupersede(T, old, d, slug)
         IN  /\ U \in [Domains -> Dom!Row]
             /\ U[d].status = "proposed" /\ U[d].slug = slug /\ U[d].supersedes = old
             /\ \A e \in Domains \ {d, old} : U[e] = T[e]
             /\ U[old].slug = T[old].slug /\ U[old].supersedes = T[old].supersedes
             /\ U[old].status = IF T[old].status = "dropped" THEN "superseded" ELSE T[old].status
<1> DEFINE new == [status |-> "proposed", slug |-> slug, supersedes |-> old]
           w == IF T[old].status = "dropped" THEN "superseded" ELSE T[old].status
           U == Dom!AfterSupersede(T, old, d, slug)
<1>1. U = [T EXCEPT ![d] = new, ![old].status = w]
  BY DEF Dom!AfterSupersede
<1>2. new.status = "proposed" /\ new.slug = slug /\ new.supersedes = old
  OBVIOUS
<1>3. T \in [Domains -> Dom!Row] /\ T[old] \in Dom!Row
  BY DEF TreeTyped
<1>4. new \in Dom!Row
  BY DEF Dom!Row, Dom!Status
<1>5. [T[old] EXCEPT !.status = w] \in Dom!Row
  BY <1>3 DEF Dom!Row, Dom!Status
<1> HIDE DEF new, w, U
<1>6. U[d] = new /\ \A e \in Domains \ {d, old} : U[e] = T[e]
  BY <1>1, <1>3
<1>7. U[old] = [T[old] EXCEPT !.status = w]
  BY <1>1, <1>3
<1>8. U[old].slug = T[old].slug /\ U[old].supersedes = T[old].supersedes /\ U[old].status = w
  BY <1>3, <1>7 DEF Dom!Row
<1>9. U \in [Domains -> Dom!Row]
  <2>1. DOMAIN U = Domains /\ U = [e \in Domains |-> U[e]]
    BY <1>1, <1>3
  <2>2. \A e \in Domains : U[e] \in Dom!Row
    BY <1>3, <1>4, <1>5, <1>6, <1>7
  <2> QED
    BY <2>1, <2>2
<1> QED
  BY <1>2, <1>6, <1>8, <1>9 DEF U, w

LEMMA SupersedeKeepsHolder ==
  ASSUME NEW T, TreeTyped(T), OneHolder(T), NEW old \in Domains, NEW d \in Domains, NEW slug \in Slugs,
         Dom!CanSupersede(T, old, d, slug)
  PROVE  OneHolder(Dom!AfterSupersede(T, old, d, slug))
<1> DEFINE U == Dom!AfterSupersede(T, old, d, slug)
<1>0. /\ None \notin Domains /\ d # old /\ T[d].status = "unwritten"
      /\ T[old].status \in {"accepted", "dropped"}
  BY ClonesAssumption DEF Dom!CanSupersede
<1>1. /\ U[d].status = "proposed" /\ U[d].slug = slug /\ U[d].supersedes = old
      /\ \A e \in Domains \ {d, old} : U[e] = T[e]
      /\ U[old].slug = T[old].slug /\ U[old].supersedes = T[old].supersedes
      /\ U[old].status = IF T[old].status = "dropped" THEN "superseded" ELSE T[old].status
  BY <1>0, SupersedeIs
<1>2. \A e \in Domains : T[e].status = "proposed" => T[e].supersedes # old
  BY DEF Dom!CanSupersede, Dom!PendingSuccessors
<1>3. Holders(T, slug) \subseteq {old}
  BY RivalsAreHolders DEF Dom!CanSupersede, OneHolder
<1> HIDE DEF U
<1>4. OnePending(U)
  <2>1. \A e \in Domains \ {d} : U[e].supersedes = T[e].supersedes /\ (U[e].status = "proposed" => T[e].status = "proposed")
    BY <1>0, <1>1
  <2> QED
    BY <2>1, <1>1, <1>2 DEF OneHolder, OnePending
<1>5. ASSUME NEW e \in Domains \ {d} PROVE Revises(U, e) <=> Revises(T, e)
  <2>1. U[e].slug = T[e].slug /\ U[e].supersedes = T[e].supersedes
        /\ (U[e].status = "proposed" <=> T[e].status = "proposed")
        /\ (U[e].status = "accepted" <=> T[e].status = "accepted")
    BY <1>0, <1>1, <1>5
  <2>2. \A q \in Domains \ {d} : U[q].slug = T[q].slug
        /\ (U[q].status = "accepted" <=> T[q].status = "accepted")
    BY <1>0, <1>1
  <2>3. CASE T[e].supersedes = d
    BY <2>1, <2>3, <1>0, <1>1 DEF Revises
  <2>4. CASE T[e].supersedes # d
    BY <2>1, <2>2, <2>4 DEF Revises
  <2> QED
    BY <2>3, <2>4
<1>6. ASSUME NEW s \in Slugs, NEW x \in Holders(U, s), x # d PROVE x \in Holders(T, s)
  <2>1. x \in Domains /\ U[x].slug = T[x].slug /\ (Revises(U, x) <=> Revises(T, x))
        /\ (U[x].status \in {"proposed", "accepted"} => T[x].status \in {"proposed", "accepted"})
    <3>1. x \in Domains
      BY <1>6, HolderIs
    <3> QED
      BY <3>1, <1>0, <1>1, <1>5, <1>6
  <2> QED
    BY <2>1, <1>6, HolderIs
<1>7. ASSUME NEW s \in Slugs, d \in Holders(U, s), NEW x \in Holders(U, s) PROVE x = d
  <2>1. s = slug
    BY <1>1, <1>7, HolderIs
  <2>2. ~(U[old].status = "accepted" /\ U[old].slug = slug)
    BY <1>1, <1>7, <2>1, HolderIs DEF Revises
  <2>3. ASSUME x # d PROVE FALSE
    <3>1. x = old
      BY <1>3, <1>6, <2>1, <2>3, <1>7
    <3>2. U[old].slug = slug /\ U[old].status \in {"proposed", "accepted"}
      BY <3>1, <1>7, <2>1, HolderIs
    <3> QED
      BY <3>2, <2>2, <1>0, <1>1
  <2> QED
    BY <2>3
<1>8. ASSUME NEW s \in Slugs, NEW x \in Holders(U, s), NEW y \in Holders(U, s) PROVE x = y
  BY <1>6, <1>7, <1>8 DEF OneHolder
<1>9. OneHolder(U)
  BY <1>4, <1>8 DEF OneHolder
<1> QED
  BY <1>9 DEF U

(* What acceptance leaves of a tree. *)
LEMMA AcceptIs ==
  ASSUME NEW T, TreeTyped(T), NEW d \in Domains, T[d].status = "proposed"
  PROVE  LET U == Dom!AfterAccept(T, d)
         IN  /\ U \in [Domains -> Dom!Row]
             /\ U[d].status = "accepted"
             /\ \A e \in Domains :
                   /\ U[e].slug = T[e].slug /\ U[e].supersedes = T[e].supersedes
                   /\ e # d => \/ U[e] = T[e] /\ (e = T[d].supersedes => T[e].status \notin {"proposed", "accepted"})
                               \/ e = T[d].supersedes /\ U[e].status = "superseded"
<1> DEFINE U == Dom!AfterAccept(T, d)
           p == T[d].supersedes
<1>0. T \in [Domains -> Dom!Row]
  BY DEF TreeTyped
<1>1. ASSUME NEW e \in Domains
      PROVE  /\ U[e] \in Dom!Row /\ U[e].slug = T[e].slug /\ U[e].supersedes = T[e].supersedes
             /\ e = d => U[e].status = "accepted"
             /\ e # d => \/ U[e] = T[e] /\ (e = p => T[e].status \notin {"proposed", "accepted"})
                         \/ e = p /\ U[e].status = "superseded"
  <2>1. T[e] \in Dom!Row
    BY <1>0
  <2>2. CASE e = d
    <3>1. U[e] = [T[e] EXCEPT !.status = "accepted"]
      BY <2>2 DEF Dom!AfterAccept
    <3> QED
      BY <2>1, <2>2, <3>1 DEF Dom!Row, Dom!Status
  <2>3. CASE e # d /\ e = p /\ T[e].status \in {"proposed", "accepted"}
    <3>1. U[e] = [T[e] EXCEPT !.status = "superseded"]
      BY <2>3 DEF Dom!AfterAccept
    <3> QED
      BY <2>1, <2>3, <3>1 DEF Dom!Row, Dom!Status
  <2>4. CASE e # d /\ ~(e = p /\ T[e].status \in {"proposed", "accepted"})
    <3>1. U[e] = T[e]
      BY <2>4 DEF Dom!AfterAccept
    <3> QED
      BY <2>1, <2>4, <3>1
  <2> QED
    BY <2>2, <2>3, <2>4
<1>2. U = [e \in Domains |-> U[e]]
  BY DEF Dom!AfterAccept
<1> HIDE DEF U
<1>3. U \in [Domains -> Dom!Row]
  BY <1>1, <1>2
<1>4. /\ U[d].status = "accepted"
      /\ \A e \in Domains :
            /\ U[e].slug = T[e].slug /\ U[e].supersedes = T[e].supersedes
            /\ e # d => \/ U[e] = T[e] /\ (e = T[d].supersedes => T[e].status \notin {"proposed", "accepted"})
                        \/ e = T[d].supersedes /\ U[e].status = "superseded"
  BY <1>1
<1> QED
  BY <1>3, <1>4 DEF U

(* Where a slug has one holder, the pending revisions all revise it. *)
LEMMA OneRevision ==
  ASSUME NEW T, OneHolder(T), NEW s \in Slugs, NEW d \in Dom!LiveHolders(T, s), NEW e \in Dom!LiveHolders(T, s),
         Revises(T, d), Revises(T, e)
  PROVE  d = e
<1> DEFINE p == T[d].supersedes
           q == T[e].supersedes
<1>1. d \in Domains /\ e \in Domains /\ T[d].slug = s /\ T[e].slug = s
  BY DEF Dom!LiveHolders
<1>2. p \in Holders(T, s) /\ q \in Holders(T, s)
  BY <1>1, HolderIs DEF Revises
<1>3. p = q /\ p # None
  BY <1>2, ClonesAssumption DEF OneHolder, Revises
<1> QED
  BY <1>1, <1>3 DEF OneHolder, OnePending, Revises

LEMMA AcceptKeepsHolder ==
  ASSUME NEW T, TreeTyped(T), OneHolder(T), NEW d \in Domains, Dom!CanAccept(T, d)
  PROVE  OneHolder(Dom!AfterAccept(T, d))
<1> DEFINE U == Dom!AfterAccept(T, d)
           p == T[d].supersedes
<1>0. T[d].status = "proposed"
      /\ \A e \in Domains : e # d /\ e # p /\ T[e].slug = T[d].slug => T[e].status # "accepted"
  BY DEF Dom!CanAccept, Dom!LiveHolders
<1>1. /\ U[d].status = "accepted"
      /\ \A e \in Domains :
            /\ U[e].slug = T[e].slug /\ U[e].supersedes = T[e].supersedes
            /\ e # d => \/ U[e] = T[e] /\ (e = p => T[e].status \notin {"proposed", "accepted"})
                        \/ e = p /\ U[e].status = "superseded"
  BY <1>0, AcceptIs
<1> HIDE DEF U
<1>2. OnePending(U)
  BY <1>1 DEF OneHolder, OnePending
<1>3. ASSUME NEW s \in Slugs, NEW x \in Holders(U, s), x # d
      PROVE  s # T[d].slug /\ x \in Holders(T, s)
  <2>1. x \in Domains /\ U[x].slug = s /\ U[x].status \in {"proposed", "accepted"} /\ ~Revises(U, x)
    BY <1>3, HolderIs
  <2>2. U[x] = T[x] /\ x # p
    BY <1>1, <1>3, <2>1
  <2>l. x \in Dom!LiveHolders(T, s)
    BY <2>1, <2>2 DEF Dom!LiveHolders
  <2>3. CASE s = T[d].slug
    <3>1. T[x].status = "proposed"
      BY <1>0, <1>3, <2>1, <2>2, <2>3
    <3>d. d \in Dom!LiveHolders(T, s)
      BY <1>0, <2>3 DEF Dom!LiveHolders
    <3>2. CASE Revises(T, x)
      <4>1. T[x].supersedes \in Holders(T, s) /\ T[T[x].supersedes].status = "accepted"
        BY <3>2, <2>1, <2>2, HolderIs DEF Revises
      <4>2. d # T[x].supersedes
        BY <1>0, <4>1
      <4>3. Revises(T, d)
        BY <4>1, <4>2, <3>d, <1>0, HolderIs DEF OneHolder, Holders
      <4> QED
        BY <3>2, <3>d, <2>l, <4>3, <1>3, OneRevision
    <3>3. CASE ~Revises(T, x)
      <4>1. x \in Holders(T, s)
        BY <3>3, <2>l DEF Holders
      <4>2. Revises(T, d)
        BY <4>1, <3>d, <1>3 DEF OneHolder, Holders
      <4>3. p \in Holders(T, s)
        BY <4>2, <2>3, HolderIs DEF Revises
      <4> QED
        BY <4>1, <4>3, <2>2 DEF OneHolder
    <3> QED
      BY <3>2, <3>3
  <2>4. CASE s # T[d].slug
    <3>1. ASSUME Revises(T, x) PROVE FALSE
      <4> DEFINE q == T[x].supersedes
      <4>1. /\ T[x].status = "proposed" /\ q \in Domains /\ T[q].status = "accepted" /\ T[q].slug = s
        BY <3>1, <2>1, <2>2 DEF Revises
      <4>2. q # d
        BY <4>1, <1>0
      <4>3. q # p
        BY <4>1, <1>0, <1>3, <2>1, ClonesAssumption DEF OneHolder, OnePending
      <4>4. U[q] = T[q]
        BY <1>1, <4>1, <4>2, <4>3
      <4> QED
        BY <2>1, <2>2, <4>1, <4>4 DEF Revises
    <3> QED
      BY <3>1, <2>4, <2>l DEF Holders
  <2> QED
    BY <2>3, <2>4
<1>4. ASSUME NEW s \in Slugs, d \in Holders(U, s) PROVE s = T[d].slug
  BY <1>1, <1>4, HolderIs
<1>5. OneHolder(U)
  BY <1>2, <1>3, <1>4 DEF OneHolder
<1> QED
  BY <1>5 DEF U

LEMMA DropIs ==
  ASSUME NEW T, TreeTyped(T), NEW d \in Domains
  PROVE  LET U == Dom!AfterDrop(T, d)
         IN  /\ U[d].status = "dropped" /\ U[d].slug = T[d].slug /\ U[d].supersedes = T[d].supersedes
             /\ \A e \in Domains \ {d} : U[e] = T[e]
<1> DEFINE U == Dom!AfterDrop(T, d)
<1>1. T \in [Domains -> Dom!Row] /\ T[d] \in Dom!Row
  BY DEF TreeTyped
<1>2. U[d] = [T[d] EXCEPT !.status = "dropped"] /\ \A e \in Domains \ {d} : U[e] = T[e]
  BY <1>1 DEF Dom!AfterDrop
<1> HIDE DEF U
<1>3. U[d].status = "dropped" /\ U[d].slug = T[d].slug /\ U[d].supersedes = T[d].supersedes
  BY <1>1, <1>2 DEF Dom!Row
<1> QED
  BY <1>2, <1>3 DEF U

LEMMA DropKeepsHolder ==
  ASSUME NEW T, TreeTyped(T), OneHolder(T), NEW d \in Domains
  PROVE  OneHolder(Dom!AfterDrop(T, d))
<1> DEFINE U == Dom!AfterDrop(T, d)
<1>1. /\ U[d].status = "dropped" /\ U[d].slug = T[d].slug /\ U[d].supersedes = T[d].supersedes
      /\ \A e \in Domains \ {d} : U[e] = T[e]
  BY DropIs
<1> HIDE DEF U
<1>2. OnePending(U)
  BY <1>1 DEF OneHolder, OnePending
<1>3. ASSUME NEW s \in Slugs, NEW x \in Holders(U, s)
      PROVE  /\ x # d /\ x \in Dom!LiveHolders(T, s)
             /\ x \notin Holders(T, s) => Revises(T, x) /\ d \in Holders(T, s)
  <2>1. x \in Domains /\ U[x].slug = s /\ U[x].status \in {"proposed", "accepted"} /\ ~Revises(U, x)
    BY <1>3, HolderIs
  <2>2. x # d /\ U[x] = T[x]
    BY <1>1, <2>1
  <2>3. x \in Dom!LiveHolders(T, s)
    BY <2>1, <2>2 DEF Dom!LiveHolders
  <2>4. ASSUME x \notin Holders(T, s) PROVE Revises(T, x) /\ d \in Holders(T, s)
    <3>1. Revises(T, x)
      BY <2>3, <2>4 DEF Holders
    <3>2. T[x].supersedes = d
      BY <1>1, <2>1, <2>2, <3>1 DEF Revises
    <3> QED
      BY <2>1, <2>2, <3>1, <3>2, HolderIs DEF Revises
  <2> QED
    BY <2>2, <2>3, <2>4
<1>4. ASSUME NEW s \in Slugs, NEW x \in Holders(U, s), NEW y \in Holders(U, s) PROVE x = y
  <2>1. CASE x \in Holders(T, s) /\ y \in Holders(T, s)
    BY <2>1 DEF OneHolder
  <2>2. CASE x \notin Holders(T, s) /\ y \notin Holders(T, s)
    BY <2>2, <1>3, OneRevision
  <2>3. CASE x \in Holders(T, s) /\ y \notin Holders(T, s)
    BY <2>3, <1>3 DEF OneHolder
  <2>4. CASE x \notin Holders(T, s) /\ y \in Holders(T, s)
    BY <2>4, <1>3 DEF OneHolder
  <2> QED
    BY <2>1, <2>2, <2>3, <2>4
<1>5. OneHolder(U)
  BY <1>2, <1>4 DEF OneHolder
<1> QED
  BY <1>5 DEF U

(* A call on domains, as far as the properties go. *)
TreeMoves(T, U) ==
    /\ TreeTyped(U)
    /\ \A d \in Domains : T[d].status # "unwritten" => U[d].status # "unwritten"
    /\ OneHolder(T) => OneHolder(U)
    /\ \A slug \in Slugs :
          \/ AcceptedHolders(U, slug) \subseteq AcceptedHolders(T, slug)
          \/ \E d : AcceptedHolders(U, slug) \subseteq {d}

LEMMA AcceptedIs ==
  ASSUME NEW T, NEW s, NEW d
  PROVE  d \in AcceptedHolders(T, s) <=> d \in Domains /\ T[d].slug = s /\ T[d].status = "accepted"
BY DEF AcceptedHolders, Dom!LiveHolders

LEMMA DomainCallOf ==
  ASSUME NEW c \in Clones, TreeTyped(domains[c]), DomainCall(c)
  PROVE  \E after : TreeMoves(domains[c], after) /\ DomainsBecome(c, after)
<1> DEFINE T == domains[c]
<1>1. ASSUME NEW d \in Domains, NEW slug \in Slugs, AddDomain(c, d, slug)
      PROVE  \E after : TreeMoves(T, after) /\ DomainsBecome(c, after)
  <2> DEFINE U == Dom!AfterAdd(T, d, slug)
  <2>1. Dom!CanAdd(T, d, slug) /\ DomainsBecome(c, U)
    BY <1>1 DEF AddDomain
  <2>2. /\ U \in [Domains -> Dom!Row] /\ U[d].status = "proposed"
        /\ \A e \in Domains \ {d} : U[e] = T[e]
    BY AddIs
  <2>3. OneHolder(T) => OneHolder(U)
    BY <2>1, AddKeepsHolder
  <2> HIDE DEF U
  <2>4. \A s \in Slugs : AcceptedHolders(U, s) \subseteq AcceptedHolders(T, s)
    BY <2>2, AcceptedIs
  <2>5. TreeTyped(U) /\ \A e \in Domains : T[e].status # "unwritten" => U[e].status # "unwritten"
    BY <2>2 DEF TreeTyped
  <2>6. TreeMoves(T, U)
    BY <2>3, <2>4, <2>5 DEF TreeMoves
  <2> QED
    BY <2>1, <2>6
<1>2. ASSUME NEW d \in Domains, NEW slug \in Slugs, NEW old \in Domains, SupersedeDomain(c, old, d, slug)
      PROVE  \E after : TreeMoves(T, after) /\ DomainsBecome(c, after)
  <2> DEFINE U == Dom!AfterSupersede(T, old, d, slug)
  <2>1. Dom!CanSupersede(T, old, d, slug) /\ DomainsBecome(c, U)
    BY <1>2 DEF SupersedeDomain
  <2>d. d # old /\ T[old].status # "unwritten"
    BY <2>1 DEF Dom!CanSupersede
  <2>2. /\ U \in [Domains -> Dom!Row] /\ U[d].status = "proposed"
        /\ \A e \in Domains \ {d, old} : U[e] = T[e]
        /\ U[old].slug = T[old].slug
        /\ U[old].status = IF T[old].status = "dropped" THEN "superseded" ELSE T[old].status
    BY <2>d, SupersedeIs
  <2>3. OneHolder(T) => OneHolder(U)
    BY <2>1, SupersedeKeepsHolder
  <2> HIDE DEF U
  <2>4. \A s \in Slugs : AcceptedHolders(U, s) \subseteq AcceptedHolders(T, s)
    <3> SUFFICES ASSUME NEW s \in Slugs, NEW x \in AcceptedHolders(U, s) PROVE x \in AcceptedHolders(T, s)
      OBVIOUS
    <3>1. x \in Domains /\ U[x].slug = s /\ U[x].status = "accepted"
      BY AcceptedIs
    <3>2. T[x].slug = s /\ T[x].status = "accepted"
      BY <3>1, <2>2
    <3> QED
      BY <3>1, <3>2, AcceptedIs
  <2>5. TreeTyped(U) /\ \A e \in Domains : T[e].status # "unwritten" => U[e].status # "unwritten"
    <3>1. \A e \in Domains : U[e].status = "unwritten" => e # d /\ e # old
      BY <2>d, <2>2
    <3> QED
      BY <3>1, <2>2 DEF TreeTyped
  <2>6. TreeMoves(T, U)
    BY <2>3, <2>4, <2>5 DEF TreeMoves
  <2> QED
    BY <2>1, <2>6
<1>3. ASSUME NEW d \in Domains, AcceptDomain(c, d)
      PROVE  \E after : TreeMoves(T, after) /\ DomainsBecome(c, after)
  <2> DEFINE U == Dom!AfterAccept(T, d)
             p == T[d].supersedes
  <2>1. Dom!CanAccept(T, d) /\ DomainsBecome(c, U)
    BY <1>3 DEF AcceptDomain
  <2>d. T[d].status = "proposed"
        /\ \A e \in Domains : e # d /\ e # p /\ T[e].slug = T[d].slug => T[e].status # "accepted"
    BY <2>1 DEF Dom!CanAccept, Dom!LiveHolders
  <2>2. /\ U \in [Domains -> Dom!Row] /\ U[d].status = "accepted"
        /\ \A e \in Domains :
              /\ U[e].slug = T[e].slug
              /\ e # d => \/ U[e] = T[e] /\ (e = p => T[e].status \notin {"proposed", "accepted"})
                          \/ e = p /\ U[e].status = "superseded"
    BY <2>d, AcceptIs
  <2>3. OneHolder(T) => OneHolder(U)
    BY <2>1, AcceptKeepsHolder
  <2> HIDE DEF U
  <2>4. ASSUME NEW s \in Slugs
        PROVE  AcceptedHolders(U, s) \subseteq AcceptedHolders(T, s) \/ AcceptedHolders(U, s) \subseteq {d}
    <3>1. \A x : x \in AcceptedHolders(U, s) /\ x # d => x \in AcceptedHolders(T, s) /\ s # T[d].slug
      <4> SUFFICES ASSUME NEW x \in AcceptedHolders(U, s), x # d
                   PROVE  x \in AcceptedHolders(T, s) /\ s # T[d].slug
        OBVIOUS
      <4>1. x \in Domains /\ U[x].slug = s /\ U[x].status = "accepted"
        BY AcceptedIs
      <4>2. U[x] = T[x] /\ x # p
        BY <2>2, <4>1
      <4> QED
        BY <4>1, <4>2, <2>d, AcceptedIs
    <3>2. d \in AcceptedHolders(U, s) => s = T[d].slug
      BY <2>2, AcceptedIs
    <3> QED
      BY <3>1, <3>2
  <2>5. TreeTyped(U) /\ \A e \in Domains : T[e].status # "unwritten" => U[e].status # "unwritten"
    <3>1. \A e \in Domains : U[e].status = "unwritten" => U[e] = T[e]
      BY <2>2
    <3>2. \A e \in Domains : T[e].status # "unwritten" => U[e].status # "unwritten"
      BY <2>2
    <3> QED
      BY <3>1, <3>2, <2>2 DEF TreeTyped
  <2>6. TreeMoves(T, U)
    BY <2>3, <2>4, <2>5 DEF TreeMoves
  <2> QED
    BY <2>1, <2>6
<1>4. ASSUME NEW d \in Domains, DropDomain(c, d)
      PROVE  \E after : TreeMoves(T, after) /\ DomainsBecome(c, after)
  <2> DEFINE U == Dom!AfterDrop(T, d)
  <2>1. DomainsBecome(c, U)
    BY <1>4 DEF DropDomain
  <2>2. /\ U[d].status = "dropped" /\ U[d].slug = T[d].slug
        /\ \A e \in Domains \ {d} : U[e] = T[e]
    BY DropIs
  <2>3. OneHolder(T) => OneHolder(U)
    BY DropKeepsHolder
  <2>4. U \in [Domains -> Dom!Row]
    <3>1. T \in [Domains -> Dom!Row] /\ T[d] \in Dom!Row
      BY DEF TreeTyped
    <3>2. [T[d] EXCEPT !.status = "dropped"] \in Dom!Row
      BY <3>1 DEF Dom!Row, Dom!Status
    <3>3. U = [T EXCEPT ![d] = [T[d] EXCEPT !.status = "dropped"]]
      BY DEF Dom!AfterDrop
    <3> HIDE DEF U
    <3> QED
      BY <3>1, <3>2, <3>3
  <2> HIDE DEF U
  <2>5. \A s \in Slugs : AcceptedHolders(U, s) \subseteq AcceptedHolders(T, s)
    BY <2>2, AcceptedIs
  <2>6. TreeTyped(U) /\ \A e \in Domains : T[e].status # "unwritten" => U[e].status # "unwritten"
    BY <2>2, <2>4 DEF TreeTyped
  <2>7. TreeMoves(T, U)
    BY <2>3, <2>5, <2>6 DEF TreeMoves
  <2> QED
    BY <2>1, <2>7
<1> QED
  BY <1>1, <1>2, <1>3, <1>4 DEF DomainCall

(* A clone has what the merge base has, and before any merge a slug has one  *)
(* holder.                                                                  *)
TreesInv ==
    /\ domains \in [Clones -> [Domains -> Dom!Row]]
    /\ base \in [rows : [Records -> Row], domains : [Domains -> Dom!Row]]
    /\ TreeTyped(base.domains)
    /\ \A c \in Clones :
          /\ TreeTyped(domains[c])
          /\ \A d \in Domains : base.domains[d].status # "unwritten" => domains[c][d].status # "unwritten"
    /\ base = Empty => \A c \in Clones : OneHolder(domains[c])

LEMMA TreesInit == ClonesInit => TreesInv
<1> SUFFICES ASSUME ClonesInit PROVE TreesInv
  OBVIOUS
<1> DEFINE R == [r \in Records |-> Unwritten]
           T == [d \in Domains |-> Dom!Unwritten]
<1>1. R \in [Records -> Row]
  BY EmptyHolds DEF ChainsHold
<1>2. T \in [Domains -> Dom!Row]
      /\ \A d \in Domains : T[d] = Dom!Unwritten /\ T[d].status = "unwritten"
  BY DEF Dom!Unwritten, Dom!Row, Dom!Status
<1>3. domains = [c \in Clones |-> T] /\ base = [rows |-> R, domains |-> T]
  BY DEF ClonesInit, Empty
<1> HIDE DEF R, T
<1>4. TreeTyped(T) /\ OneHolder(T)
  BY <1>2, HolderIs DEF TreeTyped, OneHolder, OnePending
<1>5. base \in [rows : [Records -> Row], domains : [Domains -> Dom!Row]] /\ base.domains = T
  BY <1>1, <1>2, <1>3
<1> QED
  BY <1>2, <1>3, <1>4, <1>5 DEF TreesInv

(* A pull leaves a base that is not empty. *)
LEMMA PullBases ==
  ASSUME RowsInv, TreesInv, NEW c \in Clones, NEW from \in Clones \ {c}, Pull(c, from)
  PROVE  base' # Empty
<1> DEFINE R == [r \in Records |-> Unwritten]
           T == [d \in Domains |-> Dom!Unwritten]
<1>1. base' = [rows |-> rows[from], domains |-> domains[from]] /\ base' # base
  BY DEF Pull
<1>2. Empty = [rows |-> R, domains |-> T]
  BY DEF Empty
<1>3. SUFFICES ASSUME rows[from] = R, domains[from] = T, base # Empty PROVE FALSE
  BY <1>1, <1>2
<1>4. base.rows = R
  <2>1. \A r \in Records : base.rows[r] = Unwritten
    <3>1. \A r \in Records : rows[from][r].status = "unwritten"
      BY <1>3 DEF Unwritten
    <3>2. \A r \in Records : base.rows[r].status = "unwritten"
      BY <3>1 DEF RowsInv, Later
    <3> QED
      BY <3>2 DEF RowsInv, ChainsHold, RefersBack
  <2>2. base.rows \in [Records -> Row]
    BY DEF RowsInv, ChainsHold
  <2> QED
    BY <2>1, <2>2
<1>5. base.domains = T
  <2>1. \A d \in Domains : domains[from][d].status = "unwritten"
    BY <1>3 DEF Dom!Unwritten
  <2>2. \A d \in Domains : base.domains[d] = Dom!Unwritten
    BY <2>1 DEF TreesInv, TreeTyped
  <2>3. base.domains \in [Domains -> Dom!Row]
    BY DEF TreesInv, TreeTyped
  <2> QED
    BY <2>2, <2>3
<1>6. base = [rows |-> base.rows, domains |-> base.domains]
  BY DEF TreesInv
<1> QED
  BY <1>2, <1>3, <1>4, <1>5, <1>6

LEMMA TreesStep == RowsInv /\ TreesInv /\ [ClonesNext]_clonesVars => TreesInv'
<1> SUFFICES ASSUME RowsInv, TreesInv, [ClonesNext]_clonesVars PROVE TreesInv'
  OBVIOUS
<1>1. ASSUME NEW c \in Clones, Call(c) PROVE TreesInv'
  <2>1. domains' = domains /\ base' = base
    <3>1. \E after : Becomes(c, after)
      BY <1>1, CallOf DEF RowsInv
    <3> QED
      BY <3>1 DEF Becomes
  <2> QED
    BY <2>1 DEF TreesInv, Empty
<1>2. ASSUME NEW c \in Clones, DomainCall(c) PROVE TreesInv'
  <2>1. PICK after : TreeMoves(domains[c], after) /\ DomainsBecome(c, after)
    BY <1>2, DomainCallOf DEF TreesInv
  <2>2. domains' = [domains EXCEPT ![c] = after] /\ base' = base
    BY <2>1 DEF DomainsBecome
  <2>3. after \in [Domains -> Dom!Row] /\ TreeTyped(after)
    BY <2>1 DEF TreeMoves, TreeTyped
  <2>4. \A k \in Clones : domains'[k] = (IF k = c THEN after ELSE domains[k])
    BY <2>2 DEF TreesInv
  <2>5. \A d \in Domains : base.domains[d].status # "unwritten" => after[d].status # "unwritten"
    BY <2>1 DEF TreeMoves, TreesInv
  <2>6. base = Empty => OneHolder(after)
    BY <2>1 DEF TreeMoves, TreesInv
  <2>7. domains' \in [Clones -> [Domains -> Dom!Row]]
    BY <2>2, <2>3 DEF TreesInv
  <2> QED
    BY <2>2, <2>3, <2>4, <2>5, <2>6, <2>7 DEF TreesInv, Empty
<1>3. ASSUME NEW c \in Clones, NEW from \in Clones \ {c}, Pull(c, from) PROVE TreesInv'
  <2> DEFINE O == base.domains
             A == domains[c]
             B == domains[from]
  <2>1. PICK M \in Merges(O, A, B) : domains' = [domains EXCEPT ![c] = M]
    BY <1>3 DEF Pull
  <2>2. base' = [rows |-> rows[from], domains |-> B] /\ base'.domains = B
    BY <1>3 DEF Pull
  <2>3. /\ TreeTyped(O) /\ TreeTyped(A) /\ TreeTyped(B) /\ rows[from] \in [Records -> Row]
        /\ \A d \in Domains : O[d].status # "unwritten" => A[d].status # "unwritten"
    BY DEF TreesInv, RowsInv
  <2> HIDE DEF O, A, B
  <2>4. PICK taken \in SUBSET (Changed(O, A) \cap Changed(O, B)) :
           M = [d \in Domains |-> IF d \in taken \/ A[d] = O[d] THEN B[d] ELSE A[d]]
    BY <2>1, <2>3 DEF Merges, TreeTyped
  <2>5. \A d \in Domains : M[d] = B[d] \/ (M[d] = A[d] /\ A[d] # O[d])
    BY <2>4
  <2>6. TreeTyped(M) /\ M \in [Domains -> Dom!Row]
    BY <2>3, <2>4, <2>5 DEF TreeTyped
  <2>7. ASSUME NEW d \in Domains, B[d].status # "unwritten" PROVE M[d].status # "unwritten"
    <3>1. A[d].status = "unwritten" => A[d] = O[d]
      BY <2>3 DEF TreeTyped
    <3> QED
      BY <3>1, <2>5, <2>7
  <2>8. base' # Empty /\ Empty' = Empty
    BY <1>3, PullBases DEF Empty
  <2>9. \A k \in Clones : domains'[k] = (IF k = c THEN M ELSE domains[k])
    BY <2>1 DEF TreesInv
  <2>10. \A k \in Clones : k = c \/ k = from
    BY ClonesAssumption
  <2>11. base' \in [rows : [Records -> Row], domains : [Domains -> Dom!Row]]
    BY <2>2, <2>3 DEF TreeTyped
  <2>12. domains' \in [Clones -> [Domains -> Dom!Row]]
    BY <2>1, <2>6 DEF TreesInv
  <2>13. \A k \in Clones :
           /\ TreeTyped(domains'[k])
           /\ \A d \in Domains : base'.domains[d].status # "unwritten" => domains'[k][d].status # "unwritten"
    BY <2>2, <2>3, <2>6, <2>7, <2>9, <2>10 DEF B
  <2>14. TreeTyped(base'.domains)
    BY <2>2, <2>3
  <2> QED
    BY <2>8, <2>11, <2>12, <2>13, <2>14 DEF TreesInv
<1>4. CASE UNCHANGED clonesVars
  BY <1>4 DEF TreesInv, clonesVars, Empty
<1> QED
  BY <1>1, <1>2, <1>3, <1>4 DEF ClonesNext

LEMMA ClonesAlways == ClonesSpec => [](RowsInv /\ TreesInv)
<1>1. ClonesInit => RowsInv /\ TreesInv
  BY RowsInit, TreesInit
<1>2. RowsInv /\ TreesInv /\ [ClonesNext]_clonesVars => (RowsInv /\ TreesInv)'
  BY RowsStep, TreesStep
<1> QED
  BY <1>1, <1>2, PTL DEF ClonesSpec

(* In a store that was never merged a slug has one live holder, pending      *)
(* revisions of it aside (_validate_domain_write).                          *)
THEOREM UnmergedSlugsHaveOneHolder == ClonesSpec => []SlugHasOneHolder
<1>1. TreesInv => SlugHasOneHolder
  BY RivalsAreHolders DEF SlugHasOneHolder, NeverMerged, Dom!SlugConflicts, TreesInv, OneHolder
<1> QED
  BY <1>1, ClonesAlways, PTL

(* No call brings a second accepted holder of a slug into a store, however    *)
(* many a merge has brought (ratify_domains).                               *)
THEOREM CallsNeverCollide == ClonesSpec => OnlyMergesCollide
<1>1. ASSUME RowsInv, TreesInv, [ClonesNext]_clonesVars, NEW c \in Clones, NEW slug \in Slugs, base' = base
      PROVE  \/ AcceptedHolders(domains'[c], slug) \subseteq AcceptedHolders(domains[c], slug)
             \/ \E d : AcceptedHolders(domains'[c], slug) \subseteq {d}
  <2>1. ASSUME NEW k \in Clones, Call(k) PROVE domains' = domains
    <3>1. \E after : Becomes(k, after)
      BY <1>1, <2>1, CallOf DEF RowsInv
    <3> QED
      BY <3>1 DEF Becomes
  <2>2. ASSUME NEW k \in Clones, DomainCall(k)
        PROVE  \/ AcceptedHolders(domains'[c], slug) \subseteq AcceptedHolders(domains[c], slug)
               \/ \E d : AcceptedHolders(domains'[c], slug) \subseteq {d}
    <3>1. PICK after : TreeMoves(domains[k], after) /\ DomainsBecome(k, after)
      BY <1>1, <2>2, DomainCallOf DEF TreesInv
    <3>2. domains'[c] = (IF c = k THEN after ELSE domains[c])
      BY <1>1, <3>1 DEF DomainsBecome, TreesInv
    <3> QED
      BY <3>1, <3>2 DEF TreeMoves
  <2>3. ASSUME NEW k \in Clones, NEW from \in Clones \ {k}, Pull(k, from) PROVE FALSE
    BY <1>1, <2>3 DEF Pull
  <2> QED
    BY <1>1, <2>1, <2>2, <2>3 DEF ClonesNext, clonesVars
<1>2. RowsInv /\ TreesInv /\ [ClonesNext]_clonesVars =>
         \A c \in Clones, slug \in Slugs :
            (/\ Cardinality(AcceptedHolders(domains'[c], slug)) > 1
             /\ Cardinality(AcceptedHolders(domains[c], slug)) <= 1) => base' # base
  <2> SUFFICES ASSUME RowsInv, TreesInv, [ClonesNext]_clonesVars, NEW c \in Clones, NEW slug \in Slugs,
                      base' = base, Cardinality(AcceptedHolders(domains[c], slug)) <= 1
               PROVE  ~(Cardinality(AcceptedHolders(domains'[c], slug)) > 1)
    OBVIOUS
  <2> DEFINE A == AcceptedHolders(domains[c], slug)
             B == AcceptedHolders(domains'[c], slug)
  <2>1. A \subseteq Domains /\ IsFiniteSet(A)
    BY ClonesAssumption, FS_Subset DEF AcceptedHolders, Dom!LiveHolders
  <2>2. B \subseteq A \/ \E d : B \subseteq {d}
    BY <1>1
  <2> HIDE DEF A, B
  <2>3. CASE B \subseteq A
    BY <2>1, <2>3, FS_Subset, FS_CardinalityType DEF A, B
  <2>4. CASE \E d : B \subseteq {d}
    <3>1. B = {} \/ \E d : B = {d}
      BY <2>4
    <3>2. Cardinality(B) \in {0, 1}
      BY <3>1, FS_EmptySet, FS_Singleton
    <3> QED
      BY <3>2 DEF B
  <2> QED
    BY <2>2, <2>3, <2>4
<1> QED
  BY <1>2, ClonesAlways, PTL DEF ClonesSpec, OnlyMergesCollide
=============================================================================
