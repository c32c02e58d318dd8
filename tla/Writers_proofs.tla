--------------------------- MODULE Writers_proofs ---------------------------
(***************************************************************************)
(* What holds of a store whoever writes to it: agents, humans, reviews,     *)
(* imports and bootstraps in any number, each stopped at any step.          *)
(*                                                                         *)
(* The first part is about Lifecycle alone.  None of its three safety       *)
(* properties is inductive: that an acceptance does not fork a chain        *)
(* depends on its predecessor having been live all the while the proposal   *)
(* was pending, which depends on there being only one proposal for it.      *)
(* ChainInv says both.  The second part is about the writers of Bootstrap.  *)
(***************************************************************************)
EXTENDS Bootstrap, FiniteSetTheorems, WellFoundedInduction, TLAPS

UnwrittenIsBlank ==
    \A r \in Records : rows[r].status = "unwritten" => rows[r].supersedes = None

(* A proposal is about a live record ... *)
PendingOnLive ==
    \A s \in Records : (rows[s].status = "proposed" /\ rows[s].supersedes # None)
                       => rows[rows[s].supersedes].status = "accepted"

(* ... and is the only one. *)
OnePending ==
    \A s, t \in Records : (/\ rows[s].status = "proposed" /\ rows[t].status = "proposed"
                           /\ rows[s].supersedes # None
                           /\ rows[s].supersedes = rows[t].supersedes) => s = t

SettledClosed ==
    \A s \in Records : (Settled(s) /\ rows[s].supersedes # None)
                       => rows[rows[s].supersedes].status = "superseded"

OneSettled ==
    \A s, t \in Records : (/\ Settled(s) /\ Settled(t)
                           /\ rows[s].supersedes # None
                           /\ rows[s].supersedes = rows[t].supersedes) => s = t

ChainInv ==
    /\ TypeOK
    /\ UnwrittenIsBlank
    /\ PendingOnLive
    /\ OnePending
    /\ SettledClosed
    /\ OneSettled
    /\ SupersededHasSuccessor

-----------------------------------------------------------------------------
(* What a verdict does to a row: only the status moves. *)

LEMMA WithRow ==
    ASSUME NEW t \in [Records -> Row], NEW S, NEW st \in Status
    PROVE  /\ With(t, S, st) \in [Records -> Row]
           /\ \A r \in Records :
                 /\ With(t, S, st)[r].status = IF r \in S THEN st ELSE t[r].status
                 /\ With(t, S, st)[r].supersedes = t[r].supersedes
                 /\ With(t, S, st)[r].supports = t[r].supports
BY DEF With, Row

LEMMA VerdictRow ==
    ASSUME NEW t \in [Records -> Row], NEW A, NEW C
    PROVE  LET u == With(With(t, A, "accepted"), C, "superseded") IN
           /\ u \in [Records -> Row]
           /\ \A r \in Records :
                 /\ u[r].status = IF r \in C THEN "superseded"
                                  ELSE IF r \in A THEN "accepted" ELSE t[r].status
                 /\ u[r].supersedes = t[r].supersedes
                 /\ u[r].supports = t[r].supports
<1>1. "accepted" \in Status /\ "superseded" \in Status
  BY DEF Status
<1>2. With(t, A, "accepted") \in [Records -> Row]
  BY <1>1, WithRow
<1> QED BY <1>1, <1>2, WithRow

(* Accepting any set of pending records: ratify and ratify_fact. *)
LEMMA AcceptKeepsChainInv ==
    ASSUME ChainInv, NEW A \in SUBSET Records,
           \A a \in A : rows[a].status = "proposed",
           rows' = With(With(rows, A, "accepted"), ClosedBy(rows, A), "superseded")
    PROVE  ChainInv'
<1> DEFINE C == ClosedBy(rows, A)
<1>t. TypeOK
  BY DEF ChainInv
<1>r. /\ rows' \in [Records -> Row]
      /\ \A r \in Records :
            /\ rows'[r].status = IF r \in C THEN "superseded"
                                 ELSE IF r \in A THEN "accepted" ELSE rows[r].status
            /\ rows'[r].supersedes = rows[r].supersedes
  BY <1>t, VerdictRow DEF TypeOK
<1>c. \A p \in C : p \in Records /\ rows[p].status = "accepted"
                    /\ \E a \in A : rows[a].supersedes = p
  BY RecordIds DEF ClosedBy, ChainInv, PendingOnLive, Records
<1>d. \A a \in A : rows[a].supersedes # None => rows[a].supersedes \in C
  <2> SUFFICES ASSUME NEW a \in A, rows[a].supersedes # None
               PROVE  rows[a].supersedes \in C
    OBVIOUS
  <2>1. rows[rows[a].supersedes].status = "accepted"
    BY DEF ChainInv, PendingOnLive
  <2>2. rows[a].supersedes \in Records
    BY <1>t DEF TypeOK, Row
  <2> QED BY <2>1, <2>2 DEF ClosedBy
<1> HIDE DEF C
<1>1. TypeOK'
  BY <1>t, <1>r DEF TypeOK
<1>2. UnwrittenIsBlank'
  BY <1>r DEF ChainInv, UnwrittenIsBlank
<1>3. PendingOnLive'
  <2> SUFFICES ASSUME NEW s \in Records, rows'[s].status = "proposed",
                      rows'[s].supersedes # None
               PROVE  rows'[rows'[s].supersedes].status = "accepted"
    BY DEF PendingOnLive
  <2>1. rows[s].status = "proposed" /\ s \notin A /\ rows[s].supersedes # None
    BY <1>r
  <2>2. rows[s].supersedes \in Records /\ rows[rows[s].supersedes].status = "accepted"
    BY <2>1, <1>t DEF ChainInv, PendingOnLive, TypeOK, Row
  <2>3. rows[s].supersedes \notin C
    BY <2>1, <1>c DEF ChainInv, OnePending
  <2> QED BY <2>2, <2>3, <1>r
<1>4. OnePending'
  BY <1>r DEF ChainInv, OnePending
<1>5. SettledClosed'
  <2> SUFFICES ASSUME NEW s \in Records, Settled(s)', rows'[s].supersedes # None
               PROVE  rows'[rows'[s].supersedes].status = "superseded"
    BY DEF SettledClosed
  <2>0. rows[s].supersedes \in Records /\ rows[s].supersedes # None
    BY <1>r, <1>t DEF TypeOK, Row
  <2>1. CASE s \in A
    BY <2>0, <2>1, <1>d, <1>r
  <2>2. CASE s \notin A
    <3>1. Settled(s)
      BY <2>2, <1>r, <1>c DEF Settled
    <3>2. rows[rows[s].supersedes].status = "superseded"
      BY <3>1, <2>0 DEF ChainInv, SettledClosed
    <3> QED BY <3>2, <2>0, <1>r
  <2> QED BY <2>1, <2>2
<1>6. OneSettled'
  <2> SUFFICES ASSUME NEW s \in Records, NEW t \in Records, Settled(s)', Settled(t)',
                      rows'[s].supersedes # None,
                      rows'[s].supersedes = rows'[t].supersedes
               PROVE  s = t
    BY DEF OneSettled
  <2>0. rows[s].supersedes # None /\ rows[s].supersedes = rows[t].supersedes
    BY <1>r
  <2>1. \A x \in {s, t} : x \in A \/ Settled(x)
    BY <1>r, <1>c DEF Settled
  <2>2. \A x \in {s, t} : x \in A => rows[rows[s].supersedes].status = "accepted"
    BY <2>0 DEF ChainInv, PendingOnLive
  <2>3. \A x \in {s, t} : Settled(x) => rows[rows[s].supersedes].status = "superseded"
    BY <2>0 DEF ChainInv, SettledClosed
  <2> QED BY <2>0, <2>1, <2>2, <2>3 DEF ChainInv, OneSettled, OnePending
<1>7. SupersededHasSuccessor'
  <2> SUFFICES ASSUME NEW r \in Records, rows'[r].status = "superseded"
               PROVE  \E s \in Records : /\ rows'[s].status \notin {"unwritten", "proposed"}
                                         /\ rows'[s].supersedes = r
    BY DEF SupersededHasSuccessor, Successors
  <2>1. CASE r \in C
    BY <2>1, <1>c, <1>r
  <2>2. CASE r \notin C
    <3>1. rows[r].status = "superseded"
      BY <2>2, <1>r
    <3>2. PICK s \in Records : /\ rows[s].status \notin {"unwritten", "proposed"}
                               /\ rows[s].supersedes = r
      BY <3>1 DEF ChainInv, SupersededHasSuccessor, Successors
    <3> QED BY <3>2, <1>r
  <2> QED BY <2>1, <2>2
<1> QED BY <1>1, <1>2, <1>3, <1>4, <1>5, <1>6, <1>7 DEF ChainInv

(* Rejecting any set of pending records: drop with its cascade, drop_fact. *)
LEMMA RejectKeepsChainInv ==
    ASSUME ChainInv, NEW A \in SUBSET Records,
           \A a \in A : rows[a].status = "proposed",
           rows' = With(rows, A, "rejected")
    PROVE  ChainInv'
<1>t. TypeOK
  BY DEF ChainInv
<1>r. /\ rows' \in [Records -> Row]
      /\ \A r \in Records :
            /\ rows'[r].status = IF r \in A THEN "rejected" ELSE rows[r].status
            /\ rows'[r].supersedes = rows[r].supersedes
  BY <1>t, WithRow DEF TypeOK, Status
<1>p. \A s \in Records : rows[s].supersedes # None => rows[s].supersedes \in Records
  BY <1>t DEF TypeOK, Row
<1>1. TypeOK'
  BY <1>t, <1>r DEF TypeOK
<1>2. UnwrittenIsBlank'
  BY <1>r DEF ChainInv, UnwrittenIsBlank
<1>3. PendingOnLive'
  BY <1>r, <1>p DEF ChainInv, PendingOnLive
<1>4. OnePending'
  BY <1>r DEF ChainInv, OnePending
<1>5. SettledClosed'
  BY <1>r, <1>p DEF ChainInv, SettledClosed, Settled
<1>6. OneSettled'
  BY <1>r DEF ChainInv, OneSettled, Settled
<1>7. SupersededHasSuccessor'
  BY <1>r DEF ChainInv, SupersededHasSuccessor, Successors
<1> QED BY <1>1, <1>2, <1>3, <1>4, <1>5, <1>6, <1>7 DEF ChainInv

(* Retiring a live record that nothing pending is about. *)
LEMMA RetireKeepsChainInv ==
    ASSUME ChainInv, NEW d \in Decisions, NEW dup \in Decisions \cup {None}, Retire(d, dup)
    PROVE  ChainInv'
<1>t. TypeOK /\ d \in Records
  BY DEF ChainInv, Records
<1>d. rows[d].status = "accepted" /\ PendingSuccessors(rows, d) = {}
  BY DEF Retire, CanRetire
<1>r. /\ rows' \in [Records -> Row]
      /\ \A r \in Records :
            /\ rows'[r].status = IF r = d THEN "deprecated" ELSE rows[r].status
            /\ rows'[r].supersedes = rows[r].supersedes
  BY <1>t, WithRow DEF Retire, AfterRetire, TypeOK, Status
<1>p. \A s \in Records : rows[s].supersedes # None => rows[s].supersedes \in Records
  BY <1>t DEF TypeOK, Row
<1>1. TypeOK'
  BY <1>t, <1>r DEF TypeOK
<1>2. UnwrittenIsBlank'
  BY <1>r, <1>d DEF ChainInv, UnwrittenIsBlank
<1>3. PendingOnLive'
  BY <1>r, <1>p, <1>d DEF ChainInv, PendingOnLive, PendingSuccessors, Successors
<1>4. OnePending'
  BY <1>r DEF ChainInv, OnePending
<1>5. SettledClosed'
  BY <1>r, <1>p, <1>d DEF ChainInv, SettledClosed, Settled
<1>6. OneSettled'
  BY <1>r, <1>d DEF ChainInv, OneSettled, Settled
<1>7. SupersededHasSuccessor'
  BY <1>r, <1>d DEF ChainInv, SupersededHasSuccessor, Successors
<1> QED BY <1>1, <1>2, <1>3, <1>4, <1>5, <1>6, <1>7 DEF ChainInv

(* A record that supersedes nothing, or is only a proposal. *)
LEMMA AddOpenKeepsChainInv ==
    ASSUME ChainInv, NEW r \in Records, NEW row \in Row,
           row.status \in {"proposed", "accepted", "rejected"},
           row.supersedes # None => row.supersedes \in Table(r),
           CanAdd(rows, r, row),
           row.status = "proposed" \/ row.supersedes = None,
           rows' = [rows EXCEPT ![r] = row]
    PROVE  ChainInv'
<1>t. TypeOK
  BY DEF ChainInv
<1>r. /\ rows' \in [Records -> Row]
      /\ \A x \in Records : rows'[x] = IF x = r THEN row ELSE rows[x]
  BY <1>t DEF TypeOK
<1>u. rows[r].status = "unwritten"
  BY DEF CanAdd
<1>p. \A s \in Records : rows[s].supersedes # None =>
          /\ rows[s].supersedes \in Records
          /\ rows[s].status \in {"proposed"} \/ Settled(s) => rows[s].supersedes # r
  BY <1>t, <1>u DEF TypeOK, Row, ChainInv, PendingOnLive, SettledClosed
<1>n. row.supersedes # None =>
          /\ row.supersedes \in Records \ {r}
          /\ rows[row.supersedes].status = "accepted"
          /\ \A s \in Records : rows[s].supersedes = row.supersedes => rows[s].status # "proposed"
  BY <1>u DEF CanAdd, MayBeSuperseded, PendingSuccessors, Successors, Table, Records
<1>1. TypeOK'
  BY <1>t, <1>r DEF TypeOK
<1>2. UnwrittenIsBlank'
  BY <1>r DEF ChainInv, UnwrittenIsBlank
<1>3. PendingOnLive'
  BY <1>r, <1>p, <1>n DEF ChainInv, PendingOnLive
<1>4. OnePending'
  BY <1>r, <1>n DEF ChainInv, OnePending
<1>5. SettledClosed'
  BY <1>r, <1>p DEF ChainInv, SettledClosed, Settled
<1>6. OneSettled'
  BY <1>r DEF ChainInv, OneSettled, Settled
<1>7. SupersededHasSuccessor'
  <2> SUFFICES ASSUME NEW x \in Records, rows'[x].status = "superseded"
               PROVE  \E s \in Records : /\ rows'[s].status \notin {"unwritten", "proposed"}
                                         /\ rows'[s].supersedes = x
    BY DEF SupersededHasSuccessor, Successors
  <2>1. PICK s \in Records : /\ rows[s].status \notin {"unwritten", "proposed"}
                             /\ rows[s].supersedes = x
    BY <1>r DEF ChainInv, SupersededHasSuccessor, Successors
  <2> QED BY <2>1, <1>r, <1>u
<1> QED BY <1>1, <1>2, <1>3, <1>4, <1>5, <1>6, <1>7 DEF ChainInv

(* A record that closes the live record it supersedes as it is written. *)
LEMMA AddClosingKeepsChainInv ==
    ASSUME ChainInv, NEW r \in Records, NEW row \in Row,
           row.status \in {"accepted", "rejected"},
           row.supersedes # None, row.supersedes \in Table(r),
           CanAdd(rows, r, row),
           rows' = AfterAdd(rows, r, row)
    PROVE  ChainInv'
<1> DEFINE p == row.supersedes
           written == [rows EXCEPT ![r] = row]
<1>t. TypeOK
  BY DEF ChainInv
<1>u. rows[r].status = "unwritten"
  BY DEF CanAdd
<1>n. /\ p \in Records \ {r}
      /\ rows[p].status = "accepted"
      /\ \A s \in Records : rows[s].supersedes = p => rows[s].status # "proposed"
  BY <1>u DEF CanAdd, MayBeSuperseded, PendingSuccessors, Successors, Table, Records
<1>w. /\ written \in [Records -> Row]
      /\ \A x \in Records : written[x] = IF x = r THEN row ELSE rows[x]
  BY <1>t DEF TypeOK
<1>c. ClosedBy(written, {r}) = {p}
  BY <1>n, <1>w DEF ClosedBy
<1>a. rows' = With(written, {p}, "superseded")
  BY <1>c DEF AfterAdd
<1> HIDE DEF written
<1>r. /\ rows' \in [Records -> Row]
      /\ \A x \in Records :
            /\ rows'[x].status = IF x = p THEN "superseded"
                                 ELSE IF x = r THEN row.status ELSE rows[x].status
            /\ rows'[x].supersedes = IF x = r THEN p ELSE rows[x].supersedes
  BY <1>a, <1>w, <1>n, WithRow DEF Status
<1>b. \A s \in Records : rows[s].supersedes # None =>
          /\ rows[s].supersedes \in Records
          /\ rows[s].status \in {"proposed"} \/ Settled(s) => rows[s].supersedes # r
  BY <1>t, <1>u DEF TypeOK, Row, ChainInv, PendingOnLive, SettledClosed
<1>s. \A s \in Records : Settled(s) => rows[s].supersedes # p
  BY <1>n, RecordIds DEF ChainInv, SettledClosed, Records
<1> HIDE DEF p
<1>1. TypeOK'
  BY <1>t, <1>r DEF TypeOK, p
<1>2. UnwrittenIsBlank'
  BY <1>r, <1>n DEF ChainInv, UnwrittenIsBlank
<1>3. PendingOnLive'
  BY <1>r, <1>b, <1>n DEF ChainInv, PendingOnLive
<1>4. OnePending'
  BY <1>r, <1>n DEF ChainInv, OnePending
<1>5. SettledClosed'
  BY <1>r, <1>b, <1>n, <1>s DEF ChainInv, SettledClosed, Settled
<1>6. OneSettled'
  BY <1>r, <1>s, <1>n DEF ChainInv, OneSettled, Settled
<1>7. SupersededHasSuccessor'
  <2> SUFFICES ASSUME NEW x \in Records, rows'[x].status = "superseded"
               PROVE  \E s \in Records : /\ rows'[s].status \notin {"unwritten", "proposed"}
                                         /\ rows'[s].supersedes = x
    BY DEF SupersededHasSuccessor, Successors
  <2>1. CASE x = p
    BY <2>1, <1>r, <1>n
  <2>2. CASE x # p
    <3>1. PICK s \in Records : /\ rows[s].status \notin {"unwritten", "proposed"}
                               /\ rows[s].supersedes = x
      BY <2>2, <1>r DEF ChainInv, SupersededHasSuccessor, Successors
    <3> QED BY <3>1, <1>r, <1>u
  <2> QED BY <2>1, <2>2
<1> QED BY <1>1, <1>2, <1>3, <1>4, <1>5, <1>6, <1>7 DEF ChainInv

-----------------------------------------------------------------------------

LEMMA InitChainInv == Init => ChainInv
<1> SUFFICES ASSUME Init PROVE ChainInv
  OBVIOUS
<1>1. Unwritten \in Row /\ Unwritten.status = "unwritten" /\ Unwritten.supersedes = None
  BY DEF Unwritten, Row, Status
<1>2. rows \in [Records -> Row] /\ \A r \in Records : rows[r] = Unwritten
  BY <1>1 DEF Init
<1> QED BY <1>1, <1>2 DEF ChainInv, TypeOK, UnwrittenIsBlank, PendingOnLive, OnePending,
                         SettledClosed, OneSettled, SupersededHasSuccessor, Settled

LEMMA AddKeepsChainInv ==
    ASSUME ChainInv, NEW r \in Records, NEW row \in Row,
           row.status \in {"proposed", "accepted", "rejected"},
           CanAdd(rows, r, row), rows' = AfterAdd(rows, r, row)
    PROVE  ChainInv'
<1>t. TypeOK /\ rows[r].status = "unwritten"
  BY DEF ChainInv, CanAdd
<1>1. row.supersedes # None => row.supersedes \in Table(r)
  BY DEF CanAdd
<1>2. CASE row.status = "proposed"
  BY <1>1, <1>2, AddOpenKeepsChainInv DEF AfterAdd
<1>3. CASE row.status # "proposed" /\ row.supersedes = None
  <2> DEFINE written == [rows EXCEPT ![r] = row]
  <2>1. written \in [Records -> Row] /\ written[r] = row
    BY <1>t DEF TypeOK
  <2>2. ClosedBy(written, {r}) = {}
    BY <2>1, <1>3, RecordIds DEF ClosedBy, Records
  <2>3. With(written, {}, "superseded") = written
    BY <2>1 DEF With
  <2>4. rows' = written
    BY <1>3, <2>2, <2>3 DEF AfterAdd
  <2> QED BY <1>1, <1>3, <2>4, AddOpenKeepsChainInv
<1>4. CASE row.status # "proposed" /\ row.supersedes # None
  BY <1>1, <1>4, AddClosingKeepsChainInv
<1> QED BY <1>2, <1>3, <1>4

LEMMA NextKeepsChainInv == ChainInv /\ [Next]_vars => ChainInv'
<1> SUFFICES ASSUME ChainInv, [Next]_vars PROVE ChainInv'
  OBVIOUS
<1>1. ASSUME NEW d \in Decisions, NEW row \in NewDecision, AddDecision(d, row)
      PROVE  ChainInv'
  <2>1. d \in Records /\ row \in Row /\ row.status \in {"proposed", "accepted", "rejected"}
    BY DEF Records, NewDecision, Row, Status
  <2> QED BY <1>1, <2>1, AddKeepsChainInv DEF AddDecision
<1>2. ASSUME NEW f \in Facts, NEW row \in NewFact, AddFact(f, row)
      PROVE  ChainInv'
  <2>1. f \in Records /\ row \in Row /\ row.status \in {"proposed", "accepted", "rejected"}
    BY DEF Records, NewFact, Row, Status
  <2> QED BY <1>2, <2>1, AddKeepsChainInv DEF AddFact
<1>3. ASSUME NEW d \in Decisions, Ratify(d)
      PROVE  ChainInv'
  <2> DEFINE A == {d} \cup Evidence(rows, d)
  <2>1. A \in SUBSET Records /\ \A a \in A : rows[a].status = "proposed"
    BY <1>3 DEF Ratify, CanRatify, Evidence, Records
  <2>2. rows' = With(With(rows, A, "accepted"), ClosedBy(rows, A), "superseded")
    BY <1>3 DEF Ratify, AfterRatify
  <2> HIDE DEF A
  <2> QED BY <2>1, <2>2, AcceptKeepsChainInv
<1>4. ASSUME NEW d \in Decisions, Drop(d)
      PROVE  ChainInv'
  <2>1. PICK F \in SUBSET Facts : /\ \A f \in F : rows[f].status = "proposed"
                                  /\ rows' = With(With(rows, {d}, "rejected"), F, "rejected")
    BY <1>4 DEF Drop, AfterDrop
  <2> DEFINE A == {d} \cup F
  <2>2. A \in SUBSET Records /\ \A a \in A : rows[a].status = "proposed"
    BY <1>4, <2>1 DEF Drop, CanDrop, Records
  <2>3. rows \in [Records -> Row]
    BY DEF ChainInv, TypeOK
  <2>4. rows' = With(rows, A, "rejected")
    BY <2>1, <2>3 DEF With, Row
  <2> HIDE DEF A
  <2> QED BY <2>2, <2>4, RejectKeepsChainInv
<1>5. ASSUME NEW d \in Decisions, NEW dup \in Decisions \cup {None}, Retire(d, dup)
      PROVE  ChainInv'
  BY <1>5, RetireKeepsChainInv
<1>6. ASSUME NEW f \in Facts, RatifyFact(f)
      PROVE  ChainInv'
  BY <1>6, AcceptKeepsChainInv DEF RatifyFact, CanRatifyFact, AfterRatifyFact, Records
<1>7. ASSUME NEW f \in Facts, DropFact(f)
      PROVE  ChainInv'
  BY <1>7, RejectKeepsChainInv DEF DropFact, CanDropFact, AfterDropFact, Records
<1>8. CASE UNCHANGED vars
  BY <1>8 DEF vars, ChainInv, TypeOK, UnwrittenIsBlank, PendingOnLive, OnePending,
              SettledClosed, OneSettled, SupersededHasSuccessor, Settled, Successors
<1> QED BY <1>1, <1>2, <1>3, <1>4, <1>5, <1>6, <1>7, <1>8 DEF Next

THEOREM SpecChainInv == Spec => []ChainInv
BY InitChainInv, NextKeepsChainInv, PTL DEF Spec

(* Whatever is called, every id keeps a well-formed row (the rows of          *)
(* store.py's decisions and facts tables).                                    *)
THEOREM LifecycleTypeOK == Spec => []TypeOK
<1>1. ChainInv => TypeOK
  BY DEF ChainInv
<1> QED BY <1>1, SpecChainInv, PTL

(* A superseded record always has a successor that is more than a proposal:   *)
(* the invariant add_decision's docstring promises.                           *)
THEOREM LifecycleSupersededHasSuccessor == Spec => []SupersededHasSuccessor
<1>1. ChainInv => SupersededHasSuccessor
  BY DEF ChainInv
<1> QED BY <1>1, SpecChainInv, PTL

(* Two accepted records never contradict each other by superseding the same   *)
(* one (_check_supersede_target, _refuse_stale_predecessor).                  *)
THEOREM LifecycleChainNeverForks == Spec => []ChainNeverForks
<1>1. ChainInv => ChainNeverForks
  BY RecordIds DEF ChainInv, ChainNeverForks, OneSettled, SettledClosed, Records
<1> QED BY <1>1, SpecChainInv, PTL

-----------------------------------------------------------------------------
(* The walk for a live head stops at once at a live record. *)
LEMMA LiveRecordEndsChain ==
    ASSUME ChainInv, NEW p \in Records, rows[p].status = "accepted"
    PROVE  Chain(rows, p) \subseteq {p}
<1> SUFFICES ASSUME NEW x \in Chain(rows, p) PROVE x = p
  OBVIOUS
<1>1. \A s \in Table(p) : (/\ rows[s].supersedes \in {p}
                          /\ rows[s].status \in {"accepted", "superseded"}) => s \in {p}
  BY RecordIds DEF ChainInv, SettledClosed, Settled, Records, Table
<1>2. {p} \in SUBSET Table(p) /\ p \in {p}
  BY DEF Table, Records
<1> QED BY <1>1, <1>2 DEF Chain

LEMMA ChainInvQueue == ChainInv => QueueIsRatifiable
<1> SUFFICES ASSUME ChainInv PROVE QueueIsRatifiable
  OBVIOUS
<1>1. ASSUME NEW r \in Records, rows[r].status = "proposed"
      PROVE  ~StalePredecessor(rows, r)
  <2> SUFFICES ASSUME rows[r].supersedes # None
               PROVE  /\ rows[rows[r].supersedes].status # "proposed"
                      /\ LiveHeadsAfter(rows, rows[r].supersedes) = {}
    BY DEF StalePredecessor
  <2>1. rows[r].supersedes \in Records /\ rows[rows[r].supersedes].status = "accepted"
    BY <1>1 DEF ChainInv, PendingOnLive, TypeOK, Row
  <2> QED BY <2>1, LiveRecordEndsChain DEF LiveHeadsAfter
<1>2. Decisions \subseteq Records /\ Facts \subseteq Records
  BY DEF Records
<1>3. \A d \in Decisions : rows[d].status = "proposed" => CanRatify(rows, d)
  <2> SUFFICES ASSUME NEW d \in Decisions, rows[d].status = "proposed"
               PROVE  CanRatify(rows, d)
    OBVIOUS
  <2>1. \A f \in Evidence(rows, d) : f \in Records /\ rows[f].status = "proposed"
    BY <1>2 DEF Evidence
  <2>2. \A f, g \in Evidence(rows, d) :
           f # g => \/ rows[f].supersedes = None
                    \/ rows[f].supersedes # rows[g].supersedes
    BY <2>1 DEF ChainInv, OnePending
  <2> QED BY <1>1, <1>2, <2>1, <2>2 DEF CanRatify
<1>4. \A f \in Facts : rows[f].status = "proposed" => CanRatifyFact(rows, f)
  BY <1>1, <1>2 DEF CanRatifyFact
<1> QED BY <1>3, <1>4 DEF QueueIsRatifiable

(* No proposal of an unmerged store is ever refused by ratify or ratify_fact. *)
THEOREM LifecycleQueueIsRatifiable == Spec => []QueueIsRatifiable
BY SpecChainInv, ChainInvQueue, PTL

(* All that is promised of supersession (ratify, add_decision, retire).        *)
THEOREM LifecycleSuccession == Spec => []SuccessionIsSound
<1>1. SupersededHasSuccessor /\ ChainNeverForks /\ QueueIsRatifiable => SuccessionIsSound
  BY DEF SuccessionIsSound
<1> QED
  BY <1>1, LifecycleSupersededHasSuccessor, LifecycleChainNeverForks,
     LifecycleQueueIsRatifiable, PTL

-----------------------------------------------------------------------------
(* One row of Appended. *)
Appends(r) ==
    \/ rows[r].status = "unwritten"
    \/ rows'[r] = rows[r]
    \/ /\ <<rows[r].status, rows'[r].status>> \in VerifyTransitions
       /\ rows'[r] = [rows[r] EXCEPT !.status = rows'[r].status]
       /\ r \in Facts => rows'[r].status # "deprecated"

LEMMA VerdictAppends ==
    ASSUME TypeOK, NEW r \in Records, NEW st \in Status,
           rows'[r] = [rows[r] EXCEPT !.status = st],
           <<rows[r].status, st>> \in VerifyTransitions,
           r \in Facts => st # "deprecated"
    PROVE  Appends(r)
<1>1. rows[r] \in Row
  BY DEF TypeOK
<1>2. rows'[r].status = st
  BY <1>1 DEF Row
<1> QED BY <1>2 DEF Appends

LEMMA AcceptAppends ==
    ASSUME ChainInv, NEW A \in SUBSET Records,
           \A a \in A : rows[a].status = "proposed",
           rows' = With(With(rows, A, "accepted"), ClosedBy(rows, A), "superseded"),
           NEW r \in Records
    PROVE  Appends(r)
<1>t. TypeOK /\ rows[r] \in Row
  BY DEF ChainInv, TypeOK
<1>c. \A p \in ClosedBy(rows, A) : rows[p].status = "accepted"
  BY RecordIds DEF ClosedBy, ChainInv, PendingOnLive, Records
<1>1. CASE r \in ClosedBy(rows, A)
  <2>1. rows'[r] = [rows[r] EXCEPT !.status = "superseded"]
    BY <1>1, <1>t, <1>c DEF With, Row
  <2> QED BY <2>1, <1>t, <1>1, <1>c, VerdictAppends DEF VerifyTransitions, Status
<1>2. CASE r \in A /\ r \notin ClosedBy(rows, A)
  <2>1. rows'[r] = [rows[r] EXCEPT !.status = "accepted"]
    BY <1>2 DEF With
  <2> QED BY <2>1, <1>t, <1>2, VerdictAppends DEF VerifyTransitions, Status
<1>3. CASE r \notin A /\ r \notin ClosedBy(rows, A)
  BY <1>3 DEF With, Appends
<1> QED BY <1>1, <1>2, <1>3

LEMMA RejectAppends ==
    ASSUME TypeOK, NEW A \in SUBSET Records,
           \A a \in A : rows[a].status = "proposed",
           rows' = With(rows, A, "rejected"), NEW r \in Records
    PROVE  Appends(r)
<1>1. CASE r \in A
  <2>1. rows'[r] = [rows[r] EXCEPT !.status = "rejected"]
    BY <1>1 DEF With
  <2> QED BY <2>1, <1>1, VerdictAppends DEF VerifyTransitions, Status
<1>2. CASE r \notin A
  BY <1>2 DEF With, Appends
<1> QED BY <1>1, <1>2

LEMMA AddAppends ==
    ASSUME TypeOK, NEW x \in Records, NEW row \in Row, CanAdd(rows, x, row),
           rows' = AfterAdd(rows, x, row), NEW r \in Records
    PROVE  Appends(r)
<1> DEFINE written == [rows EXCEPT ![x] = row]
<1>w. rows \in [Records -> Row] /\ written \in [Records -> Row] /\ rows[x].status = "unwritten"
  BY DEF TypeOK, CanAdd
<1>1. CASE r = x
  BY <1>1, <1>w DEF Appends
<1>2. CASE r # x /\ row.status = "proposed"
  BY <1>2, <1>w DEF AfterAdd, Appends
<1>3. CASE r # x /\ row.status # "proposed"
  <2>1. rows' = With(written, ClosedBy(written, {x}), "superseded")
    BY <1>3 DEF AfterAdd
  <2>2. CASE r \notin ClosedBy(written, {x})
    BY <1>3, <1>w, <2>1, <2>2 DEF With, Appends
  <2>3. CASE r \in ClosedBy(written, {x})
    <3>1. r = row.supersedes
      BY <2>3, <1>w DEF ClosedBy
    <3>2. rows[r].status = "accepted"
      BY <3>1, RecordIds DEF CanAdd, MayBeSuperseded, Records
    <3>3. rows'[r] = [rows[r] EXCEPT !.status = "superseded"]
      BY <1>3, <1>w, <2>1, <2>3 DEF With
    <3> QED BY <3>2, <3>3, VerdictAppends DEF VerifyTransitions, Status
  <2> QED BY <2>2, <2>3
<1> QED BY <1>1, <1>2, <1>3

LEMMA NextAppends ==
    ASSUME ChainInv, Next, NEW r \in Records
    PROVE  Appends(r)
<1>t. TypeOK
  BY DEF ChainInv
<1>1. ASSUME NEW d \in Decisions, NEW row \in NewDecision, AddDecision(d, row)
      PROVE  Appends(r)
  <2>1. d \in Records /\ row \in Row
    BY DEF Records, NewDecision, Row, Status
  <2> QED BY <1>t, <1>1, <2>1, AddAppends DEF AddDecision
<1>2. ASSUME NEW f \in Facts, NEW row \in NewFact, AddFact(f, row)
      PROVE  Appends(r)
  <2>1. f \in Records /\ row \in Row
    BY DEF Records, NewFact, Row, Status
  <2> QED BY <1>t, <1>2, <2>1, AddAppends DEF AddFact
<1>3. ASSUME NEW d \in Decisions, Ratify(d)
      PROVE  Appends(r)
  <2> DEFINE A == {d} \cup Evidence(rows, d)
  <2>1. A \in SUBSET Records /\ \A a \in A : rows[a].status = "proposed"
    BY <1>3 DEF Ratify, CanRatify, Evidence, Records
  <2>2. rows' = With(With(rows, A, "accepted"), ClosedBy(rows, A), "superseded")
    BY <1>3 DEF Ratify, AfterRatify
  <2> HIDE DEF A
  <2> QED BY <2>1, <2>2, AcceptAppends
<1>4. ASSUME NEW d \in Decisions, Drop(d)
      PROVE  Appends(r)
  <2>1. PICK F \in SUBSET Facts : /\ \A f \in F : rows[f].status = "proposed"
                                  /\ rows' = With(With(rows, {d}, "rejected"), F, "rejected")
    BY <1>4 DEF Drop, AfterDrop
  <2> DEFINE A == {d} \cup F
  <2>2. A \in SUBSET Records /\ \A a \in A : rows[a].status = "proposed"
    BY <1>4, <2>1 DEF Drop, CanDrop, Records
  <2>3. rows' = With(rows, A, "rejected")
    BY <1>t, <2>1 DEF With, Row, TypeOK
  <2> HIDE DEF A
  <2> QED BY <1>t, <2>2, <2>3, RejectAppends
<1>5. ASSUME NEW d \in Decisions, NEW dup \in Decisions \cup {None}, Retire(d, dup)
      PROVE  Appends(r)
  <2>1. CASE r = d
    <3>1. rows'[r] = [rows[r] EXCEPT !.status = "deprecated"] /\ rows[r].status = "accepted"
      BY <1>5, <2>1 DEF Retire, CanRetire, AfterRetire, With
    <3>2. r \notin Facts
      BY <2>1, RecordIds
    <3> QED BY <1>t, <3>1, <3>2, VerdictAppends DEF VerifyTransitions, Status
  <2>2. CASE r # d
    BY <1>5, <2>2 DEF Retire, AfterRetire, With, Appends
  <2> QED BY <2>1, <2>2
<1>6. ASSUME NEW f \in Facts, RatifyFact(f)
      PROVE  Appends(r)
  BY <1>6, AcceptAppends DEF RatifyFact, CanRatifyFact, AfterRatifyFact, Records
<1>7. ASSUME NEW f \in Facts, DropFact(f)
      PROVE  Appends(r)
  BY <1>t, <1>7, RejectAppends DEF DropFact, CanDropFact, AfterDropFact, Records
<1> QED BY <1>1, <1>2, <1>3, <1>4, <1>5, <1>6, <1>7 DEF Next

(* History is append-only: no call edits a settled record, and a row keeps    *)
(* everything but its status (the transitions of store_rules.py).             *)
THEOREM LifecycleAppendOnly == Spec => AppendOnly
<1>2. ChainInv /\ [Next]_vars => [\A r \in Records : Appends(r)]_vars
  BY NextAppends
<1>3. [\A r \in Records : Appends(r)]_vars
        => [Appended]_vars
  BY DEF Appends, Appended
<1> QED BY <1>2, <1>3, SpecChainInv, PTL DEF Spec, AppendOnly

-----------------------------------------------------------------------------
(* The verdict a step gives on a proposed decision and on its evidence. *)
FollowsVerdict(d, f) ==
    /\ rows'[d].status = "accepted" => rows'[f].status = "accepted"
    /\ rows'[d].status = "rejected" =>
          (rows'[f].status = "rejected"
             <=> \A s \in rows[f].supports : rows'[s].status = "rejected")

(* Evidence follows the verdict on its decision in the same call: ratify and  *)
(* drop, with their cascades, and nothing else moves a proposed decision.     *)
THEOREM LifecycleEvidence == Spec => EvidenceFollowsVerdict
<1>1. ASSUME ChainInv, Next, NEW d \in Decisions, NEW f \in Facts,
             rows[d].status = "proposed", d \in rows[f].supports, rows[f].status = "proposed"
      PROVE  FollowsVerdict(d, f)
  <2>t. /\ TypeOK /\ d \in Records /\ f \in Records /\ d \notin Facts /\ f \notin Decisions
        /\ rows[f].supports \in SUBSET Decisions
    BY <1>1, RecordIds DEF ChainInv, TypeOK, Row, Records
  <2>1. ASSUME NEW x \in Records, NEW row \in Row, CanAdd(rows, x, row), rows' = AfterAdd(rows, x, row)
        PROVE  FollowsVerdict(d, f)
    <3>1. x # d /\ x # f
      BY <2>1, <1>1 DEF CanAdd
    <3>2. Appends(d)
      BY <2>1, <2>t, AddAppends
    <3>3. CASE row.status = "proposed"
      BY <3>1, <3>3, <2>1, <2>t, <1>1 DEF AfterAdd, FollowsVerdict, TypeOK
    <3>4. CASE row.status # "proposed"
      <4> DEFINE written == [rows EXCEPT ![x] = row]
      <4>1. written \in [Records -> Row] /\ written[d] = rows[d] /\ rows' = With(written, ClosedBy(written, {x}), "superseded")
        BY <3>1, <3>4, <2>1, <2>t DEF AfterAdd, TypeOK
      <4> HIDE DEF written
      <4>2. rows'[d].status \in {"proposed", "superseded"}
        BY <4>1, <2>t, <1>1, WithRow DEF Status
      <4> QED BY <4>2 DEF FollowsVerdict
    <3> QED BY <3>3, <3>4
  <2>2. ASSUME NEW x \in Decisions, NEW row \in NewDecision, AddDecision(x, row)
        PROVE  FollowsVerdict(d, f)
    BY <2>1, <2>2 DEF AddDecision, Records, NewDecision, Row, Status
  <2>3. ASSUME NEW x \in Facts, NEW row \in NewFact, AddFact(x, row)
        PROVE  FollowsVerdict(d, f)
    BY <2>1, <2>3 DEF AddFact, Records, NewFact, Row, Status
  <2>4. ASSUME NEW x \in Decisions, Ratify(x)
        PROVE  FollowsVerdict(d, f)
    <3> DEFINE A == {x} \cup Evidence(rows, x)
    <3>1. /\ A \in SUBSET Records /\ \A a \in A : rows[a].status = "proposed"
          /\ d \in A <=> d = x
      BY <2>4, <2>t DEF Ratify, CanRatify, Evidence, Records
    <3>2. f \in A <=> x \in rows[f].supports
      BY <2>t, <2>4, <1>1 DEF Evidence
    <3>3. rows' = With(With(rows, A, "accepted"), ClosedBy(rows, A), "superseded")
      BY <2>4 DEF Ratify, AfterRatify
    <3>4. \A p \in ClosedBy(rows, A) : rows[p].status = "accepted"
      BY <1>1, <3>1, RecordIds DEF ClosedBy, ChainInv, PendingOnLive, Records
    <3> HIDE DEF A
    <3>5. /\ rows'[d].status = IF d = x THEN "accepted" ELSE "proposed"
          /\ f \in A => rows'[f].status = "accepted"
      BY <1>1, <2>t, <3>1, <3>3, <3>4, VerdictRow DEF TypeOK
    <3> QED BY <1>1, <3>2, <3>5 DEF FollowsVerdict
  <2>5. ASSUME NEW x \in Decisions, Drop(x)
        PROVE  FollowsVerdict(d, f)
    <3> DEFINE dropped == With(rows, {x}, "rejected")
               follows == {g \in Facts : /\ rows[g].status = "proposed"
                                         /\ rows[g].supports # {}
                                         /\ \A s \in rows[g].supports : dropped[s].status = "rejected"}
    <3>1. rows' = With(dropped, follows, "rejected")
      BY <2>5 DEF Drop, AfterDrop
    <3>2. dropped \in [Records -> Row] /\ follows \in SUBSET Facts /\ dropped[f] = rows[f]
      BY <2>t, <2>5, WithRow DEF TypeOK, Status, With
    <3>3. f \in follows <=> \A s \in rows[f].supports : dropped[s].status = "rejected"
      BY <1>1
    <3> HIDE DEF dropped, follows
    <3>4. \A s \in Decisions : rows'[s].status = dropped[s].status
      BY <3>1, <3>2, <2>t, RecordIds DEF With, Records
    <3>5. rows'[f].status = "rejected" <=> f \in follows
      BY <3>1, <3>2, <2>t, <1>1, WithRow DEF Status
    <3>6. rows'[d].status # "accepted"
      BY <3>4, <2>5, <2>t, <1>1, WithRow DEF dropped, TypeOK, Status
    <3> QED BY <3>3, <3>4, <3>5, <3>6, <2>t DEF FollowsVerdict
  <2>6. ASSUME NEW x \in Decisions, NEW dup \in Decisions \cup {None}, Retire(x, dup)
        PROVE  FollowsVerdict(d, f)
    <3>1. rows'[d].status = "proposed"
      BY <2>6, <2>t, <1>1 DEF Retire, CanRetire, AfterRetire, With
    <3> QED BY <3>1 DEF FollowsVerdict
  <2>7. ASSUME NEW x \in Facts, RatifyFact(x)
        PROVE  FollowsVerdict(d, f)
    <3>1. \A p \in ClosedBy(rows, {x}) : rows[p].status = "accepted"
      BY <1>1, <2>7, RecordIds DEF ClosedBy, ChainInv, PendingOnLive, RatifyFact, CanRatifyFact, Records
    <3>2. rows'[d].status = "proposed"
      BY <2>7, <2>t, <1>1, <3>1 DEF RatifyFact, AfterRatifyFact, With
    <3> QED BY <3>2 DEF FollowsVerdict
  <2>8. ASSUME NEW x \in Facts, DropFact(x)
        PROVE  FollowsVerdict(d, f)
    <3>1. rows'[d].status = "proposed"
      BY <2>8, <2>t, <1>1 DEF DropFact, AfterDropFact, With
    <3> QED BY <3>1 DEF FollowsVerdict
  <2> QED BY <1>1, <2>2, <2>3, <2>4, <2>5, <2>6, <2>7, <2>8 DEF Next
<1>2. ChainInv /\ [Next]_vars
        => [\A d \in Decisions, f \in Facts :
               (rows[d].status = "proposed" /\ d \in rows[f].supports /\ rows[f].status = "proposed")
               => /\ rows'[d].status = "accepted" => rows'[f].status = "accepted"
                  /\ rows'[d].status = "rejected" =>
                        (rows'[f].status = "rejected"
                           <=> \A s \in rows[f].supports : rows'[s].status = "rejected")]_vars
  BY <1>1 DEF FollowsVerdict
<1> QED BY <1>2, SpecChainInv, PTL DEF Spec, EvidenceFollowsVerdict

-----------------------------------------------------------------------------
(* The writers *)

Maybe(S) == S \cup {None}

Job == [pc : {"idle", "bind", "facts", "add", "bindfact", "judge", "ratify"},
        policy : Policies, kind : Kinds, d : Maybe(Decisions), f : Maybe(Facts), todo : Nat,
        supports : SUBSET Decisions, anchored : BOOLEAN, failed : BOOLEAN]

JobFits(j) ==
    /\ j.pc = "bind" => j.d # None
    /\ j.pc \in {"add", "bindfact"} => j.todo > 0
    /\ j.pc \in {"bindfact", "judge"} => j.f # None
    /\ j.pc = "judge" => j.d = None
    /\ j.pc = "ratify" => IF j.d = None THEN j.f # None ELSE j.todo = 0 /\ ~j.failed

CaptureType ==
    /\ setting \in Setting
    /\ route \in [Records -> Routes]
    /\ by \in [Records -> Policies \cup {"plain", "reviewed", "nobody", "human"}]
    /\ missing \in [Decisions -> Int]
    /\ job \in [Agents -> Job] /\ \A a \in Agents : JobFits(job[a])

Req == [ref : Maybe(Docs), text : Maybe(Texts), as : {"none", "accepted", "proposed", "rejected"},
        anchored : BOOLEAN, ratifies : BOOLEAN]
Disp == [action : {"none", "existing", "unanchorable", "pending", "written", "superseded"},
         match : Maybe(Decisions), pred : Maybe(Decisions), drop : Maybe(Decisions),
         donor : Maybe(Decisions)]
Import == [pc : {"idle", "apply", "settle", "drop", "add", "bind", "judge", "ratify"},
           req : Req, mode : Policies \cup {"plain", "reviewed"}, kind : Kinds, draft : BOOLEAN,
           disp : Disp, d : Maybe(Decisions), calm : BOOLEAN]

ImportFits(i) ==
    /\ i.pc # "idle" => i.req.ref # None /\ i.req.as # "none"
    /\ i.pc = "drop" => i.disp.drop # None
    /\ i.pc \in {"settle", "bind", "judge", "ratify"} => i.d # None

DocType ==
    /\ doc \in [Docs -> Doc]
    /\ text \in [Decisions -> [of : Maybe(Docs), text : Maybe(Texts), nth : Nat]]
    /\ IsFiniteSet({d \in Decisions : text[d].of # None})
    /\ imp \in [Agents -> Import] /\ \A a \in Agents : ImportFits(imp[a])

ReviewType ==
    review \in [pc : {"idle", "list", "accept"}, all : BOOLEAN, seen : SUBSET Records,
                todo : SUBSET Records, drops : SUBSET Records, calm : BOOLEAN]

(* Nothing is said of the parts of a plan but which they are. *)
BootShape(b) ==
    b \in [pc : {"idle", "review", "refresh", "confirm", "apply"}, inputs : {b.inputs},
           again : BOOLEAN, answers : [Docs -> Answers], left : SUBSET Docs, ref : Maybe(Docs),
           unanchored : SUBSET Docs, failed : BOOLEAN]
InputShape(inputs) ==
    inputs \in [doc : {inputs.doc}, rows : {inputs.rows}, by : {inputs.by}, text : {inputs.text},
                dupOf : {inputs.dupOf}]
Documented(inputs) == \A ref \in setting.docs : inputs.doc[ref] \in Doc

Boot(b) ==
    /\ BootShape(b) /\ InputShape(b.inputs)
    /\ b.left \subseteq Answered(b) /\ (b.pc # "apply" => b.left = {})
    /\ b.pc # "idle" => Documented(b.inputs)

BootType == boot = [a \in Agents |-> boot[a]] /\ \A a \in Agents : Boot(boot[a])

-----------------------------------------------------------------------------

LEMMA RouteTypes ==
    /\ \A x \in Routes, y \in Routes : Best(x, y) \in Routes
    /\ \A x \in Routes : x \in {"none", "dead", "waiting", "file", "degraded", "live"}
    /\ "none" \in Routes
<1>1. \A x \in Routes, y \in Routes : Best(x, y) \in Routes
  BY DEF Best
<1>2. \A x \in Routes : x \in {"none", "dead", "waiting", "file", "degraded", "live"}
  BY DEF Routes
<1>3. "none" \in Routes
  BY DEF Routes
<1> QED BY <1>1, <1>2, <1>3

LEMMA IdleTypes == Idle \in Job /\ JobFits(Idle) /\ Idle.d = None /\ Idle.pc = "idle"
BY DEF Idle, Job, JobFits, Policies, Kinds, Maybe

LEMMA SettingTypes ==
    ASSUME setting \in Setting
    PROVE  /\ setting.ids \in SUBSET Records
           /\ \A a \in Agents : setting.policies[a] \subseteq Policies
           /\ setting.ways \subseteq Routes
           /\ \A a \in Agents : setting.modes[a] \subseteq Policies \cup {"plain"}
           /\ setting.docs \subseteq Docs /\ setting.boots \subseteq Agents
BY DEF Setting

LEMMA GoTypes ==
    ASSUME CaptureType, NEW a \in Agents, NEW j \in Job, JobFits(j), Go(a, j)
    PROVE  job' \in [Agents -> Job] /\ \A b \in Agents : JobFits(job'[b])
BY DEF CaptureType, Go

LEMMA AddIsNext ==
    ASSUME NEW r \in Records, NEW row,
           r \in Decisions => row \in NewDecision, r \in Facts => row \in NewFact,
           CanAdd(rows, r, row), rows' = AfterAdd(rows, r, row)
    PROVE  Next
BY DEF Next, AddDecision, AddFact, Records

(* The steps of an agent: each is a call of the store, or none at all. *)
LEMMA AgentSteps ==
    ASSUME TypeOK, CaptureType, NEW a \in Agents, Agent(a)
    PROVE  CaptureType' /\ [Next]_rows
<1> DEFINE j == job[a]
<1>j. j \in Job /\ JobFits(j)
  BY DEF CaptureType
<1>s. /\ setting.ids \in SUBSET Records /\ setting.policies[a] \subseteq Policies
      /\ setting.ways \subseteq Routes
  BY SettingTypes DEF CaptureType
<1>r. rows \in [Records -> Row] /\ Decisions \subseteq Records /\ Facts \subseteq Records
  BY DEF TypeOK, Records
<1>d. ASSUME j.todo > 0
      PROVE  Done(a) \in Job /\ JobFits(Done(a)) /\ Failed(a) \in Job /\ JobFits(Failed(a))
  <2>1. CASE Alone(a)
    BY <2>1, IdleTypes DEF Done, Failed
  <2>2. CASE ~Alone(a)
    <3>1. Done(a) = [j EXCEPT !.pc = "facts", !.f = None, !.supports = {}, !.anchored = FALSE, !.todo = @ - 1]
      BY <2>2 DEF Done
    <3>a. j.todo - 1 \in Nat /\ {} \in SUBSET Decisions /\ None \in Maybe(Facts)
      BY <1>d, <1>j DEF Job, Maybe
    <3>b. Done(a) \in Job /\ Done(a).pc = "facts"
      BY <1>j, <3>1, <3>a DEF Job
    <3>2. Done(a) \in Job /\ JobFits(Done(a))
      BY <3>b DEF JobFits
    <3>3. Failed(a) = [Done(a) EXCEPT !.failed = TRUE] /\ Done(a).pc = "facts"
      BY <2>2, <3>1, <1>j DEF Failed, Job
    <3>4. Failed(a) \in Job /\ JobFits(Failed(a))
      BY <3>2, <3>3 DEF Job, JobFits
    <3> QED BY <3>2, <3>4
  <2> QED BY <2>1, <2>2
<1>1. ASSUME NEW policy \in setting.policies[a], NEW kind \in Kinds, NEW d \in Decisions \cap setting.ids,
             NEW pred \in Decisions \cup {None}, NEW n \in 0 .. MaxFacts,
             Propose(a, policy, kind, d, pred, n)
      PROVE  CaptureType' /\ [Next]_rows
  <2> DEFINE new == [Idle EXCEPT !.pc = "bind", !.policy = policy, !.kind = kind, !.d = d, !.todo = n]
             row == [status |-> Landing(policy), supersedes |-> pred, supports |-> {}]
  <2>1. n \in Nat /\ policy \in Policies /\ d # None
    BY <1>s, CaptureAssumption, RecordIds
  <2>2. new \in Job /\ JobFits(new)
    BY <2>1 DEF Idle, Job, JobFits, Maybe
  <2>3. Go(a, new)
    BY <1>1 DEF Propose
  <2> HIDE DEF new
  <2>4. job' \in [Agents -> Job] /\ \A b \in Agents : JobFits(job'[b])
    BY <2>2, <2>3, GoTypes
  <2>5. missing' \in [Decisions -> Int]
    BY <1>1, <2>1 DEF Propose, CaptureType
  <2>6. CaptureType'
    BY <1>1, <2>4, <2>5 DEF Propose, CaptureType, Internal
  <2>7. row \in NewDecision
    BY DEF NewDecision, Landing, Records
  <2>8. CanAdd(rows, d, row) /\ rows' = AfterAdd(rows, d, row)
    BY <1>1 DEF Propose
  <2> HIDE DEF row
  <2>9. Next
    BY <2>7, <2>8, <1>r DEF Next, AddDecision
  <2> QED BY <2>6, <2>9
<1>2. ASSUME NEW way \in setting.ways, Bind(a, way)
      PROVE  CaptureType' /\ [Next]_rows
  <2> DEFINE new == [j EXCEPT !.pc = "facts"]
  <2>1. new \in Job /\ JobFits(new) /\ Go(a, new)
    BY <1>2, <1>j DEF Bind, Job, JobFits
  <2> HIDE DEF new
  <2>2. route' \in [Records -> Routes]
    <3>1. j.d \in Records /\ route' = [route EXCEPT ![j.d] = Best(@, way)]
      BY <1>2, <1>j, <1>r DEF Bind, At, Job, JobFits, Maybe
    <3> QED BY <3>1, <1>s, RouteTypes DEF CaptureType
  <2> QED BY <1>2, <2>1, <2>2, GoTypes DEF Bind, CaptureType, Internal
<1>3. ASSUME NEW way \in setting.ways, BindFact(a, way)
      PROVE  CaptureType' /\ [Next]_rows
  <2>1. route' \in [Records -> Routes]
    <3>1. j.f \in Records /\ route' = [route EXCEPT ![j.f] = Best(@, way)]
      BY <1>3, <1>j, <1>r DEF BindFact, At, Job, JobFits, Maybe
    <3> QED BY <3>1, <1>s, RouteTypes DEF CaptureType
  <2>2. j.todo > 0 /\ j.pc = "bindfact" /\ j.f # None
    BY <1>3, <1>j DEF BindFact, At, JobFits
  <2>3. CASE Alone(a)
    <3> DEFINE new == [j EXCEPT !.pc = "judge"]
    <3>1. new \in Job /\ JobFits(new) /\ Go(a, new)
      BY <1>3, <1>j, <2>2, <2>3 DEF BindFact, Job, JobFits, Alone
    <3> HIDE DEF new
    <3> QED BY <1>3, <2>1, <2>3, <3>1, GoTypes DEF BindFact, CaptureType, Internal
  <2>4. CASE ~Alone(a)
    <3>1. Go(a, Done(a)) /\ missing' = [missing EXCEPT ![j.d] = @ - 1]
      BY <1>3, <2>4 DEF BindFact
    <3>2. job' \in [Agents -> Job] /\ \A b \in Agents : JobFits(job'[b])
      BY <2>2, <3>1, <1>d, GoTypes
    <3>3. missing' \in [Decisions -> Int]
      BY <3>1, <1>j, <2>4 DEF CaptureType, Job, Maybe, Alone
    <3> QED BY <1>3, <2>1, <3>2, <3>3 DEF BindFact, CaptureType, Internal
  <2> QED BY <2>3, <2>4
<1>4. ASSUME Inherit(a)
      PROVE  CaptureType' /\ [Next]_rows
  <2> DEFINE new == [j EXCEPT !.pc = "facts"]
             old == rows[j.d].supersedes
  <2>1. new \in Job /\ JobFits(new) /\ Go(a, new)
    BY <1>4, <1>j DEF Inherit, Job, JobFits
  <2>2. route' \in [Records -> Routes]
    <3>1. j.d \in Records /\ route' = [route EXCEPT ![j.d] = Best(@, route[old])]
      BY <1>4, <1>j, <1>r DEF Inherit, At, Job, JobFits, Maybe
    <3>2. old \in Records
      BY <1>4, <3>1, <1>r DEF Inherit, Row
    <3> HIDE DEF old
    <3> QED BY <3>1, <3>2, RouteTypes DEF CaptureType
  <2> HIDE DEF new
  <2> QED BY <1>4, <2>1, <2>2, GoTypes DEF Inherit, CaptureType, Internal
<1>5. ASSUME NEW policy \in setting.policies[a], ProposeFact(a, policy)
      PROVE  CaptureType' /\ [Next]_rows
  <2> DEFINE new == [Idle EXCEPT !.pc = "facts", !.policy = policy, !.todo = 1]
  <2>1. new \in Job /\ JobFits(new) /\ Go(a, new)
    BY <1>5, <1>s, IdleTypes DEF ProposeFact, Job, JobFits
  <2> HIDE DEF new
  <2> QED BY <1>5, <2>1, GoTypes DEF ProposeFact, CaptureType, Internal
<1>6. ASSUME NEW anchored \in BOOLEAN, NEW S \in SUBSET (Decisions \cap setting.ids),
             CheckFact(a, anchored, S)
      PROVE  CaptureType' /\ [Next]_rows
  <2> DEFINE supports == S \cup (IF Alone(a) THEN {} ELSE {j.d})
             new == [j EXCEPT !.pc = "add", !.supports = supports, !.anchored = anchored]
  <2>0. j.todo > 0 /\ j.pc = "facts"
    BY <1>6 DEF CheckFact, At
  <2>1. supports \in SUBSET Decisions
    BY <1>j DEF Job, Maybe, Alone
  <2>2. Go(a, IF anchored \/ ResolvesToLive(supports) THEN new ELSE Failed(a))
    BY <1>6 DEF CheckFact
  <2> HIDE DEF supports
  <2>3. new \in Job /\ JobFits(new)
    BY <2>0, <2>1, <1>j DEF Job, JobFits
  <2> HIDE DEF new
  <2>4. job' \in [Agents -> Job] /\ \A b \in Agents : JobFits(job'[b])
    BY <2>0, <2>2, <2>3, <1>d, GoTypes
  <2> QED BY <1>6, <2>4 DEF CheckFact, CaptureType, Internal
<1>7. ASSUME Duplicate(a)
      PROVE  CaptureType' /\ [Next]_rows
  <2>1. job' \in [Agents -> Job] /\ \A b \in Agents : JobFits(job'[b])
    BY <1>7, <1>d, GoTypes DEF Duplicate
  <2>2. missing' \in [Decisions -> Int]
    BY <1>7, <1>j DEF Duplicate, CaptureType, Job, Maybe, Alone
  <2> QED BY <1>7, <2>1, <2>2 DEF Duplicate, CaptureType, Internal
<1>8. ASSUME FactFails(a)
      PROVE  CaptureType' /\ [Next]_rows
  <2>1. j.todo > 0 /\ Go(a, Failed(a))
    BY <1>8, <1>j DEF FactFails, JobFits
  <2> QED BY <1>8, <2>1, <1>d, GoTypes DEF FactFails, CaptureType, Internal
<1>9. ASSUME NEW f \in Facts \cap setting.ids, AddFactOf(a, f)
      PROVE  CaptureType' /\ [Next]_rows
  <2> DEFINE row == [status |-> Landing(j.policy), supersedes |-> None, supports |-> j.supports]
             new == [j EXCEPT !.pc = "bindfact", !.f = f]
  <2>1. f # None /\ f \in Facts
    BY RecordIds
  <2>2. new \in Job /\ JobFits(new) /\ Go(a, new)
    BY <1>9, <2>1, <1>j DEF AddFactOf, At, Job, JobFits, Maybe
  <2>3. row \in NewFact
    BY <1>j DEF NewFact, Landing, Job
  <2>4. CanAdd(rows, f, row) /\ rows' = AfterAdd(rows, f, row)
    BY <1>9 DEF AddFactOf
  <2> HIDE DEF row, new
  <2>5. Next
    BY <2>1, <2>3, <2>4 DEF Next, AddFact
  <2> QED BY <1>9, <2>2, <2>5, GoTypes DEF AddFactOf, CaptureType, Internal
<1>10. ASSUME Judge(a)
       PROVE  CaptureType' /\ [Next]_rows
  <2> DEFINE new == [j EXCEPT !.pc = "ratify"]
             fit == ~j.failed /\ Eligible(j.policy, j.kind, route[j.d], rows[j.d].supersedes)
                              /\ CascadeEligible(j.policy, j.d)
  <2>1. Go(a, IF fit THEN new ELSE Idle) /\ j.todo = 0 /\ j.d # None
    BY <1>10 DEF Judge, Alone
  <2>2. fit => new \in Job /\ JobFits(new)
    BY <1>j, <2>1 DEF Job, JobFits
  <2> HIDE DEF fit, new
  <2>3. job' \in [Agents -> Job] /\ \A b \in Agents : JobFits(job'[b])
    BY <2>1, <2>2, IdleTypes, GoTypes
  <2> QED BY <1>10, <2>3 DEF Judge, CaptureType, Internal
<1>11. ASSUME JudgeFact(a)
       PROVE  CaptureType' /\ [Next]_rows
  <2> DEFINE new == [j EXCEPT !.pc = "ratify"]
             fit == (\A d \in rows[j.f].supports : rows[d].status # "proposed")
                    /\ FactEligible(j.policy, j.f)
  <2>1. Go(a, IF fit THEN new ELSE Idle) /\ j.d = None /\ j.f # None
    BY <1>11, <1>j DEF JudgeFact, JobFits, At
  <2>2. new \in Job /\ JobFits(new)
    BY <1>j, <2>1 DEF Job, JobFits
  <2> HIDE DEF fit, new
  <2>3. job' \in [Agents -> Job] /\ \A b \in Agents : JobFits(job'[b])
    BY <2>1, <2>2, IdleTypes, GoTypes
  <2> QED BY <1>11, <2>3 DEF JudgeFact, CaptureType, Internal
<1>12. ASSUME AutoRatify(a)
       PROVE  CaptureType' /\ [Next]_rows
  <2>1. j.d \in Decisions /\ Ratify(j.d)
    BY <1>12, <1>j DEF AutoRatify, Alone, Job, Maybe, Ratify
  <2>2. by' \in [Records -> Policies \cup {"plain", "reviewed", "nobody", "human"}]
    BY <1>12, <1>j DEF AutoRatify, CaptureType, Stamp, Job
  <2>3. job' \in [Agents -> Job] /\ \A b \in Agents : JobFits(job'[b])
    BY <1>12, IdleTypes, GoTypes DEF AutoRatify
  <2> QED BY <1>12, <2>1, <2>2, <2>3 DEF AutoRatify, CaptureType, Internal, Next
<1>13. ASSUME AutoRatifyFact(a)
       PROVE  CaptureType' /\ [Next]_rows
  <2>1. j.f \in Facts /\ RatifyFact(j.f)
    BY <1>13, <1>j DEF AutoRatifyFact, Alone, At, JobFits, Job, Maybe, RatifyFact
  <2>2. by' \in [Records -> Policies \cup {"plain", "reviewed", "nobody", "human"}]
    BY <1>13, <1>j DEF AutoRatifyFact, CaptureType, Stamp, Job
  <2>3. job' \in [Agents -> Job] /\ \A b \in Agents : JobFits(job'[b])
    BY <1>13, IdleTypes, GoTypes DEF AutoRatifyFact
  <2> QED BY <1>13, <2>1, <2>2, <2>3 DEF AutoRatifyFact, CaptureType, Internal, Next
<1>14. ASSUME Stop(a)
       PROVE  CaptureType' /\ [Next]_rows
  <2>1. job' \in [Agents -> Job] /\ \A b \in Agents : JobFits(job'[b])
    BY <1>14, IdleTypes, GoTypes DEF Stop
  <2> QED BY <1>14, <2>1 DEF Stop, CaptureType, Internal
<1> QED
  BY <1>1, <1>2, <1>3, <1>4, <1>5, <1>6, <1>7, <1>8, <1>9, <1>10, <1>11, <1>12, <1>13, <1>14
  DEF Agent

LEMMA RatifyIsNext ==
    ASSUME NEW d \in Decisions, CanRatify(rows, d), rows' = AfterRatify(rows, d)
    PROVE  Next
BY DEF Next, Ratify

LEMMA DropIsNext ==
    ASSUME NEW d \in Decisions, CanDrop(rows, d), rows' = AfterDrop(rows, d)
    PROVE  Next
BY DEF Next, Drop

LEMMA RatifyFactIsNext ==
    ASSUME NEW f \in Facts, CanRatifyFact(rows, f), rows' = AfterRatifyFact(rows, f)
    PROVE  Next
BY DEF Next, RatifyFact

LEMMA DropFactIsNext ==
    ASSUME NEW f \in Facts, CanDropFact(rows, f), rows' = AfterDropFact(rows, f)
    PROVE  Next
BY DEF Next, DropFact

LEMMA StampTypes ==
    ASSUME CaptureType, NEW S, NEW who \in Policies \cup {"plain", "reviewed", "human"}, Stamp(S, who)
    PROVE  by' \in [Records -> Policies \cup {"plain", "reviewed", "nobody", "human"}]
BY DEF CaptureType, Stamp

LEMMA CarriedTypes ==
    ASSUME CaptureType, NEW r \in Records, NEW graph
    PROVE  Carried(r, graph) \in Routes
BY RouteTypes DEF CaptureType, Carried

(* The steps of a human and of sync. *)
LEMMA HumanSteps ==
    ASSUME TypeOK, CaptureType, Human
    PROVE  CaptureType' /\ [Next]_rows
<1>s. setting.ids \in SUBSET Records /\ setting.ways \subseteq Routes
  BY SettingTypes DEF CaptureType
<1>r. rows \in [Records -> Row] /\ Decisions \subseteq Records /\ Facts \subseteq Records
  BY DEF TypeOK, Records
<1>1. ASSUME NEW d \in Decisions, Accept(d)
      PROVE  CaptureType' /\ [Next]_rows
  BY <1>1, RatifyIsNext, StampTypes DEF Accept, Called, CaptureType
<1>2. ASSUME NEW d \in Decisions, Reject(d)
      PROVE  CaptureType' /\ [Next]_rows
  BY <1>2, DropIsNext DEF Reject, Called, CaptureType
<1>3. ASSUME NEW f \in Facts, AcceptFact(f)
      PROVE  CaptureType' /\ [Next]_rows
  BY <1>3, RatifyFactIsNext, StampTypes DEF AcceptFact, Called, CaptureType
<1>4. ASSUME NEW f \in Facts, RejectFact(f)
      PROVE  CaptureType' /\ [Next]_rows
  BY <1>4, DropFactIsNext DEF RejectFact, Called, CaptureType
<1>5. ASSUME NEW f \in Facts \cap setting.ids, NEW old \in Facts \cup {None},
             NEW S \in SUBSET (Decisions \cap setting.ids), NEW anchored \in BOOLEAN,
             NEW way \in setting.ways, DirectFact(f, old, S, anchored, way)
      PROVE  CaptureType' /\ [Next]_rows
  <2> DEFINE row == [status |-> "accepted", supersedes |-> old, supports |-> S]
             given == IF anchored THEN way ELSE IF old = None THEN "none" ELSE route[old]
  <2>1. /\ CanAdd(rows, f, row) /\ rows' = AfterAdd(rows, f, row)
        /\ route' = [route EXCEPT ![f] = given]
    BY <1>5 DEF DirectFact
  <2>2. row \in NewFact
    BY <1>r DEF NewFact
  <2>3. given \in Routes
    BY <1>s, <1>r, RouteTypes DEF CaptureType
  <2> HIDE DEF row, given
  <2>4. Next
    BY <2>1, <2>2 DEF Next, AddFact
  <2>5. route' \in [Records -> Routes]
    BY <2>1, <2>3 DEF CaptureType
  <2> QED BY <1>5, <2>4, <2>5 DEF DirectFact, Called, CaptureType
<1>6. ASSUME NEW r \in Records, NEW way \in setting.ways, AddAnchors(r, way)
      PROVE  CaptureType' /\ [Next]_rows
  <2>1. route' \in [Records -> Routes]
    BY <1>6, <1>s, RouteTypes DEF AddAnchors, CaptureType
  <2> QED BY <1>6, <2>1 DEF AddAnchors, Called, CaptureType
<1>7. ASSUME NEW r \in Records, NEW way \in setting.ways, Rebind(r, way)
      PROVE  CaptureType' /\ [Next]_rows
  BY <1>7, <1>s DEF Rebind, Called, CaptureType
<1>8. ASSUME NEW d \in Decisions, NEW kept \in Decisions \cup {None}, NEW graph \in BOOLEAN,
             RetireDecision(d, kept, graph)
      PROVE  CaptureType' /\ [Next]_rows
  <2>1. Next
    BY <1>8 DEF RetireDecision, Next, Retire
  <2>2. route' \in [Records -> Routes]
    <3>1. CASE kept = None
      BY <1>8, <3>1 DEF RetireDecision, CaptureType
    <3>2. CASE kept # None
      <4> DEFINE source == IF Gives(d, graph) THEN d ELSE kept
      <4>1. /\ d \in Records /\ kept \in Records /\ source \in Records
            /\ \A r \in Records : route[r] \in Routes
        BY <3>2, <1>r DEF CaptureType
      <4>2. route' = [r \in Records |->
                         IF r = kept THEN Best(route[r], Carried(d, graph))
                         ELSE IF r \in Stranded(d, graph) THEN Best(route[r], Carried(source, graph))
                         ELSE route[r]]
        BY <1>8, <3>2 DEF RetireDecision, Carry
      <4> HIDE DEF source
      <4>3. Carried(d, graph) \in Routes /\ Carried(source, graph) \in Routes
        BY <4>1, CarriedTypes
      <4> QED BY <4>1, <4>2, <4>3, RouteTypes
    <3> QED BY <3>1, <3>2
  <2> QED BY <1>8, <2>1, <2>2 DEF RetireDecision, Called, CaptureType
<1> QED BY <1>1, <1>2, <1>3, <1>4, <1>5, <1>6, <1>7, <1>8 DEF Human

LEMMA CaptureSteps ==
    ASSUME TypeOK, CaptureType, CNext
    PROVE  CaptureType' /\ [Next]_rows
<1>1. CASE Anyone
  BY <1>1 DEF Anyone, Internal, CaptureType
<1> QED BY <1>1, HumanSteps, AgentSteps DEF CNext

-----------------------------------------------------------------------------
(* Imports. *)

LEMMA OldestThere ==
    ASSUME NEW t, NEW S \in SUBSET Decisions, S # {}, \A d \in S : t[d].nth \in Nat
    PROVE  (CHOOSE d \in S : \A e \in S : t[d].nth <= t[e].nth) \in S
<1> DEFINE N == {t[d].nth : d \in S}
<1>2. N \in SUBSET Nat /\ N # {}
  OBVIOUS
<1>3. PICK n \in N : \A m \in N : ~(<<m, n>> \in OpToRel(<, Nat))
  BY <1>2, NatLessThanWellFounded, WFMin
<1>4. PICK d \in S : t[d].nth = n
  OBVIOUS
<1>5. \A e \in S : t[d].nth <= t[e].nth
  <2> SUFFICES ASSUME NEW e \in S PROVE t[d].nth <= t[e].nth
    OBVIOUS
  <2>1. t[e].nth \in N /\ t[e].nth \in Nat /\ n \in Nat
    BY <1>2
  <2>2. ~(t[e].nth < n)
    BY <1>3, <2>1 DEF OpToRel
  <2> QED BY <1>4, <2>1, <2>2
<1> QED BY <1>5

LEMMA OldestIsOne ==
    ASSUME DocType, NEW S \in SUBSET Decisions
    PROVE  IF S = {} THEN Oldest(S) = None ELSE Oldest(S) \in S
<1>1. \A d \in S : text[d].nth \in Nat
  BY DEF DocType
<1> QED BY <1>1, OldestThere DEF Oldest

LEMMA HoldingTypes ==
    \A ref, status : Existing(ref) \in SUBSET Decisions /\ Holding(ref, status) \in SUBSET Decisions
                     /\ Supersedable(ref) \in SUBSET Decisions
BY DEF Existing, Holding, Supersedable

LEMMA MatchIsThere ==
    ASSUME DocType, NEW req
    PROVE  PreferredMatch(req) = None \/ PreferredMatch(req) \in Existing(req.ref)
<1> DEFINE matches == {d \in Existing(req.ref) : text[d].text = req.text}
           S == IF matches \cap Supersedable(req.ref) # {} THEN matches \cap Supersedable(req.ref)
                ELSE matches
<1>1. PreferredMatch(req) = Oldest(S)
  BY DEF PreferredMatch
<1>2. S \in SUBSET Existing(req.ref) /\ S \in SUBSET Decisions
  BY HoldingTypes
<1> HIDE DEF S
<1> QED BY <1>1, <1>2, OldestIsOne

(* What is to be done about a document names records of that document.        *)
LEMMA DispositionTypes ==
    ASSUME DocType, NEW req \in Req
    PROVE  LET disp == Disposition(req) IN
           /\ disp \in Disp
           /\ disp.action \in {"existing", "unanchorable", "pending", "written", "superseded"}
           /\ disp.action = "existing" => disp.match \in Existing(req.ref)
           /\ disp.action \in {"written", "superseded"} =>
                 /\ disp.pred = Oldest(Holding(req.ref, "accepted"))
                 /\ disp.drop = Oldest(Holding(req.ref, "proposed"))
<1> DEFINE match == PreferredMatch(req)
           anc == Oldest(Holding(req.ref, "accepted"))
           pend == Oldest(Holding(req.ref, "proposed"))
           donor == Donor(req, match)
           given == IF req.anchored THEN None ELSE donor
           act == IF Supersedable(req.ref) = {} THEN "written" ELSE "superseded"
<1>1. match = None \/ match \in Existing(req.ref)
  BY MatchIsThere
<1>2. anc \in Maybe(Decisions) /\ pend \in Maybe(Decisions)
  BY OldestIsOne, HoldingTypes DEF Maybe
<1>3. donor \in Maybe(Decisions)
  <2>1. Oldest(Supersedable(req.ref)) \in Maybe(Decisions)
    BY OldestIsOne, HoldingTypes DEF Maybe
  <2>2. match \in Maybe(Decisions)
    BY <1>1, HoldingTypes DEF Maybe
  <2> HIDE DEF match
  <2> QED BY <2>1, <2>2 DEF Donor, Maybe
<1>4. given \in Maybe(Decisions) /\ act \in {"written", "superseded"}
  BY <1>3 DEF Maybe
<1>5. \/ match # None /\ Disposition(req) = [Refused("existing") EXCEPT !.match = match]
      \/ Disposition(req) = Refused("unanchorable")
      \/ Disposition(req) = Refused("pending")
      \/ Disposition(req) = [action |-> act, match |-> match, pred |-> anc, drop |-> pend,
                             donor |-> given]
  BY DEF Disposition, Classify
<1>6. match \in Maybe(Decisions)
  BY <1>1, HoldingTypes DEF Maybe
<1> HIDE DEF match, anc, pend, donor, given, act
<1>7. CASE match # None /\ Disposition(req) = [Refused("existing") EXCEPT !.match = match]
  BY <1>1, <1>6, <1>7 DEF Refused, Disp, Maybe
<1>8. CASE Disposition(req) = Refused("unanchorable") \/ Disposition(req) = Refused("pending")
  BY <1>8 DEF Refused, Disp, Maybe
<1>9. CASE Disposition(req) = [action |-> act, match |-> match, pred |-> anc, drop |-> pend,
                               donor |-> given]
  BY <1>9, <1>2, <1>4, <1>6 DEF Disp, anc, pend
<1> QED BY <1>5, <1>7, <1>8, <1>9

LEMMA MoveTypes ==
    ASSUME DocType, NEW a \in Agents, NEW i \in Import, ImportFits(i), Move(a, i)
    PROVE  imp' \in [Agents -> Import] /\ \A b \in Agents : ImportFits(imp'[b])
<1>1. \A b \in Agents : LET calmless == [imp[b] EXCEPT !.calm = FALSE] IN
                        calmless \in Import /\ ImportFits(calmless)
  BY DEF DocType, Import, ImportFits
<1> QED BY <1>1 DEF Move

LEMMA DisturbTypes ==
    ASSUME DocType, Disturb
    PROVE  imp' \in [Agents -> Import] /\ \A b \in Agents : ImportFits(imp'[b])
<1>1. \A b \in Agents : LET calmless == [imp[b] EXCEPT !.calm = FALSE] IN
                        calmless \in Import /\ ImportFits(calmless)
  BY DEF DocType, Import, ImportFits
<1> QED BY <1>1 DEF Disturb

LEMMA NoImportTypes ==
    /\ NoImport \in Import /\ ImportFits(NoImport) /\ NoImport.pc = "idle" /\ NoImport.d = None
    /\ \A a \in Agents, action \in {"none", "existing", "unanchorable", "pending", "written", "superseded"} :
          imp[a] \in Import => Over(a, action) \in Import /\ ImportFits(Over(a, action))
                               /\ Over(a, action).pc = "idle" /\ Over(a, action).d = None
<1>1. \A x \in {"none", "existing", "unanchorable", "pending", "written", "superseded"} : Refused(x) \in Disp
  BY DEF Refused, Disp, Maybe
<1>2. NoRequest \in Req
  BY DEF NoRequest, Req, Maybe
<1>3. NoImport \in Import /\ ImportFits(NoImport) /\ NoImport.pc = "idle" /\ NoImport.d = None
  BY <1>1, <1>2 DEF NoImport, Import, ImportFits, Kinds, Maybe
<1>4. ASSUME NEW a \in Agents, imp[a] \in Import,
             NEW action \in {"none", "existing", "unanchorable", "pending", "written", "superseded"}
      PROVE  Over(a, action) \in Import /\ ImportFits(Over(a, action))
             /\ Over(a, action).pc = "idle" /\ Over(a, action).d = None
  <2> DEFINE over == [NoImport EXCEPT !.mode = "reviewed", !.disp = Refused(action), !.calm = imp[a].calm]
  <2>1. over \in Import /\ over.pc = "idle" /\ over.d = None
    BY <1>1, <1>3, <1>4 DEF Import
  <2>2. ImportFits(over)
    BY <2>1 DEF ImportFits
  <2>3. Over(a, action) = NoImport \/ Over(a, action) = over
    BY DEF Over
  <2> QED BY <1>3, <2>1, <2>2, <2>3
<1> QED BY <1>3, <1>4

(* The steps of one import, whoever asked for it. *)
LEMMA ImportSteps ==
    ASSUME TypeOK, CaptureType, DocType, NEW a \in Agents, ImportStep(a) \/ StopImport(a)
    PROVE  CaptureType' /\ DocType' /\ [Next]_rows
<1> DEFINE i == imp[a]
           disp == Disposition(i.req)
<1>i. i \in Import /\ ImportFits(i) /\ i.req \in Req /\ i.d \in Maybe(Decisions)
  BY DEF DocType, Import
<1>o. \A act \in {"existing", "unanchorable", "pending", "written", "superseded", "none"} :
          Over(a, act) \in Import /\ ImportFits(Over(a, act))
  BY <1>i, NoImportTypes
<1>r. rows \in [Records -> Row] /\ Decisions \subseteq Records /\ Facts \subseteq Records
  BY DEF TypeOK, Records
<1>1. ASSUME ApplyDoc(a)
      PROVE  CaptureType' /\ DocType' /\ [Next]_rows
  <2>1. /\ disp \in Disp
        /\ disp.action \in {"existing", "unanchorable", "pending", "written", "superseded"}
        /\ disp.action = "existing" => disp.match \in Decisions
    BY <1>i, DispositionTypes, HoldingTypes
  <2>2. i.pc = "apply" /\ i.req.ref # None /\ i.req.as # "none"
    BY <1>1, <1>i DEF ApplyDoc, Importing, ImportFits
  <2>3. PICK new : /\ Move(a, new)
                   /\ \/ /\ disp.action = "existing"
                         /\ new = [i EXCEPT !.pc = IF ToSettle(i.req, disp.match) THEN "settle" ELSE "bind",
                                            !.disp = disp, !.d = disp.match]
                      \/ new = [i EXCEPT !.pc = IF disp.drop = None THEN "add" ELSE "drop", !.disp = disp]
                      \/ new = Over(a, disp.action)
    BY <1>1, <2>1 DEF ApplyDoc
  <2> HIDE DEF disp
  <2>4. new \in Import /\ ImportFits(new)
    <3>1. CASE /\ disp.action = "existing"
               /\ new = [i EXCEPT !.pc = IF ToSettle(i.req, disp.match) THEN "settle" ELSE "bind",
                                  !.disp = disp, !.d = disp.match]
      <4>1. disp.match \in Maybe(Decisions) /\ disp.match # None
        BY <2>1, <3>1, RecordIds DEF Maybe
      <4>2. new \in Import
        BY <4>1, <2>1, <3>1, <1>i DEF Import
      <4>3. new.pc \in {"settle", "bind"} /\ new.d = disp.match /\ new.req = i.req
        BY <3>1, <1>i DEF Import
      <4> QED BY <4>1, <4>2, <4>3, <2>2 DEF ImportFits
    <3>2. CASE new = [i EXCEPT !.pc = IF disp.drop = None THEN "add" ELSE "drop", !.disp = disp]
      <4>1. new \in Import
        BY <2>1, <3>2, <1>i DEF Import
      <4>2. new.pc = (IF disp.drop = None THEN "add" ELSE "drop") /\ new.disp = disp /\ new.req = i.req
        BY <3>2, <1>i DEF Import
      <4> QED BY <4>1, <4>2, <2>2 DEF ImportFits
    <3> QED BY <3>1, <3>2, <2>1, <2>3, <1>o
  <2>5. imp' \in [Agents -> Import] /\ \A b \in Agents : ImportFits(imp'[b])
    BY <2>3, <2>4, MoveTypes
  <2> QED BY <1>1, <2>5 DEF ApplyDoc, Others, CaptureType, DocType
<1>2. ASSUME SettleDoc(a)
      PROVE  CaptureType' /\ DocType' /\ [Next]_rows
  <2> DEFINE new == [i EXCEPT !.pc = "bind"]
  <2>1. i.pc = "settle" /\ i.d \in Decisions
    BY <1>2, <1>i DEF SettleDoc, Importing, ImportFits, Maybe
  <2>2. new \in Import /\ ImportFits(new) /\ Move(a, new)
    BY <1>2, <2>1, <1>i DEF SettleDoc, Import, ImportFits
  <2> HIDE DEF new
  <2>3. Next
    BY <1>2, <2>1, RatifyIsNext DEF SettleDoc
  <2>4. CaptureType'
    BY <1>2, StampTypes DEF SettleDoc, Others, CaptureType
  <2> QED BY <1>2, <2>2, <2>3, <2>4, MoveTypes DEF SettleDoc, DocType
<1>3. ASSUME DropPending(a)
      PROVE  CaptureType' /\ DocType' /\ [Next]_rows
  <2> DEFINE new == [i EXCEPT !.pc = "add"]
  <2>1. i.pc = "drop" /\ i.disp.drop \in Decisions
    BY <1>3, <1>i DEF DropPending, Importing, ImportFits, Import, Disp, Maybe
  <2>2. new \in Import /\ ImportFits(new) /\ Move(a, new)
    BY <1>3, <2>1, <1>i DEF DropPending, Import, ImportFits
  <2> HIDE DEF new
  <2>3. Next
    BY <1>3, <2>1, DropIsNext DEF DropPending
  <2> QED BY <1>3, <2>2, <2>3, MoveTypes DEF DropPending, Others, CaptureType, DocType
<1>4. ASSUME AddDoc(a)
      PROVE  CaptureType' /\ DocType' /\ [Next]_rows
  <2> DEFINE left == {x \in Decisions \cap setting.ids : rows[x].status = "unwritten"}
             d == CHOOSE x \in left : TRUE
             row == [status |-> i.req.as, supersedes |-> i.disp.pred, supports |-> {}]
             new == [i EXCEPT !.pc = "bind", !.d = d]
             named == {e \in Decisions : text[e].of # None}
             entry == [of |-> i.req.ref, text |-> i.req.text, nth |-> 1 + Cardinality(named)]
  <2>0. left # {}
    BY <1>4 DEF AddDoc
  <2>d. d \in Decisions /\ d # None
    BY <2>0, RecordIds
  <2>1. /\ CanAdd(rows, d, row) /\ rows' = AfterAdd(rows, d, row) /\ i.pc = "add"
        /\ Move(a, new) /\ text' = [text EXCEPT ![d] = entry]
    BY <1>4 DEF AddDoc, Importing
  <2> HIDE DEF left, d
  <2>2. row \in NewDecision
    BY <2>1, <1>i DEF NewDecision, Req, ImportFits, Import, Disp, Maybe, Records
  <2>3. new \in Import /\ ImportFits(new)
    BY <2>1, <2>d, <1>i DEF Import, ImportFits, Maybe
  <2> HIDE DEF new, row
  <2>4. Next
    BY <2>1, <2>2, <2>d DEF Next, AddDecision
  <2>5. entry \in [of : Maybe(Docs), text : Maybe(Texts), nth : Nat]
    BY <1>i, FS_CardinalityType DEF DocType, Req
  <2> HIDE DEF entry
  <2>6. text' \in [Decisions -> [of : Maybe(Docs), text : Maybe(Texts), nth : Nat]]
    BY <2>1, <2>5 DEF DocType
  <2>7. IsFiniteSet({e \in Decisions : text'[e].of # None})
    <3>1. {e \in Decisions : text'[e].of # None} \subseteq named \cup {d}
      BY <2>1, <2>5 DEF DocType
    <3>2. IsFiniteSet(named \cup {d})
      BY FS_AddElement DEF DocType
    <3> QED BY <3>1, <3>2, FS_Subset
  <2>8. imp' \in [Agents -> Import] /\ \A b \in Agents : ImportFits(imp'[b])
    BY <2>1, <2>3, MoveTypes
  <2> QED BY <1>4, <2>4, <2>6, <2>7, <2>8 DEF AddDoc, Others, CaptureType, DocType
<1>5. ASSUME NEW way \in setting.ways \cup {"none"}, BindDoc(a, way)
      PROVE  CaptureType' /\ DocType' /\ [Next]_rows
  <2> DEFINE donor == i.disp.donor
             given == IF donor = None THEN way ELSE Best(way, route[donor])
             new == IF ToJudge(i) THEN [i EXCEPT !.pc = "judge"] ELSE Over(a, i.disp.action)
  <2>1. i.pc = "bind" /\ i.d # None /\ i.disp \in Disp /\ donor \in Maybe(Decisions)
    BY <1>5, <1>i DEF BindDoc, Importing, ImportFits, Import, Disp
  <2>2. route' = [route EXCEPT ![i.d] = Best(@, given)] /\ Move(a, new)
    BY <1>5 DEF BindDoc
  <2>3. given \in Routes
    BY <2>1, <1>r, SettingTypes, RouteTypes DEF CaptureType, Maybe
  <2>4. route' \in [Records -> Routes]
    <3> HIDE DEF given
    <3>1. i.d \in Records
      BY <2>1, <1>i, <1>r DEF Maybe
    <3> QED BY <3>1, <2>2, <2>3, RouteTypes DEF CaptureType
  <2>5. new \in Import /\ ImportFits(new)
    <3>1. [i EXCEPT !.pc = "judge"] \in Import /\ ImportFits([i EXCEPT !.pc = "judge"])
      BY <2>1, <1>i DEF Import, ImportFits
    <3>2. i.disp.action \in {"existing", "unanchorable", "pending", "written", "superseded", "none"}
      BY <2>1 DEF Disp
    <3> QED BY <3>1, <3>2, <1>o
  <2> HIDE DEF new
  <2> QED BY <1>5, <2>2, <2>4, <2>5, MoveTypes DEF BindDoc, Others, CaptureType, DocType
<1>6. ASSUME JudgeDoc(a)
      PROVE  CaptureType' /\ DocType' /\ [Next]_rows
  <2> DEFINE new == [i EXCEPT !.pc = "ratify"]
  <2>1. new \in Import /\ ImportFits(new)
    BY <1>6, <1>i DEF JudgeDoc, Importing, Import, ImportFits
  <2>2. Move(a, new) \/ Move(a, NoImport)
    BY <1>6 DEF JudgeDoc
  <2> HIDE DEF new
  <2> QED BY <1>6, <2>1, <2>2, MoveTypes, NoImportTypes DEF JudgeDoc, Others, CaptureType, DocType
<1>7. ASSUME RatifyDoc(a)
      PROVE  CaptureType' /\ DocType' /\ [Next]_rows
  <2>1. i.d \in Decisions /\ i.mode \in Policies \cup {"plain", "reviewed", "human"}
    BY <1>7, <1>i DEF RatifyDoc, Importing, ImportFits, Import, Maybe
  <2>2. Next
    BY <1>7, <2>1, RatifyIsNext DEF RatifyDoc
  <2>3. by' \in [Records -> Policies \cup {"plain", "reviewed", "nobody", "human"}]
    BY <1>7, <2>1, StampTypes DEF RatifyDoc
  <2> QED BY <1>7, <2>2, <2>3, MoveTypes, NoImportTypes DEF RatifyDoc, Others, CaptureType, DocType
<1>8. ASSUME StopImport(a)
      PROVE  CaptureType' /\ DocType' /\ [Next]_rows
  BY <1>8, MoveTypes, NoImportTypes DEF StopImport, Others, CaptureType, DocType
<1> QED BY <1>1, <1>2, <1>3, <1>4, <1>5, <1>6, <1>7, <1>8 DEF ImportStep

LEMMA DocSteps ==
    ASSUME TypeOK, CaptureType, DocType, DNext
    PROVE  CaptureType' /\ DocType' /\ [Next]_rows
<1>s. setting.docs \subseteq Docs /\ \A a \in Agents : setting.modes[a] \subseteq Policies \cup {"plain"}
  BY SettingTypes DEF CaptureType
<1>1. CASE CNext /\ Disturb /\ UNCHANGED <<doc, text>>
  BY <1>1, CaptureSteps, DisturbTypes DEF DocType
<1>2. ASSUME NEW ref \in setting.docs, NEW new \in Doc, EditDoc(ref, new)
      PROVE  CaptureType' /\ DocType' /\ [Next]_rows
  <2>1. doc' \in [Docs -> Doc]
    BY <1>2 DEF EditDoc, DocType
  <2> QED BY <1>2, <2>1, DisturbTypes DEF EditDoc, Called, CaptureType, DocType
<1>3. ASSUME NEW a \in Agents, ImportDocs(a)
      PROVE  CaptureType' /\ DocType' /\ [Next]_rows
  <2>1. PICK ref \in setting.docs, mode \in setting.modes[a], kind \in Kinds : ReadDoc(a, ref, mode, kind)
    BY <1>3 DEF ImportDocs
  <2> DEFINE req == Request(ref, doc[ref], WrittenAs(doc[ref], mode), FALSE)
             draft == doc[ref].status = "draft"
             new == [NoImport EXCEPT !.pc = "apply", !.req = req, !.mode = mode, !.kind = kind,
                                     !.draft = draft, !.calm = TRUE]
  <2>2. Move(a, new)
    BY <2>1 DEF ReadDoc
  <2>3. WrittenAs(doc[ref], mode) \in {"accepted", "proposed", "rejected"}
    BY DEF WrittenAs
  <2>4. doc[ref] \in Doc /\ ref \in Docs /\ mode \in Policies \cup {"plain", "reviewed"}
    BY <1>s DEF DocType
  <2>5. req \in Req /\ req.ref # None /\ req.as # "none"
    <3> DEFINE as == WrittenAs(doc[ref], mode)
    <3>1. as \in {"accepted", "proposed", "rejected"} /\ as # "none" /\ FALSE \in BOOLEAN
      BY <2>3
    <3>2. req = [ref |-> ref, text |-> doc[ref].text, as |-> as, anchored |-> doc[ref].anchored,
                 ratifies |-> FALSE]
      BY DEF Request
    <3> HIDE DEF req, as
    <3>3. req \in Req
      BY <2>4, <3>1, <3>2 DEF Req, Doc, Maybe
    <3> QED BY <2>4, <3>1, <3>2, <3>3, DocAssumption
  <2>7. draft \in BOOLEAN
    OBVIOUS
  <2> HIDE DEF req, draft
  <2>6. new \in Import
    BY <2>4, <2>5, <2>7, NoImportTypes DEF Import
  <2>8. ImportFits(new)
    BY <2>5, NoImportTypes DEF Import, ImportFits
  <2> HIDE DEF new
  <2> QED BY <2>1, <2>2, <2>6, <2>8, MoveTypes DEF ReadDoc, Others, CaptureType, DocType
<1> QED BY <1>1, <1>2, <1>3, ImportSteps DEF DNext

LEMMA SameStamp ==
    ASSUME CaptureType, DocType, UNCHANGED <<route, missing, job, setting, doc, text>>,
           by' \in [Records -> Policies \cup {"plain", "reviewed", "nobody", "human"}],
           imp' \in [Agents -> Import] /\ \A b \in Agents : ImportFits(imp'[b])
    PROVE  CaptureType' /\ DocType'
BY DEF CaptureType, DocType

LEMMA ReviewSteps ==
    ASSUME TypeOK, CaptureType, DocType, ReviewType, RNext
    PROVE  CaptureType' /\ DocType' /\ ReviewType' /\ [Next]_rows
<1>r. rows \in [Records -> Row] /\ Decisions \subseteq Records /\ Facts \subseteq Records
      /\ Records = Decisions \cup Facts
  BY DEF TypeOK, Records
<1>s. setting.ids \in SUBSET Records
  BY SettingTypes DEF CaptureType
<1>b. by \in [Records -> Policies \cup {"plain", "reviewed", "nobody", "human"}]
      /\ imp \in [Agents -> Import] /\ \A b \in Agents : ImportFits(imp[b])
  BY DEF CaptureType, DocType
<1>n. NoReview \in [pc : {"idle", "list", "accept"}, all : BOOLEAN, seen : SUBSET Records,
                    todo : SUBSET Records, drops : SUBSET Records, calm : BOOLEAN]
  BY DEF NoReview
<1>1. ASSUME NEW S \in SUBSET (Records \cap setting.ids), NEW D \in SUBSET (Records \cap setting.ids),
             BeginGiven(S, D)
      PROVE  CaptureType' /\ DocType' /\ ReviewType' /\ [Next]_rows
  <2>1. ReviewType'
    BY <1>1, <1>n DEF BeginGiven, ReviewType
  <2>2. CaptureType' /\ DocType'
    BY <1>1, <1>b, SameStamp, DisturbTypes DEF BeginGiven, Called, StoreKept
  <2> QED BY <1>1, <2>1, <2>2 DEF BeginGiven, StoreKept
<1>2. ASSUME BeginAll
      PROVE  CaptureType' /\ DocType' /\ ReviewType' /\ [Next]_rows
  <2>1. ReviewType'
    BY <1>2, <1>n, <1>r DEF BeginAll, ReviewType, Proposed
  <2>2. CaptureType' /\ DocType'
    BY <1>2, <1>b, SameStamp, DisturbTypes DEF BeginAll, Called, StoreKept
  <2> QED BY <1>2, <2>1, <2>2 DEF BeginAll, StoreKept
<1>3. ASSUME ListFacts
      PROVE  CaptureType' /\ DocType' /\ ReviewType' /\ [Next]_rows
  <2> DEFINE all == review.seen \cup (Proposed(Facts) \ Nested(review.seen))
  <2>1. all \in SUBSET Records /\ review' = [review EXCEPT !.pc = "accept", !.seen = all, !.todo = all]
    BY <1>3, <1>r DEF ListFacts, ReviewType, Proposed
  <2> HIDE DEF all
  <2>2. ReviewType'
    BY <2>1 DEF ReviewType
  <2>3. CaptureType' /\ DocType'
    BY <1>3, <1>b, SameStamp, DisturbTypes DEF ListFacts, RestKept, StoreKept
  <2> QED BY <1>3, <2>2, <2>3 DEF ListFacts, StoreKept
<1>4. ASSUME NEW r \in Records \cap setting.ids, AcceptNext(r)
      PROVE  CaptureType' /\ DocType' /\ ReviewType' /\ [Next]_rows
  <2> DEFINE accepted == IF r \in Decisions THEN {r} \cup Evidence(rows, r) ELSE {r}
             fit == IF r \in Decisions THEN CanRatify(rows, r) ELSE CanRatifyFact(rows, r)
  <2>1. CASE fit
    <3>1. /\ rows' = (IF r \in Decisions THEN AfterRatify(rows, r) ELSE AfterRatifyFact(rows, r))
          /\ Stamp(accepted, "human") /\ review' = [review EXCEPT !.todo = @ \ accepted]
      BY <1>4, <2>1 DEF AcceptNext
    <3>2. ReviewType'
      BY <3>1 DEF ReviewType
    <3>3. Next
      BY <2>1, <3>1, <1>r, RatifyIsNext, RatifyFactIsNext
    <3>4. CaptureType' /\ DocType'
      BY <1>4, <3>1, <1>b, SameStamp, StampTypes, DisturbTypes DEF AcceptNext, RestKept
    <3> QED BY <3>2, <3>3, <3>4
  <2>2. CASE ~fit
    <3>1. StoreKept /\ review' = [review EXCEPT !.todo = @ \ {r}]
      BY <1>4, <2>2 DEF AcceptNext
    <3>2. ReviewType'
      BY <3>1 DEF ReviewType
    <3>3. CaptureType' /\ DocType'
      BY <1>4, <3>1, <1>b, SameStamp, DisturbTypes DEF AcceptNext, RestKept, StoreKept
    <3> QED BY <3>1, <3>2, <3>3 DEF StoreKept
  <2> QED BY <2>1, <2>2
<1>5. ASSUME NEW r \in Records \cap setting.ids, DropNext(r)
      PROVE  CaptureType' /\ DocType' /\ ReviewType' /\ [Next]_rows
  <2>1. ReviewType'
    BY <1>5 DEF DropNext, ReviewType
  <2>2. CaptureType' /\ DocType'
    BY <1>5, <1>b, SameStamp, DisturbTypes DEF DropNext, RestKept
  <2>3. rows' = rows \/ Next
    BY <1>5, <1>r, DropIsNext, DropFactIsNext DEF DropNext, CanDrop, CanDropFact
  <2> QED BY <2>1, <2>2, <2>3
<1>6. ASSUME FinishReview \/ ReviewDies
      PROVE  CaptureType' /\ DocType' /\ ReviewType' /\ [Next]_rows
  <2>1. ReviewType'
    BY <1>6, <1>n DEF FinishReview, ReviewDies, ReviewType
  <2>2. CaptureType' /\ DocType'
    BY <1>6, <1>b, SameStamp DEF FinishReview, ReviewDies, RestKept, StoreKept
  <2> QED BY <1>6, <2>1, <2>2 DEF FinishReview, ReviewDies, StoreKept
<1>7. CASE DNext /\ review' = Interrupted
  BY <1>7, DocSteps DEF ReviewType, Interrupted
<1> QED BY <1>1, <1>2, <1>3, <1>4, <1>5, <1>6, <1>7 DEF RNext, Reviewer

LEMMA SettingIsKept ==
    /\ \A a \in Agents : ImportStep(a) \/ StopImport(a) => setting' = setting
    /\ DNext => setting' = setting
    /\ RNext => setting' = setting
<1>1. ASSUME NEW a \in Agents, Agent(a) PROVE setting' = setting
  <2>1. \A policy, kind, d, pred, n : Propose(a, policy, kind, d, pred, n) => Internal
    BY DEF Propose
  <2>2. \A way : Bind(a, way) \/ BindFact(a, way) => Internal
    BY DEF Bind, BindFact
  <2>3. Inherit(a) \/ Duplicate(a) \/ FactFails(a) => Internal
    BY DEF Inherit, Duplicate, FactFails
  <2>4. \A policy : ProposeFact(a, policy) => Internal
    BY DEF ProposeFact
  <2>5. \A anchored, S : CheckFact(a, anchored, S) => Internal
    BY DEF CheckFact
  <2>6. \A f : AddFactOf(a, f) => Internal
    BY DEF AddFactOf
  <2>7. Judge(a) \/ JudgeFact(a) \/ AutoRatify(a) \/ AutoRatifyFact(a) \/ Stop(a) => Internal
    BY DEF Judge, JudgeFact, AutoRatify, AutoRatifyFact, Stop
  <2>8. Internal
    BY <1>1, <2>1, <2>2, <2>3, <2>4, <2>5, <2>6, <2>7 DEF Agent
  <2> QED BY <2>8 DEF Internal
<1>2. Human => setting' = setting
  BY DEF Human, Accept, Reject, AcceptFact, RejectFact, DirectFact, AddAnchors, Rebind,
         RetireDecision, Called
<1>3. CNext => setting' = setting
  BY <1>1, <1>2 DEF CNext, Anyone, Internal
<1>4. \A a \in Agents : ImportStep(a) \/ StopImport(a) => setting' = setting
  BY DEF ImportStep, ApplyDoc, SettleDoc, DropPending, AddDoc, JudgeDoc, RatifyDoc, BindDoc,
         StopImport, Others
<1>5. DNext => setting' = setting
  BY <1>3, <1>4 DEF DNext, EditDoc, ImportDocs, ReadDoc, Others, Called
<1>6. Reviewer => setting' = setting
  BY DEF Reviewer, BeginGiven, BeginAll, ListFacts, FinishReview, ReviewDies, AcceptNext, DropNext,
         RestKept, Called
<1> QED BY <1>4, <1>5, <1>6 DEF RNext

LEMMA StepTypes ==
    ASSUME BootType, setting' = setting, NEW a \in Agents, NEW b, Boot(b), Step(a, b)
    PROVE  BootType'
<1>1. boot' = [x \in Agents |-> IF x = a THEN b ELSE boot[x]]
  BY DEF BootType, Step
<1>2. \A x \in Agents : Boot(boot'[x])
  BY <1>1 DEF BootType
<1>3. \A x : Boot(x) <=> Boot(x)'
  BY DEF Boot, BootShape, InputShape, Documented, Answered
<1> QED BY <1>1, <1>2, <1>3 DEF BootType

LEMMA NoBootFits == Boot(NoBoot) /\ NoBoot.pc = "idle" /\ NoBoot.again = FALSE
<1>1. [ref \in Docs |-> Skip] \in [Docs -> Answers]
  BY DEF Answers
<1>2. InputShape(NoInputs)
  BY DEF NoInputs, InputShape
<1>3. /\ NoBoot.pc = "idle" /\ NoBoot.left = {} /\ NoBoot.again = FALSE
      /\ NoBoot.answers = [ref \in Docs |-> Skip] /\ NoBoot.inputs = NoInputs
  BY DEF NoBoot
<1>4. BootShape(NoBoot)
  BY <1>1 DEF NoBoot, BootShape, Maybe
<1> QED BY <1>2, <1>3, <1>4 DEF Boot

LEMMA PlanFits ==
    ASSUME NEW b, Boot(b), b.pc # "apply", NEW inputs, NEW again \in BOOLEAN, InputShape(inputs), Documented(inputs),
           NEW new, new = [b EXCEPT !.pc = "review", !.inputs = inputs, !.again = again]
    PROVE  Boot(new)
<1>1. /\ new.inputs = inputs /\ new.answers = b.answers /\ new.left = b.left /\ b.left = {}
      /\ BootShape(new)
  BY DEF Boot, BootShape
<1>2. Answered(new) = Answered(b)
  BY <1>1 DEF Answered
<1> QED BY <1>1, <1>2 DEF Boot

(* Every step of every writer is a call of the store of Lifecycle, or none. *)
LEMMA BootSteps ==
    ASSUME TypeOK, CaptureType, DocType, ReviewType, BootType, BNext
    PROVE  CaptureType' /\ DocType' /\ ReviewType' /\ BootType' /\ [Next]_rows
<1> DEFINE Types == CaptureType' /\ DocType' /\ ReviewType'
<1>n. Boot(NoBoot) /\ NoBoot.pc = "idle" /\ NoBoot.again = FALSE
  BY NoBootFits
<1>b. \A a \in Agents : Boot(boot[a])
  BY DEF BootType
<1>f. InputShape(Inputs) /\ Documented(Inputs)
  <2>1. InputShape(Inputs)
    BY DEF Inputs, InputShape
  <2>2. Documented(Inputs)
    BY SettingTypes DEF Inputs, Documented, CaptureType, DocType
  <2> QED BY <2>1, <2>2
<1>k. NothingWritten => Types /\ rows' = rows /\ setting' = setting
  BY DEF NothingWritten, rvars, dvars, cvars, CaptureType, DocType, ReviewType
<1>1. CASE RNext /\ UNCHANGED boot
  <2>1. \A x : Boot(x) <=> Boot(x)'
    BY <1>1, SettingIsKept DEF Boot, BootShape, InputShape, Documented, Answered
  <2> QED BY <1>1, <2>1, ReviewSteps DEF BootType
<1>2. ASSUME NEW a \in Agents, Plan(a)
      PROVE  Types /\ BootType' /\ [Next]_rows
  <2> DEFINE new == [NoBoot EXCEPT !.pc = "review", !.inputs = Inputs]
  <2>1. new = [NoBoot EXCEPT !.pc = "review", !.inputs = Inputs, !.again = FALSE] /\ FALSE \in BOOLEAN
    BY <1>n DEF Boot, BootShape
  <2>2. Step(a, new)
    BY <1>2 DEF Plan
  <2> HIDE DEF new
  <2>3. Boot(new)
    BY <1>f, <1>n, <2>1, PlanFits
  <2>4. BootType' /\ Types /\ rows' = rows
    BY <1>2, <1>k, <2>2, <2>3, StepTypes DEF Plan
  <2> QED BY <2>4
<1>3. ASSUME NEW a \in Agents, NEW answers \in [Docs -> Answers], Answer(a, answers)
      PROVE  Types /\ BootType' /\ [Next]_rows
  <2> DEFINE b == boot[a]
             new == [b EXCEPT !.answers = answers, !.pc = IF b.again THEN "confirm" ELSE "refresh"]
  <2>1. Step(a, NoBoot) \/ Step(a, new)
    BY <1>3 DEF Answer
  <2>2. b.pc = "review" /\ Boot(b)
    BY <1>3, <1>b DEF Answer, Booting
  <2> HIDE DEF b
  <2>3. /\ new.inputs = b.inputs /\ new.left = {} /\ new.pc # "apply" /\ BootShape(new)
    BY <2>2 DEF Boot, BootShape
  <2> HIDE DEF new
  <2>4. Boot(new)
    BY <2>2, <2>3 DEF Boot
  <2>5. BootType' /\ Types /\ rows' = rows
    BY <1>3, <1>k, <1>n, <2>1, <2>4, StepTypes DEF Answer
  <2> QED BY <2>5
<1>4. ASSUME NEW a \in Agents, Refresh(a)
      PROVE  Types /\ BootType' /\ [Next]_rows
  <2> DEFINE b == boot[a]
             old == [b EXCEPT !.pc = "confirm"]
             new == [NoBoot EXCEPT !.pc = "review", !.inputs = Inputs, !.again = TRUE]
  <2>1. Step(a, old) \/ Step(a, new)
    BY <1>4 DEF Refresh
  <2>2. b.pc = "refresh" /\ Boot(b)
    BY <1>4, <1>b DEF Refresh, Booting
  <2> HIDE DEF b
  <2>3. /\ old.inputs = b.inputs /\ old.left = {} /\ old.pc # "apply" /\ BootShape(old)
    BY <2>2 DEF Boot, BootShape
  <2> HIDE DEF old
  <2>4. Boot(old)
    BY <2>2, <2>3 DEF Boot
  <2>5. new = [NoBoot EXCEPT !.pc = "review", !.inputs = Inputs, !.again = TRUE] /\ TRUE \in BOOLEAN
    OBVIOUS
  <2> HIDE DEF new
  <2>6. Boot(new)
    BY <1>f, <1>n, <2>5, PlanFits
  <2>7. BootType' /\ Types /\ rows' = rows
    BY <1>4, <1>k, <2>1, <2>4, <2>6, StepTypes DEF Refresh
  <2> QED BY <2>7
<1>5. ASSUME NEW a \in Agents, Apply(a)
      PROVE  Types /\ BootType' /\ [Next]_rows
  <2> DEFINE b == boot[a]
             inputs == [NoInputs EXCEPT !.doc = Inputs.doc]
             new == [b EXCEPT !.pc = "apply", !.left = Answered(b), !.inputs = inputs]
             begun == [NoImport EXCEPT !.mode = "reviewed", !.calm = TRUE]
  <2>2. b.pc = "confirm" /\ Boot(b)
    BY <1>5, <1>b DEF Apply, Booting
  <2>1. CASE b.inputs # Inputs
    <3>1. BootType' /\ Types /\ rows' = rows
      BY <1>5, <1>k, <1>n, <2>1, StepTypes DEF Apply
    <3> QED BY <3>1
  <2>3. CASE b.inputs = Inputs
    <3>1. /\ Step(a, new) /\ imp' = [imp EXCEPT ![a] = begun]
          /\ UNCHANGED <<cvars, doc, text, review>>
      BY <1>5, <2>3 DEF Apply
    <3>2. InputShape(inputs) /\ Documented(inputs)
      BY <1>f DEF inputs, NoInputs, InputShape, Documented
    <3> HIDE DEF b, inputs
    <3>3. Answered(b) \in SUBSET Docs
      BY DEF Answered
    <3>4. /\ new.inputs = inputs /\ new.left = Answered(b) /\ new.pc = "apply" /\ BootShape(new)
          /\ new.answers = b.answers
      BY <2>2, <3>3 DEF Boot, BootShape
    <3> HIDE DEF new
    <3>5. Answered(new) = Answered(b)
      BY <3>4 DEF Answered
    <3>6. Boot(new)
      BY <3>2, <3>4, <3>5 DEF Boot
    <3>7. begun \in Import /\ ImportFits(begun)
      BY NoImportTypes DEF Import, ImportFits
    <3> HIDE DEF begun
    <3>8. imp' \in [Agents -> Import] /\ \A x \in Agents : ImportFits(imp'[x])
      BY <3>1, <3>7 DEF DocType
    <3>9. rows' = rows /\ setting' = setting
      BY <3>1 DEF cvars
    <3>10. Types
      BY <3>1, <3>8 DEF cvars, CaptureType, DocType, ReviewType
    <3>11. BootType'
      BY <3>1, <3>6, <3>9, StepTypes
    <3> QED BY <3>9, <3>10, <3>11
  <2> QED BY <2>1, <2>3
<1>6. ASSUME NEW a \in Agents, NEW ref \in setting.docs, BeginItem(a, ref)
      PROVE  Types /\ BootType' /\ [Next]_rows
  <2> DEFINE b == boot[a]
             answer == b.answers[ref]
             req == AskFor(ref, answer, b.inputs.doc[ref])
             new == [b EXCEPT !.ref = ref]
             asked == [imp[a] EXCEPT !.pc = "apply", !.req = req]
  <2>1. /\ Step(a, new) /\ imp' = [imp EXCEPT ![a].pc = "apply", ![a].req = req]
        /\ UNCHANGED <<cvars, doc, text, review>>
    BY <1>6 DEF BeginItem
  <2>2. b.pc = "apply" /\ Boot(b) /\ ref \in b.left
    BY <1>6, <1>b DEF BeginItem, Booting
  <2> HIDE DEF b
  <2>3. /\ new.inputs = b.inputs /\ new.left = b.left /\ new.pc = "apply" /\ BootShape(new)
        /\ new.answers = b.answers
    BY <2>2, SettingTypes DEF Boot, BootShape, Maybe, CaptureType
  <2> HIDE DEF new
  <2>4. Answered(new) = Answered(b)
    BY <2>3 DEF Answered
  <2>5. Boot(new)
    BY <2>2, <2>3, <2>4 DEF Boot
  <2>6. ref \in Docs /\ ref # None /\ answer \in [as : {"accepted", "proposed"}, text : Texts]
        /\ b.inputs.doc[ref] \in Doc
    BY <2>2, DocAssumption DEF Boot, BootShape, Answered, Answers, Documented
  <2> HIDE DEF answer
  <2>7. req = [ref |-> ref, text |-> answer.text, as |-> answer.as,
               anchored |-> b.inputs.doc[ref].anchored, ratifies |-> answer.as = "accepted"]
    BY <2>6 DEF AskFor, Request, Doc
  <2> HIDE DEF req
  <2>8. req \in Req /\ req.ref # None /\ req.as # "none"
    BY <2>6, <2>7 DEF Req, Doc, Maybe
  <2>9. asked \in Import /\ ImportFits(asked)
    BY <2>8 DEF DocType, Import, ImportFits
  <2>10. imp' = [imp EXCEPT ![a] = asked]
    BY <2>1 DEF DocType, Import
  <2> HIDE DEF asked
  <2>11. imp' \in [Agents -> Import] /\ \A x \in Agents : ImportFits(imp'[x])
    BY <2>9, <2>10 DEF DocType
  <2>12. rows' = rows /\ setting' = setting
    BY <2>1 DEF cvars
  <2>13. Types
    BY <2>1, <2>11 DEF cvars, CaptureType, DocType, ReviewType
  <2>14. BootType'
    BY <2>1, <2>5, <2>12, StepTypes
  <2> QED BY <2>12, <2>13, <2>14
<1>7. ASSUME NEW a \in Agents, EndItem(a) \/ ItemFails(a)
      PROVE  Types /\ BootType' /\ [Next]_rows
  <2> DEFINE b == boot[a]
  <2>2. b.pc = "apply" /\ Boot(b) /\ b.ref # None
    BY <1>7, <1>b DEF EndItem, ItemFails, Booting
  <2>1. PICK new : /\ Step(a, new)
                   /\ \E left \in SUBSET b.left, un \in {b.unanchored, b.unanchored \cup {b.ref}},
                         failed \in BOOLEAN :
                         new = [b EXCEPT !.ref = None, !.left = left, !.unanchored = un, !.failed = failed]
    <3>1. CASE EndItem(a)
      <4> DEFINE un == IF imp[a].disp.action = "unanchorable" THEN b.unanchored \cup {b.ref}
                       ELSE b.unanchored
                 made == [b EXCEPT !.ref = None, !.left = @ \ {b.ref}, !.unanchored = un]
      <4>1. Step(a, made)
        BY <3>1 DEF EndItem
      <4>2. made = [b EXCEPT !.ref = None, !.left = b.left \ {b.ref}, !.unanchored = un, !.failed = b.failed]
            /\ b.failed \in BOOLEAN
        BY <2>2 DEF Boot, BootShape
      <4>3. b.left \ {b.ref} \in SUBSET b.left /\ un \in {b.unanchored, b.unanchored \cup {b.ref}}
        OBVIOUS
      <4> HIDE DEF made, un
      <4> QED BY <4>1, <4>2, <4>3
    <3>2. CASE ItemFails(a)
      <4> DEFINE made == [b EXCEPT !.ref = None, !.left = {}, !.failed = TRUE]
      <4>1. Step(a, made)
        BY <3>2 DEF ItemFails
      <4>2. made = [b EXCEPT !.ref = None, !.left = {}, !.unanchored = b.unanchored, !.failed = TRUE]
        BY <2>2 DEF Boot, BootShape
      <4>3. {} \in SUBSET b.left /\ TRUE \in BOOLEAN
        OBVIOUS
      <4> HIDE DEF made
      <4> QED BY <4>1, <4>2, <4>3
    <3> QED BY <1>7, <3>1, <3>2
  <2> HIDE DEF b
  <2>3. /\ new.inputs = b.inputs /\ new.left \subseteq b.left /\ new.pc = "apply" /\ BootShape(new)
        /\ new.answers = b.answers
    <3>1. PICK left \in SUBSET b.left, un \in {b.unanchored, b.unanchored \cup {b.ref}}, failed \in BOOLEAN :
              new = [b EXCEPT !.ref = None, !.left = left, !.unanchored = un, !.failed = failed]
      BY <2>1
    <3>2. left \in SUBSET Docs /\ un \in SUBSET Docs /\ None \in Maybe(Docs)
      BY <2>2 DEF Boot, BootShape, Maybe
    <3> QED BY <2>2, <3>1, <3>2 DEF Boot, BootShape
  <2>4. Answered(new) = Answered(b)
    BY <2>3 DEF Answered
  <2>5. Boot(new)
    BY <2>2, <2>3, <2>4 DEF Boot
  <2>6. Types /\ [Next]_rows /\ setting' = setting
    <3>1. CASE EndItem(a)
      BY <1>k, <3>1 DEF EndItem
    <3>2. CASE ItemFails(a)
      <4>1. StopImport(a) /\ review' = Interrupted
        BY <3>2 DEF ItemFails
      <4>2. ReviewType'
        BY <4>1 DEF ReviewType, Interrupted
      <4> QED BY <4>1, <4>2, ImportSteps, SettingIsKept
    <3> QED BY <1>7, <3>1, <3>2
  <2> QED BY <2>1, <2>5, <2>6, StepTypes
<1>8. ASSUME NEW a \in Agents, Report(a) \/ BootDies(a)
      PROVE  Types /\ BootType' /\ [Next]_rows
  <2>1. Step(a, NoBoot) /\ imp' = [imp EXCEPT ![a] = NoImport] /\ UNCHANGED <<cvars, doc, text, review>>
    BY <1>8 DEF Report, BootDies
  <2>2. imp' \in [Agents -> Import] /\ \A x \in Agents : ImportFits(imp'[x])
    BY <2>1, NoImportTypes DEF DocType
  <2>3. rows' = rows /\ setting' = setting
    BY <2>1 DEF cvars
  <2>4. Types
    BY <2>1, <2>2 DEF cvars, CaptureType, DocType, ReviewType
  <2>5. BootType'
    BY <2>1, <1>n, <2>3, StepTypes
  <2> QED BY <2>3, <2>4, <2>5
<1> QED BY <1>1, <1>2, <1>3, <1>4, <1>5, <1>6, <1>7, <1>8 DEF BNext

-----------------------------------------------------------------------------
(* The whole store is that of Lifecycle. *)

WritersType == ChainInv /\ CaptureType /\ DocType /\ ReviewType /\ BootType

LEMMA WritersInit == BInit => WritersType /\ Init
<1> SUFFICES ASSUME BInit PROVE WritersType /\ Init
  OBVIOUS
<1>u. BInit /\ RInit /\ DInit /\ CInit
  BY DEF BInit, RInit, DInit
<1>1. ChainInv /\ Init
  BY <1>u, InitChainInv DEF CInit
<1>2. CaptureType
  <2>1. "none" \in Routes /\ "nobody" \in {"nobody"}
    BY DEF Routes
  <2> QED BY <1>u, <2>1, IdleTypes, CaptureAssumption DEF CInit, CaptureType
<1>3. DocType
  <2>1. \A d \in Decisions : text[d] = [of |-> None, text |-> None, nth |-> 0]
    BY <1>u DEF DInit
  <2>2. {d \in Decisions : text[d].of # None} = {}
    BY <2>1
  <2>3. text \in [Decisions -> [of : Maybe(Docs), text : Maybe(Texts), nth : Nat]]
    BY <1>u DEF DInit, Maybe
  <2>4. doc \in [Docs -> Doc]
    <3>1. (CHOOSE t \in Texts : TRUE) \in Texts
      BY DocAssumption
    <3> QED BY <1>u, <3>1 DEF DInit, Doc
  <2>5. imp \in [Agents -> Import] /\ \A a \in Agents : ImportFits(imp[a])
    BY <1>u, NoImportTypes DEF DInit
  <2> QED BY <2>2, <2>3, <2>4, <2>5, FS_EmptySet DEF DocType
<1>4. ReviewType
  BY <1>u DEF RInit, ReviewType, NoReview
<1>5. BootType
  BY <1>u, NoBootFits DEF BInit, BootType
<1> QED BY <1>1, <1>2, <1>3, <1>4, <1>5 DEF WritersType

LEMMA WritersNext == WritersType /\ [BNext]_bvars => WritersType' /\ [Next]_rows
<1> SUFFICES ASSUME WritersType, [BNext]_bvars PROVE WritersType' /\ [Next]_rows
  OBVIOUS
<1>t. TypeOK
  BY DEF WritersType, ChainInv
<1>1. CaptureType' /\ DocType' /\ ReviewType' /\ BootType' /\ [Next]_rows
  <2>1. CASE BNext
    BY <1>t, <2>1, BootSteps DEF WritersType
  <2>2. CASE UNCHANGED bvars
    <3>1. UNCHANGED bvars /\ UNCHANGED cvars /\ UNCHANGED <<doc, text, imp, review, boot>>
      BY <2>2 DEF bvars, rvars, dvars
    <3>2. rows' = rows /\ CaptureType' /\ DocType' /\ ReviewType'
      BY <3>1 DEF cvars, WritersType, CaptureType, DocType, ReviewType
    <3>3. BootType'
      BY <3>1 DEF cvars, WritersType, BootType, Boot, BootShape, InputShape, Documented, Answered
    <3> QED BY <3>2, <3>3
  <2> QED BY <2>1, <2>2
<1>2. ChainInv'
  BY <1>1, NextKeepsChainInv DEF WritersType, vars
<1> QED BY <1>1, <1>2 DEF WritersType

(* Types, and how far each writer of Capture, DocImport, Review and Bootstrap is. *)
THEOREM WritersTypes == BSpec => []WritersType
BY WritersInit, WritersNext, PTL DEF BSpec

(* Agents, humans, sync, imports, reviews and bootstraps, in any number and    *)
(* wherever they die, are together a store of Lifecycle: each of their steps   *)
(* is one call, or leaves the records alone (capture.py, doc_import.py,         *)
(* server.py, cli.py, bootstrap/apply.py).                                     *)
THEOREM WritersRefineLifecycle == BSpec => Spec
<1>1. BInit => Init
  BY WritersInit
<1>2. WritersType /\ [BNext]_bvars => [Next]_vars
  BY WritersNext DEF vars
<1> QED BY <1>1, <1>2, WritersTypes, PTL DEF BSpec, Spec

(* So supersession is sound whoever writes.                                    *)
THEOREM WritersSuccession == BSpec => []SuccessionIsSound
BY WritersRefineLifecycle, LifecycleSuccession

(* And history is append-only, whoever writes.                                 *)
THEOREM WritersAppendOnly == BSpec => AppendOnly
BY WritersRefineLifecycle, LifecycleAppendOnly

-----------------------------------------------------------------------------
(* Drafts.  What is missing of a decision is known to the one agent whose     *)
(* draft it is; nobody else's decisions, and no document's, miss anything.   *)

DraftsAreTold ==
    /\ \A d \in Decisions : rows[d].status = "unwritten" =>
          missing[d] = 0 /\ ~Automatic(by[d]) /\ text[d].of = None
    /\ \A a \in Agents : job[a].d # None =>
          /\ rows[job[a].d].status # "unwritten" /\ text[job[a].d].of = None
          /\ missing[job[a].d] >= job[a].todo
          /\ ~job[a].failed => missing[job[a].d] = job[a].todo
    /\ \A a, b \in Agents : (job[a].d = job[b].d /\ job[a].d # None) => a = b
    /\ \A d \in Decisions : text[d].of # None => missing[d] = 0
    /\ \A a \in Agents : imp[a].d # None => text[imp[a].d].of # None

DraftInv == DraftsAreTold /\ AutoMeansComplete

WrittenStays == \A r \in Records : rows[r].status # "unwritten" => rows'[r].status # "unwritten"

LEMMA NextKeepsWritten ==
    ASSUME ChainInv, [Next]_rows
    PROVE  WrittenStays
<1> SUFFICES ASSUME NEW r \in Records, rows[r].status # "unwritten"
             PROVE  rows'[r].status # "unwritten"
  BY DEF WrittenStays
<1>1. CASE Next
  <2>1. Appends(r)
    BY <1>1, NextAppends
  <2> QED BY <2>1 DEF Appends, VerifyTransitions
<1> QED BY <1>1

(* A step that is none of a draft's own. *)
LEMMA OutsideDrafts ==
    ASSUME CaptureType, DocType, DraftInv, WrittenStays, UNCHANGED <<missing, job>>,
           \A d \in Decisions : Automatic(by'[d]) =>
              Automatic(by[d]) \/ (rows[d].status # "unwritten" /\ missing[d] = 0),
           \A d \in Decisions : \/ text'[d].of = text[d].of
                                \/ rows[d].status = "unwritten" /\ rows'[d].status # "unwritten",
           \A a \in Agents : imp'[a].d # None => text'[imp'[a].d].of # None
    PROVE  DraftInv'
<1>r. Decisions \subseteq Records /\ \A a \in Agents : job[a].d # None => job[a].d \in Decisions
  BY DEF Records, CaptureType, Job, Maybe
<1> USE DEF DraftInv
<1>1. \A d \in Decisions : rows'[d].status = "unwritten" =>
          missing'[d] = 0 /\ ~Automatic(by'[d]) /\ text'[d].of = None
  BY <1>r DEF DraftsAreTold, WrittenStays
<1>2. \A a \in Agents : job'[a].d # None =>
          /\ rows'[job'[a].d].status # "unwritten" /\ text'[job'[a].d].of = None
          /\ missing'[job'[a].d] >= job'[a].todo
          /\ ~job'[a].failed => missing'[job'[a].d] = job'[a].todo
  BY <1>r DEF DraftsAreTold, WrittenStays
<1>3. \A a, b \in Agents : (job'[a].d = job'[b].d /\ job'[a].d # None) => a = b
  BY DEF DraftsAreTold
<1>4. \A d \in Decisions : text'[d].of # None => missing'[d] = 0
  BY DEF DraftsAreTold
<1>5. AutoMeansComplete'
  BY DEF AutoMeansComplete
<1> QED BY <1>1, <1>2, <1>3, <1>4, <1>5 DEF DraftsAreTold

(* A step of an agent that goes on with its draft, or ends it. *)
LEMMA WithinDraft ==
    ASSUME CaptureType, DocType, DraftInv, WrittenStays, NEW a \in Agents, NEW j \in Job, Go(a, j),
           text' = text, \A b \in Agents : imp'[b].d = imp[b].d,
           \A d \in Decisions : Automatic(by'[d]) =>
              Automatic(by[d]) \/ (rows[d].status # "unwritten" /\ missing'[d] = 0),
           missing' \in [Decisions -> Int],
           \/ j.d = None /\ missing' = missing
           \/ /\ j.d # None /\ j.d = job[a].d
              /\ missing' = missing \/ (missing' = [missing EXCEPT ![j.d] = @ - 1] /\ missing[j.d] > 0)
              /\ missing'[j.d] >= j.todo
              /\ ~j.failed => missing'[j.d] = j.todo
    PROVE  DraftInv'
<1>r. Decisions \subseteq Records /\ \A b \in Agents : job[b].d # None => job[b].d \in Decisions
  BY DEF Records, CaptureType, Job, Maybe
<1>g. job' = [job EXCEPT ![a] = j] /\ job \in [Agents -> Job] /\ missing \in [Decisions -> Int]
  BY DEF Go, CaptureType
<1>m. \A d \in Decisions : d # j.d => missing'[d] = missing[d]
  BY <1>g
<1>d. j.d # None => /\ j.d \in Decisions /\ rows[j.d].status # "unwritten" /\ text[j.d].of = None
                    /\ missing'[j.d] = missing[j.d] \/ missing[j.d] > 0
  BY <1>r DEF DraftInv, DraftsAreTold
<1> USE DEF DraftInv
<1>1. \A d \in Decisions : rows'[d].status = "unwritten" =>
          missing'[d] = 0 /\ ~Automatic(by'[d]) /\ text'[d].of = None
  BY <1>r, <1>m, <1>d, RecordIds DEF DraftsAreTold, WrittenStays
<1>2. \A b \in Agents : job'[b].d # None =>
          /\ rows'[job'[b].d].status # "unwritten" /\ text'[job'[b].d].of = None
          /\ missing'[job'[b].d] >= job'[b].todo
          /\ ~job'[b].failed => missing'[job'[b].d] = job'[b].todo
  <2> SUFFICES ASSUME NEW b \in Agents, job'[b].d # None
               PROVE  /\ rows'[job'[b].d].status # "unwritten" /\ text'[job'[b].d].of = None
                      /\ missing'[job'[b].d] >= job'[b].todo
                      /\ ~job'[b].failed => missing'[job'[b].d] = job'[b].todo
    OBVIOUS
  <2>1. CASE b = a
    BY <1>r, <1>g, <1>d, <2>1 DEF WrittenStays
  <2>2. CASE b # a
    <3>1. job'[b] = job[b] /\ job[b].d \in Decisions /\ job[b].d # j.d
      BY <1>g, <1>r, <2>2 DEF DraftsAreTold
    <3> QED BY <1>r, <1>m, <3>1 DEF DraftsAreTold, WrittenStays
  <2> QED BY <2>1, <2>2
<1>3. \A b, c \in Agents : (job'[b].d = job'[c].d /\ job'[b].d # None) => b = c
  BY <1>g DEF DraftsAreTold
<1>4. \A d \in Decisions : text'[d].of # None => missing'[d] = 0
  BY <1>m, <1>d, RecordIds DEF DraftsAreTold
<1>5. AutoMeansComplete'
  BY <1>m, <1>d, RecordIds DEF AutoMeansComplete
<1>6. \A b \in Agents : imp'[b].d # None => text'[imp'[b].d].of # None
  BY DEF DraftsAreTold
<1> QED BY <1>1, <1>2, <1>3, <1>4, <1>5, <1>6 DEF DraftsAreTold

LEMMA AgentTells ==
    ASSUME TypeOK, CaptureType, CaptureType', DocType, DraftInv, WrittenStays,
           NEW a \in Agents, Agent(a), text' = text, \A b \in Agents : imp'[b].d = imp[b].d
    PROVE  DraftInv'
<1> DEFINE j == job'[a]
           k == job[a]
<1>j. /\ j \in Job /\ k \in Job /\ JobFits(k) /\ missing' \in [Decisions -> Int]
      /\ job \in [Agents -> Job] /\ missing \in [Decisions -> Int] /\ None \notin Decisions
      /\ k.d \in Decisions \cup {None} /\ Decisions \cap Facts = {}
  BY RecordIds DEF CaptureType, Job, Maybe
<1>k. k.d # None => /\ missing[k.d] >= k.todo /\ (~k.failed => missing[k.d] = k.todo)
                    /\ rows[k.d].status # "unwritten" /\ missing[k.d] \in Int
  BY <1>j DEF DraftInv, DraftsAreTold
<1>t. k.todo \in Nat /\ j.todo \in Nat
  BY <1>j DEF Job
<1>b. k.failed \in BOOLEAN /\ j.failed \in BOOLEAN
  BY <1>j DEF Job
<1> HIDE DEF j, k
<1>keep. ASSUME Go(a, j), missing' = missing, by' = by,
                \/ j.d = None
                \/ /\ j.d = k.d /\ j.todo <= k.todo
                   /\ j.failed = TRUE \/ (j.todo = k.todo /\ j.failed = k.failed)
         PROVE  DraftInv'
  <2>1. \/ j.d = None /\ missing' = missing
        \/ /\ j.d # None /\ j.d = job[a].d
           /\ missing' = missing \/ (missing' = [missing EXCEPT ![j.d] = @ - 1] /\ missing[j.d] > 0)
           /\ missing'[j.d] >= j.todo
           /\ ~j.failed => missing'[j.d] = j.todo
    BY <1>keep, <1>j, <1>k, <1>t, <1>b DEF k
  <2>2. \A d \in Decisions : Automatic(by'[d]) =>
              Automatic(by[d]) \/ (rows[d].status # "unwritten" /\ missing'[d] = 0)
    BY <1>keep
  <2> QED BY <2>1, <2>2, <1>j, <1>keep, WithinDraft
<1>tell. ASSUME Go(a, j), by' = by, k.d # None, j.d = k.d, k.todo > 0, j.todo = k.todo - 1,
                j.failed = k.failed, missing' = [missing EXCEPT ![k.d] = @ - 1]
         PROVE  DraftInv'
  <2>1. missing'[k.d] = missing[k.d] - 1
    BY <1>tell, <1>j
  <2>2. /\ j.d # None /\ j.d = job[a].d
        /\ missing' = [missing EXCEPT ![j.d] = @ - 1] /\ missing[j.d] > 0
        /\ missing'[j.d] >= j.todo
        /\ ~j.failed => missing'[j.d] = j.todo
    BY <2>1, <1>tell, <1>j, <1>k, <1>t, <1>b DEF k
  <2>3. \A d \in Decisions : Automatic(by'[d]) =>
              Automatic(by[d]) \/ (rows[d].status # "unwritten" /\ missing'[d] = 0)
    BY <1>tell
  <2> QED BY <2>2, <2>3, <1>j, <1>tell, WithinDraft
<1>ends. ASSUME Go(a, Idle), missing' = missing,
                \A d \in Decisions : by'[d] = by[d] \/ (rows[d].status # "unwritten" /\ missing[d] = 0)
         PROVE  DraftInv'
  <2>1. \A d \in Decisions : Automatic(by'[d]) =>
              Automatic(by[d]) \/ (rows[d].status # "unwritten" /\ missing'[d] = 0)
    BY <1>ends
  <2> QED BY <2>1, <1>ends, <1>j, IdleTypes, WithinDraft
<1>g. ASSUME NEW x, Go(a, x) PROVE j = x /\ Go(a, j)
  BY <1>g, <1>j DEF Go, j
<1>i. Idle.d = None
  BY IdleTypes
<1>1. ASSUME NEW policy \in setting.policies[a], NEW kind \in Kinds,
             NEW d \in Decisions \cap setting.ids, NEW pred \in Decisions \cup {None},
             NEW n \in 0 .. MaxFacts, Propose(a, policy, kind, d, pred, n)
      PROVE  DraftInv'
  <2> DEFINE x == [Idle EXCEPT !.pc = "bind", !.policy = policy, !.kind = kind, !.d = d, !.todo = n]
  <2>1. /\ Go(a, x) /\ by' = by /\ missing' = [missing EXCEPT ![d] = n]
        /\ rows[d].status = "unwritten" /\ n \in Nat
    BY <1>1, CaptureAssumption DEF Propose, CanAdd
  <2>2. j = x /\ x.d = d /\ x.todo = n /\ x.failed = FALSE
    BY <2>1, <1>g DEF Idle
  <2>3. rows'[d].status # "unwritten"
    <3>1. rows' = AfterAdd(rows, d, [status |-> Landing(policy), supersedes |-> pred, supports |-> {}])
      BY <1>1 DEF Propose
    <3>2. Landing(policy) # "unwritten" /\ rows \in [Records -> Row] /\ d \in Records
      BY DEF Landing, TypeOK, Records
    <3> QED BY <3>1, <3>2 DEF AfterAdd, With
  <2>4. /\ missing[d] = 0 /\ ~Automatic(by[d]) /\ text[d].of = None
        /\ \A b \in Agents : job[b].d # d
    BY <2>1, <1>j DEF DraftInv, DraftsAreTold
  <2>5. \A e \in Decisions : missing'[e] = IF e = d THEN n ELSE missing[e]
    BY <2>1, <1>j
  <2>6. \A b \in Agents : job'[b] = IF b = a THEN x ELSE job[b]
    BY <2>1, <1>j DEF Go
  <2> HIDE DEF x
  <2>7. d \in Decisions /\ Decisions \subseteq Records /\ \A b \in Agents : job[b].d # None => job[b].d \in Decisions
    BY <1>j DEF Records, Job, Maybe
  <2>a. \A e \in Decisions : rows'[e].status = "unwritten" =>
            missing'[e] = 0 /\ ~Automatic(by'[e]) /\ text'[e].of = None
    BY <2>1, <2>3, <2>5, <2>7 DEF DraftInv, DraftsAreTold, WrittenStays
  <2>b. ASSUME NEW b \in Agents, job'[b].d # None
        PROVE  /\ rows'[job'[b].d].status # "unwritten" /\ text'[job'[b].d].of = None
               /\ missing'[job'[b].d] >= job'[b].todo
               /\ ~job'[b].failed => missing'[job'[b].d] = job'[b].todo
    <3>1. CASE b = a
      BY <3>1, <2>1, <2>2, <2>3, <2>4, <2>5, <2>6
    <3>2. CASE b # a
      <4>1. job'[b] = job[b] /\ job[b].d \in Decisions /\ job[b].d # d
        BY <3>2, <2>6, <2>7, <2>4, <2>b
      <4>2. missing'[job[b].d] = missing[job[b].d]
        BY <4>1, <2>5
      <4> QED BY <2>b, <4>1, <4>2, <2>7 DEF DraftInv, DraftsAreTold, WrittenStays
    <3> QED BY <3>1, <3>2
  <2>c. \A b, c \in Agents : (job'[b].d = job'[c].d /\ job'[b].d # None) => b = c
    BY <2>2, <2>4, <2>6 DEF DraftInv, DraftsAreTold
  <2>d. \A e \in Decisions : text'[e].of # None => missing'[e] = 0
    BY <2>4, <2>5 DEF DraftInv, DraftsAreTold
  <2>e. AutoMeansComplete'
    BY <2>1, <2>4, <2>5 DEF DraftInv, AutoMeansComplete
  <2>f. \A b \in Agents : imp'[b].d # None => text'[imp'[b].d].of # None
    BY DEF DraftInv, DraftsAreTold
  <2> QED BY <2>a, <2>b, <2>c, <2>d, <2>e, <2>f DEF DraftInv, DraftsAreTold
<1>d. ASSUME ~Alone(a), k.todo > 0
      PROVE  /\ Done(a).d = k.d /\ Done(a).todo = k.todo - 1 /\ Done(a).failed = k.failed
             /\ Failed(a).d = k.d /\ Failed(a).todo = k.todo - 1 /\ Failed(a).failed = TRUE
  BY <1>d, <1>j DEF Done, Failed, Job, k
<1>2. ASSUME NEW way \in setting.ways, Bind(a, way) PROVE DraftInv'
  <2>1. Go(a, [k EXCEPT !.pc = "facts"]) /\ missing' = missing /\ by' = by
    BY <1>2 DEF Bind, k
  <2>2. j = [k EXCEPT !.pc = "facts"] /\ Go(a, j)
    BY <2>1, <1>g
  <2>3. j.d = k.d /\ j.todo = k.todo /\ j.failed = k.failed
    BY <2>2, <1>j DEF Job
  <2> QED BY <2>1, <2>2, <2>3, <1>keep, <1>t
<1>3. ASSUME NEW way \in setting.ways, BindFact(a, way) PROVE DraftInv'
  <2>1. CASE Alone(a)
    <3>1. Go(a, [k EXCEPT !.pc = "judge"]) /\ missing' = missing /\ by' = by
      BY <1>3, <2>1 DEF BindFact, k
    <3>2. j = [k EXCEPT !.pc = "judge"] /\ Go(a, j)
      BY <3>1, <1>g
    <3>3. j.d = k.d /\ j.todo = k.todo /\ j.failed = k.failed
      BY <3>2, <1>j DEF Job
    <3> QED BY <3>1, <3>2, <3>3, <1>keep, <1>t
  <2>2. CASE ~Alone(a)
    <3>1. /\ Go(a, Done(a)) /\ missing' = [missing EXCEPT ![k.d] = @ - 1] /\ by' = by
          /\ k.todo > 0 /\ k.d # None
      BY <1>3, <2>2, <1>j DEF BindFact, At, JobFits, k, Alone
    <3>2. j = Done(a) /\ Go(a, j)
      BY <3>1, <1>g
    <3> QED BY <3>1, <3>2, <2>2, <1>d, <1>tell
  <2> QED BY <2>1, <2>2
<1>4. ASSUME Inherit(a) PROVE DraftInv'
  <2>1. Go(a, [k EXCEPT !.pc = "facts"]) /\ missing' = missing /\ by' = by
    BY <1>4 DEF Inherit, k
  <2>2. j = [k EXCEPT !.pc = "facts"] /\ Go(a, j)
    BY <2>1, <1>g
  <2>3. j.d = k.d /\ j.todo = k.todo /\ j.failed = k.failed
    BY <2>2, <1>j DEF Job
  <2> QED BY <2>1, <2>2, <2>3, <1>keep, <1>t
<1>5. ASSUME Duplicate(a) PROVE DraftInv'
  <2>1. Go(a, Done(a)) /\ by' = by /\ k.todo > 0
    BY <1>5 DEF Duplicate, k
  <2>2. j = Done(a) /\ Go(a, j)
    BY <2>1, <1>g
  <2>3. CASE Alone(a)
    <3>1. missing' = missing /\ j.d = None
      BY <1>5, <2>2, <2>3, <1>i DEF Duplicate, Done
    <3> QED BY <3>1, <2>1, <2>2, <1>keep
  <2>4. CASE ~Alone(a)
    <3>1. missing' = [missing EXCEPT ![k.d] = @ - 1] /\ k.d # None
      BY <1>5, <2>4 DEF Duplicate, k, Alone
    <3> QED BY <3>1, <2>1, <2>2, <2>4, <1>d, <1>tell
  <2> QED BY <2>3, <2>4
<1>f. ASSUME Go(a, Failed(a)), missing' = missing, by' = by, k.todo > 0 PROVE DraftInv'
  <2>1. j = Failed(a) /\ Go(a, j)
    BY <1>f, <1>g
  <2>2. CASE Alone(a)
    <3>1. j.d = None
      BY <2>1, <2>2, <1>i DEF Failed
    <3> QED BY <3>1, <2>1, <1>f, <1>keep
  <2>3. CASE ~Alone(a)
    <3>1. Failed(a).d = k.d /\ Failed(a).todo = k.todo - 1 /\ Failed(a).failed = TRUE
      BY <2>3, <1>d, <1>f
    <3>2. j.d = k.d /\ j.failed = TRUE
      BY <3>1, <2>1
    <3>3. j.todo <= k.todo
      BY <3>1, <2>1, <1>t
    <3> QED BY <3>2, <3>3, <2>1, <1>f, <1>keep
  <2> QED BY <2>2, <2>3
<1>6. ASSUME FactFails(a) PROVE DraftInv'
  <2>1. k.todo > 0
    BY <1>6, <1>j DEF FactFails, JobFits, At, k
  <2> QED BY <1>6, <2>1, <1>f DEF FactFails
<1>7. ASSUME NEW policy \in setting.policies[a], ProposeFact(a, policy) PROVE DraftInv'
  <2> DEFINE x == [Idle EXCEPT !.pc = "facts", !.policy = policy, !.todo = 1]
  <2>1. Go(a, x) /\ missing' = missing /\ by' = by
    BY <1>7 DEF ProposeFact
  <2>2. j = x /\ Go(a, j) /\ x.d = None
    BY <2>1, <1>g DEF Idle
  <2> QED BY <2>1, <2>2, <1>keep
<1>8. ASSUME NEW anchored \in BOOLEAN, NEW S \in SUBSET (Decisions \cap setting.ids), CheckFact(a, anchored, S)
      PROVE  DraftInv'
  <2> DEFINE supports == S \cup (IF Alone(a) THEN {} ELSE {k.d})
             x == [k EXCEPT !.pc = "add", !.supports = supports, !.anchored = anchored]
  <2>1. missing' = missing /\ by' = by /\ k.todo > 0 /\ (Go(a, x) \/ Go(a, Failed(a)))
    BY <1>8 DEF CheckFact, k
  <2>2. x.d = k.d /\ x.todo = k.todo /\ x.failed = k.failed
    BY <1>j DEF Job
  <2> HIDE DEF x
  <2>3. CASE Go(a, x)
    <3>1. j = x /\ Go(a, j)
      BY <2>3, <1>g
    <3> QED BY <3>1, <2>1, <2>2, <1>keep, <1>t
  <2> QED BY <2>1, <2>3, <1>f
<1>9. ASSUME NEW f \in Facts \cap setting.ids, AddFactOf(a, f) PROVE DraftInv'
  <2> DEFINE x == [k EXCEPT !.pc = "bindfact", !.f = f]
  <2>1. missing' = missing /\ by' = by /\ Go(a, x)
    BY <1>9 DEF AddFactOf, k
  <2>2. j = x /\ Go(a, j) /\ x.d = k.d /\ x.todo = k.todo /\ x.failed = k.failed
    BY <2>1, <1>g, <1>j DEF Job
  <2> QED BY <2>1, <2>2, <1>keep, <1>t
<1>o. ASSUME NEW x, Go(a, x), x.d = None \/ (x.d = k.d /\ x.todo = k.todo /\ x.failed = k.failed),
             missing' = missing, by' = by
      PROVE  DraftInv'
  <2>1. j = x /\ Go(a, j)
    BY <1>o, <1>g
  <2>2. j.d = None \/ (j.d = k.d /\ j.todo = k.todo /\ j.failed = k.failed)
    BY <1>o, <2>1, Zenon
  <2>3. j.todo = k.todo => j.todo <= k.todo
    BY <1>t
  <2> QED BY <1>o, <2>1, <2>2, <2>3, <1>keep
<1>p. LET x == [k EXCEPT !.pc = "ratify"] IN x.d = k.d /\ x.todo = k.todo /\ x.failed = k.failed
  BY <1>j DEF Job
<1>10. ASSUME Judge(a) \/ JudgeFact(a) PROVE DraftInv'
  <2>1. (Go(a, [k EXCEPT !.pc = "ratify"]) \/ Go(a, Idle)) /\ missing' = missing /\ by' = by
    BY <1>10 DEF Judge, JudgeFact, k
  <2> QED BY <2>1, <1>o, <1>p, <1>i
<1>11. ASSUME Stop(a) PROVE DraftInv'
  BY <1>11, <1>o, <1>i DEF Stop
<1>12. ASSUME AutoRatify(a) PROVE DraftInv'
  <2>1. /\ Go(a, Idle) /\ missing' = missing /\ k.d # None /\ k.pc = "ratify"
        /\ by' = [r \in Records |-> IF r \in {k.d} \cup Evidence(rows, k.d) THEN k.policy ELSE by[r]]
    BY <1>12 DEF AutoRatify, Stamp, At, Alone, k
  <2>2. rows[k.d].status # "unwritten" /\ missing[k.d] = 0
    BY <2>1, <1>j, <1>k DEF JobFits
  <2>3. Evidence(rows, k.d) \subseteq Facts /\ Decisions \subseteq Records
    BY DEF Evidence, Records
  <2>4. \A d \in Decisions : d # k.d => by'[d] = by[d]
    BY <2>1, <2>3, <1>j
  <2>5. \A d \in Decisions : by'[d] = by[d] \/ (rows[d].status # "unwritten" /\ missing[d] = 0)
    BY <2>2, <2>4
  <2> QED BY <2>1, <2>5, <1>ends
<1>13. ASSUME AutoRatifyFact(a) PROVE DraftInv'
  <2>1. /\ Go(a, Idle) /\ missing' = missing /\ k.f \in Facts
        /\ by' = [r \in Records |-> IF r \in {k.f} THEN k.policy ELSE by[r]]
    BY <1>13, <1>j DEF AutoRatifyFact, Stamp, At, Alone, k, JobFits, Job, Maybe
  <2>2. \A d \in Decisions : by'[d] = by[d]
    BY <2>1, <1>j DEF Records
  <2> QED BY <2>1, <2>2, <1>ends
<1> QED BY <1>1, <1>2, <1>3, <1>4, <1>5, <1>6, <1>7, <1>8, <1>9, <1>10, <1>11, <1>12, <1>13 DEF Agent

LEMMA QuietSteps ==
    ASSUME CaptureType, DocType, DraftInv, WrittenStays, UNCHANGED <<missing, job, text>>,
           by' = by \/ \E S : Stamp(S, "human"),
           \A b \in Agents : imp'[b].d = imp[b].d \/ imp'[b].d = None
    PROVE  DraftInv'
<1>1. \A d \in Decisions : Automatic(by'[d]) => Automatic(by[d])
  <2>1. \A d \in Decisions : by'[d] = by[d] \/ by'[d] = "human"
    <3>1. CASE by' = by
      BY <3>1
    <3>2. ASSUME NEW S, Stamp(S, "human") PROVE \A d \in Decisions : by'[d] = by[d] \/ by'[d] = "human"
      BY <3>2 DEF Stamp, Records
    <3> QED BY <3>1, <3>2
  <2> QED BY <2>1 DEF Automatic
<1>2. \A b \in Agents : imp'[b].d # None => text'[imp'[b].d].of # None
  BY DEF DraftInv, DraftsAreTold
<1> QED BY <1>1, <1>2, OutsideDrafts

LEMMA ImportDrafts ==
    ASSUME TypeOK, CaptureType, DocType, DraftInv, WrittenStays,
           NEW a \in Agents, ImportStep(a) \/ StopImport(a)
    PROVE  DraftInv'
<1> DEFINE i == imp[a]
<1>i. /\ i \in Import /\ ImportFits(i) /\ i.req \in Req /\ imp \in [Agents -> Import]
      /\ \A b \in Agents : imp[b].d \in Maybe(Decisions) /\ imp[b] \in Import
  BY DEF DocType, Import
<1>q. \A act : Over(a, act).d = None
  BY DEF Over, NoImport
<1>m. ASSUME NEW x, Move(a, x)
      PROVE  imp'[a] = x /\ \A b \in Agents : b # a => imp'[b].d = imp[b].d
  <2>1. \A b \in Agents : [imp[b] EXCEPT !.calm = FALSE].d = imp[b].d
    BY <1>i DEF Import
  <2> QED BY <1>m, <2>1 DEF Move
<1>e. ASSUME NEW pc PROVE [i EXCEPT !.pc = pc].d = i.d
  BY <1>i DEF Import
<1>quiet. ASSUME NEW x, Move(a, x), x.d \in {i.d, None}, UNCHANGED <<missing, job, text>>,
                 by' = by \/ \E S : Stamp(S, "human")
          PROVE  DraftInv'
  BY <1>quiet, <1>m, QuietSteps
<1>1. ASSUME ApplyDoc(a) PROVE DraftInv'
  <2> DEFINE disp == Disposition(i.req)
  <2>1. /\ disp.action \in {"existing", "unanchorable", "pending", "written", "superseded"}
        /\ disp.action = "existing" => disp.match \in Existing(i.req.ref)
    BY <1>i, DispositionTypes
  <2>2. PICK new : /\ Move(a, new)
                   /\ \/ /\ disp.action = "existing"
                         /\ new = [i EXCEPT !.pc = IF ToSettle(i.req, disp.match) THEN "settle" ELSE "bind",
                                            !.disp = disp, !.d = disp.match]
                      \/ new = [i EXCEPT !.pc = IF disp.drop = None THEN "add" ELSE "drop", !.disp = disp]
                      \/ new = Over(a, disp.action)
    BY <1>1, <2>1 DEF ApplyDoc
  <2>3. i.req.ref # None
    BY <1>1, <1>i DEF ApplyDoc, Importing, ImportFits
  <2> HIDE DEF disp
  <2>4. new.d \in {i.d, None} \/ text[new.d].of # None
    <3>1. CASE /\ disp.action = "existing"
               /\ new = [i EXCEPT !.pc = IF ToSettle(i.req, disp.match) THEN "settle" ELSE "bind",
                                  !.disp = disp, !.d = disp.match]
      <4>1. new.d = disp.match
        BY <3>1, <1>i DEF Import
      <4> QED BY <4>1, <3>1, <2>1, <2>3 DEF Existing
    <3>2. CASE new = [i EXCEPT !.pc = IF disp.drop = None THEN "add" ELSE "drop", !.disp = disp]
      BY <3>2, <1>i DEF Import
    <3> QED BY <2>2, <3>1, <3>2, <1>q
  <2>5. UNCHANGED <<missing, job, text, by>>
    BY <1>1 DEF ApplyDoc, Others
  <2>6. \A b \in Agents : imp'[b].d # None => text'[imp'[b].d].of # None
    BY <2>2, <2>4, <2>5, <1>m DEF DraftInv, DraftsAreTold
  <2> QED BY <2>5, <2>6, OutsideDrafts
<1>2. ASSUME SettleDoc(a) PROVE DraftInv'
  BY <1>2, <1>e, <1>quiet DEF SettleDoc, Others
<1>3. ASSUME DropPending(a) PROVE DraftInv'
  BY <1>3, <1>e, <1>quiet DEF DropPending, Others
<1>4. ASSUME AddDoc(a) PROVE DraftInv'
  <2> DEFINE left == {x \in Decisions \cap setting.ids : rows[x].status = "unwritten"}
             d == CHOOSE x \in left : TRUE
             row == [status |-> i.req.as, supersedes |-> i.disp.pred, supports |-> {}]
             new == [i EXCEPT !.pc = "bind", !.d = d]
             named == {e \in Decisions : text[e].of # None}
             entry == [of |-> i.req.ref, text |-> i.req.text, nth |-> 1 + Cardinality(named)]
  <2>0. left # {}
    BY <1>4 DEF AddDoc
  <2>d. d \in Decisions /\ d \in Records /\ rows[d].status = "unwritten"
    BY <2>0 DEF Records
  <2>1. /\ rows' = AfterAdd(rows, d, row) /\ i.pc = "add" /\ Move(a, new)
        /\ text' = [text EXCEPT ![d] = entry] /\ UNCHANGED <<missing, job, by>>
    BY <1>4 DEF AddDoc, Importing, Others
  <2> HIDE DEF left, d
  <2>2. i.req.ref # None /\ i.req.as \in {"accepted", "proposed", "rejected"}
    BY <1>i, <2>1 DEF ImportFits, Req
  <2>3. rows'[d].status # "unwritten"
    BY <2>d, <2>1, <2>2 DEF AfterAdd, With, TypeOK
  <2>4. new.d = d /\ entry.of = i.req.ref
    BY <1>i DEF Import
  <2> HIDE DEF new, entry
  <2>5. \A e \in Decisions : text'[e] = IF e = d THEN entry ELSE text[e]
    BY <2>1, <2>d DEF DocType
  <2>6. text[d].of = None
    BY <2>d DEF DraftInv, DraftsAreTold
  <2>7. ASSUME NEW b \in Agents, imp'[b].d # None PROVE text'[imp'[b].d].of # None
    <3>1. CASE b = a
      BY <3>1, <1>m, <2>1, <2>2, <2>4, <2>5, <2>d
    <3>2. CASE b # a
      <4>1. imp'[b].d = imp[b].d /\ imp[b].d \in Decisions /\ text[imp[b].d].of # None
        BY <3>2, <1>m, <2>1, <1>i, <2>7 DEF DraftInv, DraftsAreTold, Maybe
      <4> QED BY <4>1, <2>5, <2>6
    <3> QED BY <3>1, <3>2
  <2>8. \A e \in Decisions : text'[e].of = text[e].of
                            \/ (rows[e].status = "unwritten" /\ rows'[e].status # "unwritten")
    BY <2>3, <2>5, <2>d
  <2> QED BY <2>1, <2>7, <2>8, OutsideDrafts
<1>5. ASSUME NEW way \in setting.ways \cup {"none"}, BindDoc(a, way) PROVE DraftInv'
  <2>1. PICK new : Move(a, new) /\ new.d \in {i.d, None}
    BY <1>5, <1>e, <1>q DEF BindDoc
  <2> QED BY <1>5, <2>1, <1>quiet DEF BindDoc, Others
<1>6. ASSUME JudgeDoc(a) PROVE DraftInv'
  <2>1. PICK new : Move(a, new) /\ new.d \in {i.d, None}
    BY <1>6, <1>e, NoImportTypes DEF JudgeDoc
  <2> QED BY <1>6, <2>1, <1>quiet DEF JudgeDoc, Others
<1>7. ASSUME RatifyDoc(a) PROVE DraftInv'
  <2>1. /\ i.d \in Decisions /\ rows[i.d].status = "proposed" /\ Move(a, NoImport)
        /\ by' = [r \in Records |-> IF r \in {i.d} \cup Evidence(rows, i.d) THEN i.mode ELSE by[r]]
        /\ UNCHANGED <<missing, job, text>>
    BY <1>7, <1>i DEF RatifyDoc, Importing, ImportFits, Maybe, CanRatify, Stamp, Others
  <2>2. missing[i.d] = 0
    BY <2>1, RecordIds DEF DraftInv, DraftsAreTold
  <2>3. Evidence(rows, i.d) \subseteq Facts /\ Decisions \subseteq Records
    BY DEF Evidence, Records
  <2>4. \A d \in Decisions : d # i.d => by'[d] = by[d]
    BY <2>1, <2>3, RecordIds
  <2>5. \A d \in Decisions : Automatic(by'[d]) =>
            Automatic(by[d]) \/ (rows[d].status # "unwritten" /\ missing[d] = 0)
    BY <2>1, <2>2, <2>4
  <2>6. \A b \in Agents : imp'[b].d # None => text'[imp'[b].d].of # None
    BY <2>1, <1>m, NoImportTypes DEF DraftInv, DraftsAreTold
  <2> QED BY <2>1, <2>5, <2>6, OutsideDrafts
<1>8. ASSUME StopImport(a) PROVE DraftInv'
  BY <1>8, NoImportTypes, <1>quiet DEF StopImport, Others
<1> QED BY <1>1, <1>2, <1>3, <1>4, <1>5, <1>6, <1>7, <1>8 DEF ImportStep

LEMMA DisturbKeeps ==
    ASSUME DocType, Disturb
    PROVE  \A b \in Agents : /\ imp'[b].d = imp[b].d /\ imp'[b].pc = imp[b].pc
                              /\ imp'[b].req = imp[b].req /\ imp'[b].disp = imp[b].disp
<1>1. \A b \in Agents : LET calmless == [imp[b] EXCEPT !.calm = FALSE] IN
          /\ calmless.d = imp[b].d /\ calmless.pc = imp[b].pc
          /\ calmless.req = imp[b].req /\ calmless.disp = imp[b].disp
  BY DEF DocType, Import
<1> QED BY <1>1 DEF Disturb

LEMMA DraftSteps ==
    ASSUME TypeOK, CaptureType, CaptureType', DocType, DraftInv, WrittenStays, BNext
    PROVE  DraftInv'
<1> DEFINE Silent == by' = by \/ \E S : Stamp(S, "human")
           Kept == \A b \in Agents : imp'[b].d = imp[b].d \/ imp'[b].d = None
<1>q. ASSUME UNCHANGED <<missing, job, text>>, Silent, Kept PROVE DraftInv'
  BY <1>q, QuietSteps
<1>k. (Disturb => Kept) /\ (UNCHANGED imp => Kept)
  BY DisturbKeeps
<1>1. ASSUME Human, Disturb, text' = text PROVE DraftInv'
  <2>1. UNCHANGED <<missing, job>> /\ Silent
    <3>1. \A d : Accept(d) \/ Reject(d) => UNCHANGED <<missing, job>> /\ Silent
      BY DEF Accept, Reject
    <3>2. \A f : AcceptFact(f) \/ RejectFact(f) => UNCHANGED <<missing, job>> /\ Silent
      BY DEF AcceptFact, RejectFact
    <3>3. \A f, old, S, anchored, way : DirectFact(f, old, S, anchored, way) => UNCHANGED <<missing, job>> /\ Silent
      BY DEF DirectFact
    <3>4. \A r, way : AddAnchors(r, way) \/ Rebind(r, way) => UNCHANGED <<missing, job>> /\ Silent
      BY DEF AddAnchors, Rebind
    <3>5. \A d, kept, graph : RetireDecision(d, kept, graph) => UNCHANGED <<missing, job>> /\ Silent
      BY DEF RetireDecision
    <3> HIDE DEF Silent
    <3> QED BY <1>1, <3>1, <3>2, <3>3, <3>4, <3>5 DEF Human
  <2> QED BY <1>1, <1>k, <1>q, <2>1
<1>2. ASSUME DNext PROVE DraftInv'
  <2>1. CASE CNext /\ Disturb /\ UNCHANGED <<doc, text>>
    <3>1. CASE Anyone
      BY <2>1, <3>1, <1>k, <1>q DEF Anyone
    <3>2. ASSUME NEW a \in Agents, Agent(a) PROVE DraftInv'
      BY <2>1, <3>2, DisturbKeeps, AgentTells
    <3> QED BY <2>1, <3>1, <3>2, <1>1 DEF CNext
  <2>2. ASSUME NEW ref \in setting.docs, NEW new \in Doc, EditDoc(ref, new) PROVE DraftInv'
    BY <2>2, <1>k, <1>q DEF EditDoc
  <2>3. ASSUME NEW a \in Agents, ImportDocs(a) PROVE DraftInv'
    <3>1. PICK ref, mode, kind : ReadDoc(a, ref, mode, kind)
      BY <2>3 DEF ImportDocs
    <3> DEFINE new == [NoImport EXCEPT !.pc = "apply", !.req = Request(ref, doc[ref], WrittenAs(doc[ref], mode), FALSE),
                                       !.mode = mode, !.kind = kind, !.draft = doc[ref].status = "draft", !.calm = TRUE]
    <3>2. Move(a, new) /\ UNCHANGED <<missing, job, text, by>>
      BY <3>1 DEF ReadDoc, Others
    <3>3. new.d = None
      BY DEF NoImport
    <3> HIDE DEF new
    <3>4. \A b \in Agents : [imp[b] EXCEPT !.calm = FALSE].d = imp[b].d
      BY DEF DocType, Import
    <3>5. Kept
      BY <3>2, <3>3, <3>4 DEF Move
    <3> QED BY <3>2, <3>5, <1>q
  <2>4. ASSUME NEW a \in Agents, ImportStep(a) \/ StopImport(a) PROVE DraftInv'
    BY <2>4, ImportDrafts
  <2> QED BY <1>2, <2>1, <2>2, <2>3, <2>4 DEF DNext
<1>3. ASSUME Reviewer PROVE DraftInv'
  <2>1. UNCHANGED <<missing, job, text>> /\ Silent /\ (Disturb \/ UNCHANGED imp)
    <3>1. \A S, D : BeginGiven(S, D) => UNCHANGED <<missing, job, text>> /\ Silent /\ Disturb
      BY DEF BeginGiven, StoreKept
    <3>2. BeginAll \/ ListFacts => UNCHANGED <<missing, job, text>> /\ Silent /\ Disturb
      BY DEF BeginAll, ListFacts, StoreKept, RestKept
    <3>3. FinishReview \/ ReviewDies => UNCHANGED <<missing, job, text>> /\ Silent /\ UNCHANGED imp
      BY DEF FinishReview, ReviewDies, StoreKept, RestKept
    <3>4. \A r : AcceptNext(r) \/ DropNext(r) => UNCHANGED <<missing, job, text>> /\ Silent /\ Disturb
      BY DEF AcceptNext, DropNext, StoreKept, RestKept
    <3> HIDE DEF Silent
    <3> QED BY <1>3, <3>1, <3>2, <3>3, <3>4 DEF Reviewer
  <2> QED BY <2>1, <1>k, <1>q
<1>4. CASE RNext
  BY <1>2, <1>3, <1>4 DEF RNext
<1>5. ASSUME NEW a \in Agents, ItemFails(a) PROVE DraftInv'
  BY <1>5, ImportDrafts DEF ItemFails
<1>6. ASSUME NothingWritten PROVE DraftInv'
  BY <1>6, <1>k, <1>q DEF NothingWritten, rvars, dvars, cvars
<1>7. ASSUME NEW a \in Agents, NEW x, x.d \in {imp[a].d, None}, imp' = [imp EXCEPT ![a] = x],
             UNCHANGED <<cvars, text>>
      PROVE  DraftInv'
  <2>1. Kept
    BY <1>7 DEF DocType
  <2> QED BY <1>7, <2>1, <1>q DEF cvars
<1>8. NoImport.d = None
  BY DEF NoImport
<1>9. ASSUME NEW a \in Agents, Apply(a) PROVE DraftInv'
  <2> DEFINE x == [NoImport EXCEPT !.mode = "reviewed", !.calm = TRUE]
  <2>1. NothingWritten \/ (imp' = [imp EXCEPT ![a] = x] /\ UNCHANGED <<cvars, text>>)
    BY <1>9 DEF Apply
  <2>2. x.d = None
    BY DEF NoImport
  <2> HIDE DEF x
  <2> QED BY <1>6, <1>7, <2>1, <2>2
<1>10. ASSUME NEW a \in Agents, Report(a) \/ BootDies(a) PROVE DraftInv'
  BY <1>7, <1>8, <1>10 DEF Report, BootDies
<1>11. ASSUME NEW a \in Agents, NEW ref, BeginItem(a, ref) PROVE DraftInv'
  <2> DEFINE req == AskFor(ref, boot[a].answers[ref], boot[a].inputs.doc[ref])
             x == [imp[a] EXCEPT !.pc = "apply", !.req = req]
  <2>1. imp' = [imp EXCEPT ![a].pc = "apply", ![a].req = req] /\ UNCHANGED <<cvars, text>>
    BY <1>11 DEF BeginItem
  <2> HIDE DEF req
  <2>2. imp' = [imp EXCEPT ![a] = x] /\ x.d \in {imp[a].d, None}
    BY <2>1 DEF DocType, Import
  <2>3. UNCHANGED <<cvars, text>>
    BY <2>1
  <2>4. Kept
    BY <2>2 DEF DocType
  <2> QED BY <2>3, <2>4, <1>q DEF cvars
<1>12. ASSUME NEW a \in Agents, NEW answers,
              Plan(a) \/ Refresh(a) \/ Answer(a, answers) \/ EndItem(a)
       PROVE  DraftInv'
  BY <1>12, <1>6 DEF Plan, Refresh, Answer, EndItem
<1> QED BY <1>4, <1>5, <1>9, <1>10, <1>11, <1>12 DEF BNext

(* The draft invariant in every state: what is missing of a decision is known to *)
(* the one agent whose draft it is (capture.py _propose_one).                  *)
THEOREM WritersDrafts == BSpec => []DraftInv
<1>1. BInit => DraftInv
  <2> SUFFICES ASSUME BInit PROVE DraftInv
    OBVIOUS
  <2>1. /\ by = [r \in Records |-> "nobody"] /\ missing = [d \in Decisions |-> 0]
        /\ text = [d \in Decisions |-> [of |-> None, text |-> None, nth |-> 0]]
        /\ job = [a \in Agents |-> Idle] /\ imp = [a \in Agents |-> NoImport]
    BY DEF BInit, RInit, DInit, CInit
  <2> QED BY <2>1, IdleTypes, NoImportTypes DEF DraftInv, DraftsAreTold, AutoMeansComplete, Automatic, Records
<1>2. WritersType /\ WritersType' /\ DraftInv /\ [BNext]_bvars => DraftInv'
  <2> SUFFICES ASSUME WritersType, WritersType', DraftInv, [BNext]_bvars PROVE DraftInv'
    OBVIOUS
  <2>1. WrittenStays /\ TypeOK
    BY WritersNext, NextKeepsWritten DEF WritersType, ChainInv
  <2>2. CASE BNext
    BY <2>1, <2>2, DraftSteps DEF WritersType
  <2>3. CASE UNCHANGED bvars
    <3>1. UNCHANGED <<missing, job, text, by, imp>>
      BY <2>3 DEF bvars, rvars, dvars, cvars
    <3> QED BY <3>1, <2>1, QuietSteps DEF WritersType
  <2> QED BY <2>2, <2>3
<1> QED BY <1>1, <1>2, WritersTypes, PTL DEF BSpec

(* A decision an automatic policy accepted has its whole draft, whatever       *)
(* failed or died, and whoever else writes (capture.py).                       *)
THEOREM WritersAutoMeansComplete == BSpec => []AutoMeansComplete
<1>1. DraftInv => AutoMeansComplete
  BY DEF DraftInv
<1> QED BY <1>1, WritersDrafts, PTL

-----------------------------------------------------------------------------
(* Evidence.                                                                 *)

(* Who may stamp a record: a human, or an automatic policy that has looked    *)
(* again in the transaction that accepts.                                    *)
LEMMA WhoStamps ==
    ASSUME BNext
    PROVE  \/ by' = by \/ \E S : Stamp(S, "human")
           \/ \E a \in Agents : AutoRatify(a) \/ AutoRatifyFact(a) \/ RatifyDoc(a)
<1> DEFINE Silent == by' = by \/ \E S : Stamp(S, "human")
           Looks == \E a \in Agents : AutoRatify(a) \/ AutoRatifyFact(a) \/ RatifyDoc(a)
<1>1. ASSUME Human PROVE Silent
  <2>1. \A d : Accept(d) \/ Reject(d) => Silent
    BY DEF Accept, Reject
  <2>2. \A f : AcceptFact(f) \/ RejectFact(f) => Silent
    BY DEF AcceptFact, RejectFact
  <2>3. \A f, old, S, anchored, way : DirectFact(f, old, S, anchored, way) => Silent
    BY DEF DirectFact
  <2>4. \A r, way : AddAnchors(r, way) \/ Rebind(r, way) => Silent
    BY DEF AddAnchors, Rebind
  <2>5. \A d, kept, graph : RetireDecision(d, kept, graph) => Silent
    BY DEF RetireDecision
  <2> HIDE DEF Silent
  <2> QED BY <1>1, <2>1, <2>2, <2>3, <2>4, <2>5 DEF Human
<1>2. ASSUME NEW a \in Agents, Agent(a) PROVE by' = by \/ AutoRatify(a) \/ AutoRatifyFact(a)
  <2>1. \A policy, kind, d, pred, n : Propose(a, policy, kind, d, pred, n) => by' = by
    BY DEF Propose
  <2>2. \A way : Bind(a, way) \/ BindFact(a, way) => by' = by
    BY DEF Bind, BindFact
  <2>3. Inherit(a) \/ Duplicate(a) \/ FactFails(a) => by' = by
    BY DEF Inherit, Duplicate, FactFails
  <2>4. \A policy : ProposeFact(a, policy) => by' = by
    BY DEF ProposeFact
  <2>5. \A anchored, S : CheckFact(a, anchored, S) => by' = by
    BY DEF CheckFact
  <2>6. \A f : AddFactOf(a, f) => by' = by
    BY DEF AddFactOf
  <2>7. Judge(a) \/ JudgeFact(a) \/ Stop(a) => by' = by
    BY DEF Judge, JudgeFact, Stop
  <2> QED BY <1>2, <2>1, <2>2, <2>3, <2>4, <2>5, <2>6, <2>7 DEF Agent
<1>3. ASSUME Anyone PROVE by' = by
  BY <1>3 DEF Anyone
<1>4. ASSUME NEW a \in Agents, ImportStep(a) \/ StopImport(a) PROVE Silent \/ RatifyDoc(a)
  <2>1. ApplyDoc(a) \/ DropPending(a) \/ AddDoc(a) \/ JudgeDoc(a) \/ StopImport(a) => by' = by
    BY DEF ApplyDoc, DropPending, AddDoc, JudgeDoc, StopImport
  <2>2. SettleDoc(a) => Silent
    BY DEF SettleDoc
  <2>3. \A way : BindDoc(a, way) => by' = by
    BY DEF BindDoc
  <2> QED BY <1>4, <2>1, <2>2, <2>3 DEF ImportStep
<1>5. ASSUME DNext PROVE Silent \/ Looks
  <2>1. \A a \in Agents : ImportDocs(a) => by' = by
    BY DEF ImportDocs, ReadDoc
  <2>2. \A ref, new : EditDoc(ref, new) => by' = by
    BY DEF EditDoc
  <2>3. CNext => Silent \/ Looks
    BY <1>1, <1>2, <1>3 DEF CNext
  <2> QED BY <1>4, <1>5, <2>1, <2>2, <2>3 DEF DNext
<1>6. ASSUME Reviewer PROVE Silent
  <2>1. \A S, D : BeginGiven(S, D) => Silent
    BY DEF BeginGiven, StoreKept
  <2>2. BeginAll \/ ListFacts \/ FinishReview \/ ReviewDies => Silent
    BY DEF BeginAll, ListFacts, FinishReview, ReviewDies, StoreKept
  <2>3. \A r : AcceptNext(r) \/ DropNext(r) => Silent
    BY DEF AcceptNext, DropNext, StoreKept
  <2> HIDE DEF Silent
  <2> QED BY <1>6, <2>1, <2>2, <2>3 DEF Reviewer
<1>7. NothingWritten \/ UNCHANGED cvars => by' = by
  BY DEF NothingWritten, rvars, dvars, cvars
<1>8. ASSUME NEW a \in Agents PROVE Plan(a) \/ Refresh(a) \/ Apply(a) \/ EndItem(a) \/ ItemFails(a)
                                   \/ Report(a) \/ BootDies(a) => by' = by
  BY <1>7 DEF Plan, Refresh, Apply, EndItem, ItemFails, StopImport, Report, BootDies
<1>9. ASSUME NEW a \in Agents PROVE /\ \A answers : Answer(a, answers) => by' = by
                                    /\ \A ref : BeginItem(a, ref) => by' = by
  BY <1>7 DEF Answer, BeginItem
<1>10. RNext => Silent \/ Looks
  BY <1>5, <1>6 DEF RNext
<1>11. BNext => Silent \/ Looks
  <2> HIDE DEF Silent, Looks
  <2>1. by' = by => Silent
    BY DEF Silent
  <2> QED BY <1>8, <1>9, <1>10, <2>1 DEF BNext
<1> QED BY <1>11

(* What a verdict on a decision does to its evidence, whoever reached it:      *)
(* the evidence goes along with it, and where no human looked every piece of  *)
(* it was fit for the policy at that very moment (store.ratify, capture.py).  *)
THEOREM WritersEvidence == BSpec => EvidenceIsHandled
<1> DEFINE Fit == \A f \in Facts :
                     Automatic(by'[f]) /\ ~Automatic(by[f])
                        /\ (\E d \in rows[f].supports : rows'[d].status # rows[d].status)
                     => FactEligible(by'[f], f)
<1>1. WritersType /\ [BNext]_bvars => [Fit]_cvars
  <2> SUFFICES ASSUME WritersType, [BNext]_bvars, NEW f \in Facts, Automatic(by'[f]), ~Automatic(by[f]),
                      NEW d \in rows[f].supports, rows'[d].status # rows[d].status
               PROVE  FactEligible(by'[f], f)
    OBVIOUS
  <2>t. TypeOK /\ CaptureType /\ DocType /\ f \in Records /\ d \in Decisions /\ d \in Records
        /\ Decisions \cap Facts = {} /\ rows \in [Records -> Row]
    BY RecordIds DEF WritersType, ChainInv, TypeOK, Row, Records
  <2>1. BNext
    <3>1. bvars' # bvars
      BY DEF bvars, rvars, dvars, cvars
    <3> QED BY <3>1
  <2>2. CASE by' = by
    BY <2>2
  <2>3. ASSUME NEW S, Stamp(S, "human") PROVE FALSE
    <3>1. by'[f] = by[f] \/ by'[f] = "human"
      BY <2>3, <2>t DEF Stamp
    <3> QED BY <3>1 DEF Automatic
  <2>4. ASSUME NEW a \in Agents, AutoRatify(a) PROVE FactEligible(by'[f], f)
    <3> DEFINE j == job[a]
    <3>1. /\ by' = [r \in Records |-> IF r \in {j.d} \cup Evidence(rows, j.d) THEN j.policy ELSE by[r]]
          /\ CascadeEligible(j.policy, j.d) /\ j.d \notin Facts
      <4>1. j.d \in Decisions \cup {None}
        BY <2>t DEF CaptureType, Job, Maybe
      <4> QED BY <2>4, <2>t, <4>1, RecordIds DEF AutoRatify, Stamp
    <3>2. f \in Evidence(rows, j.d) /\ by'[f] = j.policy
      BY <3>1, <2>t
    <3> QED BY <3>1, <3>2 DEF CascadeEligible
  <2>5. ASSUME NEW a \in Agents, RatifyDoc(a) PROVE FactEligible(by'[f], f)
    <3> DEFINE i == imp[a]
    <3>1. /\ by' = [r \in Records |-> IF r \in {i.d} \cup Evidence(rows, i.d) THEN i.mode ELSE by[r]]
          /\ CascadeEligible(i.mode, i.d) /\ i.d \notin Facts
      <4>1. i.d \in Decisions \cup {None}
        BY <2>t DEF DocType, Import, Maybe
      <4> QED BY <2>5, <2>t, <4>1, RecordIds DEF RatifyDoc, Stamp
    <3>2. f \in Evidence(rows, i.d) /\ by'[f] = i.mode
      BY <3>1, <2>t
    <3> QED BY <3>1, <3>2 DEF CascadeEligible
  <2>6. ASSUME NEW a \in Agents, AutoRatifyFact(a) PROVE FALSE
    <3> DEFINE j == job[a]
    <3>1. rows' = AfterRatifyFact(rows, j.f) /\ j.f \in Facts
      BY <2>6, <2>t DEF AutoRatifyFact, Alone, At, CaptureType, JobFits, Job, Maybe
    <3>2. rows[j.f].supersedes # d
      <4>1. j.f \in Records /\ j.f \notin Decisions
        BY <3>1, <2>t DEF Records
      <4> QED BY <4>1, <2>t, RecordIds DEF TypeOK, Table
    <3>3. rows'[d] = rows[d]
      BY <3>1, <3>2, <2>t DEF AfterRatifyFact, With, ClosedBy
    <3> QED BY <3>3
  <2> QED BY <2>1, <2>2, <2>3, <2>4, <2>5, <2>6, WhoStamps
<1>2. BSpec => CascadesAreFit
  BY <1>1, WritersTypes, PTL DEF BSpec, CascadesAreFit
<1> QED BY <1>2, WritersRefineLifecycle, LifecycleEvidence, PTL DEF EvidenceIsHandled

-----------------------------------------------------------------------------
(* Duplicates.                                                               *)

(* Bindings that are copied to a record never make it worth less.             *)
LEMMA BestKeeps ==
    ASSUME NEW x \in Routes, NEW y \in Routes
    PROVE  /\ x \in {"file", "degraded", "live"} => Best(x, y) \in {"file", "degraded", "live"}
           /\ y \in {"waiting", "file", "degraded", "live"} =>
                 Best(x, y) \in {"waiting", "file", "degraded", "live"}
BY DEF Routes, Best, Worth

(* A decision retired as a duplicate, with the graph at hand, takes no fact    *)
(* out of retrieval: the fact has a route of its own, or another decision that *)
(* surfaces, or is given the bindings of the duplicate or of the kept decision *)
(* (store.retire, _carry_fact_bindings).                                     *)
THEOREM WritersStrandNothing == BSpec => DuplicatesStrandNothing
<1> DEFINE Kept == \A f \in Facts :
                      (Served(f) /\ ~(Served(f) \/ route[f] = "waiting")')
                      => ~\E d, kept \in Decisions : RetireDecision(d, kept, TRUE)
<1>1. WritersType /\ [BNext]_bvars => [Kept]_cvars
  <2> SUFFICES ASSUME WritersType, NEW f \in Facts, Served(f),
                      NEW d \in Decisions, NEW kept \in Decisions, RetireDecision(d, kept, TRUE)
               PROVE  (Served(f) \/ route[f] = "waiting")'
    OBVIOUS
  <2>t. /\ rows \in [Records -> Row] /\ route \in [Records -> Routes]
        /\ Decisions \subseteq Records /\ Facts \subseteq Records /\ kept # None
        /\ f \notin Decisions /\ d \in Records /\ kept \in Records /\ f \in Records
        /\ rows[f].supports \subseteq Decisions
    BY RecordIds DEF WritersType, ChainInv, TypeOK, CaptureType, Records, Row
  <2>1. rows' = With(rows, {d}, "deprecated")
    BY DEF RetireDecision, AfterRetire
  <2>2. \A r \in Records : r # d => rows'[r] = rows[r]
    BY <2>1 DEF With
  <2>3. rows'[f] = rows[f] /\ rows[f].status = "accepted"
    BY <2>2, <2>t DEF Served
  <2> DEFINE source == IF Gives(d, TRUE) THEN d ELSE kept
             given == Carried(source, TRUE)
  <2>4. /\ \A r \in Records : route'[r] = IF r = kept THEN Best(route[r], Carried(d, TRUE))
                                        ELSE IF r \in Stranded(d, TRUE) THEN Best(route[r], given)
                                        ELSE route[r]
        /\ Stranded(d, TRUE) # {} => Gives(d, TRUE) \/ Gives(kept, TRUE)
    BY <2>t DEF RetireDecision, Carry
  <2>5. source \in Records /\ given \in Routes /\ Carried(d, TRUE) \in Routes
    <3>1. CaptureType /\ source \in Records
      BY <2>t DEF WritersType
    <3> HIDE DEF source
    <3> QED BY <3>1, <2>t, CarriedTypes
  <2>6. Stranded(d, TRUE) \subseteq Facts
    BY DEF Stranded
  <2>7. \A r \in Records : route[r] \in {"file", "degraded", "live"} =>
                            route'[r] \in {"file", "degraded", "live"}
    <3> HIDE DEF given, source
    <3> QED BY <2>4, <2>5, <2>t, BestKeeps
  <2>8. CASE OwnRoute(f, TRUE)
    <3>1. route[f] \in {"file", "degraded", "live"}
      BY <2>8 DEF OwnRoute
    <3>2. route'[f] \in {"file", "degraded", "live"}
      BY <3>1, <2>7, <2>t
    <3> QED BY <3>2, <2>3 DEF Served, OwnRoute
  <2>9. ASSUME NEW s \in rows[f].supports, s # d, Surfaces(s, TRUE) PROVE Served(f)'
    <3>1. s \in Records /\ rows'[s] = rows[s]
      BY <2>2, <2>9, <2>t
    <3>2. s \in Global \/ route'[s] \in {"file", "degraded", "live"}
      BY <3>1, <2>7, <2>9 DEF Surfaces, OwnRoute
    <3>3. Surfaces(s, TRUE)'
      BY <3>1, <3>2, <2>9 DEF Surfaces, OwnRoute
    <3> QED BY <3>3, <2>3, <2>9 DEF Served
  <2>10. CASE ~OwnRoute(f, TRUE) /\ \A s \in rows[f].supports \ {d} : ~Surfaces(s, TRUE)
    <3>1. d \in rows[f].supports
      BY <2>10 DEF Served
    <3>2. f \in Stranded(d, TRUE)
      BY <3>1, <2>3, <2>10 DEF Stranded
    <3>3. Carried(source, TRUE) # "none"
      BY <3>2, <2>4 DEF Gives
    <3>4. given \in {"waiting", "file", "degraded", "live"}
      <4>1. route[source] \notin {"none", "dead"} /\ given = route[source]
        BY <3>3, <2>5 DEF Carried
      <4> HIDE DEF given, source
      <4> QED BY <4>1, <2>5 DEF Routes
    <3>5. route'[f] = Best(route[f], given)
      BY <3>2, <2>4, <2>t
    <3>6. route'[f] \in {"waiting", "file", "degraded", "live"}
      <4> HIDE DEF given
      <4> QED BY <3>4, <3>5, <2>5, <2>t, BestKeeps
    <3> QED BY <3>6, <2>3 DEF Served, OwnRoute
  <2> QED BY <2>8, <2>9, <2>10
<1> QED BY <1>1, WritersTypes, PTL DEF BSpec, DuplicatesStrandNothing

-----------------------------------------------------------------------------
(* Reviews.  What a review listed and still waits is yet to be looked at; and *)
(* while nobody else acts, so is all that waits.                              *)

ReviewInv ==
    /\ review.all => review.drops = {}
    /\ review.calm => review.all
    /\ review.all => \A r \in review.seen : rows[r].status # "unwritten"
    /\ review.pc = "list" =>
          /\ review.all /\ review.seen \subseteq Decisions
          /\ review.calm => \A d \in Decisions : d \in review.seen <=> rows[d].status = "proposed"
    /\ (review.pc = "accept" /\ review.all) =>
          \A r \in review.seen : rows[r].status = "proposed" => r \in review.todo
    /\ (review.pc = "accept" /\ review.calm) =>
          /\ \A d \in review.todo \cap Decisions : rows[d].status = "proposed"
          /\ \A r \in Records : rows[r].status = "proposed" =>
                r \in review.todo \/ \E d \in review.todo \cap Decisions :
                                        r \in Facts /\ d \in rows[r].supports

\* Nothing comes to wait but what is new.
ProposedWas == \A r \in Records :
    /\ rows[r].status # "unwritten" => rows'[r].supports = rows[r].supports
    /\ rows[r].status # "unwritten" /\ rows'[r].status = "proposed" => rows[r].status = "proposed"

LEMMA NextProposedWas ==
    ASSUME ChainInv, [Next]_rows
    PROVE  ProposedWas
<1> SUFFICES ASSUME NEW r \in Records, rows[r].status # "unwritten"
             PROVE  /\ rows'[r].supports = rows[r].supports
                    /\ rows'[r].status = "proposed" => rows[r].status = "proposed"
  BY DEF ProposedWas
<1>1. CASE Next
  <2>1. Appends(r)
    BY <1>1, NextAppends
  <2>2. CASE rows'[r] = rows[r]
    BY <2>2
  <2>3. CASE /\ <<rows[r].status, rows'[r].status>> \in VerifyTransitions
             /\ rows'[r] = [rows[r] EXCEPT !.status = rows'[r].status]
    <3>1. rows[r] \in Row
      BY DEF ChainInv, TypeOK
    <3> QED BY <3>1, <2>3 DEF VerifyTransitions, Row
  <2> QED BY <2>1, <2>2, <2>3 DEF Appends
<1> QED BY <1>1

LEMMA OthersInReview ==
    ASSUME ReviewType, ReviewInv, WrittenStays, ProposedWas, review' = Interrupted
    PROVE  ReviewInv'
<1>t. review.seen \subseteq Records
  BY DEF ReviewType
<1>1. CASE review.pc = "idle"
  <2>1. review' = review
    BY <1>1 DEF Interrupted, Reviewing
  <2> QED BY <2>1, <1>1, <1>t DEF ReviewInv, WrittenStays
<1>2. CASE review.pc # "idle"
  <2>1. /\ review'.pc = review.pc /\ review'.all = review.all /\ review'.seen = review.seen
        /\ review'.todo = review.todo /\ review'.drops = review.drops /\ review'.calm = FALSE
    BY <1>2 DEF Interrupted, Reviewing, ReviewType
  <2>2. \A r \in review.seen : review.all => rows[r].status # "unwritten" /\ rows'[r].status # "unwritten"
    BY <1>t DEF ReviewInv, WrittenStays
  <2>3. (review.pc = "accept" /\ review.all) =>
            \A r \in review.seen : rows'[r].status = "proposed" => r \in review.todo
    BY <2>2, <1>t DEF ReviewInv, ProposedWas
  <2> QED BY <2>1, <2>2, <2>3 DEF ReviewInv
<1> QED BY <1>1, <1>2

\* What is accepted waits no more, and closes nothing that waits.
LEMMA Accepting ==
    ASSUME NEW S, S \subseteq Records, \A s \in S : ~StalePredecessor(rows, s), TypeOK,
           rows' = With(With(rows, S, "accepted"), ClosedBy(rows, S), "superseded")
    PROVE  \A r \in Records : /\ rows'[r].supports = rows[r].supports
                              /\ rows'[r].status = "proposed" <=> (rows[r].status = "proposed" /\ r \notin S)
<1> SUFFICES ASSUME NEW r \in Records
             PROVE  /\ rows'[r].supports = rows[r].supports
                    /\ rows'[r].status = "proposed" <=> (rows[r].status = "proposed" /\ r \notin S)
  OBVIOUS
<1>1. rows[r] \in Row
  BY DEF TypeOK
<1>2. rows'[r] = IF r \in ClosedBy(rows, S) THEN [rows[r] EXCEPT !.status = "superseded"]
                 ELSE IF r \in S THEN [rows[r] EXCEPT !.status = "accepted"] ELSE rows[r]
  <2>1. With(rows, S, "accepted")[r] = IF r \in S THEN [rows[r] EXCEPT !.status = "accepted"] ELSE rows[r]
    BY DEF With
  <2>2. [With(rows, S, "accepted")[r] EXCEPT !.status = "superseded"] = [rows[r] EXCEPT !.status = "superseded"]
    BY <1>1, <2>1 DEF Row
  <2>3. rows'[r] = IF r \in ClosedBy(rows, S) THEN [With(rows, S, "accepted")[r] EXCEPT !.status = "superseded"]
                   ELSE With(rows, S, "accepted")[r]
    BY DEF With
  <2> QED BY <2>1, <2>2, <2>3
<1>3. r \in ClosedBy(rows, S) => rows[r].status # "proposed"
  <2> SUFFICES ASSUME NEW s \in S, rows[s].supersedes = r, rows[r].status = "proposed" PROVE FALSE
    BY DEF ClosedBy
  <2> QED BY RecordIds DEF StalePredecessor, Records
<1> QED BY <1>1, <1>2, <1>3 DEF Row

LEMMA ReviewKeeps ==
    ASSUME ChainInv, ReviewType, ReviewInv, WrittenStays, ProposedWas, Reviewer
    PROVE  ReviewInv'
<1>t. /\ review.seen \subseteq Records /\ review.todo \subseteq Records /\ review.drops \subseteq Records
      /\ Records = Decisions \cup Facts /\ Decisions \cap Facts = {}
  BY RecordIds DEF ReviewType, Records
<1>1. ASSUME NEW S, NEW D, BeginGiven(S, D) PROVE ReviewInv'
  <2> DEFINE new == [NoReview EXCEPT !.pc = "accept", !.todo = S, !.drops = D]
  <2>1. review' = new
    BY <1>1 DEF BeginGiven
  <2>2. new.pc = "accept" /\ new.all = FALSE /\ new.calm = FALSE
    BY DEF NoReview
  <2> HIDE DEF new
  <2> QED BY <2>1, <2>2 DEF ReviewInv
<1>2. ASSUME BeginAll PROVE ReviewInv'
  <2> DEFINE waiting == Proposed(Decisions)
             new == [NoReview EXCEPT !.pc = "list", !.all = TRUE, !.seen = waiting, !.calm = TRUE]
  <2>1. review' = new /\ rows' = rows
    BY <1>2 DEF BeginAll, StoreKept
  <2>2. waiting = {r \in Decisions : rows[r].status = "proposed"}
    BY DEF Proposed
  <2> HIDE DEF waiting
  <2>3. new.pc = "list" /\ new.all = TRUE /\ new.calm = TRUE /\ new.seen = waiting /\ new.drops = {}
    BY DEF NoReview
  <2> HIDE DEF new
  <2> QED BY <2>1, <2>2, <2>3 DEF ReviewInv
<1>3. ASSUME ListFacts PROVE ReviewInv'
  <2> DEFINE all == review.seen \cup (Proposed(Facts) \ Nested(review.seen))
  <2>1. /\ review' = [review EXCEPT !.pc = "accept", !.seen = all, !.todo = all]
        /\ rows' = rows /\ review.pc = "list"
    BY <1>3 DEF ListFacts, StoreKept, Reviewing
  <2>2. /\ \A r : r \in Proposed(Facts) <=> r \in Facts /\ rows[r].status = "proposed"
        /\ \A r : r \in Nested(review.seen) <=>
                 \E d \in review.seen : r \in Facts /\ rows[r].status = "proposed" /\ d \in rows[r].supports
    BY DEF Proposed, Nested, Evidence
  <2>3. /\ review.all /\ review.seen \subseteq Decisions /\ review.drops = {}
        /\ review.calm => \A d \in Decisions : d \in review.seen <=> rows[d].status = "proposed"
        /\ \A r \in review.seen : rows[r].status # "unwritten"
    BY <2>1 DEF ReviewInv
  <2>4. all \cap Decisions = review.seen /\ \A r \in all : rows[r].status # "unwritten"
    BY <2>2, <2>3, <1>t
  <2>5. \A r \in Records : (review.calm /\ rows[r].status = "proposed") =>
              r \in all \/ \E d \in review.seen : r \in Facts /\ d \in rows[r].supports
    BY <2>2, <2>3, <1>t
  <2> HIDE DEF all
  <2>6. /\ review'.pc = "accept" /\ review'.all = review.all /\ review'.seen = all /\ review'.todo = all
        /\ review'.drops = review.drops /\ review'.calm = review.calm
    BY <2>1 DEF ReviewType
  <2> QED BY <2>1, <2>3, <2>4, <2>5, <2>6 DEF ReviewInv
<1>4. ASSUME NEW r \in Records, AcceptNext(r) PROVE ReviewInv'
  <2> DEFINE accepted == IF r \in Decisions THEN {r} \cup Evidence(rows, r) ELSE {r}
             fit == IF r \in Decisions THEN CanRatify(rows, r) ELSE CanRatifyFact(rows, r)
  <2>1. review.pc = "accept" /\ r \in review.todo /\ (r \in Facts => review.todo \cap Decisions = {})
    BY <1>4 DEF AcceptNext, Reviewing
  <2>2. \A x \in review.seen : review.all => rows[x].status # "unwritten" /\ rows'[x].status # "unwritten"
    BY <1>t DEF ReviewInv, WrittenStays
  <2>3. CASE fit
    <3>1. /\ review' = [review EXCEPT !.todo = @ \ accepted]
          /\ rows' = With(With(rows, accepted, "accepted"), ClosedBy(rows, accepted), "superseded")
      BY <1>4, <2>3 DEF AcceptNext, AfterRatify, AfterRatifyFact
    <3>2. accepted \subseteq Records /\ \A s \in accepted : ~StalePredecessor(rows, s)
      BY <2>3, <1>t DEF CanRatify, CanRatifyFact, Evidence
    <3>3. /\ r \in accepted /\ accepted \cap Decisions \subseteq {r}
          /\ r \in Decisions => \A f \in Facts : rows[f].status = "proposed" /\ r \in rows[f].supports => f \in accepted
      BY <1>t DEF Evidence
    <3> HIDE DEF accepted
    <3>4. \A x \in Records : /\ rows'[x].supports = rows[x].supports
                             /\ rows'[x].status = "proposed" <=> (rows[x].status = "proposed" /\ x \notin accepted)
      BY <3>1, <3>2, Accepting DEF ChainInv
    <3>5. /\ review'.pc = "accept" /\ review'.all = review.all /\ review'.seen = review.seen
          /\ review'.todo = review.todo \ accepted
          /\ review'.drops = review.drops /\ review'.calm = review.calm
      BY <3>1, <2>1 DEF ReviewType
    <3>6. review.all => \A x \in review.seen : rows'[x].status = "proposed" => x \in review.todo \ accepted
      BY <2>1, <3>4, <1>t DEF ReviewInv
    <3>7. ASSUME review.calm PROVE \A d \in (review.todo \ accepted) \cap Decisions : rows'[d].status = "proposed"
      BY <2>1, <3>4, <3>7, <1>t DEF ReviewInv
    <3>8. ASSUME review.calm, NEW x \in Records, rows'[x].status = "proposed", x \notin review.todo \ accepted
          PROVE  \E d \in (review.todo \ accepted) \cap Decisions : x \in Facts /\ d \in rows'[x].supports
      <4>1. rows[x].status = "proposed" /\ x \notin accepted /\ x \notin review.todo
        BY <3>4, <3>8
      <4>2. PICK d \in review.todo \cap Decisions : x \in Facts /\ d \in rows[x].supports
        BY <2>1, <3>8, <4>1 DEF ReviewInv
      <4>3. r \in Decisions
        BY <2>1, <4>2, <1>t
      <4>4. d # r
        BY <3>3, <4>1, <4>2, <4>3
      <4> QED BY <3>3, <3>4, <4>2, <4>4
    <3> QED BY <2>1, <2>2, <3>5, <3>6, <3>7, <3>8 DEF ReviewInv
  <2>4. CASE ~fit
    <3>1. review' = [review EXCEPT !.todo = @ \ {r}] /\ rows' = rows
      BY <1>4, <2>4 DEF AcceptNext, StoreKept
    <3>2. rows[r].status # "proposed"
      BY <2>4, <1>t, ChainInvQueue DEF QueueIsRatifiable
    <3>3. /\ review'.pc = "accept" /\ review'.all = review.all /\ review'.seen = review.seen
          /\ review'.todo = review.todo \ {r}
          /\ review'.drops = review.drops /\ review'.calm = review.calm
      BY <3>1, <2>1 DEF ReviewType
    <3>4. review.calm => r \in Facts
      BY <2>1, <3>2, <1>t DEF ReviewInv
    <3>5. review.all => \A x \in review.seen : rows[x].status = "proposed" => x \in review.todo \ {r}
      BY <2>1, <3>2 DEF ReviewInv
    <3>6. review.calm => \A x \in Records : rows[x].status = "proposed" => x \in review.todo \ {r}
      BY <2>1, <3>2, <3>4 DEF ReviewInv
    <3>7. review.calm => (review.todo \ {r}) \cap Decisions = {}
      BY <2>1, <3>4
    <3> QED BY <2>1, <2>2, <3>1, <3>3, <3>5, <3>6, <3>7 DEF ReviewInv
  <2> QED BY <2>3, <2>4
<1>5. ASSUME NEW r, DropNext(r) PROVE ReviewInv'
  <2>1. /\ review' = [review EXCEPT !.drops = @ \ {r}] /\ review.pc = "accept" /\ review.drops # {}
    BY <1>5 DEF DropNext, Reviewing
  <2>2. review'.pc = "accept" /\ review'.all = review.all /\ review'.calm = review.calm
    BY <2>1 DEF ReviewType
  <2>3. ~review.all /\ ~review.calm
    BY <2>1 DEF ReviewInv
  <2> QED BY <2>2, <2>3 DEF ReviewInv
<1>6. ASSUME FinishReview \/ ReviewDies PROVE ReviewInv'
  <2>1. review' = NoReview
    BY <1>6 DEF FinishReview, ReviewDies
  <2>2. NoReview.pc = "idle" /\ NoReview.all = FALSE /\ NoReview.calm = FALSE
    BY DEF NoReview
  <2> QED BY <2>1, <2>2 DEF ReviewInv
<1> QED BY <1>1, <1>2, <1>3, <1>4, <1>5, <1>6 DEF Reviewer

(* A review of everything that comes to its end leaves nothing of what it      *)
(* listed waiting, whoever else writes, and nothing at all when nobody does     *)
(* (cli.py ratify --all).                                                    *)
THEOREM WritersAllReviewed == BSpec => AllReviewed
<1> DEFINE Left == (FinishReview /\ review.all) =>
                      /\ Proposed(review.seen) = {}
                      /\ review.calm => Proposed(Records) = {}
<1>1. BInit => ReviewInv
  <2>1. NoReview.pc = "idle" /\ NoReview.all = FALSE /\ NoReview.calm = FALSE
    BY DEF NoReview
  <2> QED BY <2>1 DEF BInit, RInit, ReviewInv
<1>2. WritersType /\ ReviewInv /\ [BNext]_bvars => ReviewInv'
  <2> SUFFICES ASSUME WritersType, ReviewInv, [BNext]_bvars PROVE ReviewInv'
    OBVIOUS
  <2>t. ChainInv /\ ReviewType /\ WrittenStays /\ ProposedWas
    BY WritersNext, NextKeepsWritten, NextProposedWas DEF WritersType
  <2>k. ASSUME rows' = rows, review' = review PROVE ReviewInv'
    BY <2>k DEF ReviewInv
  <2>1. ASSUME RNext PROVE ReviewInv'
    BY <2>1, <2>t, OthersInReview, ReviewKeeps DEF RNext
  <2>2. NothingWritten \/ (UNCHANGED <<cvars, doc, text, review>>) => ReviewInv'
    BY <2>k DEF NothingWritten, rvars, dvars, cvars
  <2>3. ASSUME NEW a \in Agents, ItemFails(a) PROVE ReviewInv'
    BY <2>3, <2>t, OthersInReview DEF ItemFails
  <2>4. ASSUME NEW a \in Agents, NEW answers, NEW ref,
               Plan(a) \/ Refresh(a) \/ Apply(a) \/ EndItem(a) \/ Report(a) \/ BootDies(a)
                 \/ Answer(a, answers) \/ BeginItem(a, ref)
        PROVE  ReviewInv'
    <3>1. NothingWritten \/ (UNCHANGED <<cvars, doc, text, review>>)
      BY <2>4 DEF Plan, Refresh, Apply, EndItem, Report, BootDies, Answer, BeginItem
    <3> QED BY <3>1, <2>2
  <2>5. UNCHANGED bvars => ReviewInv'
    BY <2>k DEF bvars, rvars, dvars, cvars
  <2> QED BY <2>1, <2>3, <2>4, <2>5 DEF BNext
<1>3. WritersType /\ ReviewInv => [Left]_rvars
  <2> SUFFICES ASSUME WritersType, ReviewInv, FinishReview, review.all
               PROVE  /\ Proposed(review.seen) = {}
                      /\ review.calm => Proposed(Records) = {}
    OBVIOUS
  <2>1. review.pc = "accept" /\ review.todo = {}
    BY DEF FinishReview, Reviewing
  <2> QED BY <2>1 DEF ReviewInv, Proposed
<1> QED BY <1>1, <1>2, <1>3, WritersTypes, PTL DEF BSpec, AllReviewed

-----------------------------------------------------------------------------
(* Documents.  Under one importer a document has at most one record in force  *)
(* and one that waits, and the one that waits supersedes the one in force; an *)
(* import that is about to write knows both.                                  *)

\* One process at a time may import, or bootstrap.
OneImporter ==
    \A s \in Settings, a, b \in Agents :
        (s.modes[a] # {} \/ a \in s.boots) /\ (s.modes[b] # {} \/ b \in s.boots) => a = b

MayImport(a) == setting.modes[a] # {} \/ a \in setting.boots
Importers ==
    /\ \A a, b \in Agents : MayImport(a) /\ MayImport(b) => a = b
    /\ \A a \in Agents : imp[a].pc # "idle" => MayImport(a)
    /\ \A a \in Agents : boot[a].pc # "idle" => a \in setting.boots

SameDocument(d, e) == text[d].of # None /\ text[d].of = text[e].of
OneEach ==
    \A d, e \in Decisions : SameDocument(d, e) =>
        /\ (rows[d].status \in {"accepted", "proposed"} /\ rows[e].status = rows[d].status) => d = e
        /\ (rows[d].status = "accepted" /\ rows[e].status = "proposed") => rows[e].supersedes = d

Planned(a) ==
    \A d \in Decisions : text[d].of = imp[a].req.ref =>
        /\ imp[a].pc = "drop" => /\ rows[d].status = "proposed" => d = imp[a].disp.drop
                                 /\ rows[d].status = "accepted" => d \in {imp[a].disp.pred, imp[a].disp.drop}
        /\ imp[a].pc = "add" => /\ rows[d].status # "proposed"
                                /\ rows[d].status = "accepted" => d = imp[a].disp.pred

DocInv == Importers /\ OneEach /\ \A a \in Agents : Planned(a)

\* What one call does to a record that is there already.
Moved ==
    \A d \in Decisions : rows[d].status # "unwritten" =>
        /\ rows'[d].supersedes = rows[d].supersedes
        /\ rows'[d].status = "proposed" => rows[d].status = "proposed"
        /\ rows'[d].status = "accepted" => rows[d].status \in {"accepted", "proposed"}

LEMMA NextMoves ==
    ASSUME ChainInv, [Next]_rows
    PROVE  Moved
<1> SUFFICES ASSUME NEW d \in Decisions, rows[d].status # "unwritten"
             PROVE  /\ rows'[d].supersedes = rows[d].supersedes
                    /\ rows'[d].status = "proposed" => rows[d].status = "proposed"
                    /\ rows'[d].status = "accepted" => rows[d].status \in {"accepted", "proposed"}
  BY DEF Moved
<1>1. CASE Next
  <2>1. d \in Records /\ rows[d] \in Row
    BY DEF ChainInv, TypeOK, Records
  <2>2. Appends(d)
    BY <1>1, <2>1, NextAppends
  <2>3. CASE rows'[d] = rows[d]
    BY <2>3, <2>1
  <2>4. CASE /\ <<rows[d].status, rows'[d].status>> \in VerifyTransitions
             /\ rows'[d] = [rows[d] EXCEPT !.status = rows'[d].status]
    <3>1. rows'[d].supersedes = rows[d].supersedes
      BY <2>1, <2>4 DEF Row
    <3> QED BY <3>1, <2>4 DEF VerifyTransitions
  <2> QED BY <2>2, <2>3, <2>4 DEF Appends
<1>2. CASE rows' = rows
  BY <1>2
<1> QED BY <1>1, <1>2

\* Acceptance closes the predecessor.
LEMMA AcceptedCloses ==
    ASSUME ChainInv', NEW d \in Decisions, NEW e \in Decisions,
           rows'[e].supersedes = d, rows'[e].status = "accepted"
    PROVE  rows'[d].status # "accepted"
<1>1. d \in Records /\ e \in Records
  BY DEF Records
<1> QED BY <1>1, RecordIds DEF ChainInv, SettledClosed, Settled

LEMMA EachKept ==
    ASSUME ChainInv', DraftInv, OneEach, Moved, text' = text
    PROVE  OneEach'
<1> SUFFICES ASSUME NEW d \in Decisions, NEW e \in Decisions, SameDocument(d, e)'
             PROVE  /\ (rows'[d].status \in {"accepted", "proposed"} /\ rows'[e].status = rows'[d].status) => d = e
                    /\ (rows'[d].status = "accepted" /\ rows'[e].status = "proposed") => rows'[e].supersedes = d
  BY DEF OneEach
<1>1. SameDocument(d, e) /\ SameDocument(e, d) /\ rows[d].status # "unwritten" /\ rows[e].status # "unwritten"
  BY DEF SameDocument, DraftInv, DraftsAreTold
<1>2. ASSUME rows'[d].status = "accepted", rows'[e].status = "accepted" PROVE d = e
  <2>1. rows[d].status = "accepted" /\ rows[e].status = "proposed" => FALSE
    BY <1>1, <1>2, AcceptedCloses DEF OneEach, Moved
  <2>2. rows[e].status = "accepted" /\ rows[d].status = "proposed" => FALSE
    BY <1>1, <1>2, AcceptedCloses DEF OneEach, Moved
  <2> QED BY <1>1, <1>2, <2>1, <2>2 DEF OneEach, Moved
<1>3. ASSUME rows'[d].status = "proposed", rows'[e].status = "proposed" PROVE d = e
  BY <1>1, <1>3 DEF OneEach, Moved
<1>4. ASSUME rows'[d].status = "accepted", rows'[e].status = "proposed" PROVE rows'[e].supersedes = d
  BY <1>1, <1>4 DEF OneEach, Moved
<1> QED BY <1>2, <1>3, <1>4

LEMMA PlanKept ==
    ASSUME DraftInv, Moved, text' = text, NEW a \in Agents, Planned(a), imp[a].req.ref # None,
           imp'[a].req = imp[a].req, imp'[a].disp = imp[a].disp, imp'[a].pc = imp[a].pc
    PROVE  Planned(a)'
<1> SUFFICES ASSUME NEW d \in Decisions, text'[d].of = imp'[a].req.ref
             PROVE  /\ imp'[a].pc = "drop" =>
                          /\ rows'[d].status = "proposed" => d = imp'[a].disp.drop
                          /\ rows'[d].status = "accepted" => d \in {imp'[a].disp.pred, imp'[a].disp.drop}
                    /\ imp'[a].pc = "add" =>
                          /\ rows'[d].status # "proposed"
                          /\ rows'[d].status = "accepted" => d = imp'[a].disp.pred
  BY DEF Planned
<1>1. rows[d].status # "unwritten"
  BY DEF DraftInv, DraftsAreTold
<1>2. /\ rows'[d].status = "proposed" => rows[d].status = "proposed"
      /\ rows'[d].status = "accepted" => rows[d].status \in {"accepted", "proposed"}
  BY <1>1 DEF Moved
<1> QED BY <1>2 DEF Planned

LEMMA ImportersKept ==
    ASSUME Importers, setting' = setting,
           \A b \in Agents : imp'[b].pc # "idle" => imp[b].pc # "idle" \/ MayImport(b),
           \A b \in Agents : boot'[b].pc # "idle" => boot[b].pc # "idle" \/ b \in setting.boots
    PROVE  Importers'
BY DEF Importers, MayImport

LEMMA DocumentsKept ==
    ASSUME ChainInv', DocType, DraftInv, DocInv, Moved, text' = text, Importers',
           \A b \in Agents : imp'[b].pc \in {"drop", "add"} =>
              imp'[b].pc = imp[b].pc /\ imp'[b].req = imp[b].req /\ imp'[b].disp = imp[b].disp
    PROVE  DocInv'
<1>1. OneEach'
  BY EachKept DEF DocInv
<1>2. ASSUME NEW b \in Agents PROVE Planned(b)'
  <2>1. CASE imp'[b].pc \in {"drop", "add"}
    <3>1. imp[b].req.ref # None
      BY <2>1 DEF DocType, ImportFits
    <3> QED BY <2>1, <3>1, PlanKept DEF DocInv
  <2>2. CASE imp'[b].pc \notin {"drop", "add"}
    BY <2>2 DEF Planned
  <2> QED BY <2>1, <2>2
<1> QED BY <1>1, <1>2 DEF DocInv

LEMMA MoveKeeps ==
    ASSUME DocType, NEW a \in Agents, NEW x, Move(a, x)
    PROVE  /\ imp'[a] = x
           /\ \A b \in Agents : b # a =>
                 imp'[b].pc = imp[b].pc /\ imp'[b].req = imp[b].req /\ imp'[b].disp = imp[b].disp
<1>1. \A b \in Agents : LET calmless == [imp[b] EXCEPT !.calm = FALSE] IN
          calmless.pc = imp[b].pc /\ calmless.req = imp[b].req /\ calmless.disp = imp[b].disp
  BY DEF DocType, Import
<1> QED BY <1>1 DEF Move

\* The record that holds a status for a document is the oldest of its kind.
LEMMA OldestHolds ==
    ASSUME DocType, OneEach, NEW ref, ref # None, NEW d \in Decisions, text[d].of = ref,
           rows[d].status \in {"accepted", "proposed"}
    PROVE  d = Oldest(Holding(ref, rows[d].status))
<1> DEFINE H == Holding(ref, rows[d].status)
<1>1. d \in H /\ H \in SUBSET Decisions
  BY HoldingTypes DEF Holding, Existing
<1>2. Oldest(H) \in H
  BY <1>1, OldestIsOne
<1>3. text[Oldest(H)].of = ref /\ rows[Oldest(H)].status = rows[d].status
  BY <1>2 DEF Holding, Existing
<1> HIDE DEF H
<1>4. d = Oldest(H)
  BY <1>1, <1>2, <1>3 DEF OneEach, SameDocument
<1> QED BY <1>4 DEF H

LEMMA ImportDocuments ==
    ASSUME ChainInv, ChainInv', DocType, DraftInv, DocInv, Moved, setting' = setting, boot' = boot,
           NEW a \in Agents, ImportStep(a) \/ (StopImport(a))
    PROVE  DocInv'
<1> DEFINE i == imp[a]
           disp == Disposition(i.req)
<1>i. i \in Import /\ ImportFits(i) /\ i.req \in Req
  BY DEF DocType, Import
<1>o. \A act : Over(a, act).pc = "idle"
  BY DEF Over, NoImport
<1>n. NoImport.pc = "idle"
  BY DEF NoImport
<1>e. ASSUME NEW pc PROVE [i EXCEPT !.pc = pc].pc = pc
  BY <1>i DEF Import
<1>m. ASSUME NEW x, Move(a, x), i.pc # "idle" \/ x.pc = "idle" PROVE Importers'
  <2>1. \A b \in Agents : imp'[b].pc # "idle" => imp[b].pc # "idle"
    BY <1>m, MoveKeeps
  <2> QED BY <2>1, ImportersKept DEF DocInv
<1>k. ASSUME NEW x, Move(a, x), i.pc # "idle" \/ x.pc = "idle", x.pc \notin {"drop", "add"}, text' = text
      PROVE  DocInv'
  <2>1. \A b \in Agents : imp'[b].pc \in {"drop", "add"} =>
              imp'[b].pc = imp[b].pc /\ imp'[b].req = imp[b].req /\ imp'[b].disp = imp[b].disp
    BY <1>k, MoveKeeps
  <2> QED BY <2>1, <1>k, <1>m, DocumentsKept
<1>p. ASSUME NEW x, Move(a, x), i.pc # "idle", text' = text, Planned(a)'
      PROVE  DocInv'
  <2>1. OneEach' /\ Importers'
    BY <1>p, <1>m, EachKept DEF DocInv
  <2>2. ASSUME NEW b \in Agents, b # a PROVE Planned(b)'
    <3>1. imp'[b].pc = imp[b].pc /\ imp'[b].req = imp[b].req /\ imp'[b].disp = imp[b].disp
      BY <1>p, <2>2, MoveKeeps
    <3>2. imp[b].pc = "idle"
      BY <1>p, <2>2 DEF DocInv, Importers
    <3> QED BY <3>1, <3>2 DEF Planned
  <2> QED BY <1>p, <2>1, <2>2 DEF DocInv
<1>1. ASSUME ApplyDoc(a) PROVE DocInv'
  <2>1. /\ disp.action \in {"existing", "unanchorable", "pending", "written", "superseded"}
        /\ disp.action \in {"written", "superseded"} =>
              /\ disp.pred = Oldest(Holding(i.req.ref, "accepted"))
              /\ disp.drop = Oldest(Holding(i.req.ref, "proposed"))
    BY <1>i, DispositionTypes
  <2>2. i.pc = "apply" /\ i.req.ref # None /\ rows' = rows /\ text' = text
    BY <1>1, <1>i DEF ApplyDoc, Importing, ImportFits
  <2>3. PICK new : /\ Move(a, new)
                   /\ \/ new = [i EXCEPT !.pc = IF ToSettle(i.req, disp.match) THEN "settle" ELSE "bind",
                                         !.disp = disp, !.d = disp.match]
                      \/ /\ disp.action \in {"written", "superseded"}
                         /\ new = [i EXCEPT !.pc = IF disp.drop = None THEN "add" ELSE "drop", !.disp = disp]
                      \/ new = Over(a, disp.action)
    BY <1>1, <2>1 DEF ApplyDoc
  <2> HIDE DEF disp
  <2>4. CASE new = [i EXCEPT !.pc = IF ToSettle(i.req, disp.match) THEN "settle" ELSE "bind",
                             !.disp = disp, !.d = disp.match]
    <3>1. new.pc \in {"settle", "bind"}
      BY <2>4, <1>i DEF Import
    <3> QED BY <3>1, <2>2, <2>3, <1>k
  <2>5. CASE new = Over(a, disp.action)
    BY <2>5, <1>o, <2>2, <2>3, <1>k
  <2>6. CASE /\ disp.action \in {"written", "superseded"}
             /\ new = [i EXCEPT !.pc = IF disp.drop = None THEN "add" ELSE "drop", !.disp = disp]
    <3>1. new.pc = (IF disp.drop = None THEN "add" ELSE "drop") /\ new.disp = disp /\ new.req = i.req
      BY <2>6, <1>i DEF Import
    <3>2. \A d \in Decisions : text[d].of = i.req.ref =>
              /\ rows[d].status = "proposed" => d = disp.drop
              /\ rows[d].status = "accepted" => d = disp.pred
      BY <2>1, <2>2, <2>6, OldestHolds DEF DocInv
    <3>3. imp'[a] = new /\ None \notin Decisions
      BY <2>3, MoveKeeps, RecordIds
    <3>4. Planned(a)'
      BY <2>2, <3>1, <3>2, <3>3 DEF Planned
    <3> QED BY <2>2, <2>3, <3>4, <1>p
  <2> QED BY <2>3, <2>4, <2>5, <2>6
<1>2. ASSUME SettleDoc(a) PROVE DocInv'
  BY <1>2, <1>e, <1>k DEF SettleDoc, Importing
<1>3. ASSUME DropPending(a) PROVE DocInv'
  <2> DEFINE drop == i.disp.drop
             new == [i EXCEPT !.pc = "add"]
  <2>1. /\ i.pc = "drop" /\ rows[drop].status = "proposed" /\ rows' = AfterDrop(rows, drop)
        /\ Move(a, new) /\ text' = text /\ drop \in Decisions /\ i.req.ref # None
    BY <1>3, <1>i DEF DropPending, Importing, CanDrop, ImportFits, Import, Disp, Maybe
  <2>2. new.pc = "add" /\ new.disp = i.disp /\ new.req = i.req
    BY <1>i DEF Import
  <2> HIDE DEF new
  <2>3. rows'[drop].status = "rejected"
    <3> DEFINE dropped == With(rows, {drop}, "rejected")
    <3>1. drop \in Records /\ rows[drop] \in Row
      BY <2>1 DEF Records, ChainInv, TypeOK
    <3>2. dropped[drop] = [rows[drop] EXCEPT !.status = "rejected"]
      BY <3>1 DEF With
    <3>3. dropped[drop] \in Row /\ dropped[drop].status = "rejected"
      BY <3>1, <3>2 DEF Row, Status
    <3>4. \E S : rows' = With(dropped, S, "rejected")
      BY <2>1 DEF AfterDrop
    <3> HIDE DEF dropped
    <3> QED BY <3>1, <3>3, <3>4 DEF With, Row
  <2>4. \A d \in Decisions : text[d].of = i.req.ref =>
            /\ rows'[d].status # "proposed"
            /\ rows'[d].status = "accepted" => d = i.disp.pred
    <3> SUFFICES ASSUME NEW d \in Decisions, text[d].of = i.req.ref
                 PROVE  /\ rows'[d].status # "proposed"
                        /\ rows'[d].status = "accepted" => d = i.disp.pred
      OBVIOUS
    <3>1. rows[d].status # "unwritten"
      BY <2>1 DEF DraftInv, DraftsAreTold
    <3>2. /\ rows[d].status = "proposed" => d = drop
          /\ rows[d].status = "accepted" => d \in {i.disp.pred, drop}
      BY <2>1 DEF DocInv, Planned
    <3> QED BY <3>1, <3>2, <2>3, <2>1 DEF Moved
  <2>5. imp'[a] = new
    BY <2>1, MoveKeeps
  <2>6. Planned(a)'
    BY <2>1, <2>2, <2>4, <2>5 DEF Planned
  <2> QED BY <2>1, <2>6, <1>p
<1>5. ASSUME NEW way \in setting.ways \cup {"none"}, BindDoc(a, way) PROVE DocInv'
  <2>1. PICK new : Move(a, new) /\ new.pc \in {"judge", "idle"}
    BY <1>5, <1>e, <1>o DEF BindDoc
  <2> QED BY <1>5, <2>1, <1>k DEF BindDoc, Importing
<1>6. ASSUME JudgeDoc(a) PROVE DocInv'
  <2>1. PICK new : Move(a, new) /\ new.pc \in {"ratify", "idle"}
    BY <1>6, <1>e, <1>n DEF JudgeDoc
  <2> QED BY <1>6, <2>1, <1>k DEF JudgeDoc, Importing
<1>7. ASSUME RatifyDoc(a) PROVE DocInv'
  BY <1>7, <1>n, <1>k DEF RatifyDoc
<1>8. ASSUME StopImport(a) PROVE DocInv'
  BY <1>8, <1>n, <1>k DEF StopImport
<1>4. ASSUME AddDoc(a) PROVE DocInv'
  <2> DEFINE left == {x \in Decisions \cap setting.ids : rows[x].status = "unwritten"}
             d == CHOOSE x \in left : TRUE
             row == [status |-> i.req.as, supersedes |-> i.disp.pred, supports |-> {}]
             new == [i EXCEPT !.pc = "bind", !.d = d]
             named == {e \in Decisions : text[e].of # None}
             entry == [of |-> i.req.ref, text |-> i.req.text, nth |-> 1 + Cardinality(named)]
  <2>0. left # {}
    BY <1>4 DEF AddDoc
  <2>d. d \in Decisions /\ d \in Records /\ rows[d].status = "unwritten"
    BY <2>0 DEF Records
  <2>1. /\ rows' = AfterAdd(rows, d, row) /\ i.pc = "add" /\ Move(a, new)
        /\ text' = [text EXCEPT ![d] = entry] /\ CanAdd(rows, d, row)
    BY <1>4 DEF AddDoc, Importing
  <2> HIDE DEF left, d
  <2>2. i.req.ref # None /\ i.req.as \in {"accepted", "proposed", "rejected"}
    BY <1>i, <2>1 DEF ImportFits, Req
  <2>3. new.pc = "bind" /\ entry.of = i.req.ref
    BY <1>i DEF Import
  <2>4. rows'[d].supersedes = i.disp.pred
    <3>1. rows \in [Records -> Row]
      BY DEF ChainInv, TypeOK
    <3> QED BY <2>d, <2>1, <3>1 DEF AfterAdd, With
  <2> HIDE DEF new, entry, row
  <2>5. \A e \in Decisions : text'[e] = IF e = d THEN entry ELSE text[e]
    BY <2>1, <2>d DEF DocType
  <2>6. \A e \in Decisions : (e # d /\ text'[e].of = i.req.ref) =>
            /\ rows'[e].status # "proposed"
            /\ rows'[e].status = "accepted" => e = i.disp.pred
    <3> SUFFICES ASSUME NEW e \in Decisions, e # d, text'[e].of = i.req.ref
                 PROVE  /\ rows'[e].status # "proposed"
                        /\ rows'[e].status = "accepted" => e = i.disp.pred
      OBVIOUS
    <3>1. text[e].of = i.req.ref
      BY <2>5
    <3>2. rows[e].status # "unwritten"
      BY <3>1, <2>2 DEF DraftInv, DraftsAreTold
    <3>3. rows[e].status # "proposed" /\ (rows[e].status = "accepted" => e = i.disp.pred)
      BY <3>1, <2>1 DEF DocInv, Planned
    <3> QED BY <3>2, <3>3 DEF Moved
  <2>7. ASSUME NEW x \in Decisions, NEW y \in Decisions, SameDocument(x, y)'
        PROVE  /\ (rows'[x].status \in {"accepted", "proposed"} /\ rows'[y].status = rows'[x].status) => x = y
               /\ (rows'[x].status = "accepted" /\ rows'[y].status = "proposed") => rows'[y].supersedes = x
    <3>1. text'[x].of = text'[y].of /\ text'[x].of # None
      BY <2>7 DEF SameDocument
    <3>2. CASE x = d
      <4>1. text'[y].of = i.req.ref
        BY <3>1, <3>2, <2>3, <2>5
      <4>2. ASSUME y # d, rows'[y].status = "accepted" PROVE rows'[d].status # "accepted"
        <5>1. y = i.disp.pred
          BY <4>1, <4>2, <2>6
        <5>2. y = rows'[d].supersedes
          BY <5>1, <2>4
        <5> QED BY <5>2, <4>2, <2>d, AcceptedCloses
      <4> QED BY <3>2, <4>1, <4>2, <2>6
    <3>3. CASE y = d
      <4>1. text'[x].of = i.req.ref
        BY <3>1, <3>3, <2>3, <2>5
      <4>2. ASSUME x # d, rows'[x].status = "accepted" PROVE rows'[d].status # "accepted" /\ rows'[d].supersedes = x
        <5>1. x = i.disp.pred
          BY <4>1, <4>2, <2>6
        <5>2. x = rows'[d].supersedes
          BY <5>1, <2>4
        <5> QED BY <5>2, <4>2, <2>d, AcceptedCloses
      <4> QED BY <3>3, <4>1, <4>2, <2>6
    <3>4. CASE x # d /\ y # d
      <4>1. SameDocument(x, y) /\ SameDocument(y, x)
        BY <2>5, <3>1, <3>4 DEF SameDocument
      <4>2. rows[x].status # "unwritten" /\ rows[y].status # "unwritten"
        BY <4>1 DEF SameDocument, DraftInv, DraftsAreTold
      <4>3. ASSUME rows'[x].status = "accepted", rows'[y].status = "accepted" PROVE x = y
        <5>1. rows[x].status = "accepted" /\ rows[y].status = "proposed" => FALSE
          BY <4>1, <4>2, <4>3, AcceptedCloses DEF DocInv, OneEach, Moved
        <5>2. rows[y].status = "accepted" /\ rows[x].status = "proposed" => FALSE
          BY <4>1, <4>2, <4>3, AcceptedCloses DEF DocInv, OneEach, Moved
        <5> QED BY <4>1, <4>2, <4>3, <5>1, <5>2 DEF DocInv, OneEach, Moved
      <4>4. ASSUME rows'[x].status = "proposed", rows'[y].status = "proposed" PROVE x = y
        BY <4>1, <4>2, <4>4 DEF DocInv, OneEach, Moved
      <4>5. ASSUME rows'[x].status = "accepted", rows'[y].status = "proposed" PROVE rows'[y].supersedes = x
        BY <4>1, <4>2, <4>5 DEF DocInv, OneEach, Moved
      <4> QED BY <4>3, <4>4, <4>5
    <3> QED BY <3>2, <3>3, <3>4
  <2>8. OneEach'
    BY <2>7 DEF OneEach
  <2>9. ASSUME NEW b \in Agents PROVE Planned(b)'
    <3>1. CASE b = a
      <4>1. imp'[a].pc = "bind"
        BY <2>1, <2>3, MoveKeeps
      <4> QED BY <3>1, <4>1 DEF Planned
    <3>2. CASE b # a
      <4>1. imp'[b].pc = imp[b].pc
        BY <3>2, <2>1, MoveKeeps
      <4>2. imp[b].pc = "idle"
        BY <3>2, <2>1 DEF DocInv, Importers
      <4> QED BY <4>1, <4>2 DEF Planned
    <3> QED BY <3>1, <3>2
  <2> QED BY <2>1, <2>8, <2>9, <1>m DEF DocInv
<1> QED BY <1>1, <1>2, <1>3, <1>4, <1>5, <1>6, <1>7, <1>8 DEF ImportStep

LEMMA DocumentSteps ==
    ASSUME ChainInv, ChainInv', CaptureType, DocType, BootType, DraftInv, DocInv, Moved, BNext
    PROVE  DocInv'
<1> DEFINE Idled == \A b \in Agents : \/ imp'[b].pc = "idle"
                                      \/ /\ imp'[b].pc = imp[b].pc /\ imp'[b].req = imp[b].req
                                         /\ imp'[b].disp = imp[b].disp
           BootsKept == \A b \in Agents : boot'[b].pc # "idle" => boot[b].pc # "idle" \/ b \in setting.boots
<1>q. ASSUME text' = text, setting' = setting, Idled, BootsKept PROVE DocInv'
  <2>1. Importers'
    BY <1>q, ImportersKept DEF DocInv
  <2> QED BY <1>q, <2>1, DocumentsKept
<1>d. (Disturb => Idled) /\ (UNCHANGED imp => Idled) /\ (UNCHANGED boot => BootsKept)
  BY DisturbKeeps
<1>1. ASSUME RNext, UNCHANGED boot PROVE DocInv'
  <2>s. setting' = setting /\ BootsKept
    BY <1>1, <1>d, SettingIsKept
  <2>1. ASSUME Reviewer PROVE DocInv'
    <3>1. text' = text /\ (Disturb \/ UNCHANGED imp)
      <4>1. \A S, D : BeginGiven(S, D) => text' = text /\ Disturb
        BY DEF BeginGiven
      <4>2. BeginAll \/ ListFacts => text' = text /\ Disturb
        BY DEF BeginAll, ListFacts, RestKept
      <4>3. FinishReview \/ ReviewDies => text' = text /\ UNCHANGED imp
        BY DEF FinishReview, ReviewDies, RestKept
      <4>4. \A r : AcceptNext(r) \/ DropNext(r) => text' = text /\ Disturb
        BY DEF AcceptNext, DropNext, RestKept
      <4> QED BY <2>1, <4>1, <4>2, <4>3, <4>4 DEF Reviewer
    <3> QED BY <3>1, <2>s, <1>d, <1>q
  <2>2. ASSUME CNext, Disturb, text' = text PROVE DocInv'
    BY <2>2, <2>s, <1>d, <1>q
  <2>3. ASSUME NEW ref, NEW new, EditDoc(ref, new) PROVE DocInv'
    BY <2>3, <2>s, <1>d, <1>q DEF EditDoc
  <2>4. ASSUME NEW a \in Agents, ImportDocs(a) PROVE DocInv'
    <3>1. PICK ref \in setting.docs, mode \in setting.modes[a], kind \in Kinds : ReadDoc(a, ref, mode, kind)
      BY <2>4 DEF ImportDocs
    <3> DEFINE new == [NoImport EXCEPT !.pc = "apply", !.req = Request(ref, doc[ref], WrittenAs(doc[ref], mode), FALSE),
                                       !.mode = mode, !.kind = kind, !.draft = doc[ref].status = "draft", !.calm = TRUE]
    <3>2. Move(a, new) /\ text' = text /\ MayImport(a)
      BY <3>1 DEF ReadDoc, MayImport
    <3>3. new.pc = "apply"
      BY DEF NoImport
    <3> HIDE DEF new
    <3>4. /\ imp'[a].pc = "apply"
          /\ \A b \in Agents : b # a =>
                imp'[b].pc = imp[b].pc /\ imp'[b].req = imp[b].req /\ imp'[b].disp = imp[b].disp
      BY <3>2, <3>3, MoveKeeps
    <3>5. Importers'
      BY <3>2, <3>4, <2>s, ImportersKept DEF DocInv
    <3>6. \A b \in Agents : imp'[b].pc \in {"drop", "add"} =>
              imp'[b].pc = imp[b].pc /\ imp'[b].req = imp[b].req /\ imp'[b].disp = imp[b].disp
      BY <3>4
    <3> QED BY <3>2, <3>5, <3>6, DocumentsKept
  <2>5. ASSUME NEW a \in Agents, ImportStep(a) \/ StopImport(a) PROVE DocInv'
    BY <2>5, <2>s, <1>1, ImportDocuments
  <2>6. DNext => DocInv'
    BY <2>2, <2>3, <2>4, <2>5 DEF DNext
  <2> QED BY <1>1, <2>1, <2>6 DEF RNext
<1>b. \A a \in Agents : \A b : Step(a, b) => \A c \in Agents : boot'[c] = IF c = a THEN b ELSE boot[c]
  BY DEF Step, BootType
<1>n. NoBoot.pc = "idle" /\ NoImport.pc = "idle"
  BY NoBootFits, NoImportTypes
<1>w. NothingWritten => text' = text /\ setting' = setting /\ Idled
  BY <1>d DEF NothingWritten, rvars, dvars, cvars
<1>2. ASSUME NEW a \in Agents, Plan(a) PROVE DocInv'
  <2>1. BootsKept
    BY <1>2, <1>b DEF Plan
  <2> QED BY <1>2, <2>1, <1>w, <1>q DEF Plan
<1>3. ASSUME NEW a \in Agents, boot[a].pc # "idle", NothingWritten, NEW b, Step(a, b) PROVE DocInv'
  <2>1. BootsKept
    BY <1>3, <1>b
  <2> QED BY <1>3, <2>1, <1>w, <1>q
<1>4. ASSUME NEW a \in Agents, NEW answers, Refresh(a) \/ Answer(a, answers) \/ EndItem(a) PROVE DocInv'
  <2>1. boot[a].pc # "idle" /\ NothingWritten
    BY <1>4 DEF Refresh, Answer, EndItem, Booting
  <2>2. PICK b : Step(a, b)
    BY <1>4 DEF Refresh, Answer, EndItem
  <2> QED BY <2>1, <2>2, <1>3
<1>5. ASSUME NEW a \in Agents, boot[a].pc # "idle", NEW b, Step(a, b), UNCHANGED <<cvars, text>>,
             NEW x, x.pc = "idle", imp' = [imp EXCEPT ![a] = x]
      PROVE  DocInv'
  <2>1. BootsKept
    BY <1>5, <1>b
  <2>2. Idled
    BY <1>5 DEF DocType
  <2> QED BY <1>5, <2>1, <2>2, <1>q DEF cvars
<1>6. ASSUME NEW a \in Agents, Apply(a) PROVE DocInv'
  <2> DEFINE x == [NoImport EXCEPT !.mode = "reviewed", !.calm = TRUE]
  <2>1. boot[a].pc # "idle" /\ (NothingWritten \/ (imp' = [imp EXCEPT ![a] = x] /\ UNCHANGED <<cvars, text>>))
    BY <1>6 DEF Apply, Booting
  <2>2. PICK b : Step(a, b)
    BY <1>6 DEF Apply
  <2>3. x.pc = "idle"
    BY DEF NoImport
  <2> HIDE DEF x
  <2> QED BY <2>1, <2>2, <2>3, <1>3, <1>5
<1>7. ASSUME NEW a \in Agents, Report(a) \/ BootDies(a) PROVE DocInv'
  <2>1. /\ boot[a].pc # "idle" /\ imp' = [imp EXCEPT ![a] = NoImport] /\ UNCHANGED <<cvars, text>>
        /\ Step(a, NoBoot)
    BY <1>7 DEF Report, BootDies, Booting
  <2> QED BY <2>1, <1>n, <1>5
<1>8. ASSUME NEW a \in Agents, NEW ref, BeginItem(a, ref) PROVE DocInv'
  <2> DEFINE req == AskFor(ref, boot[a].answers[ref], boot[a].inputs.doc[ref])
             x == [imp[a] EXCEPT !.pc = "apply", !.req = req]
  <2>1. /\ boot[a].pc # "idle" /\ imp' = [imp EXCEPT ![a].pc = "apply", ![a].req = req]
        /\ text' = text /\ setting' = setting
    BY <1>8 DEF BeginItem, Booting, cvars
  <2>2. PICK b : Step(a, b)
    BY <1>8 DEF BeginItem
  <2> HIDE DEF req
  <2>3. imp'[a].pc = "apply" /\ \A c \in Agents : c # a => imp'[c] = imp[c]
    BY <2>1 DEF DocType, Import
  <2>4. BootsKept /\ MayImport(a)
    BY <2>1, <2>2, <1>b DEF DocInv, Importers, MayImport
  <2>5. Importers'
    BY <2>1, <2>3, <2>4, ImportersKept DEF DocInv
  <2>6. \A c \in Agents : imp'[c].pc \in {"drop", "add"} =>
            imp'[c].pc = imp[c].pc /\ imp'[c].req = imp[c].req /\ imp'[c].disp = imp[c].disp
    BY <2>3
  <2> QED BY <2>1, <2>5, <2>6, DocumentsKept
<1>9. ASSUME NEW a \in Agents, ItemFails(a) PROVE DocInv'
  <2>1. /\ boot[a].pc # "idle" /\ Move(a, NoImport) /\ text' = text /\ setting' = setting
    BY <1>9 DEF ItemFails, Booting, StopImport, Others
  <2>2. PICK b : Step(a, b)
    BY <1>9 DEF ItemFails
  <2>3. Idled
    BY <2>1, <1>n, MoveKeeps
  <2>4. BootsKept
    BY <2>1, <2>2, <1>b
  <2> QED BY <2>1, <2>3, <2>4, <1>q
<1> QED BY <1>1, <1>2, <1>4, <1>6, <1>7, <1>8, <1>9 DEF BNext

LEMMA DocumentsHold == OneImporter /\ BSpec => []DocInv
<1>1. OneImporter /\ BInit => DocInv
  <2> SUFFICES ASSUME OneImporter, BInit PROVE DocInv
    OBVIOUS
  <2>1. /\ setting \in Settings /\ text = [d \in Decisions |-> [of |-> None, text |-> None, nth |-> 0]]
        /\ imp = [a \in Agents |-> NoImport] /\ boot = [a \in Agents |-> NoBoot]
    BY DEF BInit, RInit, DInit, CInit
  <2>2. NoImport.pc = "idle" /\ NoBoot.pc = "idle"
    BY NoBootFits, NoImportTypes
  <2>3. Importers
    BY <2>1, <2>2 DEF Importers, MayImport, OneImporter
  <2>4. OneEach
    BY <2>1 DEF OneEach, SameDocument
  <2> QED BY <2>1, <2>2, <2>3, <2>4 DEF DocInv, Planned
<1>2. WritersType /\ WritersType' /\ DraftInv /\ DocInv /\ [BNext]_bvars => DocInv'
  <2> SUFFICES ASSUME WritersType, WritersType', DraftInv, DocInv, [BNext]_bvars PROVE DocInv'
    OBVIOUS
  <2>1. Moved
    BY WritersNext, NextMoves DEF WritersType
  <2>2. CASE BNext
    BY <2>1, <2>2, DocumentSteps DEF WritersType
  <2>3. CASE UNCHANGED bvars
    <3>1. UNCHANGED <<rows, text, imp, boot, setting>>
      BY <2>3 DEF bvars, rvars, dvars, cvars
    <3>2. Importers'
      BY <3>1, ImportersKept DEF DocInv
    <3> QED BY <3>1, <3>2, <2>1, DocumentsKept DEF WritersType
  <2> QED BY <2>2, <2>3
<1> QED BY <1>1, <1>2, WritersTypes, WritersDrafts, PTL DEF BSpec

(* As long as no two processes import at once, a document has one record in    *)
(* force and one that waits, whatever agents, humans and reviews do between    *)
(* the steps of an import, and wherever it dies (doc_import.py).              *)
THEOREM WritersOneRecord == OneImporter /\ BSpec => []OneRecordPerDocument
<1>1. WritersType /\ DocInv => OneRecordPerDocument
  <2> SUFFICES ASSUME WritersType, DocInv, NEW ref \in Docs, NEW status \in {"accepted", "proposed"}
               PROVE  Cardinality(Holding(ref, status)) <= 1
    BY DEF OneRecordPerDocument
  <2> DEFINE H == Holding(ref, status)
  <2>1. \A d, e \in H : d = e
    <3>1. ref # None
      BY DocAssumption
    <3> QED BY <3>1 DEF Holding, Existing, DocInv, OneEach, SameDocument
  <2> HIDE DEF H
  <2>2. H = {} \/ \E d : H = {d}
    BY <2>1
  <2>3. Cardinality(H) = 0 \/ Cardinality(H) = 1
    BY <2>2, FS_EmptySet, FS_Singleton
  <2> QED BY <2>3 DEF H
<1> QED BY <1>1, DocumentsHold, WritersTypes, PTL

-----------------------------------------------------------------------------
(* Imports that nobody disturbs.  Between its steps such an import knows what  *)
(* the store holds of its document (WorkHolds): before it writes, that no open *)
(* record says the same; afterwards, that the record another import would find *)
(* is its own, or a rejected one if that is what it is about.  Nobody but the  *)
(* one process that may import is ever undisturbed.                           *)

Says(req, d) == text[d].of = req.ref /\ text[d].text = req.text
Open(d) == rows[d].status \in {"accepted", "proposed"}
Found(req, m) == m # None /\ ~Flips(req, m)
AtItem(a) == boot[a].pc = "apply" /\ boot[a].ref # None

WorkHolds(a) ==
    \A req \in {imp[a].req} :
        /\ imp[a].pc \in {"drop", "add"} /\ req.as # "rejected" =>
              \A d \in Decisions : Says(req, d) => ~Open(d)
        /\ imp[a].pc \in {"settle", "bind", "judge", "ratify"} =>
              /\ Found(req, PreferredMatch(req))
              /\ req.as # "rejected" => PreferredMatch(req) = imp[a].d
        /\ imp[a].pc \in {"settle", "judge", "ratify"} => req.as # "rejected"
        /\ imp[a].pc \in {"judge", "ratify"} /\ req.anchored => Bound(imp[a].d)
CalmInv ==
    \A a \in Agents :
        /\ a \in setting.boots => setting.modes[a] = {} /\ (imp[a].pc # "idle" => AtItem(a))
        /\ imp[a].calm => MayImport(a) /\ WorkHolds(a)

\* What an import answers that finds nothing to write.
AnswersAgain(req) ==
    LET disp == Disposition(req)
    IN  /\ disp.action \in {"existing", "unanchorable", "pending"}
        /\ (disp.action = "existing" /\ req.anchored) =>
              (Bound(disp.match) \/ rows[disp.match].status = "rejected")

\* What an import finds: a record that says the same, an open one if there is any.
MatchFacts(req) ==
    \A m \in {PreferredMatch(req)} :
        /\ m # None => m \in Decisions /\ Says(req, m)
                       /\ (Open(m) \/ rows[m].status = "rejected")
        /\ (m = None) => \A d \in Decisions : Says(req, d) => ~Open(d) /\ rows[d].status # "rejected"
        /\ (m # None /\ ~Open(m)) => \A d \in Decisions : Says(req, d) => ~Open(d)
LEMMA MatchIsPreferred ==
    ASSUME NEW req, \A d \in Decisions : text[d].nth \in Nat
    PROVE  MatchFacts(req)
<1> DEFINE matches == {d \in Existing(req.ref) : text[d].text = req.text}
           open == matches \cap Supersedable(req.ref)
           S == IF open # {} THEN open ELSE matches
           m == PreferredMatch(req)
<1>1. m = Oldest(S) /\ S \in SUBSET Decisions
  BY HoldingTypes DEF PreferredMatch
<1>2. IF S = {} THEN m = None ELSE m \in S
  <2> HIDE DEF S, m
  <2> QED BY <1>1, OldestThere DEF Oldest
<1>3. /\ \A d : d \in matches <=> d \in Decisions /\ Says(req, d) /\ (Open(d) \/ rows[d].status = "rejected")
      /\ \A d : d \in open <=> d \in Decisions /\ Says(req, d) /\ Open(d)
  BY DEF Existing, Supersedable, Holding, Says, Open
<1>4. None \notin Decisions
  BY RecordIds
<1>5. \A d : d \in S => d \in matches
  OBVIOUS
<1>6. (S = {} => matches = {} /\ open = {}) /\ (open # {} => S = open)
  OBVIOUS
<1> HIDE DEF m, S, matches, open
<1> QED BY <1>2, <1>3, <1>4, <1>5, <1>6 DEF MatchFacts, m

MatchesAre == \A req \in Req : MatchFacts(req)

LEMMA MatchesHold == DocType => MatchesAre
BY MatchIsPreferred DEF MatchesAre, DocType

OldestIn(t, S) ==
    IF S = {} THEN None ELSE CHOOSE d \in S : \A e \in S : t[d].nth <= t[e].nth

LEMMA MatchKept ==
    ASSUME rows' = rows, text' = text, NEW req
    PROVE  /\ PreferredMatch(req)' = PreferredMatch(req)
           /\ \A m : Found(req, m) => Found(req, m)'
           /\ route' = route => (AnswersAgain(req) => AnswersAgain(req)')
<1>1. \A ref, st : Existing(ref)' = Existing(ref) /\ Holding(ref, st)' = Holding(ref, st)
                   /\ Supersedable(ref)' = Supersedable(ref)
  BY DEF Existing, Holding, Supersedable
<1>2. \A S : Oldest(S)' = Oldest(S)
  BY DEF Oldest
<1>3. PreferredMatch(req)' = PreferredMatch(req)
  <2> DEFINE matches == {d \in Existing(req.ref) : text[d].text = req.text}
             open == matches \cap Supersedable(req.ref)
  <2>1. matches' = matches /\ open' = open
    BY <1>1
  <2>2. PreferredMatch(req) = OldestIn(text, IF open # {} THEN open ELSE matches)
    BY DEF PreferredMatch, Oldest, OldestIn
  <2>3. PreferredMatch(req)' = OldestIn(text', IF open' # {} THEN open' ELSE matches')
    BY DEF PreferredMatch, Oldest, OldestIn
  <2> HIDE DEF matches, open
  <2> QED BY <2>1, <2>2, <2>3
<1>4. \A m : Flips(req, m)' = Flips(req, m)
  BY DEF Flips
<1>5. ASSUME route' = route PROVE Disposition(req)' = Disposition(req)
  <2>1. \A m : Donor(req, m)' = Donor(req, m)
    BY <1>1, <1>2, <1>4, <1>5 DEF Donor, Bound
  <2>2. \A m, x, y, z : Classify(req, m, x, y, z)' = Classify(req, m, x, y, z)
    BY <1>1, <1>4 DEF Classify, PendingSuccessors, Successors
  <2>3. PICK m, x, y, z : /\ m = PreferredMatch(req) /\ x = Oldest(Holding(req.ref, "accepted"))
                          /\ y = Oldest(Holding(req.ref, "proposed")) /\ z = Donor(req, m)
    OBVIOUS
  <2>4. /\ m = PreferredMatch(req)' /\ x = Oldest(Holding(req.ref, "accepted"))'
        /\ y = Oldest(Holding(req.ref, "proposed"))' /\ z = Donor(req, m)'
    BY <1>1, <1>2, <1>3, <2>1, <2>3
  <2>5. Disposition(req) = Classify(req, m, x, y, z)
    BY <2>3 DEF Disposition
  <2>6. Disposition(req)' = Classify(req, m, x, y, z)'
    BY <2>4 DEF Disposition
  <2> QED BY <2>2, <2>5, <2>6
<1>6. ASSUME route' = route, AnswersAgain(req) PROVE AnswersAgain(req)'
  BY <1>5, <1>6 DEF AnswersAgain, Bound
<1> QED BY <1>3, <1>4, <1>6 DEF Found

LEMMA FoundAnswers ==
    ASSUME NEW req, Found(req, PreferredMatch(req))',
           (req.anchored => Bound(PreferredMatch(req)) \/ rows[PreferredMatch(req)].status = "rejected")'
    PROVE  AnswersAgain(req)'
<1>0. PICK m : m = PreferredMatch(req)'
  OBVIOUS
<1>1. Disposition(req)' = [Refused("existing") EXCEPT !.match = m]
  BY <1>0 DEF Disposition, Classify, Found, Flips
<1>2. (Disposition(req).action = "existing")' /\ Disposition(req).match' = m
  BY <1>1 DEF Refused
<1> QED BY <1>0, <1>2 DEF AnswersAgain

LEMMA TheOneFound ==
    ASSUME MatchesAre', NEW req \in Req, req.as # "rejected", NEW d \in Decisions,
           Says(req, d)', Open(d)', \A e \in Decisions : Says(req, e)' /\ Open(e)' => e = d
    PROVE  PreferredMatch(req)' = d /\ Found(req, d)'
<1>0. PICK m : m = PreferredMatch(req)'
  OBVIOUS
<1>1. /\ m # None => m \in Decisions /\ Says(req, m)'
      /\ m = None => \A x \in Decisions : Says(req, x)' => ~Open(x)'
      /\ (m # None /\ ~Open(m)') => \A x \in Decisions : Says(req, x)' => ~Open(x)'
  BY <1>0 DEF MatchesAre, MatchFacts
<1>2. m = d
  BY <1>1
<1>3. d # None
  BY RecordIds
<1> QED BY <1>0, <1>2, <1>3 DEF Found, Flips, Open

\* An acceptance, a rejection and a new record, and who else is touched.
LEMMA RatifyTouches ==
    ASSUME ChainInv, NEW d \in Decisions, CanRatify(rows, d), rows' = AfterRatify(rows, d)
    PROVE  /\ rows'[d].status = "accepted"
           /\ \A e \in Decisions : /\ rows'[e].supersedes = rows[e].supersedes
                                   /\ e # d /\ e # rows[d].supersedes => rows'[e].status = rows[e].status
<1> DEFINE S == {d} \cup Evidence(rows, d)
<1>1. rows \in [Records -> Row] /\ d \in Records /\ rows[d].status = "proposed"
  BY DEF ChainInv, TypeOK, CanRatify, Records
<1>2. \A s \in S : s \in Records /\ rows[s].status = "proposed" /\ (s # d => s \in Facts)
  BY <1>1 DEF Evidence, Records
<1>3. d \notin ClosedBy(rows, S)
  BY <1>1, <1>2, RecordIds DEF ClosedBy, ChainInv, PendingOnLive, Records
<1>4. rows' = With(With(rows, S, "accepted"), ClosedBy(rows, S), "superseded")
  BY DEF AfterRatify
<1>5. \A e \in Decisions : e \in ClosedBy(rows, S) => e = rows[d].supersedes
  <2> SUFFICES ASSUME NEW e \in Decisions, NEW s \in S, rows[s].supersedes = e, s # d PROVE FALSE
    BY DEF ClosedBy
  <2>1. s \in Facts /\ rows[s].supersedes # None
    BY <1>2, RecordIds
  <2> QED BY <1>2, <2>1, RecordIds DEF ChainInv, TypeOK, Table
<1>6. \A e \in Decisions : e \in S => e = d
  BY <1>2, RecordIds
<1> HIDE DEF S
<1>7. d \in S
  BY DEF S
<1>8. \A e \in Records : /\ rows'[e].status = IF e \in ClosedBy(rows, S) THEN "superseded"
                                              ELSE IF e \in S THEN "accepted" ELSE rows[e].status
                         /\ rows'[e].supersedes = rows[e].supersedes
  BY <1>1, <1>4, VerdictRow
<1> QED BY <1>1, <1>3, <1>5, <1>6, <1>7, <1>8 DEF Records

LEMMA DropTouches ==
    ASSUME ChainInv, NEW d \in Decisions, rows' = AfterDrop(rows, d)
    PROVE  \A e \in Decisions : /\ rows'[e].supersedes = rows[e].supersedes
                                /\ e # d => rows'[e].status = rows[e].status
<1> DEFINE dropped == With(rows, {d}, "rejected")
<1>1. PICK F \in SUBSET Facts : rows' = With(dropped, F, "rejected")
  BY DEF AfterDrop
<1>2. rows \in [Records -> Row] /\ "rejected" \in Status
  BY DEF ChainInv, TypeOK, Status
<1>3. /\ dropped \in [Records -> Row]
      /\ \A r \in Records : /\ dropped[r].status = IF r \in {d} THEN "rejected" ELSE rows[r].status
                            /\ dropped[r].supersedes = rows[r].supersedes
  BY <1>2, WithRow
<1> HIDE DEF dropped
<1>4. \A r \in Records : /\ rows'[r].status = IF r \in F THEN "rejected" ELSE dropped[r].status
                         /\ rows'[r].supersedes = dropped[r].supersedes
  BY <1>1, <1>2, <1>3, WithRow
<1> QED BY <1>3, <1>4, RecordIds DEF Records

Added(d, as, pred) ==
    LET row == [status |-> as, supersedes |-> pred, supports |-> {}] IN
    rows[d].status = "unwritten" /\ CanAdd(rows, d, row) /\ rows' = AfterAdd(rows, d, row)

LEMMA AddTouches ==
    ASSUME ChainInv, NEW d \in Decisions, NEW q, NEW pred, Added(d, q, pred),
           q \in {"accepted", "proposed", "rejected"}
    PROVE  /\ rows'[d].status = q /\ rows'[d].supersedes = pred
           /\ pred # None => pred \in Decisions /\ pred # d /\ rows[pred].status = "accepted"
           /\ q # "proposed" /\ pred # None => rows'[pred].status = "superseded"
           /\ \A e \in Decisions : /\ e # d => rows'[e].supersedes = rows[e].supersedes
                                   /\ e # d /\ e # pred => rows'[e].status = rows[e].status
<1> DEFINE row == [status |-> q, supersedes |-> pred, supports |-> {}]
           new == [rows EXCEPT ![d] = row]
<1>0. rows[d].status = "unwritten" /\ CanAdd(rows, d, row) /\ rows' = AfterAdd(rows, d, row)
  BY DEF Added
<1>1. rows \in [Records -> Row] /\ d \in Records
  BY DEF ChainInv, TypeOK, Records
<1>2. row.status = q /\ row.supersedes = pred
  OBVIOUS
<1>3. pred # None => pred \in Decisions /\ pred # d /\ rows[pred].status = "accepted"
  BY <1>0, <1>2 DEF CanAdd, Table, MayBeSuperseded
<1>4. new[d] = row /\ \A r \in Records : r # d => new[r] = rows[r]
  BY <1>1
<1>5. \A r \in Records : r \in ClosedBy(new, {d}) <=> r = pred
  BY <1>0, <1>1, <1>2, <1>3, <1>4, RecordIds DEF ClosedBy, Records
<1>6. rows' = IF q = "proposed" THEN new ELSE With(new, ClosedBy(new, {d}), "superseded")
  BY <1>0, <1>2 DEF AfterAdd
<1> HIDE DEF new
<1>7. \A r \in Records : With(new, ClosedBy(new, {d}), "superseded")[r] =
            IF r = pred THEN [new[r] EXCEPT !.status = "superseded"] ELSE new[r]
  BY <1>5 DEF With
<1>8. pred # d /\ (pred # None => pred \in Records /\ new[pred] \in Row)
  BY <1>1, <1>3, <1>4, RecordIds DEF Records
<1>9. pred # None => /\ [new[pred] EXCEPT !.status = "superseded"].status = "superseded"
                      /\ [new[pred] EXCEPT !.status = "superseded"].supersedes = new[pred].supersedes
  BY <1>8 DEF Row
<1> QED BY <1>1, <1>2, <1>3, <1>4, <1>6, <1>7, <1>8, <1>9, RecordIds DEF Records

LEMMA RatifiedIsFound ==
    ASSUME ChainInv, DraftInv, DocInv, DocInv', Moved, MatchesAre', text' = text,
           NEW req \in Req, req.ref # None, req.as # "rejected", NEW d \in Decisions, Says(req, d),
           CanRatify(rows, d), rows' = AfterRatify(rows, d)
    PROVE  PreferredMatch(req)' = d /\ Found(req, d)'
<1>1. rows[d].status = "proposed"
  BY DEF CanRatify
<1>2. rows'[d].status = "accepted"
  BY RatifyTouches
<1>3. ASSUME NEW e \in Decisions, Says(req, e)', Open(e)' PROVE e = d
  <2>1. SameDocument(d, e) /\ SameDocument(d, e)' /\ rows[e].status # "unwritten"
    BY <1>3 DEF Says, SameDocument, DraftInv, DraftsAreTold
  <2>2. CASE rows'[e].status = "accepted"
    BY <1>2, <2>1, <2>2 DEF DocInv, OneEach
  <2>3. CASE rows'[e].status = "proposed"
    BY <1>1, <2>1, <2>3 DEF DocInv, OneEach, Moved
  <2> QED BY <1>3, <2>2, <2>3 DEF Open
<1>4. Says(req, d)' /\ Open(d)'
  BY <1>2 DEF Says, Open
<1> QED BY <1>3, <1>4, TheOneFound

\* What an import is about to do says whether its record is there.
LEMMA ActionMeans ==
    ASSUME NEW req
    PROVE  LET disp == Disposition(req) IN
           /\ disp.action = "existing" =>
                 disp.match = PreferredMatch(req) /\ Found(req, PreferredMatch(req))
           /\ disp.action \in {"written", "superseded"} => ~Found(req, PreferredMatch(req))
<1> DEFINE m == PreferredMatch(req)
           disp == Disposition(req)
<1>1. CASE Found(req, m)
  <2>1. disp = [Refused("existing") EXCEPT !.match = m]
    BY <1>1 DEF Disposition, Classify, Found
  <2>2. disp.action = "existing" /\ disp.match = m
    <3> HIDE DEF m, disp
    <3> QED BY <2>1 DEF Refused
  <2> QED BY <1>1, <2>2
<1>2. CASE ~Found(req, m)
  <2> DEFINE pred == Oldest(Holding(req.ref, "accepted"))
             drop == Oldest(Holding(req.ref, "proposed"))
             donor == IF req.anchored THEN None ELSE Donor(req, m)
             act == IF Supersedable(req.ref) = {} THEN "written" ELSE "superseded"
  <2>1. \/ disp = Refused("unanchorable") \/ disp = Refused("pending")
        \/ disp = [action |-> act, match |-> m, pred |-> pred, drop |-> drop, donor |-> donor]
    BY <1>2 DEF Disposition, Classify, Found
  <2>0. act # "existing"
    OBVIOUS
  <2>2. disp.action # "existing"
    <3> HIDE DEF disp, pred, drop, donor, act, m
    <3> QED BY <2>0, <2>1 DEF Refused
  <2> QED BY <1>2, <2>2
<1> QED BY <1>1, <1>2

\* A new record of a document: which, as what, and what is known of it afterwards.
LEMMA Adding ==
    ASSUME DocType, NEW a \in Agents, AddDoc(a)
    PROVE  /\ imp[a].pc = "add" /\ \E x : Move(a, x)
           /\ \E d, q, pred :
                 /\ d \in Decisions /\ Added(d, q, pred) /\ q = imp[a].req.as /\ pred = imp[a].disp.pred
                 /\ q \in {"accepted", "proposed", "rejected"}
                 /\ text'[d].of = imp[a].req.ref /\ text'[d].text = imp[a].req.text
                 /\ \A e \in Decisions : e # d => text'[e] = text[e]
                 /\ imp'[a].pc = "bind" /\ imp'[a].req = imp[a].req /\ imp'[a].d = d
<1> DEFINE i == imp[a]
           left == {y \in Decisions \cap setting.ids : rows[y].status = "unwritten"}
           entry == [of |-> i.req.ref, text |-> i.req.text,
                     nth |-> 1 + Cardinality({e \in Decisions : text[e].of # None})]
           new(x) == [i EXCEPT !.pc = "bind", !.d = x]
<1>i. i \in Import /\ ImportFits(i)
  BY DEF DocType
<1>1. PICK d : d = CHOOSE y \in left : TRUE
  OBVIOUS
<1>2. left # {}
  BY DEF AddDoc
<1>3. d \in Decisions /\ rows[d].status = "unwritten"
  BY <1>1, <1>2
<1>4. PICK q, pred : q = i.req.as /\ pred = i.disp.pred
  OBVIOUS
<1>5. entry.of = i.req.ref /\ entry.text = i.req.text
  OBVIOUS
<1>6. new(d).pc = "bind" /\ new(d).req = i.req /\ new(d).d = d
  BY <1>i DEF Import
<1> HIDE DEF left, entry, new
<1>7. Added(d, q, pred) /\ text' = [text EXCEPT ![d] = entry] /\ Move(a, new(d)) /\ i.pc = "add"
  BY <1>1, <1>3, <1>4 DEF AddDoc, Added, Importing, left, entry, new
<1>8. q \in {"accepted", "proposed", "rejected"}
  BY <1>i, <1>4, <1>7 DEF Import, ImportFits, Req
<1>9. imp'[a] = new(d)
  BY <1>7, MoveKeeps
<1>10. /\ text'[d].of = i.req.ref /\ text'[d].text = i.req.text
       /\ \A e \in Decisions : e # d => text'[e] = text[e]
  BY <1>3, <1>5, <1>7 DEF DocType
<1>11. imp'[a].pc = "bind" /\ imp'[a].req = i.req /\ imp'[a].d = d
  BY <1>6, <1>9
<1> QED BY <1>3, <1>4, <1>7, <1>8, <1>10, <1>11

\* The first record of its text, or the successor of another text.
LEMMA AddedIsFound ==
    ASSUME ChainInv, DraftInv, DocInv', MatchesAre', Moved, NEW a \in Agents, NEW req \in Req,
           imp[a].req = req, imp[a].pc = "add", Planned(a), WorkHolds(a), req.ref # None, req.as # "none",
           NEW d \in Decisions, NEW q, NEW pred, Added(d, q, pred), q = req.as, pred = imp[a].disp.pred,
           q \in {"accepted", "proposed", "rejected"},
           \A e \in Decisions : e # d => text'[e] = text[e], Says(req, d)'
    PROVE  /\ Found(req, PreferredMatch(req))'
           /\ req.as # "rejected" => PreferredMatch(req)' = d
<1>1. /\ rows'[d].status = q /\ (q # "proposed" /\ pred # None => rows'[pred].status = "superseded")
      /\ pred # None => pred \in Decisions
  BY AddTouches
<1>2. \A e \in Decisions : e # d /\ Says(req, e)' /\ Open(e)' =>
          /\ Says(req, e) /\ Open(e) /\ e = pred /\ rows'[e].status = "accepted"
  <2> SUFFICES ASSUME NEW e \in Decisions, e # d, Says(req, e)', Open(e)'
               PROVE  /\ Says(req, e) /\ Open(e) /\ e = pred /\ rows'[e].status = "accepted"
    OBVIOUS
  <2>1. Says(req, e) /\ text[e].of = req.ref
    BY DEF Says
  <2>2. rows[e].status # "unwritten"
    BY <2>1 DEF DraftInv, DraftsAreTold
  <2>3. rows[e].status # "proposed" /\ (rows[e].status = "accepted" => e = pred)
    BY <2>1 DEF Planned
  <2>4. rows'[e].status \in {"accepted", "proposed"}
    BY DEF Open
  <2> QED BY <2>1, <2>2, <2>3, <2>4 DEF Moved, Open
<1>3. CASE req.as # "rejected"
  <2>1. \A e \in Decisions : Says(req, e) => ~Open(e)
    BY <1>3 DEF WorkHolds
  <2>2. Open(d)'
    BY <1>1, <1>3 DEF Open
  <2>3. PreferredMatch(req)' = d /\ Found(req, d)'
    BY <1>2, <1>3, <2>1, <2>2, TheOneFound
  <2>4. Found(req, PreferredMatch(req))'
    BY <2>3 DEF Found, Flips
  <2> QED BY <2>3, <2>4
<1>4. CASE req.as = "rejected"
  <2>1. \A e \in Decisions : Says(req, e)' => ~Open(e)'
    BY <1>1, <1>2, <1>4, RecordIds DEF Open
  <2>m. PICK m : m = PreferredMatch(req)'
    OBVIOUS
  <2>2. /\ m # None => m \in Decisions /\ Says(req, m)' /\ (Open(m)' \/ rows'[m].status = "rejected")
        /\ m = None => \A x \in Decisions : Says(req, x)' => ~Open(x)' /\ rows'[x].status # "rejected"
    BY <2>m DEF MatchesAre, MatchFacts
  <2>3. m # None /\ rows'[m].status = "rejected"
    BY <1>1, <1>4, <2>1, <2>2
  <2> QED BY <1>4, <2>m, <2>3 DEF Found, Flips
<1> QED BY <1>3, <1>4

LEMMA ImportWork ==
    ASSUME ChainInv, CaptureType, DocType, DraftInv, DocInv, DocInv', Moved,
           MatchesAre, MatchesAre', NEW a \in Agents, WorkHolds(a), ImportStep(a)
    PROVE  /\ WorkHolds(a)'
           /\ imp'[a].pc = "idle" => \A req \in {imp[a].req} : AnswersAgain(req)'
<1> DEFINE i == imp[a]
           Ends == imp'[a].pc = "idle" => \A req \in {i.req} : AnswersAgain(req)'
<1>i. i \in Import /\ ImportFits(i) /\ i.req \in Req
  BY DEF DocType, Import
<1>q. PICK req \in Req : req = i.req
  BY <1>i
<1>d. PICK d : d = i.d
  OBVIOUS
<1>o. \A act : Over(a, act).pc = "idle"
  BY DEF Over, NoImport
<1>n. NoImport.pc = "idle"
  BY DEF NoImport
<1>z. imp'[a].pc \in {"idle", "apply"} => WorkHolds(a)'
  BY DEF WorkHolds
<1>e. ASSUME AnswersAgain(req)' PROVE Ends
  BY <1>e, <1>q
<1>f. ASSUME NEW pc, Move(a, [i EXCEPT !.pc = pc])
      PROVE  imp'[a].pc = pc /\ imp'[a].req = req /\ imp'[a].d = i.d
  <2>1. [i EXCEPT !.pc = pc].pc = pc /\ [i EXCEPT !.pc = pc].req = i.req /\ [i EXCEPT !.pc = pc].d = i.d
    BY <1>i DEF Import
  <2> QED BY <2>1, <1>f, <1>q, MoveKeeps
<1>1. ASSUME ApplyDoc(a) PROVE WorkHolds(a)' /\ Ends
  <2>m. PICK m : m = PreferredMatch(req)
    OBVIOUS
  <2> DEFINE disp == Disposition(req)
             found == [i EXCEPT !.pc = IF ToSettle(req, disp.match) THEN "settle" ELSE "bind",
                                !.disp = disp, !.d = disp.match]
             writes == [i EXCEPT !.pc = IF disp.drop = None THEN "add" ELSE "drop", !.disp = disp]
  <2>1. /\ disp.action \in {"existing", "unanchorable", "pending", "written", "superseded"}
        /\ disp.action = "existing" => disp.match = m /\ Found(req, m)
        /\ disp.action \in {"written", "superseded"} => ~Found(req, m)
    BY <2>m, DispositionTypes, ActionMeans
  <2>2. rows' = rows /\ text' = text /\ route' = route
    BY <1>1 DEF ApplyDoc
  <2>3. \/ disp.action = "existing" /\ Move(a, found)
        \/ disp.action \in {"written", "superseded"} /\ Move(a, writes)
        \/ disp.action \in {"unanchorable", "pending"} /\ Move(a, Over(a, disp.action))
    BY <1>1, <1>q, <2>1 DEF ApplyDoc
  <2>4. PreferredMatch(req)' = m /\ \A x : Found(req, x) => Found(req, x)'
    BY <2>m, <2>2, MatchKept
  <2> HIDE DEF disp
  <2>5. CASE disp.action = "existing" /\ Move(a, found)
    <3>1. /\ found.pc \in {"settle", "bind"} /\ found.req = req /\ found.d = m
          /\ found.pc = "settle" => ToSettle(req, m)
      BY <1>i, <1>q, <2>1, <2>5 DEF Import
    <3> HIDE DEF found
    <3>2. imp'[a] = found
      BY <2>5, MoveKeeps
    <3>3. Found(req, m)' /\ Found(req, m)
      BY <2>1, <2>4, <2>5
    <3>4. ToSettle(req, m) => req.as # "rejected"
      BY <3>3 DEF ToSettle, Found, Flips
    <3>5. Found(req, PreferredMatch(req))'
      BY <2>4, <3>3 DEF Found, Flips
    <3> QED BY <2>4, <3>1, <3>2, <3>4, <3>5 DEF WorkHolds
  <2>6. CASE disp.action \in {"written", "superseded"} /\ Move(a, writes)
    <3>1. writes.pc \in {"add", "drop"} /\ writes.req = req
      BY <1>i, <1>q DEF Import
    <3> HIDE DEF writes
    <3>2. imp'[a] = writes
      BY <2>6, MoveKeeps
    <3>3. ASSUME req.as # "rejected", NEW e \in Decisions, Says(req, e) PROVE ~Open(e)
      <4>1. ~Found(req, m)
        BY <2>1, <2>6
      <4>2. m # None => m \in Decisions /\ rows[m].status = "rejected"
        BY <2>m, <3>3, <4>1 DEF Found, Flips, MatchesAre, MatchFacts
      <4>3. (m = None \/ ~Open(m)) => ~Open(e)
        BY <2>m, <3>3 DEF MatchesAre, MatchFacts
      <4> QED BY <4>2, <4>3 DEF Open
    <3>4. \A e \in Decisions : (Says(req, e)' <=> Says(req, e)) /\ (Open(e)' <=> Open(e))
      BY <2>2 DEF Says, Open
    <3> QED BY <3>1, <3>2, <3>3, <3>4 DEF WorkHolds
  <2>7. CASE disp.action \in {"unanchorable", "pending"} /\ Move(a, Over(a, disp.action))
    <3>1. imp'[a].pc = "idle"
      BY <2>7, <1>o, MoveKeeps
    <3>2. AnswersAgain(req)
      BY <2>7 DEF AnswersAgain, disp
    <3> QED BY <3>1, <3>2, <2>2, MatchKept, <1>z, <1>e
  <2> QED BY <2>3, <2>5, <2>6, <2>7
<1>r. ASSUME i.pc \in {"settle", "ratify"}, CanRatify(rows, d), rows' = AfterRatify(rows, d), text' = text
      PROVE  PreferredMatch(req)' = d /\ Found(req, d)' /\ req.as # "rejected"
  <2>1. req.as # "rejected" /\ PreferredMatch(req) = d /\ d # None
    BY <1>d, <1>q, <1>r DEF WorkHolds, Found
  <2>2. d \in Decisions /\ Says(req, d)
    BY <2>1 DEF MatchesAre, MatchFacts
  <2>3. req.ref # None
    BY <1>i, <1>q, <1>r DEF ImportFits
  <2> QED BY <1>r, <2>1, <2>2, <2>3, RatifiedIsFound
<1>2. ASSUME SettleDoc(a) PROVE WorkHolds(a)' /\ Ends
  <2>1. imp'[a].pc = "bind" /\ imp'[a].req = req /\ imp'[a].d = d
    BY <1>2, <1>d, <1>f DEF SettleDoc
  <2>2. PreferredMatch(req)' = d /\ Found(req, d)'
    BY <1>2, <1>d, <1>r DEF SettleDoc, Importing
  <2>3. Found(req, PreferredMatch(req))'
    BY <2>2 DEF Found, Flips
  <2> QED BY <2>1, <2>2, <2>3 DEF WorkHolds
<1>3. ASSUME DropPending(a) PROVE WorkHolds(a)' /\ Ends
  <2>1. imp'[a].pc = "add" /\ imp'[a].req = req
    BY <1>3, <1>f DEF DropPending
  <2>2. i.pc = "drop" /\ text' = text /\ req.ref # None
    BY <1>3, <1>i, <1>q DEF DropPending, Importing, ImportFits
  <2>3. ASSUME req.as # "rejected", NEW e \in Decisions, Says(req, e)' PROVE ~Open(e)'
    <3>1. Says(req, e) /\ rows[e].status # "unwritten"
      BY <2>2, <2>3 DEF Says, DraftInv, DraftsAreTold
    <3>2. ~Open(e)
      BY <1>q, <2>2, <2>3, <3>1 DEF WorkHolds
    <3> QED BY <3>1, <3>2 DEF Open, Moved
  <2> QED BY <2>1, <2>3 DEF WorkHolds
<1>4. ASSUME AddDoc(a) PROVE WorkHolds(a)' /\ Ends
  <2>1. PICK x, q, pred :
            /\ x \in Decisions /\ Added(x, q, pred) /\ q = i.req.as /\ pred = i.disp.pred
            /\ q \in {"accepted", "proposed", "rejected"}
            /\ text'[x].of = i.req.ref /\ text'[x].text = i.req.text
            /\ \A e \in Decisions : e # x => text'[e] = text[e]
            /\ imp'[a].pc = "bind" /\ imp'[a].req = i.req /\ imp'[a].d = x
    BY <1>4, Adding
  <2>2. i.pc = "add" /\ req.ref # None /\ req.as # "none"
    BY <1>4, <1>i, <1>q, Adding DEF ImportFits
  <2>3. Planned(a)
    BY DEF DocInv
  <2>4. Says(req, x)'
    BY <1>q, <2>1 DEF Says
  <2>5. Found(req, PreferredMatch(req))' /\ (req.as # "rejected" => PreferredMatch(req)' = x)
    BY <1>q, <2>1, <2>2, <2>3, <2>4, AddedIsFound
  <2> QED BY <1>q, <2>1, <2>5 DEF WorkHolds
<1>g. ASSUME i.pc \in {"bind", "judge"}, rows' = rows, text' = text
      PROVE  /\ Found(req, PreferredMatch(req))' /\ PreferredMatch(req)' = PreferredMatch(req)
             /\ req.as # "rejected" => PreferredMatch(req)' = d
             /\ req.as = "rejected" => rows'[PreferredMatch(req)'].status = "rejected"
  <2>1. Found(req, PreferredMatch(req)) /\ (req.as # "rejected" => PreferredMatch(req) = d)
    BY <1>d, <1>q, <1>g DEF WorkHolds
  <2>2. PreferredMatch(req)' = PreferredMatch(req)
    BY <1>g, MatchKept
  <2> QED BY <1>g, <2>1, <2>2 DEF Found, Flips
<1>5. ASSUME NEW way \in setting.ways \cup {"none"}, BindDoc(a, way) PROVE WorkHolds(a)' /\ Ends
  <2> DEFINE donor == i.disp.donor
             given == IF donor = None THEN way ELSE Best(way, route[donor])
  <2>1. /\ i.pc = "bind" /\ rows' = rows /\ text' = text /\ (req.anchored <=> way # "none")
        /\ route' = [route EXCEPT ![d] = Best(@, given)]
    BY <1>5, <1>d, <1>q DEF BindDoc, Importing
  <2>2. d \in Records /\ route \in [Records -> Routes] /\ way \in Routes
        /\ (donor # None => donor \in Records)
    BY <1>i, <1>d, <2>1 DEF ImportFits, Import, Disp, Maybe, Records, CaptureType, Setting, Routes
  <2>3. \A x, y \in Routes : (x # "none" \/ y # "none") => Best(x, y) # "none"
    BY DEF Routes, Best, Worth
  <2>4. \A x, y \in Routes : Best(x, y) \in Routes
    BY RouteTypes
  <2>5. req.anchored => route'[d] # "none"
    <3>1. ASSUME way # "none" PROVE given \in Routes /\ given # "none"
      BY <3>1, <2>2, <2>3, <2>4
    <3>2. route'[d] = Best(route[d], given)
      BY <2>1, <2>2
    <3> HIDE DEF given
    <3> QED BY <2>1, <2>2, <2>3, <3>1, <3>2
  <2>6. CASE ToJudge(i) /\ Move(a, [i EXCEPT !.pc = "judge"])
    <3>1. req.as = "proposed"
      BY <2>6, <1>q DEF ToJudge
    <3>2. imp'[a].pc = "judge" /\ imp'[a].req = req /\ imp'[a].d = d
      BY <2>6, <1>d, <1>f
    <3> QED BY <3>1, <3>2, <2>1, <2>5, <1>g DEF WorkHolds, Bound
  <2>7. CASE Move(a, Over(a, i.disp.action))
    <3>1. imp'[a].pc = "idle"
      BY <2>7, <1>o, MoveKeeps
    <3>2. Found(req, PreferredMatch(req))'
      BY <2>1, <1>g
    <3>3. (req.anchored => Bound(PreferredMatch(req)) \/ rows[PreferredMatch(req)].status = "rejected")'
      BY <2>1, <2>5, <1>g DEF Bound
    <3>4. AnswersAgain(req)'
      BY <3>2, <3>3, FoundAnswers
    <3> QED BY <3>1, <3>4, <1>z, <1>e
  <2> QED BY <1>5, <2>6, <2>7 DEF BindDoc
<1>6. ASSUME JudgeDoc(a) PROVE WorkHolds(a)' /\ Ends
  <2>1. i.pc = "judge" /\ rows' = rows /\ text' = text /\ route' = route
    BY <1>6 DEF JudgeDoc, Importing
  <2>2. req.as # "rejected" /\ (req.anchored => route[d] # "none")
    BY <2>1, <1>d, <1>q DEF WorkHolds, Bound
  <2>3. CASE Move(a, [i EXCEPT !.pc = "ratify"])
    <3>1. imp'[a].pc = "ratify" /\ imp'[a].req = req /\ imp'[a].d = d
      BY <2>3, <1>d, <1>f
    <3> QED BY <3>1, <2>1, <2>2, <1>g DEF WorkHolds, Bound
  <2>4. CASE Move(a, NoImport)
    <3>1. imp'[a].pc = "idle"
      BY <2>4, <1>n, MoveKeeps
    <3>2. Found(req, PreferredMatch(req))'
      BY <2>1, <1>g
    <3>3. (req.anchored => Bound(PreferredMatch(req)) \/ rows[PreferredMatch(req)].status = "rejected")'
      BY <2>1, <2>2, <1>g DEF Bound
    <3>4. AnswersAgain(req)'
      BY <3>2, <3>3, FoundAnswers
    <3> QED BY <3>1, <3>4, <1>z, <1>e
  <2> QED BY <1>6, <2>3, <2>4 DEF JudgeDoc
<1>7. ASSUME RatifyDoc(a) PROVE WorkHolds(a)' /\ Ends
  <2>1. imp'[a].pc = "idle"
    BY <1>7, <1>n, MoveKeeps DEF RatifyDoc
  <2>2. i.pc = "ratify" /\ text' = text /\ route' = route
    BY <1>7 DEF RatifyDoc, Importing
  <2>3. req.anchored => route[d] # "none"
    BY <2>2, <1>d, <1>q DEF WorkHolds, Bound
  <2>4. PreferredMatch(req)' = d /\ Found(req, d)'
    BY <1>7, <1>d, <2>2, <1>r DEF RatifyDoc
  <2>5. Found(req, PreferredMatch(req))'
    BY <2>4 DEF Found, Flips
  <2>6. (req.anchored => Bound(PreferredMatch(req)) \/ rows[PreferredMatch(req)].status = "rejected")'
    BY <2>2, <2>3, <2>4 DEF Bound
  <2>7. AnswersAgain(req)'
    BY <2>5, <2>6, FoundAnswers
  <2> QED BY <2>1, <2>7, <1>z, <1>e
<1> QED BY <1>1, <1>2, <1>3, <1>4, <1>5, <1>6, <1>7 DEF ImportStep

\* The step of an import is over, and nobody killed it.
Reimports ==
    \A a \in Agents : \A req \in {imp[a].req} :
        (imp[a].calm /\ imp[a].pc # "idle" /\ imp'[a].pc = "idle" /\ ~StopImport(a)) => AnswersAgain(req)'

\* Everybody but a (or nobody) is disturbed.
LEMMA DisturbedKeep ==
    ASSUME DocType, DocInv', CalmInv, setting' = setting, boot' = boot, NEW a,
           \A b \in Agents : b # a => imp'[b].pc = imp[b].pc /\ imp'[b].calm = FALSE,
           a \in Agents => /\ imp'[a].calm => MayImport(a) /\ WorkHolds(a)'
                           /\ a \in setting.boots /\ imp'[a].pc # "idle" => imp[a].pc # "idle"
                           /\ imp[a].calm /\ imp[a].pc # "idle" /\ imp'[a].pc = "idle" /\ ~StopImport(a)
                                 => \A req \in {imp[a].req} : AnswersAgain(req)'
    PROVE  CalmInv' /\ Reimports
<1>1. Reimports
  BY DEF Reimports
<1>2. \A b \in Agents : MayImport(b) => MayImport(b)'
  BY DEF MayImport
<1>3. CalmInv'
  BY <1>2 DEF CalmInv, AtItem
<1> QED BY <1>1, <1>3

LEMMA WorkKept ==
    ASSUME rows' = rows, text' = text, route' = route, NEW a \in Agents, WorkHolds(a), imp'[a] = imp[a]
    PROVE  WorkHolds(a)'
<1>1. PICK req : req = imp[a].req
  OBVIOUS
<1>2. PICK m : m = PreferredMatch(req)
  OBVIOUS
<1>3. PreferredMatch(req)' = m /\ (Found(req, m) => Found(req, m)')
  BY <1>2, MatchKept
<1>4. \A d \in Decisions : (Says(req, d)' <=> Says(req, d)) /\ (Open(d)' <=> Open(d))
  BY DEF Says, Open
<1>5. Bound(imp[a].d)' <=> Bound(imp[a].d)
  BY DEF Bound
<1> QED BY <1>1, <1>2, <1>3, <1>4, <1>5 DEF WorkHolds, Found, Flips


\* A bootstrap moves on, and no import ends.
LEMMA BootMoves ==
    ASSUME BootType, DocInv, CalmInv, UNCHANGED <<rows, text, route, setting>>, NEW a \in Agents, NEW b, Step(a, b),
           \A c \in Agents : c # a => imp'[c] = imp[c],
           a \in setting.boots, imp[a].pc = "idle",
           imp'[a].pc = "idle" \/ (imp'[a].pc = "apply" /\ AtItem(a)')
    PROVE  CalmInv' /\ Reimports
<1>1. \A c \in Agents : c # a => boot'[c] = boot[c]
  BY DEF Step, BootType
<1>2. Reimports
  BY DEF Reimports
<1>3. \A c \in Agents : MayImport(c)' <=> MayImport(c)
  BY DEF MayImport
<1>4. WorkHolds(a)' /\ MayImport(a)
  BY DEF WorkHolds, MayImport
<1>5. ASSUME NEW c \in Agents, c # a, imp'[c].calm PROVE MayImport(c)' /\ WorkHolds(c)'
  BY <1>3, <1>5, WorkKept DEF CalmInv
<1>6. ASSUME NEW c \in Agents, c \in setting'.boots
      PROVE  setting'.modes[c] = {} /\ (imp'[c].pc # "idle" => AtItem(c)')
  BY <1>1, <1>6 DEF CalmInv, AtItem
<1> QED BY <1>2, <1>3, <1>4, <1>5, <1>6 DEF CalmInv

LEMMA MoveDisturbs ==
    ASSUME DocType, NEW a \in Agents, NEW x, Move(a, x)
    PROVE  \A b \in Agents : b # a => imp'[b].pc = imp[b].pc /\ imp'[b].calm = FALSE
<1>1. \A b \in Agents : [imp[b] EXCEPT !.calm = FALSE].calm = FALSE
  BY DEF DocType, Import
<1>2. \A b \in Agents : b # a => imp'[b] = [imp[b] EXCEPT !.calm = FALSE]
  BY DEF Move
<1> QED BY <1>1, <1>2, MoveKeeps

\* A step of an import keeps the request, and is no calmer than the one before.
LEMMA StepKeeps ==
    ASSUME DocType, NEW a \in Agents, ImportStep(a) \/ StopImport(a)
    PROVE  /\ imp[a].pc # "idle"
           /\ \E x : /\ Move(a, x) /\ (x.calm => imp[a].calm)
                     /\ x.pc # "idle" => x.req = imp[a].req
<1> DEFINE i == imp[a]
           Fine(x) == (x.calm => i.calm) /\ (x.pc # "idle" => x.req = i.req)
<1>i. i \in Import
  BY DEF DocType
<1>n. Fine(NoImport)
  BY DEF NoImport
<1>o. \A act : Fine(Over(a, act))
  BY DEF Over, NoImport
<1>p. \A pc : Fine([i EXCEPT !.pc = pc])
  BY <1>i DEF Import
<1>1. CASE ApplyDoc(a)
  <2> DEFINE disp == Disposition(i.req)
             found == [i EXCEPT !.pc = IF ToSettle(i.req, disp.match) THEN "settle" ELSE "bind",
                                !.disp = disp, !.d = disp.match]
             writes == [i EXCEPT !.pc = IF disp.drop = None THEN "add" ELSE "drop", !.disp = disp]
  <2>1. Move(a, found) \/ Move(a, writes) \/ Move(a, Over(a, disp.action))
    <3>1. i.req \in Req
      BY <1>i DEF Import
    <3>2. disp.action \in {"existing", "unanchorable", "pending", "written", "superseded"}
      BY <3>1, DispositionTypes
    <3>3. Move(a, CASE disp.action = "existing" -> found
                    [] disp.action \in {"written", "superseded"} -> writes
                    [] OTHER -> Over(a, disp.action))
      BY <1>1 DEF ApplyDoc
    <3> HIDE DEF disp, found, writes
    <3> QED BY <3>2, <3>3
  <2>2. Fine(found) /\ Fine(writes)
    BY <1>i DEF Import
  <2>3. i.pc # "idle"
    BY <1>1 DEF ApplyDoc, Importing
  <2> HIDE DEF found, writes
  <2> QED BY <2>1, <2>2, <2>3, <1>o
<1>2. CASE SettleDoc(a)
  BY <1>2, <1>p DEF SettleDoc, Importing
<1>3. CASE DropPending(a)
  BY <1>3, <1>p DEF DropPending, Importing
<1>4. CASE AddDoc(a)
  <2>1. PICK d : Move(a, [i EXCEPT !.pc = "bind", !.d = d])
    BY <1>4 DEF AddDoc
  <2>2. Fine([i EXCEPT !.pc = "bind", !.d = d])
    BY <1>i DEF Import
  <2> QED BY <1>4, <2>1, <2>2 DEF AddDoc, Importing
<1>5. ASSUME NEW way, BindDoc(a, way)
      PROVE  i.pc # "idle" /\ \E x : Move(a, x) /\ Fine(x)
  <2>1. Move(a, [i EXCEPT !.pc = "judge"]) \/ Move(a, Over(a, i.disp.action))
    BY <1>5 DEF BindDoc
  <2>2. i.pc # "idle"
    BY <1>5 DEF BindDoc, Importing
  <2> QED BY <2>1, <2>2, <1>o, <1>p
<1>6. CASE JudgeDoc(a)
  <2>1. Move(a, [i EXCEPT !.pc = "ratify"]) \/ Move(a, NoImport)
    BY <1>6 DEF JudgeDoc
  <2>2. i.pc # "idle"
    BY <1>6 DEF JudgeDoc, Importing
  <2> QED BY <2>1, <2>2, <1>n, <1>p
<1>7. CASE RatifyDoc(a)
  BY <1>7, <1>n DEF RatifyDoc, Importing
<1>8. CASE StopImport(a)
  BY <1>8, <1>n DEF StopImport, Importing
<1> QED BY <1>1, <1>2, <1>3, <1>4, <1>5, <1>6, <1>7, <1>8 DEF ImportStep

LEMMA ImportCalm ==
    ASSUME ChainInv, CaptureType, DocType, DraftInv, DocInv, DocInv', Moved, MatchesAre, MatchesAre', CalmInv,
           setting' = setting, boot' = boot, NEW a \in Agents, ImportStep(a) \/ StopImport(a)
    PROVE  CalmInv' /\ Reimports
<1> DEFINE i == imp[a]
<1>i. i \in Import
  BY DEF DocType
<1>n. NoImport.calm = FALSE /\ NoImport.pc = "idle"
  BY DEF NoImport
<1>1. ASSUME NEW x, Move(a, x), x.calm => i.calm, i.pc # "idle"
      PROVE  CalmInv' /\ Reimports
  <2>1. imp'[a] = x /\ \A b \in Agents : b # a => imp'[b].pc = imp[b].pc /\ imp'[b].calm = FALSE
    BY <1>1, MoveKeeps, MoveDisturbs
  <2>2. i.calm => MayImport(a) /\ WorkHolds(a)
    BY DEF CalmInv
  <2>3. CASE ImportStep(a)
    <3>1. i.calm => WorkHolds(a)' /\ (imp'[a].pc = "idle" => \A req \in {imp[a].req} : AnswersAgain(req)')
      BY <2>2, <2>3, ImportWork
    <3> QED BY <1>1, <2>1, <2>2, <3>1, DisturbedKeep
  <2>4. CASE StopImport(a)
    <3>1. imp'[a] = NoImport
      BY <2>4, MoveKeeps DEF StopImport
    <3> QED BY <1>1, <1>n, <2>1, <2>4, <3>1, DisturbedKeep
  <2> QED BY <2>3, <2>4
<1>2. i.pc # "idle" /\ \E x : Move(a, x) /\ (x.calm => i.calm)
  BY StepKeeps
<1> QED BY <1>1, <1>2

LEMMA CalmSteps ==
    ASSUME ChainInv, CaptureType, DocType, BootType, DraftInv, DocInv, DocInv', Moved, MatchesAre, MatchesAre',
           CalmInv, setting' = setting, BNext
    PROVE  CalmInv' /\ Reimports
<1>d. ASSUME Disturb, boot' = boot PROVE CalmInv' /\ Reimports
  <2>1. \A b \in Agents : imp'[b].pc = imp[b].pc /\ imp'[b].calm = FALSE
    <3>1. \A b \in Agents : [imp[b] EXCEPT !.calm = FALSE].calm = FALSE
      BY DEF DocType, Import
    <3>2. \A b \in Agents : imp'[b] = [imp[b] EXCEPT !.calm = FALSE]
      BY <1>d DEF Disturb
    <3> QED BY <1>d, <3>1, <3>2, DisturbKeeps
  <2>2. PICK nobody : nobody \notin Agents
    BY NoSetContainsEverything
  <2> QED BY <1>d, <2>1, <2>2, DisturbedKeep
<1>u. ASSUME imp' = imp, boot' = boot, UNCHANGED <<rows, text, route>> PROVE CalmInv' /\ Reimports
  <2>1. Reimports
    BY <1>u DEF Reimports
  <2>2. \A c \in Agents : MayImport(c)' <=> MayImport(c)
    BY DEF MayImport
  <2>3. ASSUME NEW c \in Agents, imp'[c].calm PROVE MayImport(c)' /\ WorkHolds(c)'
    BY <1>u, <2>2, <2>3, WorkKept DEF CalmInv
  <2>4. \A c \in Agents : AtItem(c)' <=> AtItem(c)
    BY <1>u DEF AtItem
  <2> QED BY <1>u, <2>1, <2>3, <2>4 DEF CalmInv
<1>1. ASSUME RNext, UNCHANGED boot PROVE CalmInv' /\ Reimports
  <2>1. ASSUME Reviewer PROVE CalmInv' /\ Reimports
    <3>1. ASSUME FinishReview \/ ReviewDies PROVE CalmInv' /\ Reimports
      BY <3>1, <1>1, <1>u DEF FinishReview, ReviewDies, StoreKept, RestKept
    <3>2. \A S, D : BeginGiven(S, D) => Disturb
      BY DEF BeginGiven
    <3>3. BeginAll \/ ListFacts => Disturb
      BY DEF BeginAll, ListFacts
    <3>4. \A r : AcceptNext(r) \/ DropNext(r) => Disturb
      BY DEF AcceptNext, DropNext
    <3> QED BY <2>1, <1>1, <1>d, <3>1, <3>2, <3>3, <3>4 DEF Reviewer
  <2>2. ASSUME CNext, Disturb PROVE CalmInv' /\ Reimports
    BY <2>2, <1>1, <1>d
  <2>3. ASSUME NEW ref, NEW new, EditDoc(ref, new) PROVE CalmInv' /\ Reimports
    BY <2>3, <1>1, <1>d DEF EditDoc
  <2>4. ASSUME NEW a \in Agents, ImportDocs(a) PROVE CalmInv' /\ Reimports
    <3>1. PICK ref \in setting.docs, mode \in setting.modes[a], kind \in Kinds : ReadDoc(a, ref, mode, kind)
      BY <2>4 DEF ImportDocs
    <3> DEFINE new == [NoImport EXCEPT !.pc = "apply", !.req = Request(ref, doc[ref], WrittenAs(doc[ref], mode), FALSE),
                                       !.mode = mode, !.kind = kind, !.draft = doc[ref].status = "draft", !.calm = TRUE]
    <3>2. Move(a, new) /\ imp[a].pc = "idle"
      BY <3>1 DEF ReadDoc, Importing
    <3>3. setting.modes[a] # {} /\ a \notin setting.boots /\ MayImport(a)
      BY <3>1 DEF MayImport, CalmInv
    <3>4. new.pc = "apply"
      BY DEF NoImport
    <3> HIDE DEF new
    <3>5. imp'[a] = new /\ \A b \in Agents : b # a => imp'[b].pc = imp[b].pc /\ imp'[b].calm = FALSE
      BY <3>2, MoveKeeps, MoveDisturbs
    <3>6. WorkHolds(a)'
      BY <3>4, <3>5 DEF WorkHolds
    <3> QED BY <1>1, <3>2, <3>3, <3>5, <3>6, DisturbedKeep
  <2>5. ASSUME NEW a \in Agents, ImportStep(a) \/ StopImport(a) PROVE CalmInv' /\ Reimports
    BY <2>5, <1>1, ImportCalm
  <2>6. DNext => CalmInv' /\ Reimports
    BY <2>2, <2>3, <2>4, <2>5 DEF DNext
  <2> QED BY <1>1, <2>1, <2>6 DEF RNext
<1>b. \A a \in Agents : boot[a].pc # "idle" => a \in setting.boots /\ (~AtItem(a) => imp[a].pc = "idle")
  BY DEF DocInv, Importers, CalmInv
<1>p. NoBoot.pc = "idle" /\ NoImport.pc = "idle"
  BY NoBootFits, NoImportTypes
<1>2. ASSUME NEW a \in Agents, NEW b, Step(a, b), NothingWritten, a \in setting.boots, imp[a].pc = "idle"
      PROVE  CalmInv' /\ Reimports
  <2>1. UNCHANGED <<rows, text, route, imp>>
    BY <1>2 DEF NothingWritten, rvars, dvars, cvars
  <2> QED BY <1>2, <2>1, BootMoves
<1>3. ASSUME NEW a \in Agents, Plan(a) PROVE CalmInv' /\ Reimports
  <2>1. a \in setting.boots /\ imp[a].pc = "idle"
    BY <1>3 DEF Plan, Booting, CalmInv, AtItem
  <2> QED BY <1>3, <2>1, <1>2 DEF Plan
<1>4. ASSUME NEW a \in Agents, NEW answers, Refresh(a) \/ Answer(a, answers) PROVE CalmInv' /\ Reimports
  <2>1. boot[a].pc \in {"refresh", "review"} /\ NothingWritten /\ \E b : Step(a, b)
    BY <1>4 DEF Refresh, Answer, Booting
  <2> QED BY <2>1, <1>b, <1>2 DEF AtItem
<1>5. ASSUME NEW a \in Agents, Apply(a) PROVE CalmInv' /\ Reimports
  <2> DEFINE x == [NoImport EXCEPT !.mode = "reviewed", !.calm = TRUE]
  <2>1. a \in setting.boots /\ imp[a].pc = "idle" /\ \E b : Step(a, b)
    BY <1>5, <1>b DEF Apply, Booting, AtItem
  <2>2. NothingWritten \/ (imp' = [imp EXCEPT ![a] = x] /\ UNCHANGED <<cvars, text>>)
    BY <1>5 DEF Apply
  <2>3. x.pc = "idle"
    BY DEF NoImport
  <2> HIDE DEF x
  <2>4. CASE imp' = [imp EXCEPT ![a] = x] /\ UNCHANGED <<cvars, text>>
    <3>1. imp'[a].pc = "idle" /\ \A c \in Agents : c # a => imp'[c] = imp[c]
      BY <2>3, <2>4 DEF DocType
    <3>2. UNCHANGED <<rows, text, route, setting>>
      BY <2>4 DEF cvars
    <3> QED BY <2>1, <3>1, <3>2, BootMoves
  <2> QED BY <2>1, <2>2, <2>4, <1>2
<1>6. ASSUME NEW a \in Agents, NEW ref \in setting.docs, BeginItem(a, ref) PROVE CalmInv' /\ Reimports
  <2> DEFINE req == AskFor(ref, boot[a].answers[ref], boot[a].inputs.doc[ref])
             b == [boot[a] EXCEPT !.ref = ref]
  <2>1. /\ boot[a].pc = "apply" /\ boot[a].ref = None /\ Step(a, b)
        /\ imp' = [imp EXCEPT ![a].pc = "apply", ![a].req = req] /\ UNCHANGED <<cvars, text>>
    BY <1>6 DEF BeginItem, Booting
  <2>2. a \in setting.boots /\ imp[a].pc = "idle"
    BY <2>1, <1>b DEF AtItem
  <2>3. imp'[a].pc = "apply" /\ \A c \in Agents : c # a => imp'[c] = imp[c]
    <3> HIDE DEF req
    <3> QED BY <2>1 DEF DocType, Import
  <2>4. ref # None
    BY DocAssumption DEF CaptureType, Setting
  <2>5. b.pc = "apply" /\ b.ref = ref
    BY <2>1 DEF BootType, Boot, BootShape
  <2> HIDE DEF b
  <2>6. AtItem(a)'
    BY <2>1, <2>4, <2>5 DEF AtItem, Step, BootType
  <2>7. UNCHANGED <<rows, text, route, setting>>
    BY <2>1 DEF cvars
  <2> QED BY <2>1, <2>2, <2>3, <2>6, <2>7, BootMoves
<1>7. ASSUME NEW a \in Agents, EndItem(a) PROVE CalmInv' /\ Reimports
  <2>1. boot[a].pc # "idle" /\ imp[a].pc = "idle" /\ NothingWritten /\ \E b : Step(a, b)
    BY <1>7 DEF EndItem, Booting, Importing
  <2> QED BY <2>1, <1>b, <1>2
<1>e. ASSUME NEW a \in Agents, NEW b, Step(a, b), imp[a].pc = "idle" \/ StopImport(a), imp' = [imp EXCEPT ![a] = NoImport],
             a \in setting.boots, UNCHANGED <<rows, text, route>>
      PROVE  CalmInv' /\ Reimports
  <2>1. imp'[a].pc = "idle" /\ \A c \in Agents : c # a => imp'[c] = imp[c]
    BY <1>e, <1>p DEF DocType
  <2>2. CASE imp[a].pc = "idle"
    BY <1>e, <2>1, <2>2, BootMoves
  <2>3. CASE StopImport(a)
    <3>1. Reimports
      BY <2>1, <2>3 DEF Reimports
    <3>2. \A c \in Agents : MayImport(c)' <=> MayImport(c)
      BY DEF MayImport
    <3>3. WorkHolds(a)' /\ MayImport(a)
      BY <1>e, <2>1 DEF WorkHolds, MayImport
    <3>4. ASSUME NEW c \in Agents, c # a, imp'[c].calm PROVE MayImport(c)' /\ WorkHolds(c)'
      BY <1>e, <2>1, <3>2, <3>4, WorkKept DEF CalmInv
    <3>5. ASSUME NEW c \in Agents, c \in setting'.boots
          PROVE  setting'.modes[c] = {} /\ (imp'[c].pc # "idle" => AtItem(c)')
      <4>1. c # a => boot'[c] = boot[c]
        BY <1>e DEF Step, BootType
      <4> QED BY <2>1, <3>5, <4>1 DEF CalmInv, AtItem
    <3> QED BY <3>1, <3>2, <3>3, <3>4, <3>5 DEF CalmInv
  <2> QED BY <1>e, <2>2, <2>3
<1>8. ASSUME NEW a \in Agents, ItemFails(a) \/ BootDies(a) \/ Report(a) PROVE CalmInv' /\ Reimports
  <2>1. /\ boot[a].pc # "idle" /\ a \in setting.boots /\ \E b : Step(a, b)
        /\ UNCHANGED <<rows, text, route, by, doc>> /\ Others
    BY <1>8, <1>b DEF ItemFails, BootDies, Report, Booting, StopImport, cvars, Others
  <2>2. \A c \in Agents : c # a => [imp[c] EXCEPT !.calm = FALSE] = imp[c]
    <3> SUFFICES ASSUME NEW c \in Agents, c # a PROVE [imp[c] EXCEPT !.calm = FALSE] = imp[c]
      OBVIOUS
    <3>1. imp[c].calm = FALSE
      BY <2>1 DEF CalmInv, DocInv, Importers, MayImport, DocType, Import
    <3> QED BY <3>1 DEF DocType, Import
  <2>3. imp' = [imp EXCEPT ![a] = NoImport] <=> Move(a, NoImport)
    BY <2>2 DEF Move, DocType
  <2>4. imp' = [imp EXCEPT ![a] = NoImport] /\ (imp[a].pc = "idle" \/ StopImport(a))
    <3>1. CASE ItemFails(a)
      BY <3>1, <2>3 DEF ItemFails, StopImport
    <3>2. CASE BootDies(a)
      BY <3>2, <2>1, <2>3 DEF BootDies, StopImport, Importing
    <3>3. CASE Report(a)
      BY <3>3, <1>b DEF Report, AtItem, Booting
    <3> QED BY <1>8, <3>1, <3>2, <3>3
  <2> QED BY <2>1, <2>4, <1>e
<1> QED BY <1>1, <1>3, <1>4, <1>5, <1>6, <1>7, <1>8 DEF BNext

LEMMA SettingStays == BNext => setting' = setting
<1>1. \A a \in Agents : ItemFails(a) => setting' = setting
  BY DEF ItemFails, StopImport, Others
<1>2. \A a \in Agents : \/ Plan(a) \/ Refresh(a) \/ Apply(a) \/ EndItem(a) \/ Report(a) \/ BootDies(a)
          => setting' = setting
  BY DEF Plan, Refresh, Apply, EndItem, Report, BootDies, NothingWritten, rvars, dvars, cvars
<1>3. \A a \in Agents, answers \in [Docs -> Answers] : Answer(a, answers) => setting' = setting
  BY DEF Answer, NothingWritten, rvars, dvars, cvars
<1>4. \A a \in Agents, ref \in setting.docs : BeginItem(a, ref) => setting' = setting
  BY DEF BeginItem, cvars
<1>5. RNext => setting' = setting
  BY SettingIsKept
<1> QED BY <1>1, <1>2, <1>3, <1>4, <1>5 DEF BNext

LEMMA CalmNext ==
    ASSUME WritersType, WritersType', DraftInv, DocInv, DocInv', MatchesAre, MatchesAre', CalmInv, [BNext]_bvars
    PROVE  CalmInv' /\ [Reimports]_dvars
<1>1. Moved
  BY WritersNext, NextMoves DEF WritersType
<1>2. CASE BNext
  BY <1>1, <1>2, SettingStays, CalmSteps DEF WritersType
<1>3. CASE UNCHANGED bvars
  <2>1. UNCHANGED <<rows, text, route, imp, boot, setting>> /\ UNCHANGED dvars
    BY <1>3 DEF bvars, rvars, dvars, cvars
  <2>2. ASSUME NEW a \in Agents, imp'[a].calm PROVE MayImport(a)' /\ WorkHolds(a)'
    BY <2>1, <2>2, WorkKept DEF CalmInv, MayImport
  <2> QED BY <2>1, <2>2 DEF CalmInv, AtItem
<1> QED BY <1>2, <1>3

LEMMA CalmHolds == OneImporter /\ BSpec => [](MatchesAre /\ CalmInv)
<1>1. BInit => CalmInv
  <2> SUFFICES ASSUME BInit PROVE CalmInv
    OBVIOUS
  <2>1. setting \in Settings /\ imp = [a \in Agents |-> NoImport]
    BY DEF BInit, RInit, DInit, CInit
  <2>2. NoImport.pc = "idle" /\ NoImport.calm = FALSE
    BY DEF NoImport
  <2> QED BY <2>1, <2>2, BootAssumption DEF CalmInv
<1>2. WritersType => MatchesAre
  BY MatchesHold DEF WritersType
<1>3. /\ WritersType /\ WritersType' /\ DraftInv /\ DocInv /\ DocInv' /\ MatchesAre /\ MatchesAre'
      /\ CalmInv /\ [BNext]_bvars
      => CalmInv'
  BY CalmNext
<1> QED BY <1>1, <1>2, <1>3, DocumentsHold, WritersTypes, WritersDrafts, PTL DEF BSpec

(* An import that came to its end, with nobody else at work, has left nothing  *)
(* to write: another one would find its record, bound to the code unless it is *)
(* a rejected one, or refuse for the same reason.  This holds from whatever    *)
(* the imports before it left, the ones included that died half-way           *)
(* (doc_import.py).                                                          *)
THEOREM WritersReimport == OneImporter /\ BSpec => ReimportFindsItsRecord
<1> DEFINE Finds == \A a \in Agents : \A req \in {imp[a].req} :
              (imp[a].calm /\ imp[a].pc # "idle" /\ imp'[a].pc = "idle" /\ ~StopImport(a)) =>
                 LET disp == Disposition(req)
                 IN  (/\ disp.action \in {"existing", "unanchorable", "pending"}
                      /\ (disp.action = "existing" /\ req.anchored) =>
                            (Bound(disp.match) \/ rows[disp.match].status = "rejected"))'
<1>1. /\ WritersType /\ WritersType' /\ DraftInv /\ DocInv /\ DocInv' /\ MatchesAre /\ MatchesAre'
      /\ CalmInv /\ [BNext]_bvars
      => [Finds]_dvars
  BY CalmNext DEF Reimports, AnswersAgain
<1> HIDE DEF Finds
<1>2. OneImporter /\ BSpec => [][Finds]_dvars
  BY <1>1, CalmHolds, DocumentsHold, WritersTypes, WritersDrafts, PTL DEF BSpec
<1> QED BY <1>2 DEF Finds, ReimportFindsItsRecord

-----------------------------------------------------------------------------
(* Bootstraps that nobody disturbs.  A record that was imported supersedes    *)
(* only a record of its document (Lineage), so what one item does leaves the  *)
(* items before it as they were (ItemHolds).                                  *)

\* The answer is in the store, or cannot be.
Settles(ref, answer) ==
    \/ \E d \in Decisions : Says([ref |-> ref, text |-> answer.text], d) /\ rows[d].status = answer.as
    \/ InForce(ref, answer)
    \/ \E d \in Holding(ref, "accepted") : \E s \in PendingSuccessors(rows, d) : text[s].of # ref

Lineage ==
    \A d \in Decisions : (text[d].of # None /\ rows[d].supersedes # None)
                         => text[rows[d].supersedes].of = text[d].of
Targets(a) ==
    /\ (imp[a].pc \in {"drop", "add"} /\ imp[a].disp.pred # None) => text[imp[a].disp.pred].of = imp[a].req.ref
    /\ imp[a].pc = "drop" => text[imp[a].disp.drop].of = imp[a].req.ref
LineInv == Lineage /\ \A a \in Agents : Targets(a)

Asked(a) ==
    LET req == imp[a].req  answer == boot[a].answers[boot[a].ref] IN
    req.ref = boot[a].ref /\ req.text = answer.text /\ req.as = answer.as /\ (req.ratifies <=> answer.as = "accepted")
ItemHolds(a) ==
    LET b == boot[a] IN
    (imp[a].calm /\ b.pc = "apply" /\ ~b.failed) =>
        /\ \A ref \in Answered(b) \ (b.left \cup b.unanchored) : Settles(ref, b.answers[ref])
        /\ b.ref # None =>
              /\ imp[a].pc # "idle" => Asked(a)
              /\ imp[a].pc = "settle" => b.answers[b.ref].as = "accepted"
              /\ (imp[a].pc = "bind" \/ (imp[a].pc = "idle" /\ imp[a].disp.action # "unanchorable"))
                 => Settles(b.ref, b.answers[b.ref])
ItemInv == \A a \in Agents : ItemHolds(a) /\ (boot[a].ref # None => boot[a].ref \in boot[a].left)

\* What is written stays what it is, and its text too.
LEMMA TextStays ==
    ASSUME DocType, DraftInv, NEW a \in Agents, ImportStep(a)
    PROVE  \A d \in Decisions : rows[d].status # "unwritten" => text'[d] = text[d]
<1>1. CASE AddDoc(a)
  <2> DEFINE left == {x \in Decisions \cap setting.ids : rows[x].status = "unwritten"}
  <2>1. PICK x, entry : x = (CHOOSE y \in left : TRUE) /\ text' = [text EXCEPT ![x] = entry] /\ left # {}
    BY <1>1 DEF AddDoc
  <2>2. rows[x].status = "unwritten"
    BY <2>1
  <2> QED BY <2>1, <2>2 DEF DocType
<1>2. CASE ~AddDoc(a)
  <2>1. text' = text
    BY <1>2 DEF ImportStep, ApplyDoc, SettleDoc, DropPending, BindDoc, JudgeDoc, RatifyDoc
  <2> QED BY <2>1
<1> QED BY <1>1, <1>2

\* Nothing is said of a record but what its text says when it is imported.
LEMMA LineKept ==
    ASSUME ChainInv, DocType, DraftInv, LineInv, Moved, text' = text,
           \A b \in Agents : imp'[b].pc \in {"drop", "add"} =>
               \/ Targets(b)'
               \/ imp'[b].pc = imp[b].pc /\ imp'[b].req = imp[b].req /\ imp'[b].disp = imp[b].disp
    PROVE  LineInv'
<1>1. Lineage'
  BY DEF LineInv, Lineage, Moved, DraftInv, DraftsAreTold
<1>2. ASSUME NEW b \in Agents PROVE Targets(b)'
  BY DEF LineInv, Targets
<1> QED BY <1>1, <1>2 DEF LineInv

LEMMA ImportLine ==
    ASSUME ChainInv, CaptureType, DocType, DraftInv, LineInv, Moved, NEW a \in Agents, ImportStep(a) \/ StopImport(a)
    PROVE  LineInv'
<1> DEFINE i == imp[a]
           Same(b) == imp'[b].pc = imp[b].pc /\ imp'[b].req = imp[b].req /\ imp'[b].disp = imp[b].disp
<1>i. i \in Import /\ ImportFits(i) /\ i.req \in Req
  BY DEF DocType, Import
<1>k. ASSUME NEW x, Move(a, x), x.pc \notin {"drop", "add"}, text' = text PROVE LineInv'
  BY <1>k, MoveKeeps, LineKept
<1>o. \A act : Over(a, act).pc = "idle"
  BY DEF Over, NoImport
<1>n. NoImport.pc = "idle"
  BY DEF NoImport
<1>e. \A pc : [i EXCEPT !.pc = pc].pc = pc /\ [i EXCEPT !.pc = pc].disp = i.disp /\ [i EXCEPT !.pc = pc].req = i.req
  BY <1>i DEF Import
<1>1. ASSUME ApplyDoc(a) PROVE LineInv'
  <2> DEFINE disp == Disposition(i.req)
             found == [i EXCEPT !.pc = IF ToSettle(i.req, disp.match) THEN "settle" ELSE "bind",
                                !.disp = disp, !.d = disp.match]
             writes == [i EXCEPT !.pc = IF disp.drop = None THEN "add" ELSE "drop", !.disp = disp]
  <2>1. /\ disp.action \in {"existing", "unanchorable", "pending", "written", "superseded"}
        /\ disp.action \in {"written", "superseded"} =>
              /\ disp.pred = Oldest(Holding(i.req.ref, "accepted"))
              /\ disp.drop = Oldest(Holding(i.req.ref, "proposed"))
    BY <1>i, DispositionTypes
  <2>2. text' = text
    BY <1>1 DEF ApplyDoc
  <2>3. \/ Move(a, found)
        \/ disp.action \in {"written", "superseded"} /\ Move(a, writes)
        \/ Move(a, Over(a, disp.action))
    BY <1>1, <2>1 DEF ApplyDoc
  <2>4. \A st : Oldest(Holding(i.req.ref, st)) # None =>
            text[Oldest(Holding(i.req.ref, st))].of = i.req.ref
    <3> SUFFICES ASSUME NEW st, Oldest(Holding(i.req.ref, st)) # None
                 PROVE  text[Oldest(Holding(i.req.ref, st))].of = i.req.ref
      OBVIOUS
    <3>1. Oldest(Holding(i.req.ref, st)) \in Holding(i.req.ref, st)
      BY HoldingTypes, OldestIsOne
    <3> QED BY <3>1 DEF Holding, Existing
  <2>5. found.pc \notin {"drop", "add"}
    BY <1>i DEF Import
  <2>6. writes.disp = disp /\ writes.req = i.req /\ (writes.pc = "drop" => disp.drop # None)
    BY <1>i DEF Import
  <2> HIDE DEF disp, found, writes
  <2>7. CASE disp.action \in {"written", "superseded"} /\ Move(a, writes)
    <3>1. imp'[a] = writes /\ \A b \in Agents : b # a => Same(b)
      BY <2>7, MoveKeeps
    <3>2. Targets(a)'
      BY <2>1, <2>2, <2>4, <2>6, <2>7, <3>1 DEF Targets
    <3> QED BY <2>2, <3>1, <3>2, LineKept
  <2> QED BY <2>2, <2>3, <2>5, <2>7, <1>k, <1>o
<1>2. ASSUME SettleDoc(a) PROVE LineInv'
  BY <1>2, <1>e, <1>k DEF SettleDoc
<1>3. ASSUME DropPending(a) PROVE LineInv'
  <2>1. Move(a, [i EXCEPT !.pc = "add"]) /\ text' = text /\ i.pc = "drop"
    BY <1>3 DEF DropPending, Importing
  <2>2. imp'[a].pc = "add" /\ imp'[a].req = i.req /\ imp'[a].disp = i.disp /\ \A b \in Agents : b # a => Same(b)
    <3>1. PICK x : x = [i EXCEPT !.pc = "add"]
      OBVIOUS
    <3>2. x.pc = "add" /\ x.req = i.req /\ x.disp = i.disp
      BY <1>e, <3>1
    <3> QED BY <2>1, <3>1, <3>2, MoveKeeps
  <2>3. Targets(a)'
    BY <2>1, <2>2 DEF LineInv, Targets
  <2> QED BY <2>1, <2>2, <2>3, LineKept
<1>4. ASSUME AddDoc(a) PROVE LineInv'
  <2>1. PICK x, q, pred :
            /\ x \in Decisions /\ Added(x, q, pred) /\ q = i.req.as /\ pred = i.disp.pred
            /\ q \in {"accepted", "proposed", "rejected"}
            /\ text'[x].of = i.req.ref /\ text'[x].text = i.req.text
            /\ \A e \in Decisions : e # x => text'[e] = text[e]
            /\ imp'[a].pc = "bind" /\ imp'[a].req = i.req /\ imp'[a].d = x
    BY <1>4, Adding
  <2>2. PICK y : Move(a, y) /\ i.pc = "add"
    BY <1>4, Adding
  <2>3. text'[x].of = i.req.ref /\ \A e \in Decisions : e # x => text'[e] = text[e]
    BY <2>1
  <2>4. x \in Decisions /\ rows[x].status = "unwritten"
    BY <2>1 DEF Added
  <2>5. /\ rows'[x].supersedes = pred /\ (pred # None => pred \in Decisions /\ pred # x)
        /\ \A e \in Decisions : e # x => rows'[e].supersedes = rows[e].supersedes
    BY <2>1, AddTouches
  <2>6. pred # None => text[pred].of = i.req.ref
    BY <2>1, <2>2 DEF LineInv, Targets
  <2>7. ASSUME NEW e \in Decisions, e # x, text'[e].of # None, rows'[e].supersedes # None
        PROVE  text'[rows'[e].supersedes].of = text'[e].of
    <3>1. text[e].of # None /\ rows[e].supersedes # None
      BY <2>3, <2>5, <2>7
    <3>2. text[rows[e].supersedes].of = text[e].of /\ rows[e].supersedes \in Decisions
      BY <3>1 DEF LineInv, Lineage, ChainInv, TypeOK, Table, Records
    <3>3. rows[e].supersedes # x
      BY <2>4, <3>1, <3>2 DEF DraftInv, DraftsAreTold
    <3> QED BY <2>3, <2>5, <2>7, <3>2, <3>3
  <2>8. Lineage'
    BY <2>3, <2>5, <2>6, <2>7 DEF Lineage
  <2>9. ASSUME NEW b \in Agents PROVE Targets(b)'
    <3>1. CASE b = a
      <4>1. imp'[a].pc = "bind"
        BY <2>1
      <4> QED BY <3>1, <4>1 DEF Targets
    <3>2. CASE b # a
      <4>1. Same(b)
        BY <3>2, <2>2, MoveKeeps
      <4>2. imp[b].pc \in {"drop", "add"} => imp[b].req.ref # None
        BY DEF DocType, ImportFits
      <4>3. \A e : e \in Decisions /\ text[e].of # None => e # x
        BY <2>4 DEF DraftInv, DraftsAreTold
      <4>4. imp[b].disp.pred \in Maybe(Decisions) /\ imp[b].disp.drop \in Maybe(Decisions)
        BY DEF DocType, Import, Disp
      <4>5. imp[b].pc = "drop" => imp[b].disp.drop # None
        BY DEF DocType, ImportFits
      <4> QED BY <2>3, <4>1, <4>2, <4>3, <4>4, <4>5 DEF Targets, LineInv, Maybe
    <3> QED BY <3>1, <3>2
  <2> QED BY <2>8, <2>9 DEF LineInv
<1>5. ASSUME NEW way, BindDoc(a, way) PROVE LineInv'
  <2>1. PICK x : Move(a, x) /\ x.pc \in {"judge", "idle"}
    BY <1>5, <1>e, <1>o DEF BindDoc
  <2> QED BY <1>5, <2>1, <1>k DEF BindDoc
<1>6. ASSUME JudgeDoc(a) PROVE LineInv'
  <2>1. PICK x : Move(a, x) /\ x.pc \in {"ratify", "idle"}
    BY <1>6, <1>e, <1>n DEF JudgeDoc
  <2> QED BY <1>6, <2>1, <1>k DEF JudgeDoc
<1>7. ASSUME RatifyDoc(a) PROVE LineInv'
  BY <1>7, <1>n, <1>k DEF RatifyDoc
<1>8. ASSUME StopImport(a) PROVE LineInv'
  BY <1>8, <1>n, <1>k DEF StopImport
<1> QED BY <1>1, <1>2, <1>3, <1>4, <1>5, <1>6, <1>7, <1>8 DEF ImportStep

\* An undisturbed import touches no written record but those of its document.
LEMMA Elsewhere ==
    ASSUME ChainInv, DocType, DraftInv, MatchesAre, LineInv, NEW a \in Agents, WorkHolds(a), ImportStep(a)
    PROVE  \A e \in Decisions : (rows[e].status # "unwritten" /\ text[e].of # imp[a].req.ref) =>
               rows'[e].status = rows[e].status /\ rows'[e].supersedes = rows[e].supersedes
<1> DEFINE i == imp[a]
           Goal == \A e \in Decisions : (rows[e].status # "unwritten" /\ text[e].of # i.req.ref) =>
               rows'[e].status = rows[e].status /\ rows'[e].supersedes = rows[e].supersedes
<1>i. i \in Import /\ ImportFits(i) /\ i.req \in Req
  BY DEF DocType, Import
<1>1. ASSUME rows' = rows PROVE Goal
  BY <1>1
<1>2. ASSUME SettleDoc(a) \/ RatifyDoc(a) PROVE Goal
  <2>1. /\ i.pc \in {"settle", "ratify"}
        /\ CanRatify(rows, i.d) /\ rows' = AfterRatify(rows, i.d)
    BY <1>2 DEF SettleDoc, RatifyDoc, Importing
  <2>2. i.d \in Decisions /\ text[i.d].of = i.req.ref
    <3>1. i.d = PreferredMatch(i.req) /\ i.d # None
      BY <1>i, <2>1 DEF WorkHolds, ImportFits
    <3> QED BY <1>i, <3>1 DEF MatchesAre, MatchFacts, Says
  <2>3. PICK d \in Decisions : d = i.d
    BY <2>2
  <2>4. /\ \A e \in Decisions : /\ rows'[e].supersedes = rows[e].supersedes
                                /\ e # d /\ e # rows[d].supersedes => rows'[e].status = rows[e].status
    BY <2>1, <2>3, RatifyTouches
  <2>5. rows[d].supersedes # None => text[rows[d].supersedes].of = i.req.ref
    BY <1>i, <2>1, <2>2, <2>3, DocAssumption DEF LineInv, Lineage, ImportFits
  <2>6. \A e \in Decisions : e # None
    BY RecordIds
  <2> QED BY <2>2, <2>3, <2>4, <2>5, <2>6
<1>3. ASSUME DropPending(a) PROVE Goal
  <2>1. i.pc = "drop" /\ rows' = AfterDrop(rows, i.disp.drop) /\ i.disp.drop # None
    BY <1>3, <1>i DEF DropPending, Importing, ImportFits
  <2>2. PICK d \in Decisions : d = i.disp.drop
    BY <1>i, <2>1 DEF Import, Disp, Maybe
  <2>3. \A e \in Decisions : /\ rows'[e].supersedes = rows[e].supersedes
                             /\ e # d => rows'[e].status = rows[e].status
    BY <2>1, <2>2, DropTouches
  <2>4. text[d].of = i.req.ref
    BY <2>1, <2>2 DEF LineInv, Targets
  <2> QED BY <2>3, <2>4
<1>4. ASSUME AddDoc(a) PROVE Goal
  <2>1. PICK x, q, pred :
            /\ x \in Decisions /\ Added(x, q, pred) /\ q = i.req.as /\ pred = i.disp.pred
            /\ q \in {"accepted", "proposed", "rejected"}
    BY <1>4, Adding
  <2>2. i.pc = "add"
    BY <1>4, Adding
  <2>3. \A e \in Decisions : /\ e # x => rows'[e].supersedes = rows[e].supersedes
                             /\ e # x /\ e # pred => rows'[e].status = rows[e].status
    BY <2>1, AddTouches
  <2>4. pred # None => text[pred].of = i.req.ref
    BY <2>1, <2>2 DEF LineInv, Targets
  <2>5. \A e \in Decisions : e # None
    BY RecordIds
  <2>6. rows[x].status = "unwritten"
    BY <2>1 DEF Added
  <2> QED BY <2>3, <2>4, <2>5, <2>6
<1> QED BY <1>1, <1>2, <1>3, <1>4 DEF ImportStep, ApplyDoc, BindDoc, JudgeDoc

LEMMA SettlesKept ==
    ASSUME rows' = rows, text' = text, NEW ref, NEW answer, Settles(ref, answer)
    PROVE  Settles(ref, answer)'
BY DEF Settles, Says, InForce, Holding, Existing, PendingSuccessors, Successors

LEMMA SettlesElsewhere ==
    ASSUME ChainInv, DocType, DraftInv, MatchesAre, LineInv, NEW a \in Agents, WorkHolds(a), ImportStep(a),
           NEW ref \in Docs, ref # imp[a].req.ref, imp[a].req.ref # None,
           NEW answer, answer.as # "unwritten", Settles(ref, answer)
    PROVE  Settles(ref, answer)'
<1>1. \A e \in Decisions : rows[e].status # "unwritten" => text'[e] = text[e]
  BY TextStays
<1>2. \A e \in Decisions : (rows[e].status # "unwritten" /\ text[e].of # imp[a].req.ref) =>
          rows'[e].status = rows[e].status /\ rows'[e].supersedes = rows[e].supersedes
  BY Elsewhere
<1>3. ASSUME NEW d \in Decisions, Says([ref |-> ref, text |-> answer.text], d), rows[d].status = answer.as
      PROVE  Settles(ref, answer)'
  <2>1. Says([ref |-> ref, text |-> answer.text], d)' /\ rows'[d].status = answer.as
    BY <1>1, <1>2, <1>3 DEF Says
  <2> QED BY <2>1 DEF Settles
<1>4. ASSUME NEW d \in Holding(ref, "accepted") PROVE d \in Holding(ref, "accepted")' /\ text'[d] = text[d]
  BY <1>1, <1>2, <1>4 DEF Holding, Existing
<1>5. ASSUME InForce(ref, answer) PROVE Settles(ref, answer)'
  BY <1>4, <1>5 DEF InForce, Settles
<1>6. ASSUME NEW d \in Holding(ref, "accepted"), NEW s \in PendingSuccessors(rows, d), text[s].of # ref
      PROVE  Settles(ref, answer)'
  <2>1. d \in Decisions /\ text[d].of = ref /\ d # None
    BY RecordIds DEF Holding, Existing
  <2>2. s \in Records /\ rows[s].status = "proposed" /\ rows[s].supersedes = d
    BY <1>6 DEF PendingSuccessors, Successors
  <2>3. s \in Decisions
    BY <2>1, <2>2, RecordIds DEF ChainInv, TypeOK, Table, Records
  <2>4. text[s].of # imp[a].req.ref
    BY <2>1, <2>2, <2>3 DEF LineInv, Lineage
  <2>5. s \in PendingSuccessors(rows, d)' /\ text'[s] = text[s]
    BY <1>1, <1>2, <2>2, <2>3, <2>4 DEF PendingSuccessors, Successors
  <2> QED BY <1>4, <1>6, <2>5 DEF Settles
<1> QED BY <1>3, <1>5, <1>6 DEF Settles

\* An import refuses for a proposal of another document, or of none.
LEMMA PendingMeans ==
    ASSUME ChainInv, DocType, OneEach, MatchesAre, NEW req \in Req, req.ref # None, req.as # "rejected",
           Disposition(req).action = "pending"
    PROVE  \E d \in Holding(req.ref, "accepted") : \E s \in PendingSuccessors(rows, d) : text[s].of # req.ref
<1> DEFINE m == PreferredMatch(req)
           donor == Donor(req, m)
           act == IF Supersedable(req.ref) = {} THEN "written" ELSE "superseded"
<1>a. PICK anc, pend : anc = Oldest(Holding(req.ref, "accepted")) /\ pend = Oldest(Holding(req.ref, "proposed"))
  OBVIOUS
<1>1. PICK k : k = Disposition(req)
  OBVIOUS
<1>2. /\ ~(m # None /\ ~Flips(req, m))
      /\ IF anc = None THEN m # None /\ rows[m].status = "proposed"
                       ELSE PendingSuccessors(rows, anc) \ {pend} # {}
  <2> DEFINE Waits == IF anc = None THEN m # None /\ rows[m].status = "proposed"
                      ELSE PendingSuccessors(rows, anc) \ {pend} # {}
             don == IF req.anchored THEN None ELSE donor
  <2>1. k = IF m # None /\ ~Flips(req, m) THEN [Refused("existing") EXCEPT !.match = m]
            ELSE IF ~req.anchored /\ donor = None THEN Refused("unanchorable")
            ELSE IF Waits THEN Refused("pending")
            ELSE [action |-> act, match |-> m, pred |-> anc, drop |-> pend, donor |-> don]
    BY <1>a, <1>1 DEF Disposition, Classify
  <2>2. k.action = "pending" /\ act # "pending"
    BY <1>1
  <2> HIDE DEF Waits, act, don, donor, m
  <2>3. ~(m # None /\ ~Flips(req, m)) /\ Waits
    BY <2>1, <2>2 DEF Refused
  <2> QED BY <2>3 DEF Waits
<1>3. ~(m # None /\ rows[m].status = "proposed")
  BY <1>2 DEF Flips
<1>4. anc # None /\ PendingSuccessors(rows, anc) \ {pend} # {}
  BY <1>2, <1>3
<1>5. anc \in Holding(req.ref, "accepted")
  BY <1>a, <1>4, HoldingTypes, OldestIsOne
<1>6. PICK s \in PendingSuccessors(rows, anc) : s # pend
  BY <1>4
<1>7. ASSUME text[s].of = req.ref PROVE FALSE
  <2>1. s \in Records /\ rows[s].status = "proposed" /\ rows[s].supersedes = anc /\ anc \in Decisions
    BY <1>5, <1>6 DEF PendingSuccessors, Successors, Holding, Existing
  <2>2. s \in Decisions
    BY <1>4, <2>1, RecordIds DEF ChainInv, TypeOK, Table, Records
  <2>3. s \in Holding(req.ref, "proposed")
    BY <1>7, <2>1, <2>2 DEF Holding, Existing
  <2>4. pend \in Holding(req.ref, "proposed")
    BY <1>a, <2>3, HoldingTypes, OldestIsOne
  <2>5. SameDocument(s, pend) /\ pend \in Decisions /\ rows[pend].status = "proposed"
    BY <1>7, <2>4 DEF Holding, Existing, SameDocument
  <2> QED BY <1>6, <2>1, <2>2, <2>5 DEF OneEach
<1> QED BY <1>5, <1>7

LEMMA ItemImport ==
    ASSUME ChainInv, CaptureType, DocType, BootType, DraftInv, DocInv, DocInv', Moved, MatchesAre, MatchesAre',
           CalmInv, LineInv, ItemInv, boot' = boot, NEW a \in Agents, ImportStep(a) \/ StopImport(a)
    PROVE  ItemInv'
<1> DEFINE i == imp[a]
           b == boot[a]
<1>i. i \in Import /\ ImportFits(i) /\ i.req \in Req
  BY DEF DocType, Import
<1>1. i.pc # "idle"
  BY StepKeeps
<1>2. PICK x : Move(a, x) /\ (x.calm => i.calm) /\ (x.pc # "idle" => x.req = i.req)
  BY StepKeeps
<1>3. imp'[a] = x /\ \A c \in Agents : c # a => imp'[c].calm = FALSE
  BY <1>2, MoveKeeps, MoveDisturbs
<1>4. \A c \in Agents : c # a => ItemHolds(c)'
  BY <1>3 DEF ItemHolds
<1>5. ASSUME imp'[a].calm, b.pc = "apply", ~b.failed PROVE ItemHolds(a)'
  <2>1. i.calm /\ WorkHolds(a) /\ a \in setting.boots /\ b.ref # None
    BY <1>1, <1>2, <1>3, <1>5 DEF CalmInv, AtItem, DocInv, Importers
  <2>2. Asked(a) /\ b.ref \in b.left /\ (i.pc = "bind" => Settles(b.ref, b.answers[b.ref]))
        /\ (i.pc = "settle" => b.answers[b.ref].as = "accepted")
        /\ \A ref \in Answered(b) \ (b.left \cup b.unanchored) : Settles(ref, b.answers[ref])
    BY <1>1, <1>5, <2>1 DEF ItemInv, ItemHolds
  <2>3. PICK ref, answer : ref = b.ref /\ answer = b.answers[b.ref]
    OBVIOUS
  <2>4. PICK req \in Req : req = i.req
    BY <1>i
  <2>5. ref \in Docs /\ answer.as \in {"accepted", "proposed"} /\ answer # Skip
        /\ b.answers \in [Docs -> Answers]
    BY <2>2, <2>3 DEF BootType, Boot, BootShape, Answered, Answers
  <2>6. req.ref = ref /\ req.text = answer.text /\ req.as = answer.as /\ (req.ratifies <=> answer.as = "accepted")
    BY <2>2, <2>3, <2>4 DEF Asked
  <2>n. ~StopImport(a)
    <3>1. StopImport(a) => imp'[a] = NoImport
      BY MoveKeeps DEF StopImport
    <3> QED BY <1>5, <3>1 DEF NoImport
  <2>s. ImportStep(a)
    BY <2>n
  <2>7. \A r \in Answered(b) \ (b.left \cup b.unanchored) : Settles(r, b.answers[r])'
    <3> SUFFICES ASSUME NEW r \in Answered(b) \ (b.left \cup b.unanchored) PROVE Settles(r, b.answers[r])'
      OBVIOUS
    <3>1. PICK ans : ans = b.answers[r]
      OBVIOUS
    <3>2. r \in Docs /\ r # i.req.ref /\ i.req.ref # None /\ ans.as # "unwritten" /\ Settles(r, ans)
      BY <1>1, <1>i, <2>2, <2>3, <2>4, <2>5, <2>6, <3>1 DEF Answered, Answers, Skip, ImportFits
    <3>3. Settles(r, ans)'
      BY <2>1, <2>s, <3>2, SettlesElsewhere
    <3> QED BY <3>1, <3>3
  <2>8. x.pc # "idle" => Asked(a)'
    BY <1>2, <1>3, <2>2 DEF Asked
  <2>9. /\ x.pc = "settle" => answer.as = "accepted"
        /\ (x.pc = "bind" \/ (x.pc = "idle" /\ x.disp.action # "unanchorable")) => Settles(ref, answer)'
    <3>m. ASSUME NEW d \in Decisions, Says(req, d)', rows'[d].status = answer.as PROVE Settles(ref, answer)'
      <4>1. Says([ref |-> ref, text |-> answer.text], d)'
        BY <2>6, <3>m DEF Says
      <4> QED BY <3>m, <4>1 DEF Settles
    <3>p. ASSUME NEW y, Move(a, y) PROVE x = y
      BY <1>3, <3>p, MoveKeeps
    <3>1. CASE ApplyDoc(a)
      <4> DEFINE disp == Disposition(req)
                 found == [i EXCEPT !.pc = IF ToSettle(req, disp.match) THEN "settle" ELSE "bind",
                                    !.disp = disp, !.d = disp.match]
                 writes == [i EXCEPT !.pc = IF disp.drop = None THEN "add" ELSE "drop", !.disp = disp]
      <4>1. /\ disp.action \in {"existing", "unanchorable", "pending", "written", "superseded"}
            /\ disp.action = "existing" =>
                  disp.match = PreferredMatch(req) /\ Found(req, PreferredMatch(req))
        BY DispositionTypes, ActionMeans
      <4>2. rows' = rows /\ text' = text
        BY <3>1 DEF ApplyDoc
      <4>3. \/ disp.action = "existing" /\ x = found
            \/ disp.action \in {"written", "superseded"} /\ x = writes
            \/ disp.action \in {"unanchorable", "pending"} /\ x = Over(a, disp.action)
        BY <2>4, <3>1, <3>p, <4>1 DEF ApplyDoc
      <4>4. disp.action = "pending" => Settles(ref, answer)
        BY <1>1, <1>i, <2>4, <2>5, <2>6, PendingMeans DEF Settles, DocInv, ImportFits
      <4> HIDE DEF disp
      <4>5. CASE disp.action = "existing" /\ x = found
        <5>1. /\ x.pc = IF ToSettle(req, disp.match) THEN "settle" ELSE "bind"
          BY <1>i, <4>5 DEF Import
        <5>2. ToSettle(req, disp.match) => answer.as = "accepted"
          BY <2>6 DEF ToSettle
        <5>3. PICK d : d = disp.match
          OBVIOUS
        <5>4. d \in Decisions /\ Says(req, d) /\ (Open(d) \/ rows[d].status = "rejected") /\ ~Flips(req, d)
          BY <4>1, <4>5, <5>3 DEF Found, MatchesAre, MatchFacts
        <5>5. rows[d].status \in {"accepted", "proposed"}
          BY <2>5, <2>6, <5>4, RecordIds DEF Flips, Open
        <5>6. ASSUME ~ToSettle(req, d) PROVE Settles(ref, answer)
          <6>1. answer.as = "accepted" => rows[d].status = "accepted"
            BY <2>6, <5>5, <5>6 DEF ToSettle
          <6>2. Says([ref |-> ref, text |-> answer.text], d)
            BY <2>6, <5>4 DEF Says
          <6>3. CASE rows[d].status = answer.as
            BY <5>4, <6>2, <6>3 DEF Settles
          <6>4. CASE rows[d].status # answer.as
            <7>1. rows[d].status = "accepted" /\ answer.as = "proposed"
              BY <2>5, <5>5, <6>1, <6>4
            <7>2. d \in Holding(ref, "accepted") /\ text[d].text = answer.text
              BY <5>4, <6>2, <7>1 DEF Says, Holding, Existing
            <7> QED BY <7>1, <7>2 DEF Settles, InForce
          <6> QED BY <6>3, <6>4
        <5>7. ~ToSettle(req, d) => Settles(ref, answer)'
          BY <4>2, <5>6, SettlesKept
        <5> QED BY <5>1, <5>2, <5>3, <5>7
      <4>6. CASE disp.action \in {"written", "superseded"} /\ x = writes
        <5>1. x.pc \in {"add", "drop"}
          BY <1>i, <4>6 DEF Import
        <5> QED BY <5>1
      <4>7. CASE disp.action \in {"unanchorable", "pending"} /\ x = Over(a, disp.action)
        <5>1. x.pc = "idle" /\ x.disp.action = disp.action
          <6>1. i.mode = "reviewed"
            BY <1>3, <1>5, <4>7 DEF Over, NoImport
          <6> QED BY <4>7, <6>1 DEF Over, NoImport, Refused
        <5>2. Settles(ref, answer) => Settles(ref, answer)'
          BY <4>2, SettlesKept
        <5> QED BY <4>4, <4>7, <5>1, <5>2
      <4> QED BY <4>3, <4>5, <4>6, <4>7
    <3>2. CASE SettleDoc(a)
      <4>1. /\ CanRatify(rows, i.d) /\ rows' = AfterRatify(rows, i.d) /\ text' = text
            /\ Move(a, [i EXCEPT !.pc = "bind"]) /\ i.pc = "settle"
        BY <3>2 DEF SettleDoc, Importing
      <4>2. x = [i EXCEPT !.pc = "bind"]
        BY <4>1, <3>p
      <4>3. x.pc = "bind"
        BY <1>i, <4>2 DEF Import
      <4>4. i.d = PreferredMatch(req) /\ i.d # None
        BY <1>i, <2>1, <2>4, <4>1 DEF WorkHolds, ImportFits
      <4>5. PICK d \in Decisions : d = i.d /\ Says(req, d)
        BY <4>4 DEF MatchesAre, MatchFacts
      <4>6. rows'[d].status = "accepted"
        BY <4>1, <4>5, RatifyTouches
      <4>7. answer.as = "accepted" /\ Says(req, d)'
        BY <2>2, <2>3, <4>1, <4>5 DEF Says
      <4> QED BY <3>m, <4>3, <4>6, <4>7
    <3>3. CASE DropPending(a)
      <4>1. Move(a, [i EXCEPT !.pc = "add"])
        BY <3>3 DEF DropPending
      <4>2. x = [i EXCEPT !.pc = "add"]
        BY <3>p, <4>1
      <4>3. x.pc = "add"
        BY <1>i, <4>2 DEF Import
      <4> QED BY <4>3
    <3>4. CASE AddDoc(a)
      <4>1. PICK y, q, pred :
                /\ y \in Decisions /\ Added(y, q, pred) /\ q = i.req.as /\ pred = i.disp.pred
                /\ q \in {"accepted", "proposed", "rejected"}
                /\ text'[y].of = i.req.ref /\ text'[y].text = i.req.text
                /\ imp'[a].pc = "bind"
        BY <3>4, Adding
      <4>2. rows'[y].status = q
        BY <4>1, AddTouches
      <4>3. Says(req, y)'
        BY <2>4, <4>1 DEF Says
      <4> QED BY <1>3, <2>4, <2>6, <3>m, <4>1, <4>2, <4>3
    <3>5. ASSUME NEW way, BindDoc(a, way)
          PROVE  x.pc # "settle" /\ Settles(ref, answer)'
      <4>1. rows' = rows /\ text' = text /\ i.pc = "bind"
        BY <3>5 DEF BindDoc, Importing
      <4>2. Settles(ref, answer)'
        BY <2>2, <2>3, <4>1, SettlesKept
      <4>3. Move(a, [i EXCEPT !.pc = "judge"]) \/ Move(a, Over(a, i.disp.action))
        BY <3>5 DEF BindDoc
      <4>4. x = [i EXCEPT !.pc = "judge"] \/ x = Over(a, i.disp.action)
        BY <3>p, <4>3
      <4>5. [i EXCEPT !.pc = "judge"].pc = "judge" /\ Over(a, i.disp.action).pc = "idle"
        BY <1>i DEF Import, Over, NoImport
      <4> QED BY <4>2, <4>4, <4>5
    <3>6. CASE JudgeDoc(a)
      <4>1. Move(a, [i EXCEPT !.pc = "ratify"]) \/ Move(a, NoImport)
        BY <3>6 DEF JudgeDoc
      <4>2. x = [i EXCEPT !.pc = "ratify"] \/ x = NoImport
        BY <3>p, <4>1
      <4>3. x # NoImport
        BY <1>3, <1>5 DEF NoImport
      <4>4. x.pc = "ratify"
        BY <1>i, <4>2, <4>3 DEF Import
      <4> QED BY <4>4
    <3>7. CASE RatifyDoc(a)
      <4>1. x = NoImport
        BY <3>7, <3>p DEF RatifyDoc
      <4> QED BY <1>3, <1>5, <4>1 DEF NoImport
    <3> QED BY <2>s, <3>1, <3>2, <3>3, <3>4, <3>5, <3>6, <3>7 DEF ImportStep
  <2>10. b.ref # None =>
            /\ imp'[a].pc # "idle" => Asked(a)'
            /\ imp'[a].pc = "settle" => b.answers[b.ref].as = "accepted"
            /\ (imp'[a].pc = "bind" \/ (imp'[a].pc = "idle" /\ imp'[a].disp.action # "unanchorable"))
                   => Settles(b.ref, b.answers[b.ref])'
    BY <1>3, <2>3, <2>8, <2>9
  <2> QED BY <2>7, <2>10 DEF ItemHolds, Answered
<1>6. ItemHolds(a)'
  BY <1>5 DEF ItemHolds
<1>7. \A c \in Agents : boot'[c].ref # None => boot'[c].ref \in boot'[c].left
  BY DEF ItemInv
<1> QED BY <1>4, <1>6, <1>7 DEF ItemInv

LEMMA ItemKept ==
    ASSUME rows' = rows, text' = text, NEW a \in Agents, ItemHolds(a), boot'[a] = boot[a],
           imp'[a] = imp[a] \/ imp'[a].calm = FALSE
    PROVE  ItemHolds(a)'
<1>1. CASE imp'[a].calm = FALSE
  BY <1>1 DEF ItemHolds
<1>2. CASE imp'[a] = imp[a]
  <2>1. \A ref, answer : Settles(ref, answer) => Settles(ref, answer)'
    BY SettlesKept
  <2>2. Asked(a) => Asked(a)'
    BY <1>2 DEF Asked
  <2>3. Answered(boot[a])' = Answered(boot[a])
    BY DEF Answered
  <2>4. PICK b, i : b = boot[a] /\ i = imp[a]
    OBVIOUS
  <2>5. b = boot'[a] /\ i = imp'[a]
    BY <1>2, <2>4
  <2>6. \A ref : Settles(ref, b.answers[ref]) => Settles(ref, b.answers[ref])'
    BY <2>1
  <2> QED BY <2>2, <2>3, <2>4, <2>5, <2>6 DEF ItemHolds
<1> QED BY <1>1, <1>2

\* A step of a bootstrap, that leaves the store and the other imports alone.
LEMMA ItemMoves ==
    ASSUME ChainInv, DocType, BootType, DraftInv, Moved, LineInv, ItemInv, UNCHANGED <<rows, text>>,
           NEW a \in Agents, NEW b, Step(a, b), b.ref # None => b.ref \in b.left, ItemHolds(a)',
           imp'[a].pc \in {"drop", "add"} => imp'[a] = imp[a],
           \A c \in Agents : c # a => imp'[c] = imp[c]
    PROVE  LineInv' /\ ItemInv'
<1>1. \A c \in Agents : c # a => boot'[c] = boot[c]
  BY DEF Step, BootType
<1>2. boot'[a] = b
  BY DEF Step, BootType
<1>3. LineInv'
  <2>1. \A c \in Agents : imp'[c].pc \in {"drop", "add"} =>
            imp'[c].pc = imp[c].pc /\ imp'[c].req = imp[c].req /\ imp'[c].disp = imp[c].disp
    OBVIOUS
  <2> QED BY <2>1, LineKept
<1>4. ASSUME NEW c \in Agents PROVE ItemHolds(c)' /\ (boot'[c].ref # None => boot'[c].ref \in boot'[c].left)
  <2>1. CASE c = a
    BY <1>2, <2>1
  <2>2. CASE c # a
    BY <1>1, <2>2, ItemKept DEF ItemInv
  <2> QED BY <2>1, <2>2
<1> QED BY <1>3, <1>4 DEF ItemInv

LEMMA ItemSteps ==
    ASSUME ChainInv, CaptureType, DocType, BootType, DraftInv, DocInv, DocInv', Moved, MatchesAre, MatchesAre',
           CalmInv, LineInv, ItemInv, setting' = setting, BNext
    PROVE  LineInv' /\ ItemInv'
<1>k. ASSUME text' = text, boot' = boot, Disturb PROVE LineInv' /\ ItemInv'
  <2>1. \A b \in Agents : imp'[b].pc = imp[b].pc /\ imp'[b].req = imp[b].req /\ imp'[b].disp = imp[b].disp
    BY <1>k, DisturbKeeps
  <2>2. LineInv'
    BY <1>k, <2>1, LineKept
  <2>3. \A b \in Agents : imp'[b].calm = FALSE
    <3>1. \A b \in Agents : [imp[b] EXCEPT !.calm = FALSE].calm = FALSE
      BY DEF DocType, Import
    <3>2. \A b \in Agents : imp'[b] = [imp[b] EXCEPT !.calm = FALSE]
      BY <1>k DEF Disturb
    <3> QED BY <3>1, <3>2
  <2> QED BY <1>k, <2>2, <2>3 DEF ItemInv, ItemHolds
<1>u. ASSUME UNCHANGED <<rows, text, imp, boot>> PROVE LineInv' /\ ItemInv'
  <2>1. LineInv'
    BY <1>u, LineKept
  <2> QED BY <1>u, <2>1, ItemKept DEF ItemInv
<1>1. ASSUME RNext, UNCHANGED boot PROVE LineInv' /\ ItemInv'
  <2>1. ASSUME Reviewer PROVE LineInv' /\ ItemInv'
    <3>1. ASSUME FinishReview \/ ReviewDies PROVE LineInv' /\ ItemInv'
      BY <3>1, <1>1, <1>u DEF FinishReview, ReviewDies, StoreKept, RestKept
    <3>2. \A S, D : BeginGiven(S, D) => Disturb /\ text' = text
      BY DEF BeginGiven
    <3>3. BeginAll \/ ListFacts => Disturb /\ text' = text
      BY DEF BeginAll, ListFacts, RestKept
    <3>4. \A r : AcceptNext(r) \/ DropNext(r) => Disturb /\ text' = text
      BY DEF AcceptNext, DropNext, RestKept
    <3> QED BY <2>1, <1>1, <1>k, <3>1, <3>2, <3>3, <3>4 DEF Reviewer
  <2>2. ASSUME CNext, Disturb, text' = text PROVE LineInv' /\ ItemInv'
    BY <2>2, <1>1, <1>k
  <2>3. ASSUME NEW ref, NEW new, EditDoc(ref, new) PROVE LineInv' /\ ItemInv'
    BY <2>3, <1>1, <1>k DEF EditDoc
  <2>4. ASSUME NEW a \in Agents, ImportDocs(a) PROVE LineInv' /\ ItemInv'
    <3>1. PICK ref \in setting.docs, mode \in setting.modes[a], kind \in Kinds : ReadDoc(a, ref, mode, kind)
      BY <2>4 DEF ImportDocs
    <3> DEFINE new == [NoImport EXCEPT !.pc = "apply", !.req = Request(ref, doc[ref], WrittenAs(doc[ref], mode), FALSE),
                                       !.mode = mode, !.kind = kind, !.draft = doc[ref].status = "draft", !.calm = TRUE]
    <3>2. Move(a, new) /\ UNCHANGED <<rows, text>>
      BY <3>1 DEF ReadDoc
    <3>3. setting.modes[a] # {} /\ a \notin setting.boots
      BY <3>1 DEF CalmInv
    <3>4. new.pc = "apply"
      BY DEF NoImport
    <3> HIDE DEF new
    <3>5. /\ imp'[a] = new
          /\ \A b \in Agents : b # a =>
                imp'[b].pc = imp[b].pc /\ imp'[b].req = imp[b].req /\ imp'[b].disp = imp[b].disp /\ imp'[b].calm = FALSE
      BY <3>2, MoveKeeps, MoveDisturbs
    <3>6. LineInv'
      <4>1. \A b \in Agents : imp'[b].pc \in {"drop", "add"} =>
                imp'[b].pc = imp[b].pc /\ imp'[b].req = imp[b].req /\ imp'[b].disp = imp[b].disp
        BY <3>4, <3>5
      <4> QED BY <3>2, <4>1, LineKept
    <3>7. boot[a].pc = "idle"
      BY <3>3 DEF DocInv, Importers
    <3>8. \A b \in Agents : ItemHolds(b)'
      BY <1>1, <3>5, <3>7 DEF ItemHolds
    <3> QED BY <1>1, <3>6, <3>8 DEF ItemInv
  <2>5. ASSUME NEW a \in Agents, ImportStep(a) \/ StopImport(a) PROVE LineInv' /\ ItemInv'
    BY <2>5, <1>1, ImportLine, ItemImport
  <2>6. DNext => LineInv' /\ ItemInv'
    BY <2>2, <2>3, <2>4, <2>5 DEF DNext
  <2> QED BY <1>1, <2>1, <2>6 DEF RNext
<1>w. ASSUME NothingWritten PROVE UNCHANGED <<rows, text, imp>>
  BY <1>w DEF NothingWritten, rvars, dvars, cvars
<1>n. NoBoot.ref = None /\ NoBoot.pc = "idle" /\ NoImport.pc = "idle"
  BY DEF NoBoot, NoImport
<1>a. \A a \in Agents : BootShape(boot[a]) /\ (boot[a].pc # "apply" => boot[a].left = {} /\ boot[a].ref = None)
  BY DEF BootType, Boot, ItemInv
<1>s. \A a \in Agents : \A b : Step(a, b) => boot'[a] = b
  BY DEF Step, BootType
<1>2. ASSUME NEW a \in Agents, NEW b, Step(a, b), b.pc # "apply", b.ref = None, NothingWritten
      PROVE  LineInv' /\ ItemInv'
  <2>1. ItemHolds(a)'
    BY <1>2, <1>s DEF ItemHolds
  <2> QED BY <1>2, <1>w, <2>1, ItemMoves
<1>3. ASSUME NEW a \in Agents, Plan(a) PROVE LineInv' /\ ItemInv'
  <2> DEFINE b == [NoBoot EXCEPT !.pc = "review", !.inputs = Inputs]
  <2>1. b.pc = "review" /\ b.ref = None
    BY DEF NoBoot
  <2>2. Step(a, b) /\ NothingWritten
    BY <1>3 DEF Plan
  <2> HIDE DEF b
  <2> QED BY <1>2, <2>1, <2>2
<1>4. ASSUME NEW a \in Agents, NEW answers, Answer(a, answers) PROVE LineInv' /\ ItemInv'
  <2> DEFINE b == [boot[a] EXCEPT !.answers = answers, !.pc = IF boot[a].again THEN "confirm" ELSE "refresh"]
  <2>1. b.pc # "apply" /\ b.ref = None
    BY <1>4, <1>a DEF Answer, Booting, BootShape
  <2>2. (Step(a, b) \/ Step(a, NoBoot)) /\ NothingWritten
    BY <1>4 DEF Answer
  <2> HIDE DEF b
  <2> QED BY <1>2, <1>n, <2>1, <2>2
<1>5. ASSUME NEW a \in Agents, Refresh(a) PROVE LineInv' /\ ItemInv'
  <2> DEFINE b == [boot[a] EXCEPT !.pc = "confirm"]
             r == [NoBoot EXCEPT !.pc = "review", !.inputs = Inputs, !.again = TRUE]
  <2>1. b.pc # "apply" /\ b.ref = None
    BY <1>5, <1>a DEF Refresh, Booting, BootShape
  <2>2. r.pc # "apply" /\ r.ref = None
    BY DEF NoBoot
  <2>3. (Step(a, b) \/ Step(a, r)) /\ NothingWritten
    BY <1>5 DEF Refresh
  <2> HIDE DEF b, r
  <2> QED BY <1>2, <2>1, <2>2, <2>3
<1>6. ASSUME NEW a \in Agents, Apply(a) PROVE LineInv' /\ ItemInv'
  <2> DEFINE b == [boot[a] EXCEPT !.pc = "apply", !.left = Answered(boot[a]), !.inputs = [NoInputs EXCEPT !.doc = Inputs.doc]]
             x == [NoImport EXCEPT !.mode = "reviewed", !.calm = TRUE]
  <2>1. \/ Step(a, NoBoot) /\ NothingWritten
        \/ Step(a, b) /\ imp' = [imp EXCEPT ![a] = x] /\ UNCHANGED <<rows, text>>
    BY <1>6 DEF Apply, cvars
  <2>2. b.ref = None /\ b.answers = boot[a].answers /\ b.left = Answered(boot[a])
    BY <1>6, <1>a DEF Apply, Booting, BootShape
  <2>3. Answered(b) = b.left
    BY <2>2 DEF Answered
  <2>4. x.pc = "idle"
    BY DEF NoImport
  <2> HIDE DEF b, x
  <2>5. CASE Step(a, b) /\ imp' = [imp EXCEPT ![a] = x] /\ UNCHANGED <<rows, text>>
    <3>1. imp'[a] = x /\ \A c \in Agents : c # a => imp'[c] = imp[c]
      BY <2>5 DEF DocType
    <3>2. boot'[a] = b
      BY <2>5, <1>s
    <3>3. ItemHolds(a)'
      BY <2>2, <2>3, <3>2 DEF ItemHolds, Answered
    <3> QED BY <2>2, <2>4, <2>5, <3>1, <3>3, ItemMoves
  <2> QED BY <1>2, <1>n, <2>1, <2>5
<1>h. ASSUME NEW a \in Agents, boot[a].pc = "apply", NEW b, b = boot[a], imp[a].calm, ~b.failed,
             UNCHANGED <<rows, text>>
      PROVE  \A ref \in Answered(b) \ (b.left \cup b.unanchored) : Settles(ref, b.answers[ref])'
  <2> SUFFICES ASSUME NEW ref \in Answered(b) \ (b.left \cup b.unanchored) PROVE Settles(ref, b.answers[ref])'
    OBVIOUS
  <2>1. PICK ans : ans = b.answers[ref]
    OBVIOUS
  <2>2. Settles(ref, ans)
    BY <1>h, <2>1 DEF ItemInv, ItemHolds
  <2>3. Settles(ref, ans)'
    BY <1>h, <2>2, SettlesKept
  <2> QED BY <2>1, <2>3
<1>7. ASSUME NEW a \in Agents, NEW ref \in setting.docs, BeginItem(a, ref) PROVE LineInv' /\ ItemInv'
  <2>o. PICK o : o = boot[a]
    OBVIOUS
  <2> DEFINE b == [o EXCEPT !.ref = ref]
  <2>0. PICK req : req = AskFor(ref, boot[a].answers[ref], boot[a].inputs.doc[ref])
    OBVIOUS
  <2>1. /\ boot[a].pc = "apply" /\ ref \in boot[a].left /\ Step(a, b)
        /\ imp' = [imp EXCEPT ![a].pc = "apply", ![a].req = req] /\ UNCHANGED <<rows, text>>
    BY <1>7, <2>o, <2>0 DEF BeginItem, Booting, cvars
  <2>2. /\ imp'[a].pc = "apply" /\ imp'[a].req = req /\ imp'[a].calm = imp[a].calm
        /\ \A c \in Agents : c # a => imp'[c] = imp[c]
    BY <2>1 DEF DocType, Import
  <2>3. /\ b.ref = ref /\ b.left = o.left /\ b.answers = o.answers /\ b.failed = o.failed
        /\ b.unanchored = o.unanchored
    BY <1>a, <2>o DEF BootShape
  <2>4. boot[a].inputs.doc[ref] \in Doc
    BY <2>1 DEF BootType, Boot, Documented
  <2>5. PICK answer : answer = boot[a].answers[ref]
    OBVIOUS
  <2>6. req.ref = ref /\ req.text = answer.text /\ req.as = answer.as /\ (req.ratifies <=> answer.as = "accepted")
    BY <2>0, <2>4, <2>5 DEF AskFor, Request, Doc
  <2> HIDE DEF b
  <2>7. boot'[a] = b
    BY <2>1, <1>s
  <2>8. Asked(a)'
    BY <2>o, <2>2, <2>3, <2>5, <2>6, <2>7 DEF Asked
  <2>9. (imp'[a].calm /\ ~b.failed) => \A r \in Answered(b) \ (b.left \cup b.unanchored) : Settles(r, b.answers[r])'
    <3> SUFFICES ASSUME imp'[a].calm, ~b.failed, NEW r \in Answered(b) \ (b.left \cup b.unanchored)
                 PROVE  Settles(r, b.answers[r])'
      OBVIOUS
    <3>2. r \in Answered(o) \ (o.left \cup o.unanchored) /\ b.answers = o.answers
      BY <2>3 DEF Answered
    <3>3. Settles(r, o.answers[r])'
      <4>1. imp[a].calm /\ ~o.failed
        BY <2>2, <2>3
      <4> QED BY <1>h, <2>o, <2>1, <3>2, <4>1
    <3> QED BY <3>2, <3>3
  <2>10. ItemHolds(a)'
    BY <2>2, <2>7, <2>8, <2>9 DEF ItemHolds, Answered
  <2> QED BY <2>o, <2>1, <2>2, <2>3, <2>10, ItemMoves
<1>8. ASSUME NEW a \in Agents, EndItem(a) PROVE LineInv' /\ ItemInv'
  <2>0. PICK o, i : o = boot[a] /\ i = imp[a]
    OBVIOUS
  <2> DEFINE b == [o EXCEPT !.ref = None, !.left = @ \ {o.ref},
                            !.unanchored = IF i.disp.action = "unanchorable" THEN @ \cup {o.ref} ELSE @]
  <2>1. o.pc = "apply" /\ o.ref # None /\ i.pc = "idle" /\ Step(a, b) /\ NothingWritten
    BY <1>8, <2>0 DEF EndItem, Booting, Importing
  <2>2. UNCHANGED <<rows, text, imp>>
    BY <2>1, <1>w
  <2>3. /\ b.ref = None /\ b.left = o.left \ {o.ref} /\ b.answers = o.answers /\ b.failed = o.failed
        /\ b.unanchored = IF i.disp.action = "unanchorable" THEN o.unanchored \cup {o.ref} ELSE o.unanchored
    BY <1>a, <2>0 DEF BootShape
  <2> HIDE DEF b
  <2>4. boot'[a] = b
    BY <2>1, <1>s
  <2>5. ASSUME imp'[a].calm, ~b.failed, NEW r \in Answered(b) \ (b.left \cup b.unanchored)
        PROVE  Settles(r, b.answers[r])'
    <3>1. CASE r = o.ref
      <4>1. i.disp.action # "unanchorable"
        BY <2>3, <2>5, <3>1
      <4>2. PICK ans : ans = o.answers[o.ref]
        OBVIOUS
      <4>3. Settles(o.ref, ans)
        BY <2>0, <2>1, <2>2, <2>3, <2>5, <4>1, <4>2 DEF ItemInv, ItemHolds
      <4>4. Settles(o.ref, ans)'
        BY <2>2, <4>3, SettlesKept
      <4> QED BY <2>3, <3>1, <4>2, <4>4
    <3>2. CASE r # o.ref
      <4>1. r \in Answered(o) \ (o.left \cup o.unanchored)
        BY <2>3, <2>5, <3>2 DEF Answered
      <4>2. Settles(r, o.answers[r])'
        BY <1>h, <2>0, <2>1, <2>2, <2>3, <2>5, <4>1
      <4> QED BY <2>3, <4>2
    <3> QED BY <3>1, <3>2
  <2>6. ItemHolds(a)'
    BY <2>3, <2>4, <2>5 DEF ItemHolds, Answered
  <2> QED BY <2>1, <2>2, <2>3, <2>6, ItemMoves
<1>9. ASSUME NEW a \in Agents, Report(a) \/ BootDies(a) PROVE LineInv' /\ ItemInv'
  <2>1. Step(a, NoBoot) /\ imp' = [imp EXCEPT ![a] = NoImport] /\ UNCHANGED <<rows, text>>
    BY <1>9 DEF Report, BootDies, cvars
  <2>2. imp'[a] = NoImport /\ \A c \in Agents : c # a => imp'[c] = imp[c]
    BY <2>1 DEF DocType
  <2>3. ItemHolds(a)'
    BY <1>n, <1>s, <2>1 DEF ItemHolds
  <2> QED BY <1>n, <2>1, <2>2, <2>3, ItemMoves
<1>10. ASSUME NEW a \in Agents, ItemFails(a) PROVE LineInv' /\ ItemInv'
  <2> DEFINE b == [boot[a] EXCEPT !.ref = None, !.left = {}, !.failed = TRUE]
  <2>1. Step(a, b) /\ Move(a, NoImport) /\ UNCHANGED <<rows, text>>
    BY <1>10 DEF ItemFails, StopImport
  <2>2. b.ref = None /\ b.failed
    BY <1>a DEF BootShape
  <2> HIDE DEF b
  <2>3. boot'[a] = b /\ \A c \in Agents : c # a => boot'[c] = boot[c]
    BY <2>1 DEF Step, BootType
  <2>4. imp'[a] = NoImport /\ \A c \in Agents : c # a =>
            imp'[c].pc = imp[c].pc /\ imp'[c].req = imp[c].req /\ imp'[c].disp = imp[c].disp /\ imp'[c].calm = FALSE
    BY <2>1, MoveKeeps, MoveDisturbs
  <2>5. LineInv'
    <3>1. \A c \in Agents : imp'[c].pc \in {"drop", "add"} =>
              imp'[c].pc = imp[c].pc /\ imp'[c].req = imp[c].req /\ imp'[c].disp = imp[c].disp
      BY <1>n, <2>4
    <3> QED BY <2>1, <3>1, LineKept
  <2>6. \A c \in Agents : ItemHolds(c)'
    BY <2>2, <2>3, <2>4 DEF ItemHolds
  <2>7. \A c \in Agents : boot'[c].ref # None => boot'[c].ref \in boot'[c].left
    BY <2>2, <2>3 DEF ItemInv
  <2> QED BY <2>5, <2>6, <2>7 DEF ItemInv
<1> QED BY <1>1, <1>3, <1>4, <1>5, <1>6, <1>7, <1>8, <1>9, <1>10 DEF BNext

LEMMA ItemNext ==
    ASSUME WritersType, WritersType', DraftInv, DocInv, DocInv', MatchesAre, MatchesAre', CalmInv,
           LineInv, ItemInv, [BNext]_bvars
    PROVE  LineInv' /\ ItemInv'
<1>1. Moved
  BY WritersNext, NextMoves DEF WritersType
<1>2. CASE BNext
  BY <1>1, <1>2, SettingStays, ItemSteps DEF WritersType
<1>3. CASE UNCHANGED bvars
  <2>1. UNCHANGED <<rows, text, imp, boot>>
    BY <1>3 DEF bvars, rvars, dvars, cvars
  <2>2. LineInv'
    BY <1>1, <2>1, LineKept DEF WritersType
  <2> QED BY <2>1, <2>2, ItemKept DEF ItemInv
<1> QED BY <1>2, <1>3

(* A bootstrap that came to its end, with nobody else at work, has every       *)
(* answer in the store as it was given, but for documents without an anchor    *)
(* and for records that another proposal is about to replace, whatever the     *)
(* bootstraps before it left half done (bootstrap/apply.py).                   *)
THEOREM WritersConverge == OneImporter /\ BSpec => RunsConverge
<1> DEFINE Conv == \A a \in Agents : (Report(a) /\ imp[a].calm /\ ~boot[a].failed) =>
              \A ref \in Pending(boot[a]) :
                 \/ InForce(ref, boot[a].answers[ref])
                 \/ \E d \in Holding(ref, "accepted") :
                       \E s \in PendingSuccessors(rows, d) : text[s].of # ref
<1>1. BInit => LineInv /\ ItemInv
  <2> SUFFICES ASSUME BInit PROVE LineInv /\ ItemInv
    OBVIOUS
  <2>1. /\ imp = [a \in Agents |-> NoImport] /\ boot = [a \in Agents |-> NoBoot]
        /\ \A d \in Decisions : text[d].of = None
    BY DEF BInit, RInit, DInit
  <2>2. NoImport.pc = "idle" /\ NoImport.calm = FALSE /\ NoBoot.ref = None
    BY DEF NoImport, NoBoot
  <2> QED BY <2>1, <2>2 DEF LineInv, Lineage, Targets, ItemInv, ItemHolds
<1>2. /\ WritersType /\ WritersType' /\ DraftInv /\ DocInv /\ DocInv' /\ MatchesAre /\ MatchesAre'
      /\ CalmInv /\ LineInv /\ ItemInv /\ [BNext]_bvars
      => LineInv' /\ ItemInv'
  BY ItemNext
<1>3. ItemInv => Conv
  <2> SUFFICES ASSUME ItemInv, NEW a \in Agents, Report(a), imp[a].calm, ~boot[a].failed,
                      NEW ref \in Pending(boot[a]), NEW answer, answer = boot[a].answers[ref]
               PROVE  \/ InForce(ref, answer)
                      \/ \E d \in Holding(ref, "accepted") :
                            \E s \in PendingSuccessors(rows, d) : text[s].of # ref
    OBVIOUS
  <2>1. boot[a].pc = "apply" /\ boot[a].left = {}
    BY DEF Report, Booting
  <2>2. ref \in Answered(boot[a]) \ (boot[a].left \cup boot[a].unanchored) /\ ref \notin Durable(boot[a])
    BY <2>1 DEF Pending
  <2>3. Settles(ref, answer)
    BY <2>1, <2>2 DEF ItemInv, ItemHolds
  <2>4. ~\E d \in Decisions : Says([ref |-> ref, text |-> answer.text], d) /\ rows[d].status = answer.as
    BY <2>2 DEF Durable, Says
  <2> QED BY <2>3, <2>4 DEF Settles
<1> HIDE DEF Conv
<1>4. OneImporter /\ BSpec => [][Conv]_bvars
  BY <1>1, <1>2, <1>3, CalmHolds, DocumentsHold, WritersTypes, WritersDrafts, PTL DEF BSpec
<1> QED BY <1>4 DEF Conv, RunsConverge

(* Reviews and bootstraps alike: no batch that ended undisturbed leaves        *)
(* anything undone (server.py, cli.py, bootstrap/apply.py).                    *)
THEOREM WritersBatches == OneImporter /\ BSpec => BatchesComplete
BY WritersAllReviewed, WritersConverge, PTL DEF BatchesComplete

=============================================================================
