---------------------------- MODULE RecordRules ----------------------------
(***************************************************************************)
(* The lifecycle rules of decision and fact rows, as src/sidegraph/store.py *)
(* applies them.  A store value `rows` maps every record id to its row; an *)
(* id that was never written has the row Unwritten.  Each Store method is  *)
(* a pair of operators: the condition under which it does not raise, and   *)
(* the rows it leaves when it commits.  A method that raises writes        *)
(* nothing, so a refusal is a step that is not taken.                      *)
(*                                                                         *)
(* Ids stand for ULIDs.  Of a row only the fields the rules read are kept: *)
(* the prose, the ratifier stamp and the timestamps are left out.  No      *)
(* writer sets valid_to on a row it writes as proposed or accepted, so an  *)
(* accepted row is an open one and "the live head" is the accepted row.    *)
(***************************************************************************)
EXTENDS Integers, FiniteSets

CONSTANTS Decisions,    \* ids of decisions
          Facts,        \* ids of facts
          None          \* "supersedes": null

ASSUME RecordIds ==
    /\ Decisions \cap Facts = {}
    /\ None \notin Decisions \cup Facts

Records == Decisions \cup Facts

Status == {"unwritten", "proposed", "accepted", "superseded", "rejected", "deprecated"}

Row == [status : Status, supersedes : Records \cup {None}, supports : SUBSET Decisions]

Unwritten == [status |-> "unwritten", supersedes |-> None, supports |-> {}]

(* The table a record lives in: supersedes never crosses tables. *)
Table(r) == IF r \in Decisions THEN Decisions ELSE Facts

With(rows, S, st) ==
    [r \in Records |-> IF r \in S THEN [rows[r] EXCEPT !.status = st] ELSE rows[r]]

Successors(rows, r) ==
    {s \in Records : rows[s].status # "unwritten" /\ rows[s].supersedes = r}

PendingSuccessors(rows, r) ==
    {s \in Successors(rows, r) : rows[s].status = "proposed"}

(* Every record of r's table reached from r through accepted or superseded   *)
(* successors, r included: the least set closed under the step of the       *)
(* breadth-first walk.                                                     *)
Chain(rows, r) ==
    LET Closed(C) == \A s \in Table(r) :
                        (/\ rows[s].supersedes \in C
                         /\ rows[s].status \in {"accepted", "superseded"}) => s \in C
    IN  {x \in Table(r) : \A C \in SUBSET Table(r) : (r \in C /\ Closed(C)) => x \in C}

LiveHeadsAfter(rows, r) ==
    {s \in Chain(rows, r) \ {r} : rows[s].status = "accepted"}

-----------------------------------------------------------------------------
(* add_decision, add_fact *)

(* Mutant: supersedes a record that is no longer current. *)
SupersedeAnyRecord(rows, r) ==
    /\ rows[r].status # "unwritten"
    /\ PendingSuccessors(rows, r) = {}

(* Mutant: takes a second pending successor. *)
SupersedeUnderPending(rows, r) == rows[r].status = "accepted"

MayBeSuperseded(rows, r) ==
    /\ rows[r].status = "accepted"
    /\ PendingSuccessors(rows, r) = {}

(* Mutant: takes evidence for a decision nobody wrote. *)
CanAddForUnknown(rows, r, row) ==
    /\ rows[r].status = "unwritten"
    /\ row.supersedes # None =>
           /\ row.supersedes \in Table(r)
           /\ MayBeSuperseded(rows, row.supersedes)

CanAdd(rows, r, row) ==
    /\ rows[r].status = "unwritten"
    /\ \A d \in row.supports : rows[d].status # "unwritten"
    /\ row.supersedes # None =>
           /\ row.supersedes \in Table(r)
           /\ MayBeSuperseded(rows, row.supersedes)

(* The rows closed when the members of S are accepted: their predecessors *)
(* that are still open.                                                   *)
ClosedBy(rows, S) ==
    {p \in Records : /\ rows[p].status \in {"accepted", "proposed"}
                     /\ \E s \in S : rows[s].supersedes = p}

(* Mutant: a proposal closes its predecessor too. *)
CloseAtOnce(rows, r, row) ==
    With([rows EXCEPT ![r] = row], ClosedBy([rows EXCEPT ![r] = row], {r}), "superseded")

AfterAdd(rows, r, row) ==
    LET written == [rows EXCEPT ![r] = row]
    IN  IF row.status = "proposed" THEN written
        ELSE With(written, ClosedBy(written, {r}), "superseded")

-----------------------------------------------------------------------------
(* ratify, drop, ratify_fact, drop_fact *)

(* Mutant: does not look for a live head. *)
StaleIfPending(rows, r) ==
    rows[r].supersedes # None /\ rows[rows[r].supersedes].status = "proposed"

(* _refuse_stale_predecessor: r's predecessor cannot be closed by r. *)
StalePredecessor(rows, r) ==
    LET p == rows[r].supersedes IN
    /\ p # None
    /\ rows[p].status # "unwritten"
    /\ \/ rows[p].status = "proposed"
       \/ LiveHeadsAfter(rows, p) \ {r} # {}

(* The proposed facts that ride the verdict on d. *)
Evidence(rows, d) ==
    {f \in Facts : rows[f].status = "proposed" /\ d \in rows[f].supports}

(* Mutant: the cascade is not checked against itself. *)
RatifyCollidingFacts(rows, d) ==
    /\ rows[d].status = "proposed"
    /\ ~StalePredecessor(rows, d)
    /\ \A f \in Evidence(rows, d) : ~StalePredecessor(rows, f)

CanRatify(rows, d) ==
    /\ rows[d].status = "proposed"
    /\ ~StalePredecessor(rows, d)
    /\ \A f \in Evidence(rows, d) : ~StalePredecessor(rows, f)
    /\ \A f, g \in Evidence(rows, d) :
           f # g => \/ rows[f].supersedes = None
                    \/ rows[f].supersedes # rows[g].supersedes

AfterRatify(rows, d) ==
    LET accepted == {d} \cup Evidence(rows, d)
    IN  With(With(rows, accepted, "accepted"), ClosedBy(rows, accepted), "superseded")

CanDrop(rows, d) == rows[d].status = "proposed"

(* Mutant: the cascade takes a fact as soon as one supporter is rejected. *)
DropAnySupporter(rows, d) ==
    With(rows, {d} \cup Evidence(rows, d), "rejected")

AfterDrop(rows, d) ==
    LET dropped == With(rows, {d}, "rejected")
        follows == {f \in Facts : /\ rows[f].status = "proposed"
                                  /\ rows[f].supports # {}
                                  /\ \A s \in rows[f].supports :
                                         dropped[s].status = "rejected"}
    IN  With(dropped, follows, "rejected")

CanRatifyFact(rows, f) ==
    /\ rows[f].status = "proposed"
    /\ ~StalePredecessor(rows, f)

AfterRatifyFact(rows, f) ==
    With(With(rows, {f}, "accepted"), ClosedBy(rows, {f}), "superseded")

CanDropFact(rows, f) == rows[f].status = "proposed"

AfterDropFact(rows, f) == With(rows, {f}, "rejected")

-----------------------------------------------------------------------------
(* retire: `dup` is the live record that stays, or None.  The bindings that  *)
(* a duplicate hands over are in Capture.                                   *)

CanRetire(rows, d, dup) ==
    /\ rows[d].status = "accepted"
    /\ dup # None => dup # d /\ rows[dup].status = "accepted"
    /\ PendingSuccessors(rows, d) = {}
    /\ Evidence(rows, d) = {}

AfterRetire(rows, d) == With(rows, {d}, "deprecated")

=============================================================================
