----------------------------- MODULE Lifecycle -----------------------------
(***************************************************************************)
(* One store and everything that may be asked of it: any number of agents, *)
(* humans and command lines call the Store's methods in any order.  Every  *)
(* method runs under BEGIN IMMEDIATE from its first read to its commit      *)
(* (Store._mutation), so a call is one step whoever makes it.              *)
(***************************************************************************)
EXTENDS RecordRules

VARIABLE rows

vars == rows

(* What a caller may hand to add_decision (a proposal, an accepted record, or *)
(* the record of a rejected document) and add_fact, with any id as the        *)
(* predecessor.                                                             *)
NewDecision == [status : {"proposed", "accepted", "rejected"},
                supersedes : Records \cup {None}, supports : {{}}]

NewFact == [status : {"proposed", "accepted"},
            supersedes : Records \cup {None}, supports : SUBSET Decisions]

Init == rows = [r \in Records |-> Unwritten]

AddDecision(d, row) ==
    /\ CanAdd(rows, d, row)
    /\ rows' = AfterAdd(rows, d, row)

AddFact(f, row) ==
    /\ CanAdd(rows, f, row)
    /\ rows' = AfterAdd(rows, f, row)

Ratify(d) ==
    /\ CanRatify(rows, d)
    /\ rows' = AfterRatify(rows, d)

Drop(d) ==
    /\ CanDrop(rows, d)
    /\ rows' = AfterDrop(rows, d)

RatifyFact(f) ==
    /\ CanRatifyFact(rows, f)
    /\ rows' = AfterRatifyFact(rows, f)

DropFact(f) ==
    /\ CanDropFact(rows, f)
    /\ rows' = AfterDropFact(rows, f)

Retire(d, dup) ==
    /\ CanRetire(rows, d, dup)
    /\ rows' = AfterRetire(rows, d)

Next ==
    \/ \E d \in Decisions :
          \/ \E row \in NewDecision : AddDecision(d, row)
          \/ Ratify(d)
          \/ Drop(d)
          \/ \E dup \in Decisions \cup {None} : Retire(d, dup)
    \/ \E f \in Facts :
          \/ \E row \in NewFact : AddFact(f, row)
          \/ RatifyFact(f)
          \/ DropFact(f)

Spec == Init /\ [][Next]_vars

-----------------------------------------------------------------------------

(* The type invariant: every id has a row, and a successor is in its        *)
(* predecessor's table.                                                     *)
TypeOK ==
    /\ rows \in [Records -> Row]
    /\ \A r \in Records : rows[r].supersedes # None => rows[r].supersedes \in Table(r)

(* A record that was replaced: its successor has been written as something  *)
(* other than a proposal.                                                   *)
Settled(r) == rows[r].status \in {"accepted", "superseded", "deprecated"}

(* "A superseded decision must have a successor": whichever way a record was *)
(* closed, the record that closed it is there and is not a mere proposal    *)
(* (add_decision, ratify and the fact cascade write both in one call).      *)
SupersededHasSuccessor ==
    \A r \in Records : rows[r].status = "superseded" =>
        \E s \in Successors(rows, r) : rows[s].status # "proposed"

(* A chain never forks: a record has at most one successor that was ever    *)
(* accepted, and none while it is live itself, so two accepted records that *)
(* contradict each other are never both current.                            *)
ChainNeverForks ==
    \A r, s, t \in Records :
        (/\ rows[s].supersedes = r /\ Settled(s)
         /\ rows[t].supersedes = r /\ Settled(t)) =>
            s = t /\ rows[r].status # "accepted"

(* Nothing in the queue is stuck: in a store that was never merged, ratify   *)
(* and ratify_fact refuse no proposal, whatever was called since it was      *)
(* written (its predecessor was not closed under it, its evidence does not   *)
(* collide).                                                                 *)
QueueIsRatifiable ==
    /\ \A d \in Decisions : rows[d].status = "proposed" => CanRatify(rows, d)
    /\ \A f \in Facts : rows[f].status = "proposed" => CanRatifyFact(rows, f)

(* What every sequence of calls keeps true of supersession.                   *)
SuccessionIsSound == SupersededHasSuccessor /\ ChainNeverForks /\ QueueIsRatifiable

(* The transitions sidegraph-verify accepts of a committed record           *)
(* (store_rules), less the two it allows and no Store call makes.           *)
VerifyTransitions ==
    {<<"proposed", "accepted">>, <<"proposed", "rejected">>,
     <<"accepted", "superseded">>, <<"accepted", "deprecated">>}

Appended ==
    \A r \in Records :
        \/ rows[r].status = "unwritten"
        \/ rows'[r] = rows[r]
        \/ /\ <<rows[r].status, rows'[r].status>> \in VerifyTransitions
           /\ rows'[r] = [rows[r] EXCEPT !.status = rows'[r].status]
           /\ r \in Facts => rows'[r].status # "deprecated"

(* Whatever is called, the history a reviewer diffs is append-only: a row    *)
(* changes nothing but its status, and only along verify's transitions; a   *)
(* fact is never deprecated.                                                 *)
AppendOnly == [][Appended]_vars

(* Proposed evidence follows the verdict on its decision in the same step:   *)
(* an acceptance takes every such fact along, and a drop takes exactly the   *)
(* facts left with no supporter that is not rejected.                        *)
EvidenceFollowsVerdict ==
    [][\A d \in Decisions, f \in Facts :
          (rows[d].status = "proposed" /\ d \in rows[f].supports /\ rows[f].status = "proposed")
          => /\ rows'[d].status = "accepted" => rows'[f].status = "accepted"
             /\ rows'[d].status = "rejected" =>
                   (rows'[f].status = "rejected"
                      <=> \A s \in rows[f].supports : rows'[s].status = "rejected")]_vars

=============================================================================
