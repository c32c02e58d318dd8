---------------------------- MODULE DomainRules ----------------------------
(***************************************************************************)
(* The rules of domain rows in src/sidegraph/store.py: add_domain,          *)
(* supersede_domain and ratify_domains, each as the condition under which   *)
(* it does not raise and the rows it leaves.  Unlike a decision, a domain   *)
(* has no valid_to, an accepted one may be dropped, and a dropped one may   *)
(* still be superseded ("the mass-drop recovery").                          *)
(*                                                                         *)
(* A parent is any domain written before its child and is never read again  *)
(* by these rules, so the parent link is left out, with title, summary and  *)
(* membership.                                                              *)
(***************************************************************************)
EXTENDS Naturals, FiniteSets

CONSTANTS Domains,      \* ids of domains
          Slugs,        \* the names they claim
          None          \* "supersedes": null

ASSUME DomainIds == None \notin Domains

Status == {"unwritten", "proposed", "accepted", "superseded", "dropped"}

Row == [status : Status, slug : Slugs \cup {None}, supersedes : Domains \cup {None}]

Unwritten == [status |-> "unwritten", slug |-> None, supersedes |-> None]

LiveHolders(rows, slug) ==
    {d \in Domains : rows[d].slug = slug /\ rows[d].status \in {"proposed", "accepted"}}

(* The proposals of a group that revise an accepted holder of the group. *)
PendingRevisions(rows, group) ==
    {d \in group : /\ rows[d].status = "proposed"
                   /\ rows[d].supersedes \in group
                   /\ rows[rows[d].supersedes].status = "accepted"}

(* The one pending revision of an accepted holder of the same slug: no rival *)
(* of the holder it revises.                                                 *)
SinglePendingRevisions(rows, group) ==
    {d \in PendingRevisions(rows, group) :
        \A e \in PendingRevisions(rows, group) :
            rows[e].supersedes = rows[d].supersedes => e = d}

Rivals(rows, slug) ==
    LiveHolders(rows, slug) \ SinglePendingRevisions(rows, LiveHolders(rows, slug))

SlugConflicts(rows) == {slug \in Slugs : \E d, e \in Rivals(rows, slug) : d # e}

PendingSuccessors(rows, old) ==
    {d \in Domains : rows[d].supersedes = old /\ rows[d].status = "proposed"}

(* Mutant: the slug is not checked. *)
CanAddUnchecked(rows, d, slug) == rows[d].status = "unwritten"

CanAdd(rows, d, slug) ==
    /\ rows[d].status = "unwritten"
    /\ Rivals(rows, slug) = {}

AfterAdd(rows, d, slug) ==
    [rows EXCEPT ![d] = [status |-> "proposed", slug |-> slug, supersedes |-> None]]

CanSupersede(rows, old, d, slug) ==
    /\ rows[old].status \in {"accepted", "dropped"}
    /\ PendingSuccessors(rows, old) = {}
    /\ rows[d].status = "unwritten"
    /\ Rivals(rows, slug) \subseteq {old}

(* A dropped predecessor is closed at once, an accepted one when its         *)
(* successor is accepted.                                                    *)
AfterSupersede(rows, old, d, slug) ==
    [rows EXCEPT
        ![d] = [status |-> "proposed", slug |-> slug, supersedes |-> old],
        ![old].status = IF @ = "dropped" THEN "superseded" ELSE @]

(* Mutant: accepts whatever is proposed. *)
AcceptAnyProposal(rows, d) == rows[d].status = "proposed"

CanAccept(rows, d) ==
    /\ rows[d].status = "proposed"
    /\ \A e \in LiveHolders(rows, rows[d].slug) \ {d, rows[d].supersedes} :
           rows[e].status # "accepted"

AfterAccept(rows, d) ==
    [e \in Domains |->
        IF e = d THEN [rows[e] EXCEPT !.status = "accepted"]
        ELSE IF e = rows[d].supersedes /\ rows[e].status \in {"proposed", "accepted"}
             THEN [rows[e] EXCEPT !.status = "superseded"]
        ELSE rows[e]]

CanDrop(rows, d) == rows[d].status \in {"proposed", "accepted"}

AfterDrop(rows, d) == [rows EXCEPT ![d].status = "dropped"]

-----------------------------------------------------------------------------
(* domain_splits.domain_parts: the accepted domains that a chain of          *)
(* successors from `old` ends in, through accepted or superseded records.    *)

Parts(rows, old) ==
    LET Closed(C) == \A d \in Domains :
                        (/\ rows[d].supersedes \in C
                         /\ rows[d].status \in {"accepted", "superseded"}
                         /\ \/ rows[d].supersedes = old
                            \/ rows[rows[d].supersedes].status = "superseded") => d \in C
        reached == {d \in Domains : \A C \in SUBSET Domains : (old \in C /\ Closed(C)) => d \in C}
    IN  {d \in reached \ {old} : rows[d].status = "accepted"}

Splits(rows) == {old \in Domains : Cardinality(Parts(rows, old)) > 1}

=============================================================================
