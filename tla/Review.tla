------------------------------- MODULE Review -------------------------------
(***************************************************************************)
(* A human who reviews what waits with sidegraph-ratify, or has an agent    *)
(* call the ratify tool, next to the writers of DocImport.  One call settles *)
(* many records, each in a transaction of its own, on lists it read before; *)
(* --all reads the decisions and the facts one after the other.             *)
(*                                                                         *)
(* Left out: domains, and the order within a list, which is left open.       *)
(***************************************************************************)
EXTENDS DocImport

VARIABLE review     \* the call that is under way

rvars == <<dvars, review>>

\* all: a call for everything; seen: what it has listed; calm: nobody else has acted since
\* it began.
NoReview == [pc |-> "idle", all |-> FALSE, seen |-> {}, todo |-> {}, drops |-> {}, calm |-> FALSE]

Reviewing(pc) == review.pc = pc
Interrupted == IF Reviewing("idle") THEN review ELSE [review EXCEPT !.calm = FALSE]
StoreKept == UNCHANGED <<rows, by>>
RestKept == UNCHANGED <<route, dupOf, missing, job, events, setting, doc, text>>

Proposed(S) == {r \in S : rows[r].status = "proposed"}

-----------------------------------------------------------------------------

\* The ids on the command line, as somebody read them in a listing.
BeginGiven(S, D) ==
    /\ Reviewing("idle") /\ "given" \in setting.reviews /\ S \cup D # {}
    /\ Called /\ Disturb
    /\ review' = [NoReview EXCEPT !.pc = "accept", !.todo = S, !.drops = D]
    /\ StoreKept /\ UNCHANGED <<route, dupOf, missing, job, doc, text>>

BeginAll ==
    /\ Reviewing("idle") /\ "all" \in setting.reviews /\ Called
    /\ Disturb
    /\ review' = [NoReview EXCEPT !.pc = "list", !.all = TRUE,
                                   !.seen = Proposed(Decisions), !.calm = TRUE]
    /\ StoreKept /\ UNCHANGED <<route, dupOf, missing, job, doc, text>>

(* Mutant: evidence is left to the verdict on its decision, listed or not. *)
AnyEvidence(S) == {f \in Proposed(Facts) : rows[f].supports # {}}
\* Facts that ride the verdict on a decision of S (_nested_fact_ids).
Nested(S) == UNION {Evidence(rows, d) : d \in S}

ListFacts ==
    /\ Reviewing("list")
    /\ LET all == review.seen \cup (Proposed(Facts) \ Nested(review.seen))
       IN  review' = [review EXCEPT !.pc = "accept", !.seen = all, !.todo = all]
    /\ StoreKept /\ RestKept /\ Disturb

\* Decisions before facts; a fact that was taken along is not looked at again, and
\* what cannot be accepted any more is passed over.
AcceptNext(r) ==
    /\ Reviewing("accept") /\ r \in review.todo
    /\ r \in Facts => review.todo \cap Decisions = {}
    /\ LET accepted == IF r \in Decisions THEN {r} \cup Evidence(rows, r) ELSE {r}
           fit == IF r \in Decisions THEN CanRatify(rows, r) ELSE CanRatifyFact(rows, r)
       IN  IF fit
           THEN /\ rows' = (IF r \in Decisions THEN AfterRatify(rows, r) ELSE AfterRatifyFact(rows, r))
                /\ Stamp(accepted, "human")
                /\ review' = [review EXCEPT !.todo = @ \ accepted]
           ELSE StoreKept /\ review' = [review EXCEPT !.todo = @ \ {r}]
    /\ RestKept /\ Disturb

DropNext(r) ==
    /\ Reviewing("accept") /\ review.todo = {} /\ r \in review.drops
    /\ review' = [review EXCEPT !.drops = @ \ {r}]
    /\ rows' = IF rows[r].status # "proposed" THEN rows
               ELSE IF r \in Decisions THEN AfterDrop(rows, r) ELSE AfterDropFact(rows, r)
    /\ UNCHANGED by /\ RestKept /\ Disturb

FinishReview ==
    /\ Reviewing("accept") /\ review.todo = {} /\ review.drops = {}
    /\ review' = NoReview
    /\ StoreKept /\ RestKept /\ UNCHANGED imp

\* The process dies between two verdicts.
ReviewDies ==
    /\ ~Reviewing("idle") /\ review' = NoReview
    /\ StoreKept /\ RestKept /\ UNCHANGED imp

Reviewer ==
    \/ \E S, D \in SUBSET (Records \cap setting.ids) : BeginGiven(S, D)
    \/ BeginAll \/ ListFacts \/ FinishReview \/ ReviewDies
    \/ \E r \in Records \cap setting.ids : AcceptNext(r) \/ DropNext(r)

RInit == DInit /\ review = NoReview
RNext == Reviewer \/ (DNext /\ review' = Interrupted)
RSpec == RInit /\ [][RNext]_rvars

-----------------------------------------------------------------------------
(* A review of everything that came to its end leaves none of what it listed
   waiting, whatever was written between its reads and its verdicts, and with
   nobody else at work nothing at all: no fact is lost between the verdicts on
   decisions that take it along and the list of those that stand alone. *)
AllReviewed ==
    [][(FinishReview /\ review.all) =>
          /\ Proposed(review.seen) = {}
          /\ review.calm => Proposed(Records) = {}]_rvars

=============================================================================
