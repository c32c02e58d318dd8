------------------------------- MODULE Clones -------------------------------
(***************************************************************************)
(* One repository in its clones: the Store's calls on decisions, facts and  *)
(* domains in any clone, and pulls between them.  A pull runs no rule of    *)
(* the store, so a merged store holds shapes that no call writes, and it is *)
(* the re-checks of ratify, ratify_fact, retire and ratify_domains that     *)
(* must cope with them.                                                    *)
(*                                                                         *)
(* A pull that conflicts on a decision or a fact is left out: its user      *)
(* settles each row by hand, and the store promises nothing of rows edited   *)
(* by hand.  Conflicting domains are settled either way.                    *)
(*                                                                         *)
(* Every caller of add_domain and supersede_domain (MCP tools, the command  *)
(* line, bootstrap) writes proposals only; an item of ratify_domains is a    *)
(* transaction of its own.  Ids are ULIDs: two clones never mint one twice.  *)
(***************************************************************************)
EXTENDS RecordRules, GitMerge

CONSTANTS
    Domains,    \* ids of domains
    Slugs,      \* the names they claim
    Clones,
    Mixes       \* bound: the sets of records and domains written together

(* base is the merge base of two clones.                                     *)
ASSUME ClonesAssumption ==
    /\ \A a, b, c \in Clones : a = b \/ b = c \/ a = c
    /\ IsFiniteSet(Domains) /\ None \notin Domains

VARIABLES
    rows,       \* rows[c]: the decisions and facts of clone c
    domains,    \* domains[c]: its domain rows
    base        \* the last commit that both clones have in their history

clonesVars == <<rows, domains, base>>

Dom == INSTANCE DomainRules

Empty == [rows |-> [r \in Records |-> Unwritten],
          domains |-> [d \in Domains |-> Dom!Unwritten]]

ClonesInit ==
    /\ rows = [c \in Clones |-> Empty.rows]
    /\ domains = [c \in Clones |-> Empty.domains]
    /\ base = Empty

WrittenIds ==
    {r \in Records : \E c \in Clones : rows[c][r].status # "unwritten"}
    \cup {d \in Domains : \E c \in Clones : domains[c][d].status # "unwritten"}

(* What may be written next. *)
Fresh ==
    LET written == WrittenIds
    IN  UNION {mix \ written : mix \in {m \in Mixes : written \subseteq m}}

-----------------------------------------------------------------------------
(* Decisions and facts *)

NewRow(r) ==
    IF r \in Decisions
    THEN [status : {"proposed", "accepted"}, supersedes : Table(r) \cup {None},
          supports : {{}}]
    ELSE [status : {"proposed"}, supersedes : Table(r) \cup {None},
          supports : SUBSET Decisions]

Becomes(c, after) ==
    /\ rows' = [rows EXCEPT ![c] = after]
    /\ UNCHANGED <<domains, base>>

Add(c, r, row) ==
    /\ CanAdd(rows[c], r, row)
    /\ Becomes(c, AfterAdd(rows[c], r, row))

Ratify(c, d) ==
    /\ CanRatify(rows[c], d)
    /\ Becomes(c, AfterRatify(rows[c], d))

Drop(c, d) ==
    /\ CanDrop(rows[c], d)
    /\ Becomes(c, AfterDrop(rows[c], d))

RatifyFact(c, f) ==
    /\ CanRatifyFact(rows[c], f)
    /\ Becomes(c, AfterRatifyFact(rows[c], f))

DropFact(c, f) ==
    /\ CanDropFact(rows[c], f)
    /\ Becomes(c, AfterDropFact(rows[c], f))

Retire(c, d, dup) ==
    /\ CanRetire(rows[c], d, dup)
    /\ Becomes(c, AfterRetire(rows[c], d))

-----------------------------------------------------------------------------
(* Domains *)

DomainsBecome(c, after) ==
    /\ domains' = [domains EXCEPT ![c] = after]
    /\ UNCHANGED <<rows, base>>

AddDomain(c, d, slug) ==
    /\ Dom!CanAdd(domains[c], d, slug)
    /\ DomainsBecome(c, Dom!AfterAdd(domains[c], d, slug))

SupersedeDomain(c, old, d, slug) ==
    /\ Dom!CanSupersede(domains[c], old, d, slug)
    /\ DomainsBecome(c, Dom!AfterSupersede(domains[c], old, d, slug))

AcceptDomain(c, d) ==
    /\ Dom!CanAccept(domains[c], d)
    /\ DomainsBecome(c, Dom!AfterAccept(domains[c], d))

DropDomain(c, d) ==
    /\ Dom!CanDrop(domains[c], d)
    /\ DomainsBecome(c, Dom!AfterDrop(domains[c], d))

-----------------------------------------------------------------------------

(* Every change of a decision's or a fact's status stamps a time             *)
(* (ratified_at, valid_to), so git merges a row without a conflict only when *)
(* one side changed it.  A domain file holds no time but the ratifier's, so   *)
(* the same change on both sides merges cleanly.                            *)
Pull(c, from) ==
    /\ base # [rows |-> rows[from], domains |-> domains[from]]
    /\ Conflicts(base.rows, rows[c], rows[from], TRUE) = {}
    /\ \E merged \in Merges(base.rows, rows[c], rows[from]) :
           rows' = [rows EXCEPT ![c] = merged]
    /\ \E merged \in Merges(base.domains, domains[c], domains[from]) :
           domains' = [domains EXCEPT ![c] = merged]
    /\ base' = [rows |-> rows[from], domains |-> domains[from]]

Call(c) ==
    \/ \E r \in Fresh \cap Records : \E row \in NewRow(r) : Add(c, r, row)
    \/ \E d \in Decisions :
          \/ Ratify(c, d)
          \/ Drop(c, d)
          \/ \E dup \in Decisions \cup {None} : Retire(c, d, dup)
    \/ \E f \in Facts :
          \/ RatifyFact(c, f)
          \/ DropFact(c, f)

DomainCall(c) ==
    \/ \E d \in Fresh \cap Domains, slug \in Slugs :
          \/ AddDomain(c, d, slug)
          \/ \E old \in Domains : SupersedeDomain(c, old, d, slug)
    \/ \E d \in Domains :
          \/ AcceptDomain(c, d)
          \/ DropDomain(c, d)

ClonesNext ==
    \E c \in Clones :
        \/ Call(c)
        \/ DomainCall(c)
        \/ \E from \in Clones \ {c} : Pull(c, from)

ClonesSpec == ClonesInit /\ [][ClonesNext]_clonesVars

-----------------------------------------------------------------------------

(* The type invariant; a record refers only to records its clone has, a      *)
(* domain only to domains.                                                  *)
ClonesTypeOK ==
    /\ rows \in [Clones -> [Records -> Row]]
    /\ domains \in [Clones -> [Domains -> Dom!Row]]
    /\ base \in [rows : [Records -> Row], domains : [Domains -> Dom!Row]]
    /\ \A c \in Clones, r \in Records :
           rows[c][r].supersedes # None =>
               /\ rows[c][r].supersedes \in Table(r)
               /\ rows[c][rows[c][r].supersedes].status # "unwritten"
    /\ \A c \in Clones, d \in Domains :
           LET row == domains[c][d]
           IN  row.supersedes # None => domains[c][row.supersedes].status # "unwritten"

(* The records of the chain that continues r, r included, that are in force. *)
LiveHeads(tree, r) == {s \in Chain(tree, r) : tree[s].status = "accepted"}

(* r was retired, or a record of the chain that continues it was: nothing is  *)
(* in force there for _refuse_stale_predecessor to find.                     *)
Ended(tree, r) ==
    \/ tree[r].status = "deprecated"
    \/ \E s \in Records : tree[s].status = "deprecated" /\ tree[s].supersedes \in Chain(tree, r)

(* However the clones work side by side, what was ever accepted is continued *)
(* by one record in force, unless a record on the way was retired: of two     *)
(* pending successors that met in a merge, or that one ratification would     *)
(* accept together, one gets through (ratify), and no merge loses it.        *)
OneLiveHead ==
    \A c \in Clones : \A r \in WrittenIds \cap Records :
        rows[c][r].status \in {"accepted", "superseded"} /\ ~Ended(rows[c], r)
            => Cardinality(LiveHeads(rows[c], r)) = 1

(* Nothing has been pulled yet. *)
NeverMerged == base = Empty

(* A store that was never merged has no slug conflict: whatever is proposed, *)
(* revised, dropped and recovered, a slug has one live holder and at most    *)
(* one pending revision of it (_validate_domain_write).                      *)
SlugHasOneHolder ==
    NeverMerged => \A c \in Clones : Dom!SlugConflicts(domains[c]) = {}

(* Merges may bring two accepted holders of a slug into a store; no call     *)
(* ever does.                                                               *)
AcceptedHolders(tree, slug) ==
    {d \in Dom!LiveHolders(tree, slug) : tree[d].status = "accepted"}

OnlyMergesCollide ==
    [][\A c \in Clones, slug \in Slugs :
          (/\ Cardinality(AcceptedHolders(domains'[c], slug)) > 1
           /\ Cardinality(AcceptedHolders(domains[c], slug)) <= 1) => base' # base]_clonesVars

(* domain_splits: "No write path creates a second live replacement           *)
(* (supersede_domain only replaces the live head), so a split arrives with   *)
(* a merge or by hand".                                                     *)
SplitNeedsMerge == NeverMerged => \A c \in Clones : Dom!Splits(domains[c]) = {}

=============================================================================
