------------------------------ MODULE Capture ------------------------------
(***************************************************************************)
(* Who calls the store of Lifecycle, and in which order: agents that       *)
(* propose drafts (capture.py), the direct tools of the server, a human    *)
(* who reviews, and sync, which changes what anchors are worth.  A draft   *)
(* takes many transactions: the decision, its anchors, then each of its    *)
(* facts with its anchors, and at last, under an automatic policy, the     *)
(* verdict.  Every check an agent makes outside a transaction is a step of *)
(* its own.                                                                *)
(*                                                                         *)
(* Left out: the prose and its redaction, tags and initiatives, several    *)
(* anchors of one record (only the best one counts here), and the order in *)
(* which one list of drafts is worked through.  Whether a draft is a       *)
(* duplicate of what is there is a free choice.                            *)
(***************************************************************************)
EXTENDS Lifecycle

CONSTANTS Agents,       \* processes that propose
          Global,       \* decisions of global scope: served whatever is asked
          Docs,         \* documents that may be imported
          MaxFacts,     \* bound: facts of one draft
          Settings      \* bound: what takes part (see Setting)

VARIABLES
    route,      \* what the best anchor of a record is worth
    by,         \* ratified_by
    dupOf,      \* retired.duplicate_of
    missing,    \* facts of a decision's draft that were not written and bound
    job,        \* what each agent is at
    events,     \* counts calls of a human and changes by sync
    setting     \* the bounds this behaviour keeps to

cvars == <<rows, route, by, dupOf, missing, job, events, setting>>

Policies == {"manual", "auto-low-risk", "auto-all", "legacy-accept", "direct"}
Kinds == {"low", "high"}    \* gotcha and lesson; adr and constraint

\* The best binding to a code entity: none at all; orphaned and of no use;
\* orphaned, but the graph holds its name again; orphaned, but its file is
\* served as such; degraded; live.
Routes == {"none", "dead", "waiting", "file", "degraded", "live"}
Worth(x) == CASE x = "none" -> 0 [] x = "dead" -> 1 [] x = "waiting" -> 2 [] x = "file" -> 3
              [] x = "degraded" -> 4 [] x = "live" -> 5
Best(x, y) == IF Worth(x) >= Worth(y) THEN x ELSE y

\* Records that may be written, the policies agents run under, what an anchor may be
\* worth, the number of calls of a human and changes by sync, and whether anybody may
\* call any method of the store at any time, as scripts do.  For the modules above:
\* the modes in which an agent imports, the documents it may, what their status lines
\* may say, who bootstraps, and the ways in which a human reviews what waits.
Setting == [ids : SUBSET Records, policies : [Agents -> SUBSET Policies],
            ways : SUBSET Routes, events : Nat, anyone : BOOLEAN,
            modes : [Agents -> SUBSET (Policies \cup {"plain"})], docs : SUBSET Docs,
            lines : SUBSET {"open", "draft", "rejected", "history"},
            boots : SUBSET Agents, reviews : SUBSET {"all", "given"}]

ASSUME CaptureAssumption ==
    Global \subseteq Decisions /\ MaxFacts \in Nat /\ Settings \subseteq Setting

Idle == [pc |-> "idle", policy |-> "manual", kind |-> "low", d |-> None, f |-> None,
         todo |-> 0, supports |-> {}, anchored |-> FALSE, failed |-> FALSE]

Internal == UNCHANGED <<events, setting>>
At(a, pc) == job[a].pc = pc
Go(a, j) == job' = [job EXCEPT ![a] = j]
Automatic(policy) == policy \in {"auto-low-risk", "auto-all"}
Landing(policy) == IF policy \in {"legacy-accept", "direct"} THEN "accepted" ELSE "proposed"

-----------------------------------------------------------------------------
(* What an automatic policy admits. *)

Eligible(policy, kind, way, supersedes) ==
    /\ Automatic(policy)
    /\ policy = "auto-low-risk" => kind = "low" /\ supersedes = None
    /\ way = "live"
FactEligible(policy, f) == Eligible(policy, "low", route[f], rows[f].supersedes)
CascadeEligible(policy, d) == \A f \in Evidence(rows, d) : FactEligible(policy, f)

ResolvesToLive(S) == \E d \in S : rows[d].status \in {"accepted", "proposed"}

-----------------------------------------------------------------------------
(* An agent proposes a decision with n facts (_propose_one). *)

Propose(a, policy, kind, d, pred, n) ==
    LET row == [status |-> Landing(policy), supersedes |-> pred, supports |-> {}]
    IN  /\ At(a, "idle") /\ (policy = "direct" => n = 0) /\ (Automatic(policy) \/ kind = "low")
        /\ CanAdd(rows, d, row) /\ rows' = AfterAdd(rows, d, row)
        /\ missing' = [missing EXCEPT ![d] = n]
        /\ Go(a, [Idle EXCEPT !.pc = "bind", !.policy = policy, !.kind = kind, !.d = d, !.todo = n])
        /\ UNCHANGED <<route, by, dupOf>> /\ Internal

Bind(a, way) ==
    /\ At(a, "bind")
    /\ route' = [route EXCEPT ![job[a].d] = Best(@, way)]
    /\ Go(a, [job[a] EXCEPT !.pc = "facts"])
    /\ UNCHANGED <<rows, by, dupOf, missing>> /\ Internal

\* A direct tool called without anchors: those of the predecessor.
Inherit(a) ==
    /\ At(a, "bind") /\ job[a].policy = "direct" /\ rows[job[a].d].supersedes # None
    /\ route' = [route EXCEPT ![job[a].d] = Best(@, route[rows[job[a].d].supersedes])]
    /\ Go(a, [job[a] EXCEPT !.pc = "facts"])
    /\ UNCHANGED <<rows, by, dupOf, missing>> /\ Internal

Alone(a) == job[a].d = None     \* a standalone fact

\* One fact of the draft is over: written and bound, a duplicate, or failed.
Done(a) ==
    IF Alone(a) THEN Idle
    ELSE [job[a] EXCEPT !.pc = "facts", !.f = None, !.supports = {}, !.anchored = FALSE, !.todo = @ - 1]
Failed(a) == IF Alone(a) THEN Idle ELSE [Done(a) EXCEPT !.failed = TRUE]

\* A standalone fact begins here (_propose_fact_one).
ProposeFact(a, policy) ==
    /\ At(a, "idle") /\ policy # "direct"
    /\ Go(a, [Idle EXCEPT !.pc = "facts", !.policy = policy, !.todo = 1])
    /\ UNCHANGED <<rows, route, by, dupOf, missing>> /\ Internal

CheckFact(a, anchored, S) ==
    LET supports == S \cup (IF Alone(a) THEN {} ELSE {job[a].d})
    IN  /\ At(a, "facts") /\ job[a].todo > 0
        /\ Go(a, IF anchored \/ ResolvesToLive(supports)
                 THEN [job[a] EXCEPT !.pc = "add", !.supports = supports, !.anchored = anchored]
                 ELSE Failed(a))
        /\ UNCHANGED <<rows, route, by, dupOf, missing>> /\ Internal

Duplicate(a) ==
    /\ At(a, "facts") /\ job[a].todo > 0
    /\ IF Alone(a) THEN UNCHANGED missing ELSE missing' = [missing EXCEPT ![job[a].d] = @ - 1]
    /\ Go(a, Done(a))
    /\ UNCHANGED <<rows, route, by, dupOf>> /\ Internal

AddFactOf(a, f) ==
    LET row == [status |-> Landing(job[a].policy), supersedes |-> None,
                supports |-> job[a].supports]
    IN  /\ At(a, "add")
        /\ CanAdd(rows, f, row) /\ rows' = AfterAdd(rows, f, row)
        /\ Go(a, [job[a] EXCEPT !.pc = "bindfact", !.f = f])
        /\ UNCHANGED <<route, by, dupOf, missing>> /\ Internal

BindFact(a, way) ==
    /\ At(a, "bindfact") /\ (job[a].anchored \/ way = "none")
    /\ route' = [route EXCEPT ![job[a].f] = Best(@, way)]
    /\ IF Alone(a)
       THEN Go(a, [job[a] EXCEPT !.pc = "judge"]) /\ UNCHANGED missing
       ELSE Go(a, Done(a)) /\ missing' = [missing EXCEPT ![job[a].d] = @ - 1]
    /\ UNCHANGED <<rows, by, dupOf>> /\ Internal

\* An attached fact is refused (its form, its id, its anchors), or its write or
\* its binding raises; the draft goes on with the next.
FactFails(a) ==
    /\ job[a].pc \in {"add", "bindfact"} \/ (At(a, "facts") /\ job[a].todo > 0)
    /\ ~Alone(a)
    /\ Go(a, Failed(a))
    /\ UNCHANGED <<rows, route, by, dupOf, missing>> /\ Internal

-----------------------------------------------------------------------------
(* The verdict of an automatic policy. *)

(* Mutant: a fact that failed does not hold the decision back. *)
JudgeWhatWasWritten(a) ==
    LET j == job[a]
    IN  /\ At(a, "facts") /\ j.todo = 0 /\ ~Alone(a)
        /\ IF /\ Eligible(j.policy, j.kind, route[j.d], rows[j.d].supersedes)
              /\ CascadeEligible(j.policy, j.d)
           THEN Go(a, [j EXCEPT !.pc = "ratify"]) ELSE Go(a, Idle)
        /\ UNCHANGED <<rows, route, by, dupOf, missing>> /\ Internal
Judge(a) ==
    LET j == job[a]
    IN  /\ At(a, "facts") /\ j.todo = 0 /\ ~Alone(a)
        /\ IF /\ ~j.failed
              /\ Eligible(j.policy, j.kind, route[j.d], rows[j.d].supersedes)
              /\ CascadeEligible(j.policy, j.d)
           THEN Go(a, [j EXCEPT !.pc = "ratify"]) ELSE Go(a, Idle)
        /\ UNCHANGED <<rows, route, by, dupOf, missing>> /\ Internal

JudgeFact(a) ==
    LET j == job[a]
    IN  /\ At(a, "judge")
        /\ IF /\ \A d \in rows[j.f].supports : rows[d].status # "proposed"
              /\ FactEligible(j.policy, j.f)
           THEN Go(a, [j EXCEPT !.pc = "ratify"]) ELSE Go(a, Idle)
        /\ UNCHANGED <<rows, route, by, dupOf, missing>> /\ Internal

Stamp(S, who) == by' = [r \in Records |-> IF r \in S THEN who ELSE by[r]]

(* Mutant: ratifies on what was read before. *)
AutoRatifyUnguarded(a) ==
    LET j == job[a]
    IN  /\ At(a, "ratify") /\ ~Alone(a)
        /\ CanRatify(rows, j.d) /\ rows' = AfterRatify(rows, j.d)
        /\ Stamp({j.d} \cup Evidence(rows, j.d), j.policy)
        /\ Go(a, Idle)
        /\ UNCHANGED <<route, dupOf, missing>> /\ Internal
AutoRatify(a) ==
    LET j == job[a]
    IN  /\ At(a, "ratify") /\ ~Alone(a)
        /\ CanRatify(rows, j.d) /\ CascadeEligible(j.policy, j.d)
        /\ rows' = AfterRatify(rows, j.d)
        /\ Stamp({j.d} \cup Evidence(rows, j.d), j.policy)
        /\ Go(a, Idle)
        /\ UNCHANGED <<route, dupOf, missing>> /\ Internal

AutoRatifyFact(a) ==
    LET j == job[a]
    IN  /\ At(a, "ratify") /\ Alone(a)
        /\ CanRatifyFact(rows, j.f) /\ rows' = AfterRatifyFact(rows, j.f)
        /\ Stamp({j.f}, j.policy)
        /\ Go(a, Idle)
        /\ UNCHANGED <<route, dupOf, missing>> /\ Internal

\* An exception that ends the draft, a refusal, or the death of the process.
Stop(a) ==
    /\ ~At(a, "idle") /\ Go(a, Idle)
    /\ UNCHANGED <<rows, route, by, dupOf, missing>> /\ Internal

-----------------------------------------------------------------------------
(* A human: the review, the direct tools, retirement (store.py, server.py).  *)
(* Bound: as many of them as the setting says.                             *)

Called == events < setting.events /\ events' = events + 1 /\ UNCHANGED setting

Accept(d) ==
    /\ Called /\ CanRatify(rows, d) /\ rows' = AfterRatify(rows, d)
    /\ Stamp({d} \cup Evidence(rows, d), "human")
    /\ UNCHANGED <<route, dupOf, missing, job>>
Reject(d) ==
    /\ Called /\ CanDrop(rows, d) /\ rows' = AfterDrop(rows, d)
    /\ UNCHANGED <<route, by, dupOf, missing, job>>
AcceptFact(f) ==
    /\ Called /\ CanRatifyFact(rows, f) /\ rows' = AfterRatifyFact(rows, f)
    /\ Stamp({f}, "human")
    /\ UNCHANGED <<route, dupOf, missing, job>>
RejectFact(f) ==
    /\ Called /\ CanDropFact(rows, f) /\ rows' = AfterDropFact(rows, f)
    /\ UNCHANGED <<route, by, dupOf, missing, job>>

\* add_fact and supersede_fact: check, write and bindings in one transaction.
DirectFact(f, old, S, anchored, way) ==
    LET row == [status |-> "accepted", supersedes |-> old, supports |-> S]
        given == IF anchored THEN way ELSE IF old = None THEN "none" ELSE route[old]
    IN  /\ Called /\ (anchored \/ given # "none" \/ ResolvesToLive(S))
        /\ CanAdd(rows, f, row) /\ rows' = AfterAdd(rows, f, row)
        /\ route' = [route EXCEPT ![f] = given]
        /\ UNCHANGED <<by, dupOf, missing, job>>

AddAnchors(r, way) ==
    /\ Called /\ rows[r].status # "unwritten"
    /\ route' = [route EXCEPT ![r] = Best(@, way)]
    /\ UNCHANGED <<rows, by, dupOf, missing, job>>

\* What retrieval reaches a record by, with the graph at hand or without.
OwnRoute(r, graph) == route[r] \in {"degraded", "live"} \/ (graph /\ route[r] = "file")
\* What a copy of r's bindings is worth to another record.
Carried(r, graph) == IF route[r] = "dead" /\ graph THEN "none" ELSE route[r]
Gives(r, graph) == Carried(r, graph) # "none"

Surfaces(d, graph) == rows[d].status = "accepted" /\ (d \in Global \/ OwnRoute(d, graph))
Stranded(d, graph) ==
    {f \in Facts : /\ rows[f].status = "accepted" /\ d \in rows[f].supports
                   /\ ~OwnRoute(f, graph)
                   /\ \A s \in rows[f].supports \ {d} : ~Surfaces(s, graph)}

(* Mutant: the evidence of a duplicate stays behind. *)
CarryToTheKept(d, kept, graph) ==
    [route EXCEPT ![kept] = Best(@, Carried(d, graph))]
Carry(d, kept, graph) ==
    LET source == IF Gives(d, graph) THEN d ELSE kept
    IN  [r \in Records |-> IF r = kept THEN Best(route[r], Carried(d, graph))
                           ELSE IF r \in Stranded(d, graph) THEN Best(route[r], Carried(source, graph))
                           ELSE route[r]]

RetireDecision(d, kept, graph) ==
    /\ Called /\ CanRetire(rows, d, kept) /\ rows' = AfterRetire(rows, d)
    /\ IF kept = None THEN UNCHANGED route
       ELSE /\ Stranded(d, graph) # {} => Gives(d, graph) \/ Gives(kept, graph)
            /\ route' = Carry(d, kept, graph)
    /\ dupOf' = [dupOf EXCEPT ![d] = kept]
    /\ UNCHANGED <<by, missing, job>>

\* A sync, or an edit of the code: the anchors of a record are worth something
\* else.
Rebind(r, way) ==
    /\ Called /\ route[r] # "none" /\ way \notin {"none", route[r]}
    /\ route' = [route EXCEPT ![r] = way]
    /\ UNCHANGED <<rows, by, dupOf, missing, job>>

Human ==
    \/ \E d \in Decisions : Accept(d) \/ Reject(d)
    \/ \E f \in Facts : AcceptFact(f) \/ RejectFact(f)
    \/ \E f \in Facts \cap setting.ids, old \in Facts \cup {None}, S \in SUBSET (Decisions \cap setting.ids),
          anchored \in BOOLEAN, way \in setting.ways : DirectFact(f, old, S, anchored, way)
    \/ \E r \in Records, way \in setting.ways : AddAnchors(r, way) \/ Rebind(r, way)
    \/ \E d \in Decisions, kept \in Decisions \cup {None}, graph \in BOOLEAN :
          RetireDecision(d, kept, graph)

Anyone ==
    /\ setting.anyone /\ Next /\ (\A r \in Records \ setting.ids : rows'[r] = rows[r])
    /\ UNCHANGED <<route, by, dupOf, missing, job>> /\ Internal

Agent(a) ==
    \/ \E policy \in setting.policies[a], kind \in Kinds, d \in Decisions \cap setting.ids,
          pred \in Decisions \cup {None}, n \in 0 .. MaxFacts : Propose(a, policy, kind, d, pred, n)
    \/ \E way \in setting.ways : Bind(a, way) \/ BindFact(a, way)
    \/ Inherit(a) \/ Duplicate(a) \/ FactFails(a)
    \/ \E policy \in setting.policies[a] : ProposeFact(a, policy)
    \/ \E anchored \in BOOLEAN, S \in SUBSET (Decisions \cap setting.ids) : CheckFact(a, anchored, S)
    \/ \E f \in Facts \cap setting.ids : AddFactOf(a, f)
    \/ Judge(a) \/ JudgeFact(a) \/ AutoRatify(a) \/ AutoRatifyFact(a) \/ Stop(a)

CInit ==
    /\ Init
    /\ route = [r \in Records |-> "none"] /\ by = [r \in Records |-> "nobody"]
    /\ dupOf = [d \in Decisions |-> None] /\ missing = [d \in Decisions |-> 0]
    /\ job = [a \in Agents |-> Idle] /\ events = 0 /\ setting \in Settings
CNext == Human \/ Anyone \/ \E a \in Agents : Agent(a)
CSpec == CInit /\ [][CNext]_cvars

-----------------------------------------------------------------------------
(* The evidence that an automatic acceptance takes along was fit for it at
   that very moment, whatever was attached to the decision, or happened to
   the anchors, since the agent looked. *)
CascadesAreFit ==
    [][\A f \in Facts : Automatic(by'[f]) /\ ~Automatic(by[f]) /\ (\E d \in rows[f].supports : rows'[d].status # rows[d].status)
          => FactEligible(by'[f], f)]_cvars

(* Both together: what the verdict on a decision does to its evidence. *)
EvidenceIsHandled == EvidenceFollowsVerdict /\ CascadesAreFit

(* A decision that no human looked at is in force only with the whole draft it
   came with: a fact that failed, or a process that died, leaves it to a
   human. *)
AutoMeansComplete == \A d \in Decisions : Automatic(by[d]) => missing[d] = 0

(* What retrieval serves a fact by. *)
Served(f) ==
    /\ rows[f].status = "accepted"
    /\ OwnRoute(f, TRUE) \/ \E d \in rows[f].supports : Surfaces(d, TRUE)

(* Retiring a decision as a duplicate with the graph at hand takes no fact out
   of retrieval, beyond a wait for the sync that finds an anchor's name again.
   (Without a graph an orphaned anchor has to do.) *)
DuplicatesStrandNothing ==
    [][\A f \in Facts :
          (Served(f) /\ ~(Served(f) \/ route[f] = "waiting")')
          => ~\E d, kept \in Decisions : RetireDecision(d, kept, TRUE)]_cvars

=============================================================================
