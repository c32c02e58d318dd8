----------------------------- MODULE Membership -----------------------------
(***************************************************************************)
(* Which nodes of the code graph a domain owns (sync.py, domain_snapshot). *)
(* Membership is derived: from a domain's rules over a graph, or from the  *)
(* committed snapshot file where that freezes it.  The rows live in the    *)
(* index and are certified for an identity, the graph and the snapshot     *)
(* they were derived from.  A pass, a status change and a capture run      *)
(* under the writer's reservation; git takes no reservation, so the graph  *)
(* and the snapshot file change at any moment.  Several processes use one  *)
(* index, each with the graph it has read.                                 *)
(* A node stands for a file with its symbols; nodes without a file are     *)
(* left out.                                                               *)
(***************************************************************************)
EXTENDS Integers, FiniteSets

CONSTANTS Domain,            \* ids, ordered by age
          Node, Comm, Process, None,
          Pred,              \* the domain each one supersedes
          Prefix, Seed,      \* the nodes a domain's rules name
          Graphs,            \* functions from nodes to communities
          Pulled,            \* statuses that a git pull brings
          Snapshots,         \* what git writes as the snapshot file
          MaxEvents, MaxFailures

ASSUME Typing == /\ Domain \subseteq Nat
                 /\ \A d \in Domain : Pred[d] = None \/ (Pred[d] \in Domain /\ Pred[d] < d)
                 /\ Prefix \in [Domain -> SUBSET Node] /\ Seed \in [Domain -> SUBSET Node]
                 /\ \A g \in Graphs : DOMAIN g \subseteq Node /\ g \in [DOMAIN g -> Comm]
                 /\ None \notin Graphs /\ None \notin Process /\ None \notin Domain

VARIABLES graph, snap,             \* files: the graph, the snapshot
          status, comms, rows,     \* the index: domains and their members
          cert, failed, seen,      \* its meta rows
          reader, op, holder,      \* processes
          bound,                   \* nodes whose record took a domain's row
          basis,                   \* what each domain's rows were derived from
          events, failures

files == <<graph, snap>>
index == <<status, comms, rows, basis>>
marks == <<cert, failed, seen>>
vars  == <<files, index, marks, reader, op, holder, bound, events, failures>>

Status   == {"absent", "proposed", "accepted", "superseded", "dropped"}
Accepted == {d \in Domain : status[d] = "accepted"}
Absent   == [kind |-> "absent"]
Invalid  == [kind |-> "invalid"]
Idle     == [pc |-> "idle"]
Event    == events < MaxEvents /\ events' = events + 1

-----------------------------------------------------------------------------
(* A domain's rules over a graph *)

Communities(g) == {g[n] : n \in DOMAIN g}
In(g, C)       == {n \in DOMAIN g : g[n] \in C}

\* The communities that path prefixes claim, unless they are too many.
Overbroad(C, g) == Cardinality(C) > 1 /\ 5 * Cardinality(C) > Cardinality(Communities(g))

RecomputeCommunities(d, g, old) ==
  LET prefix == {g[n] : n \in Prefix[d] \cap DOMAIN g}
      capped == Overbroad(prefix, g)
      found  == (IF capped THEN {} ELSE prefix) \cup {g[n] : n \in Seed[d] \cap DOMAIN g}
  IN  IF found # {} THEN found ELSE IF capped THEN old ELSE old \cap Communities(g)

RuleMembers(d, g, C) == In(g, C) \cup (Prefix[d] \cap DOMAIN g)

WhollyInside(S, g) == {c \in Communities(g) : In(g, {c}) \subseteq S}

-----------------------------------------------------------------------------
(* The snapshot: the domains it covers, and an entry for each listed node *)

Listed(s, g) == DOMAIN s.entry \cap DOMAIN g

\* A node without an entry goes with the majority of its community.
Recorded(n, s, g) ==
  LET voters == {m \in Listed(s, g) : g[m] = g[n]}
  IN  IF n \in Listed(s, g) THEN s.entry[n]
      ELSE {d \in s.covered : 2 * Cardinality({m \in voters : d \in s.entry[m]})
                              > Cardinality(voters)}

\* The covered domain that d is, or descends from.
SnapshotSlug(d, s) ==
  LET up[x \in Domain] == IF x \in s.covered THEN x
                          ELSE IF Pred[x] = None THEN None ELSE up[Pred[x]]
  IN  up[d]

Parts(k, s, accepted) == {d \in accepted : SnapshotSlug(d, s) = k}
Splits(s, accepted)   == {k \in s.covered : Cardinality(Parts(k, s, accepted)) > 1}

FrozenSlug(d, s, accepted, rederive) ==
  LET k == SnapshotSlug(d, s)
  IN  IF k # None /\ d \notin rederive /\ Parts(k, s, accepted) = {d} THEN k ELSE None

\* The members and communities of d over g; old are the communities it had.
MembershipOf(d, g, s, accepted, rederive, old) ==
  LET claimed == RecomputeCommunities(d, g, old)
      ruled   == RuleMembers(d, g, claimed)
      k       == FrozenSlug(d, s, accepted, rederive)
      kept    == IF k = None THEN ruled \ Listed(s, g)
                 ELSE {n \in DOMAIN g : k \in Recorded(n, s, g)}
                      \cup ((Prefix[d] \cap DOMAIN g) \ Listed(s, g))
  IN  IF s = Absent \/ d \in rederive THEN [members |-> ruled, comms |-> claimed]
      ELSE [members |-> kept, comms |-> WhollyInside(kept, g)]

\* Mutant: a refresh derives everything from the rules again.
SnapshotOfTheRules(g, s, accepted, refresh, rederive, old) ==
  LET members == [d \in accepted |-> MembershipOf(d, g, Absent, accepted, {}, old[d]).members]
  IN  [kind |-> "snapshot", covered |-> accepted,
       entry |-> [n \in DOMAIN g |-> {d \in accepted : n \in members[d]}]]

\* What the snapshot command freezes.
SnapshotOf(g, s, accepted, refresh, rederive, old) ==
  LET base == IF refresh THEN s ELSE Absent
      covered == {d \in accepted :
                    \/ ~refresh \/ rederive = {} \/ d \in rederive
                    \/ base # Absent /\ FrozenSlug(d, base, accepted, rederive) # None}
      members == [d \in covered |-> MembershipOf(d, g, base, accepted, rederive, old[d]).members]
  IN  [kind |-> "snapshot", covered |-> covered,
       entry |-> [n \in DOMAIN g |-> {d \in covered : n \in members[d]}]]

-----------------------------------------------------------------------------
(* Certification *)

Identity(p)  == [graph |-> reader[p], snap |-> snap]
NoIdentity   == [graph |-> None, snap |-> Absent]
NoBasis      == [i |-> NoIdentity, accepted |-> {}, old |-> {}]
NoFailure    == [identity |-> NoIdentity, ids |-> {}, whole |-> FALSE]
FailedFor(i) == failed.identity = i
Settled(i)   == IF FailedFor(i) /\ (cert # i \/ failed.whole) THEN TRUE ELSE cert = i

Uncertify == cert' = NoIdentity /\ failed' = NoFailure

\* What rows derived now are derived from.
BasisFor(d, i) == [i |-> i, accepted |-> Accepted, old |-> comms[d]]

\* The rows of every accepted domain but those of F, for p's graph; a status
\* change takes the reservation, so none lands in between.
Pass(p, F) ==
  LET i == Identity(p)
      F2 == IF snap = Invalid THEN Accepted ELSE F
      new == [d \in Accepted \ F2 |-> MembershipOf(d, reader[p], snap, Accepted, {}, comms[d])]
  IN  /\ comms' = [d \in Domain |-> IF d \in DOMAIN new THEN new[d].comms ELSE comms[d]]
      /\ rows' = [d \in Domain |-> IF d \in DOMAIN new THEN new[d].members ELSE rows[d]]
      /\ basis' = [d \in Domain |-> IF d \in DOMAIN new THEN BasisFor(d, i) ELSE basis[d]]
      /\ cert' = IF F2 = {} THEN i ELSE NoIdentity
      /\ failed' = IF F2 = {} THEN NoFailure ELSE [identity |-> i, ids |-> F2, whole |-> FALSE]

\* Mutant: it is recorded as a pass in which no domain failed.
PassFailsForNone(p) ==
  /\ failed' = [identity |-> Identity(p), ids |-> {}, whole |-> FALSE]
  /\ UNCHANGED <<comms, rows, basis, cert>>

\* A pass that failed as a whole leaves its rows and the certification alone.
PassFails(p) ==
  /\ failed' = [identity |-> Identity(p), ids |-> {}, whole |-> TRUE]
  /\ UNCHANGED <<comms, rows, basis, cert>>

Fails(F) == IF F = {} THEN UNCHANGED failures
            ELSE failures < MaxFailures /\ failures' = failures + 1

\* ensure_domain_membership, in p's reservation.
Ensure(p) ==
  \/ Settled(Identity(p)) /\ UNCHANGED <<comms, rows, basis, cert, failed, failures>>
  \/ ~Settled(Identity(p)) /\ \E F \in SUBSET Accepted : Pass(p, F) /\ Fails(F)
  \/ ~Settled(Identity(p)) /\ PassFails(p) /\ Fails({p})

\* Which accepted domains a capture must not bind from; None: any.
Exclusions(i) == IF FailedFor(i) /\ failed.whole THEN Accepted
                 ELSE IF cert = i THEN {} ELSE IF FailedFor(i) THEN failed.ids ELSE Accepted

-----------------------------------------------------------------------------
(* The files, and the calls of the processes *)

Git ==
  /\ Event
  /\ \/ \E s \in Snapshots : snap' = s /\ UNCHANGED graph
     \/ \E g \in Graphs : graph' = g /\ UNCHANGED snap
  /\ files' # files
  /\ UNCHANGED <<index, marks, reader, op, holder, bound, failures>>

\* The process reads the graph and looks whether the snapshot file changed.
Open(p) ==
  /\ op[p] = Idle /\ holder = None
  /\ reader' = [reader EXCEPT ![p] = graph]
  /\ seen' = snap
  /\ IF seen = snap THEN UNCHANGED <<cert, failed>> ELSE Uncertify
  /\ <<reader', seen'>> # <<reader, seen>>
  /\ UNCHANGED <<files, index, op, holder, bound, events, failures>>

\* A reload after a pull of the domains: members are not in canonical files.
Reload ==
  /\ holder = None /\ Event
  /\ status' \in Pulled
  /\ comms' = [d \in Domain |-> {}] /\ rows' = [d \in Domain |-> {}]
  /\ basis' = [d \in Domain |-> NoBasis]
  /\ Uncertify
  /\ UNCHANGED <<files, seen, reader, op, holder, bound, failures>>

\* The index after the domains got the statuses new: only an accepted domain
\* has members.
WriteDomains(new) ==
  /\ status' = new
  /\ rows' = [d \in Domain |-> IF new[d] = "accepted" \/ new[d] = status[d] THEN rows[d] ELSE {}]
  /\ basis' = [d \in Domain |-> IF new[d] = status[d] THEN basis[d] ELSE NoBasis]
  /\ Uncertify
  /\ UNCHANGED <<files, comms, seen, reader, holder, bound, failures>>

\* ratify_domains, then the caller's activation.
Accept(p, d) ==
  /\ op[p] = Idle /\ holder = None /\ Event
  /\ status[d] = "proposed"
  /\ WriteDomains([x \in Domain |->
                     IF x = d THEN "accepted"
                     ELSE IF x = Pred[d] /\ status[x] \in {"proposed", "accepted"}
                          THEN "superseded" ELSE status[x]])
  /\ op' = [op EXCEPT ![p] = [pc |-> "activate", d |-> d]]

Drop(d) ==
  /\ holder = None /\ Event
  /\ status[d] \in {"proposed", "accepted"}
  /\ WriteDomains([status EXCEPT ![d] = "dropped"])
  /\ UNCHANGED op

\* supersede_domain with a proposed successor.
Supersede(d) ==
  /\ holder = None /\ Event
  /\ status[d] = "absent" /\ Pred[d] # None
  /\ status[Pred[d]] \in {"proposed", "accepted", "dropped"}
  /\ WriteDomains([status EXCEPT ![d] = "proposed",
                     ![Pred[d]] = IF @ = "dropped" THEN "superseded" ELSE @])
  /\ UNCHANGED op

\* Mutant: the certificate outlives rows derived for another identity.
ActivateCertified(p) ==
  LET d == op[p].d
      m == MembershipOf(d, reader[p], snap, Accepted, {}, comms[d])
  IN  /\ op[p].pc = "activate" /\ holder = None
      /\ op' = [op EXCEPT ![p] = Idle]
      /\ reader[p] # None /\ snap # Invalid /\ status[d] = "accepted"
      /\ comms' = [comms EXCEPT ![d] = m.comms]
      /\ rows' = [rows EXCEPT ![d] = m.members]
      /\ basis' = [basis EXCEPT ![d] = BasisFor(d, Identity(p))]
      /\ UNCHANGED <<files, status, marks, reader, holder, bound, events, failures>>

\* activate_accepted_domain: the one domain, best effort.
Activate(p) ==
  LET d == op[p].d
      m == MembershipOf(d, reader[p], snap, Accepted, {}, comms[d])
  IN  /\ op[p].pc = "activate" /\ holder = None
      /\ op' = [op EXCEPT ![p] = Idle]
      /\ \/ UNCHANGED <<index, cert, failed>>           \* no graph, or it failed
         \/ /\ reader[p] # None /\ snap # Invalid
            /\ status[d] = "accepted"
            /\ comms' = [comms EXCEPT ![d] = m.comms]
            /\ rows' = [rows EXCEPT ![d] = m.members]
            /\ basis' = [basis EXCEPT ![d] = BasisFor(d, Identity(p))]
            /\ IF cert = Identity(p) THEN UNCHANGED <<cert, failed>> ELSE Uncertify
            /\ UNCHANGED status
      /\ UNCHANGED <<files, seen, reader, holder, bound, events, failures>>

\* sync, or a reading tool: the membership part; force recomputes.
Sync(p, force) ==
  /\ op[p] = Idle /\ holder = None /\ reader[p] # None
  /\ \/ ~force /\ ~Settled(Identity(p)) /\ Ensure(p)
     \/ force /\ \E F \in SUBSET Accepted : Pass(p, F) /\ Fails(F)
     \/ force /\ PassFails(p) /\ Fails({p})
  /\ UNCHANGED <<files, status, seen, reader, op, holder, bound, events>>

-----------------------------------------------------------------------------
(* A capture's tier-1 row, in one reservation *)

CaptureEnsure(p, n) ==
  /\ op[p] = Idle /\ holder = None /\ reader[p] # None /\ n \in DOMAIN reader[p]
  /\ Event
  /\ holder' = p
  /\ Ensure(p)
  /\ op' = [op EXCEPT ![p] = [pc |-> "pick", n |-> n]]
  /\ UNCHANGED <<files, status, seen, reader, bound>>

\* The newest domain that holds the node, or lists its community.
CapturePick(p) ==
  LET n == op[p].n
      found == {d \in Accepted \ Exclusions(Identity(p)) :
                  n \in rows[d] \/ reader[p][n] \in comms[d]}
      pick(d) == op' = [op EXCEPT ![p] = [pc |-> "bind", n |-> n, d |-> d, i |-> Identity(p)]]
  IN  /\ op[p].pc = "pick"
      /\ \/ found = {} /\ pick(None)
         \/ \E d \in found : (\A x \in found : x <= d) /\ pick(d)
      /\ UNCHANGED <<files, index, marks, reader, holder, bound, events, failures>>

\* Mutant: the row is written without another look at the snapshot.
CaptureBindBlindly(p) ==
  /\ op[p].pc = "bind"
  /\ bound' = IF op[p].d # None THEN bound \cup {<<op[p].n, op[p].d>>} ELSE bound
  /\ op' = [op EXCEPT ![p] = Idle] /\ holder' = None
  /\ UNCHANGED <<files, index, marks, reader, events, failures>>

CaptureBind(p) ==
  /\ op[p].pc = "bind"
  /\ bound' = IF op[p].d # None /\ Identity(p) = op[p].i
              THEN bound \cup {<<op[p].n, op[p].d>>} ELSE bound
  /\ op' = [op EXCEPT ![p] = Idle] /\ holder' = None
  /\ UNCHANGED <<files, index, marks, reader, events, failures>>

-----------------------------------------------------------------------------
(* sidegraph-domains snapshot *)

\* The command reads the snapshot that is there.
SnapshotBegin(p, refresh, rederive) ==
  /\ op[p] = Idle /\ reader[p] # None /\ Event
  /\ snap # Invalid /\ (refresh <=> snap # Absent)
  /\ rederive \subseteq Accepted /\ (rederive # {} => refresh)
  /\ op' = [op EXCEPT ![p] = [pc |-> "freeze", based |-> snap, refresh |-> refresh,
                              rederive |-> rederive]]
  /\ UNCHANGED <<files, index, marks, reader, holder, bound, failures>>

\* take_snapshot, under the reservation; on a graph that is not the one the
\* store synced a domain keeps no earlier communities.
SnapshotFreeze(p) ==
  LET o == op[p]
      fits == /\ snap = o.based /\ o.rederive \subseteq Accepted
              /\ o.refresh => \A k \in Splits(snap, Accepted) :
                                Parts(k, snap, Accepted) \subseteq o.rederive
  IN  /\ o.pc = "freeze" /\ holder = None
      /\ IF fits
         THEN \E old \in {comms, [d \in Domain |-> {}]} :
                /\ holder' = p
                /\ op' = [op EXCEPT ![p] =
                     [pc |-> "write", based |-> snap,
                      new |-> SnapshotOf(reader[p], snap, Accepted, o.refresh, o.rederive, old)]]
         ELSE op' = [op EXCEPT ![p] = Idle] /\ UNCHANGED holder
      /\ UNCHANGED <<files, index, marks, reader, bound, events, failures>>

\* The file is compared once more, then replaced.
SnapshotWrite(p) ==
  /\ op[p].pc = "write"
  /\ IF snap = op[p].based
     THEN snap' = op[p].new /\ seen' = snap' /\ Uncertify
     ELSE UNCHANGED <<snap, seen, cert, failed>>
  /\ op' = [op EXCEPT ![p] = Idle] /\ holder' = None
  /\ UNCHANGED <<graph, index, reader, bound, events, failures>>

\* The process dies; SQLite releases what it held.
Die(p) ==
  /\ op[p] # Idle /\ Event
  /\ op' = [op EXCEPT ![p] = Idle]
  /\ holder' = IF holder = p THEN None ELSE holder
  /\ UNCHANGED <<files, index, marks, reader, bound, failures>>

-----------------------------------------------------------------------------
Init ==
  /\ graph \in Graphs /\ snap \in {Absent} \cup Snapshots
  /\ status \in Pulled
  /\ comms = [d \in Domain |-> {}] /\ rows = [d \in Domain |-> {}]
  /\ basis = [d \in Domain |-> NoBasis]
  /\ cert = NoIdentity /\ failed = NoFailure /\ seen = Absent
  /\ reader = [p \in Process |-> None]
  /\ op = [p \in Process |-> Idle] /\ holder = None
  /\ bound = {} /\ events = 0 /\ failures = 0

Next ==
  \/ Git \/ Reload
  \/ \E d \in Domain : Drop(d) \/ Supersede(d)
  \/ \E p \in Process :
       \/ Open(p) \/ Activate(p) \/ CapturePick(p) \/ CaptureBind(p)
       \/ SnapshotFreeze(p) \/ SnapshotWrite(p) \/ Die(p)
       \/ \E d \in Domain : Accept(p, d)
       \/ \E force \in BOOLEAN : Sync(p, force)
       \/ \E n \in Node : CaptureEnsure(p, n)
       \/ \E refresh \in BOOLEAN, rederive \in SUBSET Domain : SnapshotBegin(p, refresh, rederive)

Spec == Init /\ [][Next]_vars

-----------------------------------------------------------------------------
(* Properties *)

\* Every variable keeps its type.
TypeOK ==
  /\ graph \in Graphs
  /\ snap.kind \in {"absent", "invalid", "snapshot"}
  /\ status \in [Domain -> Status]
  /\ comms \in [Domain -> SUBSET Comm] /\ rows \in [Domain -> SUBSET Node]
  /\ failed.ids \subseteq Domain
  /\ reader \in [Process -> Graphs \cup {None}]
  /\ holder \in Process \cup {None}
  /\ bound \subseteq Node \X Domain

Current(d, i) == basis[d].i = i /\ basis[d].accepted = Accepted

\* A certified index is one: the rows of every accepted domain were derived
\* from the graph and the snapshot of the certificate, with the domains that
\* are accepted now (_settle, _uncertify_membership).
CertifiedRowsAreCurrent ==
  cert # NoIdentity => \A d \in Accepted : Current(d, cert)

\* After a pass that failed in part, every row but the failed domains' is as
\* good as certified (membership_exclusions).
UnfailedRowsAreCurrent ==
  failed.identity # NoIdentity /\ ~failed.whole =>
    \A d \in Accepted \ failed.ids : Current(d, failed.identity)

\* What a capture may rely on of the rows it binds from.
RowsAreCurrent == CertifiedRowsAreCurrent /\ UnfailedRowsAreCurrent

\* A record takes a domain's row only from members derived from the snapshot
\* that is on disk at that very moment and from its own graph (and from the
\* communities the domain had before), while the domain is accepted: whatever
\* git wrote between the pass, the pick and the row.
BindsFromWhatIsOnDisk ==
  [][\A n \in Node, d \in Domain :
       <<n, d>> \in bound' \ bound =>
         \E p \in Process :
            /\ holder = p /\ status[d] = "accepted" /\ Current(d, Identity(p))
            /\ n \in MembershipOf(d, reader[p], snap, Accepted, {}, basis[d].old).members]_vars

\* A refresh that names no domain freezes what is in force: over its graph the
\* new file gives every accepted domain the members the old one gave it.
RefreshKeepsMembership ==
  [][\A p \in Process :
       op[p].pc = "freeze" /\ op'[p].pc = "write" /\ op[p].rederive = {}
       => LET new == op'[p].new
              old == IF op[p].refresh THEN snap ELSE Absent
          IN  \A d \in Accepted : \E c \in {comms[d], {}} :
                MembershipOf(d, reader[p], new, Accepted, {}, {}).members
                  = MembershipOf(d, reader[p], old, Accepted, {}, c).members]_vars
=============================================================================
