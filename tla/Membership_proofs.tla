-------------------------- MODULE Membership_proofs --------------------------
(***************************************************************************)
(* Certified membership is current, for any domains, graphs and processes. *)
(***************************************************************************)
EXTENDS Membership, WellFoundedInduction, TLAPS

\* A certificate and the record of a partial failure exclude each other.
OneVerdict == cert # NoIdentity => failed.identity = NoIdentity \/ failed.whole

BasisOfDomains == basis = [d \in Domain |-> basis[d]]

IInv == /\ BasisOfDomains /\ OneVerdict
        /\ CertifiedRowsAreCurrent /\ UnfailedRowsAreCurrent

\* The rows a pass writes, and its verdict on them.
LEMMA PassKeeps ==
  ASSUME IInv, NEW p \in Process, NEW F, Pass(p, F), UNCHANGED status
  PROVE  IInv'
<1> DEFINE i == Identity(p)
           F2 == IF snap = Invalid THEN Accepted ELSE F
           new == [d \in Accepted \ F2 |->
                     MembershipOf(d, reader[p], snap, Accepted, {}, comms[d])]
<1>1. /\ basis' = [d \in Domain |-> IF d \in Accepted \ F2 THEN BasisFor(d, i)
                                                           ELSE basis[d]]
      /\ cert' = IF F2 = {} THEN i ELSE NoIdentity
      /\ failed' = IF F2 = {} THEN NoFailure ELSE [identity |-> i, ids |-> F2, whole |-> FALSE]
  <2>1. DOMAIN new = Accepted \ F2
    OBVIOUS
  <2> QED  BY <2>1 DEF Pass
<1>2. Accepted' = Accepted /\ Accepted \subseteq Domain
  BY DEF Accepted
<1> HIDE DEF i, F2
<1>3. \A d \in Accepted \ F2 : basis'[d] = BasisFor(d, i)
  BY <1>1, <1>2
<1>4. BasisOfDomains'
  BY <1>1 DEF BasisOfDomains
<1>5. CASE F2 = {}
  BY <1>1, <1>2, <1>3, <1>4, <1>5
     DEF IInv, NoFailure, OneVerdict, CertifiedRowsAreCurrent, UnfailedRowsAreCurrent, Current, BasisFor
<1>6. CASE F2 # {}
  BY <1>1, <1>2, <1>3, <1>4, <1>6
     DEF IInv, OneVerdict, CertifiedRowsAreCurrent, UnfailedRowsAreCurrent, Current, BasisFor
<1> QED  BY <1>5, <1>6

LEMMA PassFailsKeeps ==
  ASSUME IInv, NEW p \in Process, PassFails(p), UNCHANGED status
  PROVE  IInv'
BY DEF PassFails, IInv, BasisOfDomains, OneVerdict, CertifiedRowsAreCurrent,
       UnfailedRowsAreCurrent, Current, Accepted

LEMMA EnsureKeeps ==
  ASSUME IInv, NEW p \in Process, Ensure(p), UNCHANGED status
  PROVE  IInv'
<1>1. CASE UNCHANGED <<comms, rows, basis, cert, failed>>
  BY <1>1 DEF IInv, BasisOfDomains, OneVerdict, CertifiedRowsAreCurrent,
              UnfailedRowsAreCurrent, Current, Accepted
<1>2. CASE \E F \in SUBSET Accepted : Pass(p, F)
  BY <1>2, PassKeeps
<1>3. CASE PassFails(p)
  BY <1>3, PassFailsKeeps
<1> QED  BY <1>1, <1>2, <1>3 DEF Ensure

\* A step that takes the certificate and the record of failures away keeps the
\* invariant, whatever it does to the rows.
LEMMA UncertifyKeeps ==
  ASSUME Uncertify, BasisOfDomains'
  PROVE  IInv'
BY DEF Uncertify, NoFailure, IInv, OneVerdict, CertifiedRowsAreCurrent, UnfailedRowsAreCurrent

\* So does one that touches neither domains nor verdicts.
LEMMA QuietKeeps ==
  ASSUME IInv, UNCHANGED <<status, basis, cert, failed>>
  PROVE  IInv'
BY DEF IInv, BasisOfDomains, OneVerdict, CertifiedRowsAreCurrent, UnfailedRowsAreCurrent,
       Current, Accepted

LEMMA WriteDomainsKeeps ==
  ASSUME IInv, NEW new, WriteDomains(new)
  PROVE  IInv'
<1>1. BasisOfDomains'
  BY DEF WriteDomains, BasisOfDomains
<1> QED  BY <1>1, UncertifyKeeps DEF WriteDomains

LEMMA ActivateKeeps ==
  ASSUME IInv, NEW p \in Process, Activate(p)
  PROVE  IInv'
<1> DEFINE d == op[p].d
           m == MembershipOf(d, reader[p], snap, Accepted, {}, comms[d])
<1>1. CASE UNCHANGED <<index, cert, failed>>
  BY <1>1, QuietKeeps DEF index
<1>2. CASE /\ basis' = [basis EXCEPT ![d] = BasisFor(d, Identity(p))]
           /\ IF cert = Identity(p) THEN UNCHANGED <<cert, failed>> ELSE Uncertify
           /\ UNCHANGED status /\ reader[p] # None
  <2>1. BasisOfDomains'
    BY <1>2 DEF IInv, BasisOfDomains
  <2>2. CASE cert = Identity(p)
    <3>1. UNCHANGED <<cert, failed, status>> /\ Accepted' = Accepted /\ Accepted \subseteq Domain
      BY <1>2, <2>2 DEF Accepted
    <3>2. \A x \in Domain : basis'[x] = IF x = d THEN BasisFor(d, Identity(p))
                                                ELSE basis[x]
      BY <1>2 DEF IInv, BasisOfDomains
    <3>3. CertifiedRowsAreCurrent'
      BY <2>2, <3>1, <3>2 DEF IInv, CertifiedRowsAreCurrent, Current, BasisFor
    <3>4. OneVerdict' /\ (cert # NoIdentity => UnfailedRowsAreCurrent')
      BY <3>1 DEF IInv, OneVerdict, UnfailedRowsAreCurrent
    <3>5. UnfailedRowsAreCurrent'
      <4>1. CASE cert # NoIdentity
        BY <3>4, <4>1
      <4>2. CASE cert = NoIdentity
        BY <3>1, <3>2, <2>2, <1>2, <4>2 DEF Identity, NoIdentity
      <4> QED  BY <4>1, <4>2
    <3> QED  BY <2>1, <3>3, <3>4, <3>5 DEF IInv
  <2>3. CASE cert # Identity(p)
    BY <1>2, <2>1, <2>3, UncertifyKeeps
  <2> QED  BY <2>2, <2>3
<1> QED  BY <1>1, <1>2 DEF Activate

LEMMA StepKeeps == IInv /\ [Next]_vars => IInv'
<1> SUFFICES ASSUME IInv, [Next]_vars PROVE IInv'
  OBVIOUS
<1>1. CASE UNCHANGED vars
  BY <1>1, QuietKeeps DEF vars, index, marks
<1>2. CASE Git
  BY <1>2, QuietKeeps DEF Git, index, marks
<1>3. CASE Reload
  <2>1. BasisOfDomains'
    BY <1>3 DEF Reload, BasisOfDomains
  <2> QED  BY <1>3, <2>1, UncertifyKeeps DEF Reload
<1>4. CASE \E d \in Domain : Drop(d) \/ Supersede(d)
  BY <1>4, WriteDomainsKeeps DEF Drop, Supersede
<1>5. CASE \E p \in Process : Open(p)
  <2> PICK p \in Process : Open(p)
    BY <1>5
  <2>1. CASE seen = snap
    BY <2>1, QuietKeeps DEF Open, index
  <2>2. CASE seen # snap
    <3>1. BasisOfDomains'
      BY DEF Open, index, IInv, BasisOfDomains
    <3> QED  BY <2>2, <3>1, UncertifyKeeps DEF Open
  <2> QED  BY <2>1, <2>2
<1>6. CASE \E p \in Process : Activate(p)
  BY <1>6, ActivateKeeps
<1>7. CASE \E p \in Process : CapturePick(p) \/ CaptureBind(p) \/ SnapshotFreeze(p) \/ Die(p)
  BY <1>7, QuietKeeps DEF CapturePick, CaptureBind, SnapshotFreeze, Die, index, marks
<1>8. CASE \E p \in Process : SnapshotWrite(p)
  <2> PICK p \in Process : SnapshotWrite(p)
    BY <1>8
  <2>1. CASE snap = op[p].based
    <3>1. BasisOfDomains'
      BY DEF SnapshotWrite, index, IInv, BasisOfDomains
    <3> QED  BY <2>1, <3>1, UncertifyKeeps DEF SnapshotWrite
  <2>2. CASE snap # op[p].based
    BY <2>2, QuietKeeps DEF SnapshotWrite, index
  <2> QED  BY <2>1, <2>2
<1>9. CASE \E p \in Process, d \in Domain : Accept(p, d)
  BY <1>9, WriteDomainsKeeps DEF Accept
<1>10. CASE \E p \in Process, force \in BOOLEAN : Sync(p, force)
  <2> PICK p \in Process, force \in BOOLEAN : Sync(p, force)
    BY <1>10
  <2>1. CASE Ensure(p)
    BY <2>1, EnsureKeeps DEF Sync
  <2>2. CASE \E F \in SUBSET Accepted : Pass(p, F)
    BY <2>2, PassKeeps DEF Sync
  <2>3. CASE PassFails(p)
    BY <2>3, PassFailsKeeps DEF Sync
  <2> QED  BY <2>1, <2>2, <2>3 DEF Sync
<1>11. CASE \E p \in Process, n \in Node : CaptureEnsure(p, n)
  BY <1>11, EnsureKeeps DEF CaptureEnsure
<1>12. CASE \E p \in Process, refresh \in BOOLEAN, rederive \in SUBSET Domain :
              SnapshotBegin(p, refresh, rederive)
  BY <1>12, QuietKeeps DEF SnapshotBegin, index, marks
<1> QED
  BY <1>1, <1>2, <1>3, <1>4, <1>5, <1>6, <1>7, <1>8, <1>9, <1>10, <1>11, <1>12 DEF Next

LEMMA InitEstablishes == Init => IInv
BY DEF Init, IInv, NoFailure, BasisOfDomains, OneVerdict, CertifiedRowsAreCurrent,
       UnfailedRowsAreCurrent

\* What the index is certified for, the rows of every accepted domain were
\* derived from (sync._settle, Store._uncertify_membership).
THEOREM CertifiedMembership == Spec => []CertifiedRowsAreCurrent
<1>1. IInv => CertifiedRowsAreCurrent
  BY DEF IInv
<1> QED  BY InitEstablishes, StepKeeps, <1>1, PTL DEF Spec

\* After a partial failure a capture may bind from every domain that is not
\* among the failed ones (sync.membership_exclusions).
THEOREM UnfailedMembership == Spec => []UnfailedRowsAreCurrent
<1>1. IInv => UnfailedRowsAreCurrent
  BY DEF IInv
<1> QED  BY InitEstablishes, StepKeeps, <1>1, PTL DEF Spec

\* Both: whatever a capture binds from is as current as it is taken to be.
THEOREM MembershipIsCurrent == Spec => []RowsAreCurrent
<1>1. CertifiedRowsAreCurrent /\ UnfailedRowsAreCurrent => RowsAreCurrent
  BY DEF RowsAreCurrent
<1> QED  BY <1>1, CertifiedMembership, UnfailedMembership, PTL

-----------------------------------------------------------------------------
(***************************************************************************)
(* What a capture binds from.  Rows are what their basis gives             *)
(* (RowsAreDerived); the process that ensured membership keeps the         *)
(* reservation until its row is written, so only git moves meanwhile, and  *)
(* what it picked stays right (ReservationInv).                            *)
(***************************************************************************)

Derived(d) ==
  basis[d].i # NoIdentity =>
    LET m == MembershipOf(d, basis[d].i.graph, basis[d].i.snap, basis[d].accepted, {}, basis[d].old)
    IN  rows[d] = m.members /\ comms[d] = m.comms

RowsAreDerived ==
  /\ rows = [d \in Domain |-> rows[d]] /\ comms = [d \in Domain |-> comms[d]]
  /\ \A d \in Domain : Derived(d)

Picked(p) ==
  op[p].d # None =>
    LET d == op[p].d
        i == op[p].i
    IN  /\ d \in Accepted /\ Current(d, i) /\ i.graph = reader[p]
        /\ op[p].n \in MembershipOf(d, i.graph, i.snap, Accepted, {}, basis[d].old).members

ReservationInv ==
  /\ op = [p \in Process |-> op[p]]
  /\ \A p \in Process :
       /\ op[p].pc \in {"pick", "bind", "write"} => holder = p
       /\ op[p].pc = "pick" => reader[p] # None /\ op[p].n \in DOMAIN reader[p]
       /\ op[p].pc = "bind" => Picked(p)

\* A domain that owns a whole community owns each of its nodes.
LEMMA CommunitiesAreMembers ==
  ASSUME NEW d, NEW g, NEW s, NEW accepted, NEW old, NEW n \in DOMAIN g,
         g[n] \in MembershipOf(d, g, s, accepted, {}, old).comms
  PROVE  n \in MembershipOf(d, g, s, accepted, {}, old).members
BY DEF MembershipOf, RuleMembers, In, WhollyInside

LEMMA PassDerives ==
  ASSUME RowsAreDerived, BasisOfDomains, NEW p \in Process, NEW F, Pass(p, F)
  PROVE  RowsAreDerived'
<1> DEFINE F2 == IF snap = Invalid THEN Accepted ELSE F
           m(d) == MembershipOf(d, reader[p], snap, Accepted, {}, comms[d])
           new == [d \in Accepted \ F2 |-> m(d)]
<1>1. /\ comms' = [d \in Domain |-> IF d \in Accepted \ F2 THEN m(d).comms ELSE comms[d]]
      /\ rows' = [d \in Domain |-> IF d \in Accepted \ F2 THEN m(d).members ELSE rows[d]]
      /\ basis' = [d \in Domain |-> IF d \in Accepted \ F2 THEN BasisFor(d, Identity(p)) ELSE basis[d]]
  <2>1. DOMAIN new = Accepted \ F2 /\ \A d \in Accepted \ F2 : new[d] = m(d)
    OBVIOUS
  <2> QED  BY <2>1 DEF Pass
<1>2. ASSUME NEW d \in Domain PROVE Derived(d)'
  <2>1. CASE d \in Accepted \ F2
    <3>1. /\ basis'[d] = BasisFor(d, Identity(p))
          /\ rows'[d] = m(d).members /\ comms'[d] = m(d).comms
      BY <1>1, <2>1
    <3> QED  BY <3>1 DEF Derived, BasisFor, Identity
  <2>2. CASE d \notin Accepted \ F2
    <3>1. basis'[d] = basis[d] /\ rows'[d] = rows[d] /\ comms'[d] = comms[d]
      BY <1>1, <2>2
    <3> QED  BY <3>1 DEF RowsAreDerived, Derived
  <2> QED  BY <2>1, <2>2
<1>3. rows' = [d \in Domain |-> rows'[d]] /\ comms' = [d \in Domain |-> comms'[d]]
  BY <1>1
<1> QED  BY <1>2, <1>3 DEF RowsAreDerived

LEMMA QuietDerives ==
  ASSUME RowsAreDerived, UNCHANGED <<comms, rows, basis>>
  PROVE  RowsAreDerived'
BY DEF RowsAreDerived, Derived

LEMMA EnsureDerives ==
  ASSUME RowsAreDerived, BasisOfDomains, NEW p \in Process, Ensure(p)
  PROVE  RowsAreDerived'
<1>1. CASE \E F \in SUBSET Accepted : Pass(p, F)
  BY <1>1, PassDerives
<1>2. CASE UNCHANGED <<comms, rows, basis>>
  BY <1>2, QuietDerives
<1> QED  BY <1>1, <1>2 DEF Ensure, PassFails

LEMMA WriteDomainsDerives ==
  ASSUME RowsAreDerived, NEW new, WriteDomains(new)
  PROVE  RowsAreDerived'
<1>1. ASSUME NEW d \in Domain PROVE Derived(d)'
  <2>1. CASE new[d] = status[d]
    <3>1. basis'[d] = basis[d] /\ rows'[d] = rows[d] /\ comms'[d] = comms[d]
      BY <2>1 DEF WriteDomains
    <3> QED  BY <3>1 DEF RowsAreDerived, Derived
  <2>2. CASE new[d] # status[d]
    BY <2>2 DEF WriteDomains, Derived, NoBasis
  <2> QED  BY <2>1, <2>2
<1>2. rows' = [d \in Domain |-> rows'[d]] /\ comms' = [d \in Domain |-> comms'[d]]
  BY DEF WriteDomains, RowsAreDerived
<1> QED  BY <1>1, <1>2 DEF RowsAreDerived

LEMMA ActivateDerives ==
  ASSUME RowsAreDerived, BasisOfDomains, NEW p \in Process, Activate(p)
  PROVE  RowsAreDerived'
<1> DEFINE d == op[p].d
           m == MembershipOf(d, reader[p], snap, Accepted, {}, comms[d])
<1>1. CASE UNCHANGED index
  BY <1>1, QuietDerives DEF index
<1>2. CASE /\ comms' = [comms EXCEPT ![d] = m.comms]
           /\ rows' = [rows EXCEPT ![d] = m.members]
           /\ basis' = [basis EXCEPT ![d] = BasisFor(d, Identity(p))]
  <2>1. ASSUME NEW x \in Domain PROVE Derived(x)'
    <3>1. CASE x = d
      <4>1. basis'[x] = BasisFor(x, Identity(p)) /\ rows'[x] = m.members /\ comms'[x] = m.comms
        BY <1>2, <3>1 DEF RowsAreDerived, BasisOfDomains
      <4> QED  BY <3>1, <4>1 DEF Derived, BasisFor, Identity
    <3>2. CASE x # d
      <4>1. basis'[x] = basis[x] /\ rows'[x] = rows[x] /\ comms'[x] = comms[x]
        BY <1>2, <3>2 DEF RowsAreDerived, BasisOfDomains
      <4> QED  BY <4>1 DEF RowsAreDerived, Derived
    <3> QED  BY <3>1, <3>2
  <2>2. rows' = [x \in Domain |-> rows'[x]] /\ comms' = [x \in Domain |-> comms'[x]]
    BY <1>2 DEF RowsAreDerived
  <2> QED  BY <2>1, <2>2 DEF RowsAreDerived
<1> QED  BY <1>1, <1>2 DEF Activate

LEMMA StepDerives == RowsAreDerived /\ BasisOfDomains /\ [Next]_vars => RowsAreDerived'
<1> SUFFICES ASSUME RowsAreDerived, BasisOfDomains, [Next]_vars PROVE RowsAreDerived'
  OBVIOUS
<1>1. CASE UNCHANGED vars
  BY <1>1, QuietDerives DEF vars, index
<1>2. CASE Git
  BY <1>2, QuietDerives DEF Git, index
<1>3. CASE Reload
  BY <1>3 DEF Reload, RowsAreDerived, Derived, NoBasis
<1>4. CASE \E d \in Domain : Drop(d) \/ Supersede(d)
  BY <1>4, WriteDomainsDerives DEF Drop, Supersede
<1>5. CASE \E p \in Process : Activate(p)
  BY <1>5, ActivateDerives
<1>6. CASE \E p \in Process : Open(p) \/ CapturePick(p) \/ CaptureBind(p) \/ SnapshotFreeze(p)
                              \/ SnapshotWrite(p) \/ Die(p)
  BY <1>6, QuietDerives DEF Open, CapturePick, CaptureBind, SnapshotFreeze, SnapshotWrite, Die, index
<1>7. CASE \E p \in Process, d \in Domain : Accept(p, d)
  BY <1>7, WriteDomainsDerives DEF Accept
<1>8. CASE \E p \in Process, force \in BOOLEAN : Sync(p, force)
  <2> PICK p \in Process, force \in BOOLEAN : Sync(p, force)
    BY <1>8
  <2>1. CASE \E F \in SUBSET Accepted : Pass(p, F)
    BY <2>1, PassDerives
  <2>2. CASE Ensure(p) \/ PassFails(p)
    BY <2>2, EnsureDerives, QuietDerives DEF PassFails
  <2> QED  BY <2>1, <2>2 DEF Sync
<1>9. CASE \E p \in Process, n \in Node : CaptureEnsure(p, n)
  BY <1>9, EnsureDerives DEF CaptureEnsure
<1>10. CASE \E p \in Process, refresh \in BOOLEAN, rederive \in SUBSET Domain :
              SnapshotBegin(p, refresh, rederive)
  BY <1>10, QuietDerives DEF SnapshotBegin, index
<1> QED
  BY <1>1, <1>2, <1>3, <1>4, <1>5, <1>6, <1>7, <1>8, <1>9, <1>10 DEF Next

Reserved(p) ==
  /\ op[p].pc \in {"pick", "bind", "write"} => holder = p
  /\ op[p].pc = "pick" => reader[p] # None /\ op[p].n \in DOMAIN reader[p]
  /\ op[p].pc = "bind" => Picked(p)

\* While nobody holds the reservation a call of q may do anything to the index.
LEMMA FreeStep ==
  ASSUME ReservationInv, holder = None,
         op' = op \/ \E q \in Process : \E o : op' = [op EXCEPT ![q] = o] /\ Reserved(q)'
  PROVE  ReservationInv'
<1>1. \A p \in Process : op[p].pc \notin {"pick", "bind", "write"}
  BY Typing DEF ReservationInv
<1>2. CASE op' = op
  BY <1>1, <1>2 DEF ReservationInv
<1>3. ASSUME NEW q \in Process, NEW o, op' = [op EXCEPT ![q] = o], Reserved(q)'
      PROVE  ReservationInv'
  <2>1. \A p \in Process : p # q => op'[p] = op[p]
    BY <1>3 DEF ReservationInv
  <2>2. ASSUME NEW p \in Process PROVE Reserved(p)'
    BY <1>1, <1>3, <2>1 DEF Reserved
  <2>3. op' = [p \in Process |-> op'[p]]
    BY <1>3 DEF ReservationInv
  <2> QED  BY <2>2, <2>3 DEF ReservationInv, Reserved
<1> QED  BY <1>2, <1>3

\* What leaves the index alone keeps what the others hold.
LEMMA QuietStep ==
  ASSUME ReservationInv, NEW q \in Process, NEW o, op' = [op EXCEPT ![q] = o], Reserved(q)',
         UNCHANGED <<status, basis, reader>>, holder' = holder \/ holder \in {q, None}
  PROVE  ReservationInv'
<1>1. \A p \in Process : p # q => op'[p] = op[p]
  BY DEF ReservationInv
<1>2. ASSUME NEW p \in Process PROVE Reserved(p)'
  <2>1. CASE p = q
    BY <2>1
  <2>2. CASE p # q
    <3>1. Reserved(p) /\ op'[p] = op[p]
      BY <1>1, <2>2 DEF ReservationInv, Reserved
    <3>2. op[p].pc \in {"pick", "bind", "write"} => holder' = holder
      BY <2>2, <3>1, Typing DEF Reserved
    <3>3. Accepted' = Accepted
      BY DEF Accepted
    <3>4. Picked(p) => Picked(p)'
      BY <3>1, <3>3 DEF Picked, Current
    <3> QED  BY <3>1, <3>2, <3>4 DEF Reserved
  <2> QED  BY <2>1, <2>2
<1>3. op' = [p \in Process |-> op'[p]]
  BY DEF ReservationInv
<1> QED  BY <1>2, <1>3 DEF ReservationInv, Reserved

LEMMA PickIsRight ==
  ASSUME IInv, RowsAreDerived, ReservationInv, NEW p \in Process, CapturePick(p)
  PROVE  ReservationInv'
<1> DEFINE n == op[p].n
           i == Identity(p)
           found == {d \in Accepted \ Exclusions(i) : n \in rows[d] \/ reader[p][n] \in comms[d]}
           bind(d) == [pc |-> "bind", n |-> n, d |-> d, i |-> i]
<1>1. /\ op[p].pc = "pick" /\ holder = p /\ reader[p] # None /\ n \in DOMAIN reader[p]
      /\ UNCHANGED <<status, basis, reader, holder, comms, rows>>
      /\ \/ op' = [op EXCEPT ![p] = bind(None)]
         \/ \E d \in found : op' = [op EXCEPT ![p] = bind(d)]
  BY DEF CapturePick, ReservationInv, index
<1>2. op = [q \in Process |-> op[q]]
  BY DEF ReservationInv
<1>3. CASE op' = [op EXCEPT ![p] = bind(None)]
  <2>1. op'[p] = bind(None)
    BY <1>2, <1>3
  <2>2. Reserved(p)'
    BY <1>1, <2>1 DEF Reserved, Picked
  <2> QED  BY <1>1, <1>3, <2>2, QuietStep
<1>4. ASSUME NEW d \in found, op' = [op EXCEPT ![p] = bind(d)]
      PROVE  ReservationInv'
  <2>1. d \in Accepted /\ d \in Domain /\ i # NoIdentity /\ Accepted' = Accepted
    BY <1>1 DEF Accepted, Identity, NoIdentity
  <2>2. Current(d, i)
    <3>1. CASE cert = i
      BY <2>1, <3>1 DEF IInv, CertifiedRowsAreCurrent
    <3>2. CASE cert # i
      <4>1. FailedFor(i) /\ ~failed.whole /\ d \notin failed.ids
        BY <2>1, <3>2 DEF Exclusions
      <4> QED  BY <2>1, <4>1 DEF FailedFor, IInv, UnfailedRowsAreCurrent
    <3> QED  BY <3>1, <3>2
  <2>3. n \in MembershipOf(d, i.graph, i.snap, Accepted, {}, basis[d].old).members
    <3> DEFINE m == MembershipOf(d, i.graph, i.snap, Accepted, {}, basis[d].old)
    <3>1. rows[d] = m.members /\ comms[d] = m.comms
      BY <2>1, <2>2 DEF RowsAreDerived, Derived, Current
    <3>2. i.graph = reader[p]
      BY DEF Identity
    <3>3. n \in rows[d] \/ i.graph[n] \in comms[d]
      BY <3>2
    <3> QED  BY <1>1, <3>1, <3>2, <3>3, CommunitiesAreMembers
  <2>4. op'[p] = bind(d) /\ i.graph = reader[p]
    BY <1>2, <1>4 DEF Identity
  <2>5. Picked(p)'
    <3> HIDE DEF i
    <3> QED  BY <1>1, <2>1, <2>2, <2>3, <2>4 DEF Picked, Current
  <2>6. Reserved(p)'
    BY <1>1, <2>4, <2>5 DEF Reserved
  <2> QED  BY <1>1, <1>4, <2>6, QuietStep
<1> QED  BY <1>1, <1>3, <1>4

LEMMA StepReserves ==
  IInv /\ RowsAreDerived /\ ReservationInv /\ [Next]_vars => ReservationInv'
<1> SUFFICES ASSUME IInv, RowsAreDerived, ReservationInv, [Next]_vars PROVE ReservationInv'
  OBVIOUS
<1>f. op = [q \in Process |-> op[q]]
  BY DEF ReservationInv
<1>1. CASE UNCHANGED <<op, reader, holder, status, basis>>
  <2>1. Accepted' = Accepted
    BY <1>1 DEF Accepted
  <2>2. \A p \in Process : Picked(p) => Picked(p)'
    BY <1>1, <2>1 DEF Picked, Current
  <2> QED  BY <1>1, <2>2 DEF ReservationInv
<1>2. CASE Reload \/ \E d \in Domain : Drop(d) \/ Supersede(d)
  BY <1>2, FreeStep DEF Reload, Drop, Supersede
<1>3. CASE \E p \in Process : Open(p) \/ \E force \in BOOLEAN : Sync(p, force)
  BY <1>3, FreeStep DEF Open, Sync
<1>4. ASSUME NEW p \in Process, Activate(p) \/ \E d \in Domain : Accept(p, d)
      PROVE  ReservationInv'
  <2>1. PICK o : op' = [op EXCEPT ![p] = o] /\ o.pc \in {"idle", "activate"} /\ holder = None
    BY <1>4 DEF Activate, Accept, Idle
  <2>2. Reserved(p)'
    BY <1>f, <2>1 DEF Reserved
  <2> QED  BY <2>1, <2>2, FreeStep
<1>5. ASSUME NEW p \in Process, NEW n \in Node, CaptureEnsure(p, n)
      PROVE  ReservationInv'
  <2>1. /\ op' = [op EXCEPT ![p] = [pc |-> "pick", n |-> n]] /\ holder = None /\ holder' = p
        /\ reader' = reader /\ reader[p] # None /\ n \in DOMAIN reader[p]
    BY <1>5 DEF CaptureEnsure
  <2>2. Reserved(p)'
    BY <1>f, <2>1 DEF Reserved
  <2> QED  BY <2>1, <2>2, FreeStep
<1>6. ASSUME NEW p \in Process, SnapshotFreeze(p)
      PROVE  ReservationInv'
  <2>1. PICK o : /\ op' = [op EXCEPT ![p] = o] /\ holder = None
                 /\ \/ o.pc = "idle"
                    \/ o.pc = "write" /\ holder' = p
    BY <1>6 DEF SnapshotFreeze, Idle
  <2>2. Reserved(p)'
    BY <1>f, <2>1 DEF Reserved
  <2> QED  BY <2>1, <2>2, FreeStep
<1>7. ASSUME NEW p \in Process, CapturePick(p)
      PROVE  ReservationInv'
  BY <1>7, PickIsRight
<1>8. ASSUME NEW p \in Process, CaptureBind(p) \/ SnapshotWrite(p) \/ Die(p)
      PROVE  ReservationInv'
  <2>1. /\ op' = [op EXCEPT ![p] = Idle] /\ UNCHANGED <<status, basis, reader>>
        /\ holder' = holder \/ holder = p
    BY <1>8 DEF CaptureBind, SnapshotWrite, Die, index, ReservationInv
  <2>2. Reserved(p)'
    BY <1>f, <2>1 DEF Reserved, Idle
  <2> QED  BY <2>1, <2>2, QuietStep
<1>9. ASSUME NEW p \in Process, NEW refresh \in BOOLEAN, NEW rederive \in SUBSET Domain,
             SnapshotBegin(p, refresh, rederive)
      PROVE  ReservationInv'
  <2>1. PICK o : /\ op' = [op EXCEPT ![p] = o] /\ o.pc = "freeze"
                 /\ UNCHANGED <<status, basis, reader, holder>>
    BY <1>9 DEF SnapshotBegin, index
  <2>2. Reserved(p)'
    BY <1>f, <2>1 DEF Reserved
  <2> QED  BY <2>1, <2>2, QuietStep
<1>10. CASE Git \/ UNCHANGED vars
  BY <1>1, <1>10 DEF Git, vars, index
<1> QED
  BY <1>2, <1>3, <1>4, <1>5, <1>6, <1>7, <1>8, <1>9, <1>10 DEF Next

BoundRight(n, d) ==
  \E p \in Process :
     /\ holder = p /\ status[d] = "accepted" /\ Current(d, Identity(p))
     /\ n \in MembershipOf(d, reader[p], snap, Accepted, {}, basis[d].old).members

LEMMA BindIsRight ==
  ASSUME ReservationInv, [Next]_vars, NEW n \in Node, NEW d \in Domain, <<n, d>> \in bound' \ bound
  PROVE  BoundRight(n, d)
<1>1. PICK p \in Process : CaptureBind(p)
  BY DEF Next, vars, Git, Reload, Drop, Supersede, WriteDomains, Open, Activate, CapturePick,
         SnapshotFreeze, SnapshotWrite, Die, Accept, Sync, CaptureEnsure, SnapshotBegin
<1>2. /\ op[p].pc = "bind" /\ op[p].d # None /\ Identity(p) = op[p].i
      /\ n = op[p].n /\ d = op[p].d
  BY <1>1 DEF CaptureBind
<1>3. holder = p /\ Picked(p)
  BY <1>2 DEF ReservationInv
<1>4. op[p].i.graph = reader[p] /\ op[p].i.snap = snap
  BY <1>2 DEF Identity
<1> QED  BY <1>2, <1>3, <1>4 DEF Picked, BoundRight, Accepted

LEMMA InitReserves == Init => RowsAreDerived /\ ReservationInv
BY DEF Init, RowsAreDerived, Derived, NoBasis, ReservationInv, Idle

\* What a record takes from a domain is right when it is written, whatever git
\* wrote since the pass and the pick (sync.membership_exclusions, Store.capture).
THEOREM CapturesBindFromDisk == Spec => BindsFromWhatIsOnDisk
<1>1. Spec => [](IInv /\ RowsAreDerived /\ ReservationInv)
  <2>1. Init => IInv /\ RowsAreDerived /\ ReservationInv
    BY InitEstablishes, InitReserves
  <2>2. IInv /\ RowsAreDerived /\ ReservationInv /\ [Next]_vars
          => IInv' /\ RowsAreDerived' /\ ReservationInv'
    <3>1. IInv => BasisOfDomains
      BY DEF IInv
    <3> QED  BY <3>1, StepKeeps, StepDerives, StepReserves
  <2> QED  BY <2>1, <2>2, PTL DEF Spec
<1>2. ReservationInv /\ [Next]_vars =>
        [\A n \in Node, d \in Domain : <<n, d>> \in bound' \ bound => BoundRight(n, d)]_vars
  BY BindIsRight
<1> QED  BY <1>1, <1>2, PTL DEF Spec, BindsFromWhatIsOnDisk, BoundRight

-----------------------------------------------------------------------------
(***************************************************************************)
(* What a refresh freezes.  In the new file every accepted domain is       *)
(* covered by itself, so a derivation from it reads the domain's entries.  *)
(***************************************************************************)

LEMMA LeastOf ==
  ASSUME NEW S \in SUBSET Nat, S # {}
  PROVE  \E k \in S : \A x \in S : x >= k
<1> DEFINE R == OpToRel(<, Nat)
<1>1. IsWellFoundedOn(R, Nat)
  BY NatLessThanWellFounded
<1>2. \A x, y \in Nat : <<x, y>> \in R <=> x < y
  BY DEF OpToRel
<1> HIDE DEF R
<1>3. PICK k \in S : \A x \in S : ~(<<x, k>> \in R)
  BY <1>1, WFMin
<1>4. \A x \in S : x \in Nat /\ k \in Nat /\ ~(x < k)
  BY <1>2, <1>3
<1> QED  BY <1>4

\* The walk from a domain to the covered one it descends from.
UpFrom(f, C, x) == IF x \in C THEN x ELSE IF Pred[x] = None THEN None ELSE f[Pred[x]]
UpTo(f, C, k) ==
  /\ f = [x \in Domain \cap (0 .. k) |-> f[x]]
  /\ \A x \in Domain \cap (0 .. k) : f[x] = UpFrom(f, C, x)

LEMMA WalksAgree ==
  ASSUME NEW C, NEW j \in Nat, NEW k \in Nat, NEW f, NEW g, UpTo(f, C, j), UpTo(g, C, k)
  PROVE  \A x \in Domain : x <= j /\ x <= k => f[x] = g[x]
<1> DEFINE S == {x \in Domain : x <= j /\ x <= k /\ f[x] # g[x]}
<1>1. SUFFICES ASSUME S # {} PROVE FALSE
  OBVIOUS
<1>2. S \in SUBSET Nat
  BY Typing
<1>3. PICK x \in S : \A y \in S : y >= x
  BY <1>1, <1>2, LeastOf
<1>4. x \in Nat /\ x \in Domain \cap (0 .. j) /\ x \in Domain \cap (0 .. k)
  BY <1>2
<1>5. f[x] = UpFrom(f, C, x) /\ g[x] = UpFrom(g, C, x)
  BY <1>4 DEF UpTo
<1>6. CASE Pred[x] = None
  BY <1>5, <1>6 DEF UpFrom
<1>7. CASE Pred[x] # None
  <2>1. Pred[x] \in Domain /\ Pred[x] \in Nat /\ Pred[x] < x
    BY <1>4, <1>7, Typing
  <2>2. f[Pred[x]] = g[Pred[x]]
    BY <1>3, <1>4, <2>1
  <2> QED  BY <1>5, <2>2 DEF UpFrom
<1> QED  BY <1>6, <1>7

LEMMA WalksExist ==
  ASSUME NEW C
  PROVE  \A k \in Nat : \E f : UpTo(f, C, k)
<1> DEFINE S == {k \in Nat : ~ \E f : UpTo(f, C, k)}
<1>1. SUFFICES ASSUME S # {} PROVE FALSE
  OBVIOUS
<1>2. PICK k \in S : \A j \in S : j >= k
  BY <1>1, LeastOf
<1>3. CASE k = 0
  <2> DEFINE f == [x \in Domain \cap (0 .. k) |-> IF x \in C THEN x ELSE None]
  <2>1. \A x \in Domain \cap (0 .. k) : x \in Domain /\ x = 0 /\ Pred[x] = None
    BY <1>3, Typing
  <2>2. \A x \in Domain \cap (0 .. k) : f[x] = UpFrom(f, C, x)
    BY <2>1 DEF UpFrom
  <2>3. UpTo(f, C, k)
    BY <2>2 DEF UpTo
  <2> QED  BY <2>3
<1>4. CASE k # 0
  <2>1. k - 1 \in Nat /\ k \in Nat
    BY <1>4
  <2>2. PICK g : UpTo(g, C, k - 1)
    BY <1>2, <2>1
  <2> DEFINE f == [x \in Domain \cap (0 .. k) |-> IF x <= k - 1 THEN g[x] ELSE UpFrom(g, C, x)]
  <2>3. ASSUME NEW x \in Domain \cap (0 .. k) PROVE f[x] = UpFrom(f, C, x)
    <3>1. f[x] = UpFrom(g, C, x)
      <4>1. CASE x <= k - 1
        BY <2>1, <2>2, <4>1 DEF UpTo
      <4>2. CASE ~(x <= k - 1)
        BY <4>2
      <4> QED  BY <4>1, <4>2
    <3>2. Pred[x] # None => f[Pred[x]] = g[Pred[x]]
      <4>1. SUFFICES ASSUME Pred[x] # None PROVE f[Pred[x]] = g[Pred[x]]
        OBVIOUS
      <4>2. Pred[x] \in Domain /\ Pred[x] \in Nat /\ Pred[x] <= k - 1 /\ Pred[x] \in 0 .. k
        BY <2>1, <4>1, Typing
      <4> QED  BY <4>2
    <3> HIDE DEF f
    <3> QED  BY <3>1, <3>2 DEF UpFrom
  <2>4. UpTo(f, C, k)
    <3>1. f = [x \in Domain \cap (0 .. k) |-> f[x]]
      OBVIOUS
    <3> HIDE DEF f
    <3> QED  BY <2>3, <3>1 DEF UpTo
  <2> HIDE DEF f
  <2> QED  BY <2>4
<1> QED  BY <1>3, <1>4

LEMMA CoveredIsItsOwnSlug ==
  ASSUME NEW s, NEW d \in Domain, d \in s.covered
  PROVE  SnapshotSlug(d, s) = d
<1> DEFINE C == s.covered
           W(x) == CHOOSE f : UpTo(f, C, x)
           F == [x \in Domain |-> W(x)[x]]
           IsUp(up) == up = [x \in Domain |-> IF x \in C THEN x
                                              ELSE IF Pred[x] = None THEN None ELSE up[Pred[x]]]
<1>1. \A x \in Domain : x \in Nat /\ UpTo(W(x), C, x)
  BY WalksExist, Typing
<1>2. ASSUME NEW x \in Domain PROVE F[x] = UpFrom(F, C, x)
  <2>1. F[x] = UpFrom(W(x), C, x)
    BY <1>1 DEF UpTo
  <2>2. CASE Pred[x] = None
    BY <2>1, <2>2 DEF UpFrom
  <2>3. CASE Pred[x] # None
    <3>1. Pred[x] \in Domain /\ Pred[x] \in Nat /\ Pred[x] <= x
      BY <1>1, <2>3, Typing
    <3>2. W(x)[Pred[x]] = W(Pred[x])[Pred[x]]
      <4>1. UpTo(W(x), C, x) /\ UpTo(W(Pred[x]), C, Pred[x]) /\ x \in Nat
        BY <1>1, <3>1
      <4> HIDE DEF W, C
      <4> QED  BY <3>1, <4>1, WalksAgree
    <3>3. F[Pred[x]] = W(x)[Pred[x]]
      BY <3>1, <3>2
    <3> QED  BY <2>1, <3>3 DEF UpFrom
  <2> QED  BY <2>2, <2>3
<1>3. IsUp(F)
  <2>1. F = [x \in Domain |-> F[x]]
    OBVIOUS
  <2> HIDE DEF F
  <2> QED  BY <1>2, <2>1 DEF UpFrom
<1>4. IsUp(CHOOSE up : IsUp(up))
  <2> HIDE DEF IsUp, F
  <2> QED  BY <1>3
<1>5. SnapshotSlug(d, s) = (CHOOSE up : IsUp(up))[d]
  BY DEF SnapshotSlug
<1> QED  BY <1>4, <1>5

LEMMA MembersAreNodes ==
  ASSUME NEW d, NEW g, NEW s, NEW accepted, NEW old
  PROVE  MembershipOf(d, g, s, accepted, {}, old).members \subseteq DOMAIN g
BY DEF MembershipOf, RuleMembers, In

\* What a domain has under a file in which every accepted domain has entries of
\* its own for every node.
LEMMA FrozenMembers ==
  ASSUME NEW s, NEW accepted \in SUBSET Domain, NEW g, NEW d \in accepted, NEW own,
         s.covered = accepted, s # Absent, DOMAIN s.entry = DOMAIN g,
         own \subseteq DOMAIN g, \A n \in DOMAIN g : d \in s.entry[n] <=> n \in own
  PROVE  MembershipOf(d, g, s, accepted, {}, {}).members = own
<1>1. \A x \in accepted : SnapshotSlug(x, s) = x
  BY CoveredIsItsOwnSlug
<1>2. Parts(d, s, accepted) = {d}
  BY <1>1 DEF Parts
<1>3. FrozenSlug(d, s, accepted, {}) = d
  <2>1. SnapshotSlug(d, s) = d /\ d # None
    BY <1>1, Typing
  <2> QED  BY <1>2, <2>1 DEF FrozenSlug
<1>4. Listed(s, g) = DOMAIN g
  BY DEF Listed
<1>5. \A n \in DOMAIN g : d \in Recorded(n, s, g) <=> n \in own
  BY <1>4 DEF Recorded
<1>6. MembershipOf(d, g, s, accepted, {}, {}).members
        = {n \in DOMAIN g : d \in Recorded(n, s, g)} \cup ((Prefix[d] \cap DOMAIN g) \ Listed(s, g))
  <2>1. d # None
    BY Typing
  <2> QED  BY <1>3, <2>1 DEF MembershipOf
<1> QED  BY <1>4, <1>5, <1>6

\* A refresh that names no domain covers every accepted one, with the members
\* it has now.
LEMMA RefreshFreezes ==
  ASSUME NEW g, NEW s, NEW refresh, NEW olds, NEW d \in Accepted
  PROVE  LET base == IF refresh THEN s ELSE Absent
         IN  MembershipOf(d, g, SnapshotOf(g, s, Accepted, refresh, {}, olds), Accepted, {}, {}).members
               = MembershipOf(d, g, base, Accepted, {}, olds[d]).members
<1> DEFINE base == IF refresh THEN s ELSE Absent
           members == [x \in Accepted |-> MembershipOf(x, g, base, Accepted, {}, olds[x]).members]
           entry == [n \in DOMAIN g |-> {x \in Accepted : n \in members[x]}]
           new == [kind |-> "snapshot", covered |-> Accepted, entry |-> entry]
<1>1. SnapshotOf(g, s, Accepted, refresh, {}, olds) = new
  <2>1. {x \in Accepted : \/ ~refresh \/ {} = {} \/ x \in {}
                          \/ base # Absent /\ FrozenSlug(x, base, Accepted, {}) # None} = Accepted
    OBVIOUS
  <2> QED  BY <2>1 DEF SnapshotOf
<1>2. /\ Accepted \in SUBSET Domain /\ new.covered = Accepted /\ new # Absent
      /\ DOMAIN new.entry = DOMAIN g
  <2>1. new.kind # Absent.kind
    BY DEF Absent
  <2> QED  BY <2>1 DEF Accepted
<1>3. members[d] = MembershipOf(d, g, base, Accepted, {}, olds[d]).members
  OBVIOUS
<1>4. \A n \in DOMAIN g : d \in new.entry[n] <=> n \in members[d]
  OBVIOUS
<1>5. members[d] \subseteq DOMAIN g
  BY <1>3, MembersAreNodes
<1>6. MembershipOf(d, g, new, Accepted, {}, {}).members = members[d]
  <2> HIDE DEF new, members
  <2> QED  BY <1>2, <1>4, <1>5, FrozenMembers
<1> QED  BY <1>1, <1>3, <1>6

KeptByRefresh(p) ==
  op[p].pc = "freeze" /\ op'[p].pc = "write" /\ op[p].rederive = {}
    => LET new == op'[p].new
           old == IF op[p].refresh THEN snap ELSE Absent
       IN  \A d \in Accepted : \E c \in {comms[d], {}} :
             MembershipOf(d, reader[p], new, Accepted, {}, {}).members
               = MembershipOf(d, reader[p], old, Accepted, {}, c).members

LEMMA FreezeKeeps ==
  ASSUME RowsAreDerived, ReservationInv, [Next]_vars, NEW p \in Process
  PROVE  KeptByRefresh(p)
<1> SUFFICES ASSUME op[p].pc = "freeze", op'[p].pc = "write", op[p].rederive = {}, NEW d \in Accepted
             PROVE  \E c \in {comms[d], {}} :
                       MembershipOf(d, reader[p], op'[p].new, Accepted, {}, {}).members
                         = MembershipOf(d, reader[p], IF op[p].refresh THEN snap ELSE Absent,
                                        Accepted, {}, c).members
  BY DEF KeptByRefresh
<1>f. op = [q \in Process |-> op[q]] /\ d \in Domain
  BY DEF ReservationInv, Accepted
<1>1. SnapshotFreeze(p)
  <2>1. op' # op
    OBVIOUS
  <2>2. ASSUME NEW q \in Process, NEW o, op' = [op EXCEPT ![q] = o]
        PROVE  q = p /\ o = op'[p]
    BY <1>f, <2>1, <2>2
  <2>3. ASSUME NEW q \in Process, Activate(q) \/ CapturePick(q) \/ CaptureBind(q) \/ SnapshotWrite(q)
                                  \/ Die(q) \/ \E x \in Domain : Accept(q, x)
        PROVE  FALSE
    <3>1. CASE CapturePick(q)
      <4> DEFINE bind(x) == [pc |-> "bind", n |-> op[q].n, d |-> x, i |-> Identity(q)]
      <4>1. op' = [op EXCEPT ![q] = bind(None)] \/ \E x \in Accepted : op' = [op EXCEPT ![q] = bind(x)]
        BY <3>1 DEF CapturePick
      <4>2. PICK x : op' = [op EXCEPT ![q] = bind(x)]
        BY <4>1
      <4> QED  BY <2>2, <4>2
    <3>2. CASE Activate(q) \/ CaptureBind(q) \/ SnapshotWrite(q) \/ Die(q)
      <4>1. op' = [op EXCEPT ![q] = Idle]
        BY <3>2 DEF Activate, CaptureBind, SnapshotWrite, Die
      <4> QED  BY <2>2, <4>1 DEF Idle
    <3>3. ASSUME NEW x \in Domain, Accept(q, x)
          PROVE  FALSE
      <4>1. op' = [op EXCEPT ![q] = [pc |-> "activate", d |-> x]]
        BY <3>3 DEF Accept
      <4> QED  BY <2>2, <4>1
    <3> QED  BY <2>3, <3>1, <3>2, <3>3
  <2>4. ASSUME NEW q \in Process, \/ \E n \in Node : CaptureEnsure(q, n)
                                  \/ \E refresh \in BOOLEAN, rederive \in SUBSET Domain :
                                        SnapshotBegin(q, refresh, rederive)
        PROVE  FALSE
    <3>1. \E o : op' = [op EXCEPT ![q] = o] /\ o.pc \in {"pick", "freeze"}
      BY <2>4 DEF CaptureEnsure, SnapshotBegin
    <3> QED  BY <2>2, <3>1
  <2>5. ASSUME NEW q \in Process, SnapshotFreeze(q)
        PROVE  q = p
    <3>1. \E o : op' = [op EXCEPT ![q] = o]
      BY <2>5 DEF SnapshotFreeze
    <3> QED  BY <2>2, <3>1
  <2>6. ~(Git \/ Reload \/ (\E x \in Domain : Drop(x) \/ Supersede(x)) \/ UNCHANGED vars)
    BY <2>1 DEF Git, Reload, Drop, Supersede, vars
  <2>7. ~ \E q \in Process : Open(q) \/ \E force \in BOOLEAN : Sync(q, force)
    BY <2>1 DEF Open, Sync
  <2> QED  BY <2>3, <2>4, <2>5, <2>6, <2>7 DEF Next
<1>2. PICK olds \in {comms, [x \in Domain |-> {}]} :
         op'[p].new = SnapshotOf(reader[p], snap, Accepted, op[p].refresh, {}, olds)
  BY <1>1, <1>f DEF SnapshotFreeze, Idle
<1>3. olds[d] \in {comms[d], {}}
  BY <1>2, <1>f
<1>4. MembershipOf(d, reader[p], op'[p].new, Accepted, {}, {}).members
        = MembershipOf(d, reader[p], IF op[p].refresh THEN snap ELSE Absent, Accepted, {}, olds[d]).members
  BY <1>2, RefreshFreezes
<1> QED  BY <1>3, <1>4

\* A refresh that names no domain keeps every accepted domain's members over
\* its graph (domain_snapshot.build, CodeGraphSync.take_snapshot).
THEOREM RefreshesKeepMembership == Spec => RefreshKeepsMembership
<1>1. Spec => [](RowsAreDerived /\ ReservationInv)
  <2>1. Init => IInv /\ RowsAreDerived /\ ReservationInv
    BY InitEstablishes, InitReserves
  <2>2. IInv /\ RowsAreDerived /\ ReservationInv /\ [Next]_vars
          => IInv' /\ RowsAreDerived' /\ ReservationInv'
    <3>1. IInv => BasisOfDomains
      BY DEF IInv
    <3> QED  BY <3>1, StepKeeps, StepDerives, StepReserves
  <2> QED  BY <2>1, <2>2, PTL DEF Spec
<1>2. RowsAreDerived /\ ReservationInv /\ [Next]_vars => [\A p \in Process : KeptByRefresh(p)]_vars
  BY FreezeKeeps
<1> QED  BY <1>1, <1>2, PTL DEF Spec, RefreshKeepsMembership, KeptByRefresh

=============================================================================
