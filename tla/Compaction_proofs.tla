------------------------- MODULE Compaction_proofs -------------------------
(***************************************************************************)
(* Compaction neither loses a record nor shows through to a reader, for any *)
(* number of domains, slugs, segments and crashes, in two clones.           *)
(*                                                                         *)
(* A record is kept by a clone if it has a hot file or an archived line.     *)
(* Two facts make that stable: what the common base had and a clone's files  *)
(* have not is archived there (so the deletion a merge brings comes with the *)
(* segment that justifies it), and what an index holds, however stale, is    *)
(* kept (so a compaction archives no record that is not already read).       *)
(***************************************************************************)
EXTENDS Compaction, WellFoundedInduction, TLAPS

Kept(c, d) == hot[c][d] # Unwritten \/ d \in Archived(archive[c])

BaseKept ==
    \A c \in Clones, d \in Domains : base[d] # Unwritten => Kept(c, d)

IndexKept ==
    \A c \in Clones, d \in Domains : index[c][d] # Unwritten => Kept(c, d)

(* A segment name stands for one content in every clone that has it. *)
NamesOneContent ==
    \A a, b \in Clones, n \in Names :
        archive[a][n] = NoRows \/ archive[b][n] = NoRows \/ archive[a][n] = archive[b][n]

CompactionInv == TypeOK /\ BaseKept /\ IndexKept /\ NamesOneContent

KeepsAll == \A c \in Clones, d \in Domains : Kept(c, d) => Kept(c, d)'

-----------------------------------------------------------------------------
(* Helpers. *)

LEMMA LeastName ==
    ASSUME NEW S, S \subseteq Nat, S # {}
    PROVE  \E n \in S : \A k \in S : n <= k
<1> DEFINE R == OpToRel(<, Nat)
<1>1. IsWellFoundedOn(R, Nat)
  BY NatLessThanWellFounded
<1>2. \A x, y \in Nat : <<x, y>> \in R <=> x < y
  BY DEF OpToRel
<1> HIDE DEF R
<1>3. PICK n \in S : \A k \in S : ~(<<k, n>> \in R)
  BY <1>1, WFMin
<1>4. ASSUME NEW k \in S PROVE n <= k
  <2>1. n \in Nat /\ k \in Nat
    OBVIOUS
  <2>2. ~(<<k, n>> \in R)
    BY <1>3
  <2>3. ~(k < n)
    BY <1>2, <2>1, <2>2, Zenon
  <2> QED BY <2>1, <2>3
<1> QED BY <1>4

LEMMA FirstIsHolding ==
    ASSUME NEW segments, NEW d, Holding(segments, d) # {}
    PROVE  First(Holding(segments, d)) \in Holding(segments, d)
<1>1. Holding(segments, d) \subseteq Nat
  BY CompactionConstants DEF Holding
<1>2. \E n \in Holding(segments, d) : \A k \in Holding(segments, d) : n <= k
  BY <1>1, LeastName
<1> QED BY <1>2 DEF First

(* A reload finds a row for exactly the records that are kept. *)
LEMMA ReadIfKept ==
    ASSUME NEW c \in Clones, NEW d \in Domains
    PROVE  Reads(c)[d] # Unwritten <=> Kept(c, d)
<1>1. d \in Archived(archive[c]) <=> Holding(archive[c], d) # {}
  BY DEF Archived
<1>2. ArchivedRow(archive[c], d) # Unwritten <=> d \in Archived(archive[c])
  BY <1>1, FirstIsHolding DEF ArchivedRow, Holding
<1> QED BY <1>2 DEF Reads, Loaded, Kept

LEMMA ReadIfKeptNext ==
    ASSUME NEW c \in Clones, NEW d \in Domains
    PROVE  Reads(c)'[d] # Unwritten <=> Kept(c, d)'
<1>1. d \in Archived(archive'[c]) <=> Holding(archive'[c], d) # {}
  BY DEF Archived
<1>2. ArchivedRow(archive'[c], d) # Unwritten <=> d \in Archived(archive'[c])
  BY <1>1, FirstIsHolding DEF ArchivedRow, Holding
<1> QED BY <1>2 DEF Reads, Loaded, Kept

(* Segments with the same lines for d read the same. *)
LEMMA SameLines ==
    ASSUME NEW s, NEW t, NEW d \in Domains, \A n \in Names : s[n][d] = t[n][d]
    PROVE  /\ ArchivedRow(s, d) = ArchivedRow(t, d)
           /\ d \in Archived(s) <=> d \in Archived(t)
<1>1. Holding(s, d) = Holding(t, d)
  BY DEF Holding
<1>2. Holding(s, d) # {} => First(Holding(s, d)) \in Names
  BY FirstIsHolding DEF Holding
<1> QED BY <1>1, <1>2 DEF ArchivedRow, Archived

(* No call forgets a row. *)
LEMMA CallKeepsRows ==
    ASSUME NEW rows \in Tree, NEW after, DomainCall(rows, after)
    PROVE  /\ after \in Tree
           /\ \A d \in Domains : after[d] = rows[d] \/ after[d] # Unwritten
<1> USE DEF Tree, Row, Status, Unwritten
<1>1. ASSUME NEW d \in Domains, NEW slug \in Slugs, after = AfterAdd(rows, d, slug)
      PROVE  after \in Tree /\ \A e \in Domains : after[e] = rows[e] \/ after[e] # Unwritten
  BY <1>1 DEF AfterAdd
<1>2. ASSUME NEW d \in Domains, NEW old \in Domains, NEW slug \in Slugs,
             after = AfterSupersede(rows, old, d, slug)
      PROVE  after \in Tree /\ \A e \in Domains : after[e] = rows[e] \/ after[e] # Unwritten
  BY <1>2 DEF AfterSupersede
<1>3. ASSUME NEW d \in Domains, after = AfterAccept(rows, d)
      PROVE  after \in Tree /\ \A e \in Domains : after[e] = rows[e] \/ after[e] # Unwritten
  BY <1>3 DEF AfterAccept
<1>4. ASSUME NEW d \in Domains, after = AfterDrop(rows, d)
      PROVE  after \in Tree /\ \A e \in Domains : after[e] = rows[e] \/ after[e] # Unwritten
  BY <1>4 DEF AfterDrop
<1> QED BY <1>1, <1>2, <1>3, <1>4 DEF DomainCall

(* A call writes the rows that some domain call leaves. *)
LEMMA CallWrites ==
    ASSUME NEW c \in Clones, Call(c)
    PROVE  \E after : DomainCall(index[c], after) /\ Write(c, after)
<1>1. ASSUME NEW d \in Domains, NEW slug \in Slugs,
             CanAdd(index[c], d, slug), Write(c, AfterAdd(index[c], d, slug))
      PROVE  \E after : DomainCall(index[c], after) /\ Write(c, after)
  BY <1>1, Zenon DEF DomainCall
<1>2. ASSUME NEW d \in Domains, NEW old \in Domains, NEW slug \in Slugs,
             CanSupersede(index[c], old, d, slug), Write(c, AfterSupersede(index[c], old, d, slug))
      PROVE  \E after : DomainCall(index[c], after) /\ Write(c, after)
  BY <1>2, Zenon DEF DomainCall
<1>3. ASSUME NEW d \in Domains, CanAccept(index[c], d), Write(c, AfterAccept(index[c], d))
      PROVE  \E after : DomainCall(index[c], after) /\ Write(c, after)
  BY <1>3, Zenon DEF DomainCall
<1>4. ASSUME NEW d \in Domains, CanDrop(index[c], d), Write(c, AfterDrop(index[c], d))
      PROVE  \E after : DomainCall(index[c], after) /\ Write(c, after)
  BY <1>4, Zenon DEF DomainCall
<1> QED BY <1>1, <1>2, <1>3, <1>4, Zenon DEF Call

(* What is kept on both sides of an unchanged archive. *)
LEMMA SameArchive ==
    ASSUME archive' = archive
    PROVE  \A c \in Clones : Archived(archive[c])' = Archived(archive[c])
BY DEF Archived, Holding

-----------------------------------------------------------------------------
(* The invariant, action by action, and that no action forgets a record. *)

LEMMA CallStep ==
    ASSUME CompactionInv, NEW c \in Clones, Call(c)
    PROVE  CompactionInv' /\ KeepsAll
<1>1. PICK after : DomainCall(index[c], after) /\ Write(c, after)
  BY CallWrites
<1>2. index[c] \in Tree /\ index[c] = Reads(c)
  BY DEF CompactionInv, TypeOK, Call
<1>3. after \in Tree /\ \A d \in Domains : after[d] = index[c][d] \/ after[d] # Unwritten
  BY <1>1, <1>2, CallKeepsRows
<1>4. \A k \in Clones : Archived(archive[k])' = Archived(archive[k])
  BY <1>1, SameArchive DEF Write
<1>5. \A k \in Clones, d \in Domains :
          hot'[k][d] = IF k = c /\ after[d] # index[c][d] THEN after[d] ELSE hot[k][d]
  BY <1>1 DEF Write, CompactionInv, TypeOK
<1>6. TypeOK'
  BY <1>1, <1>3, <1>4 DEF CompactionInv, TypeOK, Write, Tree
<1>7. KeepsAll
  BY <1>3, <1>4, <1>5 DEF KeepsAll, Kept
<1>8. BaseKept'
  BY <1>1, <1>7 DEF CompactionInv, BaseKept, KeepsAll, Write
<1>9. IndexKept'
  <2> SUFFICES ASSUME NEW k \in Clones, NEW d \in Domains, index'[k][d] # Unwritten
               PROVE  Kept(k, d)'
    BY DEF IndexKept
  <2>1. CASE k = c /\ after[d] # index[c][d]
    BY <1>3, <1>5, <2>1 DEF Kept
  <2>2. CASE ~(k = c /\ after[d] # index[c][d])
    <3>1. index'[k][d] = index[k][d]
      BY <1>1, <2>2 DEF Write, CompactionInv, TypeOK
    <3> QED BY <1>7, <3>1 DEF CompactionInv, IndexKept, KeepsAll
  <2> QED BY <2>1, <2>2
<1> QED BY <1>1, <1>6, <1>7, <1>8, <1>9 DEF CompactionInv, NamesOneContent, Write

LEMMA RefreshStep ==
    ASSUME CompactionInv, NEW c \in Clones, Refresh(c)
    PROVE  CompactionInv' /\ KeepsAll
<1>1. \A k \in Clones : Archived(archive[k])' = Archived(archive[k])
  BY SameArchive DEF Refresh
<1>2. KeepsAll
  BY <1>1 DEF Refresh, KeepsAll, Kept
<1>3. Reads(c) \in Tree
  <2>1. ASSUME NEW d \in Domains PROVE Reads(c)[d] \in Row
    <3>1. Holding(archive[c], d) # {} => First(Holding(archive[c], d)) \in Names
      BY FirstIsHolding DEF Holding
    <3>2. ArchivedRow(archive[c], d) \in Row
      BY <3>1 DEF ArchivedRow, CompactionInv, TypeOK, Tree, Unwritten, Row, Status
    <3> QED BY <3>2 DEF Reads, Loaded, CompactionInv, TypeOK, Tree
  <2> QED BY <2>1 DEF Reads, Loaded, Tree
<1>4. TypeOK'
  BY <1>1, <1>3 DEF CompactionInv, TypeOK, Refresh
<1>5. IndexKept'
  <2> SUFFICES ASSUME NEW k \in Clones, NEW d \in Domains, index'[k][d] # Unwritten
               PROVE  Kept(k, d)'
    BY DEF IndexKept
  <2>1. CASE k = c
    BY <1>2, <2>1, ReadIfKept DEF Refresh, CompactionInv, TypeOK, KeepsAll
  <2>2. CASE k # c
    BY <1>2, <2>2 DEF Refresh, CompactionInv, TypeOK, IndexKept, KeepsAll
  <2> QED BY <2>1, <2>2
<1> QED BY <1>2, <1>4, <1>5 DEF CompactionInv, BaseKept, NamesOneContent, KeepsAll, Refresh

(* The lines of the other segments stay; the new segment has one line for      *)
(* each candidate.                                                           *)
LEMMA PublishLines ==
    ASSUME CompactionInv, NEW c \in Clones, Publish(c)
    PROVE  /\ \A k \in Clones \ {c} : archive'[k] = archive[k]
           /\ \A d \in Domains \ Candidates(c), m \in Names :
                  archive'[c][m][d] = archive[c][m][d]
           /\ \E n \in Names :
                 /\ \A k \in Clones : archive[k][n] = NoRows
                 /\ \A d \in Candidates(c) : archive'[c][n][d] = index[c][d]
                 /\ \A m \in Names \ {n} : archive'[c][m] = archive[c][m]
           /\ archive' \in [Clones -> [Names -> Tree]]
<1>1. PICK n \in FreeNames :
          archive' = [archive EXCEPT ![c][n] =
              [d \in Domains |-> IF d \in Candidates(c) THEN index[c][d] ELSE Unwritten]]
  BY DEF Publish
<1> DEFINE L == [d \in Domains |-> IF d \in Candidates(c) THEN index[c][d] ELSE Unwritten]
<1>2. /\ n \in Names /\ \A k \in Clones : archive[k][n] = NoRows
      /\ \A d \in Domains : archive[c][n][d] = Unwritten
  BY <1>1 DEF FreeNames, NoRows
<1>3. L \in Tree
  BY DEF CompactionInv, TypeOK, Tree, Unwritten, Row, Status
<1>4. /\ archive'[c][n] = L
      /\ \A m \in Names \ {n} : archive'[c][m] = archive[c][m]
      /\ \A k \in Clones \ {c} : archive'[k] = archive[k]
      /\ archive' \in [Clones -> [Names -> Tree]]
  BY <1>1, <1>2, <1>3 DEF CompactionInv, TypeOK
<1>5. \A d \in Domains \ Candidates(c) : L[d] = Unwritten
  OBVIOUS
<1>6. \A d \in Candidates(c) : L[d] = index[c][d]
  BY DEF Candidates
<1> HIDE DEF L
<1>7. \A d \in Domains \ Candidates(c), m \in Names : archive'[c][m][d] = archive[c][m][d]
  BY <1>2, <1>4, <1>5
<1> QED BY <1>2, <1>4, <1>6, <1>7

LEMMA PublishStep ==
    ASSUME CompactionInv, NEW c \in Clones, Publish(c)
    PROVE  CompactionInv' /\ KeepsAll
<1>1. PICK n \in Names :
          /\ \A k \in Clones : archive[k][n] = NoRows
          /\ \A d \in Candidates(c) : archive'[c][n][d] = index[c][d]
          /\ \A m \in Names \ {n} : archive'[c][m] = archive[c][m]
  BY PublishLines
<1>2. /\ \A k \in Clones \ {c} : archive'[k] = archive[k]
      /\ \A d \in Domains \ Candidates(c), m \in Names : archive'[c][m][d] = archive[c][m][d]
      /\ archive' \in [Clones -> [Names -> Tree]]
  BY PublishLines
<1>3. \A d \in Candidates(c) : d \in Domains /\ Closed(index[c][d]) /\ index[c][d] # Unwritten
  BY DEF Candidates, Closed, Unwritten
<1>4. \A d \in Candidates(c) : d \in Archived(archive'[c])
  BY <1>1, <1>3 DEF Archived, Holding
<1>5. \A d \in Domains \ Candidates(c) :
          d \in Archived(archive'[c]) <=> d \in Archived(archive[c])
  BY <1>2 DEF Archived, Holding
<1>6. \A k \in Clones : Archived(archive[k]) \subseteq Archived(archive'[k])
  <2>1. \A d \in Archived(archive[c]) : d \in Archived(archive'[c])
    BY <1>4, <1>5 DEF Archived
  <2> QED BY <1>2, <2>1
<1>7. KeepsAll
  BY <1>6 DEF KeepsAll, Kept, Publish
<1>8. \A k \in Clones : pending'[k] \subseteq Archived(archive'[k])
  <2>1. pending'[c] = Candidates(c) \cup Leftovers(c)
    BY DEF Publish, CompactionInv, TypeOK
  <2>2. Leftovers(c) \subseteq Archived(archive[c])
    BY DEF Leftovers
  <2>3. \A k \in Clones \ {c} : pending'[k] = pending[k]
    BY DEF Publish, CompactionInv, TypeOK
  <2> QED BY <1>2, <1>4, <1>6, <2>1, <2>2, <2>3 DEF CompactionInv, TypeOK
<1>9. \A k \in Clones, m \in Names, d \in Domains :
          archive'[k][m][d] # Unwritten => Closed(archive'[k][m][d])
  <2> TAKE k \in Clones, m \in Names, d \in Domains
  <2>1. CASE k # c \/ d \notin Candidates(c) \/ m # n
    BY <1>1, <1>2, <2>1 DEF CompactionInv, TypeOK
  <2>2. CASE k = c /\ d \in Candidates(c) /\ m = n
    BY <1>1, <1>3, <2>2
  <2> QED BY <2>1, <2>2
<1>10. pending' \in [Clones -> SUBSET Domains]
  BY DEF Publish, CompactionInv, TypeOK, Candidates, Leftovers, Archived
<1>11. TypeOK'
  BY <1>2, <1>8, <1>9, <1>10 DEF CompactionInv, TypeOK, Publish
<1>12. NamesOneContent'
  <2> SUFFICES ASSUME NEW a \in Clones, NEW b \in Clones, NEW m \in Names
               PROVE  (archive[a][m] = NoRows \/ archive[b][m] = NoRows \/ archive[a][m] = archive[b][m])'
    BY DEF NamesOneContent
  <2>1. CASE m = n
    BY <1>1, <1>2, <2>1 DEF NoRows
  <2>2. CASE m # n
    BY <1>1, <1>2, <2>2 DEF CompactionInv, NamesOneContent, NoRows
  <2> QED BY <2>1, <2>2
<1> QED BY <1>7, <1>11, <1>12 DEF CompactionInv, BaseKept, IndexKept, KeepsAll, Publish

LEMMA CleanUpStep ==
    ASSUME CompactionInv, NEW c \in Clones, CleanUp(c)
    PROVE  CompactionInv' /\ KeepsAll
<1>1. \A k \in Clones : Archived(archive[k])' = Archived(archive[k])
  BY SameArchive DEF CleanUp
<1>2. KeepsAll
  BY <1>1 DEF CleanUp, KeepsAll, Kept
<1>3. Leftovers(c) \subseteq Archived(archive[c]) /\ Archived(archive[c]) \subseteq Domains
  BY DEF Leftovers, Archived
<1>4. TypeOK'
  BY <1>1, <1>3 DEF CompactionInv, TypeOK, CleanUp
<1> QED BY <1>2, <1>4 DEF CompactionInv, BaseKept, IndexKept, NamesOneContent, KeepsAll, CleanUp

LEMMA UnlinkStep ==
    ASSUME CompactionInv, NEW c \in Clones, NEW d \in Domains, Unlink(c, d)
    PROVE  CompactionInv' /\ KeepsAll
<1>1. \A k \in Clones : Archived(archive[k])' = Archived(archive[k])
  BY SameArchive DEF Unlink
<1>2. d \in Archived(archive[c])
  BY DEF Unlink, CompactionInv, TypeOK
<1>3. \A k \in Clones, e \in Domains : (k # c \/ e # d) => hot'[k][e] = hot[k][e]
  BY DEF Unlink, CompactionInv, TypeOK, Tree
<1>4. KeepsAll
  BY <1>1, <1>2, <1>3 DEF KeepsAll, Kept
<1>5. hot' \in [Clones -> Tree]
  BY DEF Unlink, CompactionInv, TypeOK, Tree, Row, Status, Unwritten
<1>6. TypeOK'
  BY <1>1, <1>5 DEF CompactionInv, TypeOK, Unlink
<1> QED BY <1>4, <1>6 DEF CompactionInv, BaseKept, IndexKept, NamesOneContent, KeepsAll, Unlink

LEMMA CrashStep ==
    ASSUME CompactionInv, NEW c \in Clones, Crash(c)
    PROVE  CompactionInv' /\ KeepsAll
<1>1. \A k \in Clones : Archived(archive[k])' = Archived(archive[k])
  BY SameArchive DEF Crash
<1>2. KeepsAll
  BY <1>1 DEF Crash, KeepsAll, Kept
<1>3. TypeOK'
  BY <1>1, CompactionConstants DEF CompactionInv, TypeOK, Crash
<1> QED BY <1>2, <1>3 DEF CompactionInv, BaseKept, IndexKept, NamesOneContent, KeepsAll, Crash

(* A merge that takes a deletion brings the segment that holds the record.     *)
LEMMA PullStep ==
    ASSUME CompactionInv, NEW c \in Clones, NEW from \in Clones \ {c}, Pull(c, from)
    PROVE  CompactionInv' /\ KeepsAll
<1>0. \A k \in Clones : k = c \/ k = from
  BY CompactionConstants
<1>1. PICK taken \in SUBSET Domains :
          hot' = [hot EXCEPT ![c] = [f \in Domains |->
             IF f \in taken \/ hot[c][f] = base[f] THEN hot[from][f] ELSE hot[c][f]]]
          /\ taken \subseteq (Changed(base, hot[c]) \cap Changed(base, hot[from]))
  <2>1. base \in Tree /\ DOMAIN base = Domains
    BY DEF CompactionInv, TypeOK, Tree
  <2>2. PICK merged \in Merges(base, hot[c], hot[from]) : hot' = [hot EXCEPT ![c] = merged]
    BY DEF Pull
  <2>3. PICK taken \in SUBSET (Changed(base, hot[c]) \cap Changed(base, hot[from])) :
            merged = [f \in DOMAIN base |->
                IF f \in taken \/ hot[c][f] = base[f] THEN hot[from][f] ELSE hot[c][f]]
    BY <2>2, Zenon DEF Merges
  <2>4. taken \in SUBSET Domains
    BY <2>1 DEF Changed
  <2> QED BY <2>1, <2>2, <2>3, <2>4
<1>2. /\ \A m \in Names : archive'[c][m] = IF archive[c][m] # NoRows THEN archive[c][m] ELSE archive[from][m]
      /\ archive'[from] = archive[from]
      /\ archive' \in [Clones -> [Names -> Tree]]
  BY DEF Pull, CompactionInv, TypeOK
<1>3. Archived(archive[c]) \cup Archived(archive[from]) \subseteq Domains
  BY DEF Archived
<1>4. Archived(archive[c]) \subseteq Archived(archive'[c])
  <2> SUFFICES ASSUME NEW d \in Domains, NEW m \in Names, archive[c][m][d] # Unwritten
               PROVE  archive'[c][m][d] # Unwritten
    BY DEF Archived, Holding
  <2>1. archive[c][m] # NoRows
    BY DEF NoRows
  <2> QED BY <1>2, <2>1
<1>5. Archived(archive[from]) \subseteq Archived(archive'[c])
  <2> SUFFICES ASSUME NEW d \in Domains, NEW m \in Names, archive[from][m][d] # Unwritten
               PROVE  archive'[c][m][d] # Unwritten
    BY DEF Archived, Holding
  <2>1. archive[from][m] # NoRows
    BY DEF NoRows
  <2>2. archive'[c][m] = archive[from][m]
    BY <1>2, <2>1 DEF CompactionInv, NamesOneContent
  <2> QED BY <2>2
<1>6. /\ hot'[from] = hot[from]
      /\ \A d \in Domains :
            hot'[c][d] = IF d \in taken \/ hot[c][d] = base[d] THEN hot[from][d] ELSE hot[c][d]
      /\ hot' \in [Clones -> Tree]
  BY <1>1 DEF CompactionInv, TypeOK, Tree
<1>7. \A d \in taken : hot[from][d] # base[d]
  BY <1>1 DEF Changed
<1>8. \A d \in Domains : base[d] # Unwritten => Kept(c, d) /\ Kept(from, d)
  BY DEF CompactionInv, BaseKept
<1>9. \A d \in Domains : (Kept(c, d) => Kept(c, d)') /\ (Kept(from, d) => Kept(from, d)')
  BY <1>2, <1>4, <1>5, <1>6, <1>7, <1>8 DEF Kept
<1>10. KeepsAll
  BY <1>0, <1>9 DEF KeepsAll
<1>11. base' = hot[from]
  BY DEF Pull
<1>12. BaseKept'
  <2> SUFFICES ASSUME NEW d \in Domains, hot[from][d] # Unwritten
               PROVE  Kept(c, d)' /\ Kept(from, d)'
    BY <1>0, <1>11 DEF BaseKept
  <2>1. CASE d \in taken \/ hot[c][d] = base[d]
    BY <1>6, <2>1 DEF Kept
  <2>2. CASE hot[c][d] # base[d] /\ d \notin taken
    <3>1. hot'[c][d] = hot[c][d] /\ hot'[from][d] = hot[from][d]
      BY <1>6, <2>2
    <3>2. hot[c][d] = Unwritten => d \in Archived(archive'[c])
      BY <1>4, <1>8, <2>2 DEF Kept
    <3> QED BY <3>1, <3>2 DEF Kept
  <2> QED BY <2>1, <2>2
<1>13. IndexKept'
  BY <1>10 DEF CompactionInv, IndexKept, KeepsAll, Pull
<1>14. NamesOneContent'
  BY <1>0, <1>2 DEF CompactionInv, NamesOneContent
<1>15. TypeOK'
  <2>1. \A k \in Clones, m \in Names, d \in Domains :
            archive'[k][m][d] # Unwritten => Closed(archive'[k][m][d])
    <3> TAKE k \in Clones, m \in Names, d \in Domains
    <3>1. archive'[k][m] = archive[k][m] \/ archive'[k][m] = archive[from][m]
      BY <1>0, <1>2
    <3>2. archive[k][m][d] # Unwritten => Closed(archive[k][m][d])
      BY DEF CompactionInv, TypeOK
    <3>3. archive[from][m][d] # Unwritten => Closed(archive[from][m][d])
      BY DEF CompactionInv, TypeOK
    <3> QED BY <3>1, <3>2, <3>3
  <2>2. \A k \in Clones : pending'[k] \subseteq Archived(archive'[k])
    <3>1. pending'[c] \subseteq Archived(archive[c]) /\ pending'[from] \subseteq Archived(archive[from])
      BY DEF CompactionInv, TypeOK, Pull
    <3>2. pending'[c] \subseteq Archived(archive'[c])
      BY <1>4, <3>1
    <3>3. pending'[from] \subseteq Archived(archive'[from])
      BY <1>2, <3>1
    <3> QED BY <1>0, <3>2, <3>3
  <2>3. base' \in Tree
    BY <1>11 DEF CompactionInv, TypeOK
  <2> QED BY <1>2, <1>6, <2>1, <2>2, <2>3 DEF CompactionInv, TypeOK, Pull
<1> QED BY <1>10, <1>12, <1>13, <1>14, <1>15 DEF CompactionInv

-----------------------------------------------------------------------------

LEMMA InitCompactionInv == Init => CompactionInv
<1> SUFFICES ASSUME Init PROVE CompactionInv
  OBVIOUS
<1>1. NoRows \in Tree /\ \A d \in Domains : NoRows[d] = Unwritten
  BY DEF NoRows, Tree, Row, Status, Unwritten
<1>2. TypeOK
  BY <1>1, CompactionConstants DEF Init, TypeOK
<1>3. BaseKept /\ IndexKept /\ NamesOneContent
  BY <1>1 DEF Init, BaseKept, IndexKept, NamesOneContent
<1> QED BY <1>2, <1>3 DEF CompactionInv

LEMMA NextStep ==
    ASSUME CompactionInv, [Next]_vars
    PROVE  CompactionInv' /\ KeepsAll
<1>1. CASE UNCHANGED vars
  <2>1. CompactionInv'
    BY <1>1 DEF vars, CompactionInv, TypeOK, BaseKept, IndexKept, NamesOneContent, Kept,
                Archived, Holding
  <2>2. KeepsAll
    BY <1>1 DEF vars, KeepsAll, Kept, Archived, Holding
  <2> QED BY <2>1, <2>2
<1>2. CASE Next
  <2>1. PICK c \in Clones :
            \/ Call(c) \/ Refresh(c)
            \/ Publish(c) \/ CleanUp(c) \/ \E d \in Domains : Unlink(c, d)
            \/ Crash(c)
            \/ \E from \in Clones \ {c} : Pull(c, from)
    BY <1>2, Zenon DEF Next
  <2> QED BY <2>1, CallStep, RefreshStep, PublishStep, CleanUpStep, UnlinkStep, CrashStep, PullStep
<1> QED BY <1>1, <1>2

(* The inductive invariant.                                                   *)
THEOREM SpecCompactionInv == Spec => []CompactionInv
<1>1. CompactionInv /\ [Next]_vars => CompactionInv'
  BY NextStep
<1> QED BY <1>1, InitCompactionInv, PTL DEF Spec

(* The type invariant, and that segments hold closed records only.             *)
THEOREM CompactionTypeOK == Spec => []TypeOK
<1>1. CompactionInv => TypeOK
  BY DEF CompactionInv
<1> QED BY <1>1, SpecCompactionInv, PTL

(* Records move, they do not disappear.                                       *)
THEOREM CompactionLosesNothing == Spec => NothingLost
<1>1. CompactionInv /\ [Next]_vars =>
          [\A c \in Clones, d \in Domains :
              Reads(c)[d] # Unwritten => Reads(c)'[d] # Unwritten]_vars
  BY NextStep, ReadIfKept, ReadIfKeptNext DEF KeepsAll
<1> QED BY <1>1, SpecCompactionInv, PTL DEF Spec, NothingLost

-----------------------------------------------------------------------------
(* What a reader sees. *)

(* A clone whose files and archive a step leaves alone reads the same.         *)
LEMMA SameReads ==
    ASSUME NEW k \in Clones, hot'[k] = hot[k], archive'[k] = archive[k]
    PROVE  Reads(k)' = Reads(k)
<1>1. \A d \in Domains : ArchivedRow(archive'[k], d) = ArchivedRow(archive[k], d)
  BY SameLines
<1> QED BY <1>1 DEF Reads, Loaded

LEMMA CallReads ==
    ASSUME CompactionInv, NEW c \in Clones, Call(c), NEW k \in Clones
    PROVE  Reads(k)' = Reads(k) \/ DomainCall(Reads(k), Reads(k)')
<1>1. PICK after : DomainCall(index[c], after) /\ Write(c, after)
  BY CallWrites
<1>2. index[c] \in Tree /\ index[c] = Reads(c)
  BY DEF CompactionInv, TypeOK, Call
<1>3. after \in Tree /\ \A d \in Domains : after[d] = index[c][d] \/ after[d] # Unwritten
  BY <1>1, <1>2, CallKeepsRows
<1>4. CASE k # c
  BY <1>1, <1>4, SameReads DEF Write, CompactionInv, TypeOK
<1>5. CASE k = c
  <2>1. \A d \in Domains :
            hot'[c][d] = IF after[d] # index[c][d] THEN after[d] ELSE hot[c][d]
    BY <1>1 DEF Write, CompactionInv, TypeOK
  <2>2. \A d \in Domains : ArchivedRow(archive'[c], d) = ArchivedRow(archive[c], d)
    BY <1>1, SameLines DEF Write
  <2>3. \A d \in Domains : Loaded(hot'[c], archive'[c])[d] = after[d]
    BY <1>2, <1>3, <2>1, <2>2 DEF Reads, Loaded
  <2>4. Reads(c)' = after
    BY <1>3, <2>3 DEF Reads, Loaded, Tree
  <2> QED BY <1>1, <1>2, <1>5, <2>4
<1> QED BY <1>4, <1>5

(* A candidate that has no file was read from nowhere, and the index holds     *)
(* only what is kept: so every candidate has a hot file, and that wins.        *)
LEMMA PublishReads ==
    ASSUME CompactionInv, NEW c \in Clones, Publish(c), NEW k \in Clones
    PROVE  Reads(k)' = Reads(k)
<1>1. CASE k # c
  BY <1>1, PublishLines, SameReads DEF Publish
<1>2. CASE k = c
  <2>1. ASSUME NEW d \in Domains
        PROVE  Loaded(hot'[c], archive'[c])[d] = Loaded(hot[c], archive[c])[d]
    <3>1. CASE d \in Candidates(c)
      <4>1. hot[c][d] # Unwritten
        BY <3>1 DEF CompactionInv, IndexKept, Kept, Candidates, Closed, Unwritten
      <4> QED BY <4>1 DEF Loaded, Publish
    <3>2. CASE d \notin Candidates(c)
      <4>1. \A m \in Names : archive'[c][m][d] = archive[c][m][d]
        BY <3>2, PublishLines
      <4>2. ArchivedRow(archive'[c], d) = ArchivedRow(archive[c], d)
        BY <4>1, SameLines
      <4> QED BY <4>2 DEF Loaded, Publish
    <3> QED BY <3>1, <3>2
  <2> QED BY <1>2, <2>1 DEF Reads, Loaded
<1> QED BY <1>1, <1>2

(* A file is removed only in favour of a line that says the same.              *)
LEMMA UnlinkReads ==
    ASSUME CompactionInv, NEW c \in Clones, NEW d \in Domains, Unlink(c, d), NEW k \in Clones
    PROVE  Reads(k)' = Reads(k)
<1>1. CASE k # c
  BY <1>1, SameReads DEF Unlink, CompactionInv, TypeOK
<1>2. CASE k = c
  <2>1. \A e \in Domains : hot'[c][e] = IF e = d /\ hot[c][d] = ArchivedRow(archive[c], d)
                                         THEN Unwritten ELSE hot[c][e]
    BY DEF Unlink, CompactionInv, TypeOK, Tree
  <2>2. \A e \in Domains : ArchivedRow(archive'[c], e) = ArchivedRow(archive[c], e)
    BY SameLines DEF Unlink
  <2>3. \A e \in Domains : Loaded(hot'[c], archive'[c])[e] = Loaded(hot[c], archive[c])[e]
    BY <2>1, <2>2 DEF Loaded
  <2> QED BY <1>2, <2>3 DEF Reads, Loaded
<1> QED BY <1>1, <1>2

(* A reader cannot tell how far a compaction came.                            *)
THEOREM CompactionIsUnseen == Spec => CompactionIsInvisible
<1>1. ASSUME CompactionInv, Next, ~Pulled, NEW k \in Clones
      PROVE  Reads(k)' = Reads(k) \/ DomainCall(Reads(k), Reads(k)')
  <2>1. PICK c \in Clones :
            \/ Call(c) \/ Refresh(c)
            \/ Publish(c) \/ CleanUp(c) \/ \E d \in Domains : Unlink(c, d)
            \/ Crash(c)
    BY <1>1, Zenon DEF Next, Pulled
  <2>2. (Refresh(c) \/ CleanUp(c) \/ Crash(c)) => hot' = hot /\ archive' = archive
    BY DEF Refresh, CleanUp, Crash
  <2> QED BY <1>1, <2>1, <2>2, CallReads, PublishReads, UnlinkReads, SameReads
<1>2. CompactionInv /\ [Next]_vars =>
          [~Pulled => \A c \in Clones :
              Reads(c)' = Reads(c) \/ DomainCall(Reads(c), Reads(c)')]_vars
  BY <1>1
<1> QED BY <1>2, SpecCompactionInv, PTL DEF Spec, CompactionIsInvisible

-----------------------------------------------------------------------------
(* What a compaction leaves. *)

(* While a compaction runs on an index that is up to date, each closed record   *)
(* that has a file is archived, and its file is still to be looked at unless    *)
(* the archive contradicts it.                                                *)
RunInv ==
    \A c \in Clones : ~Idle(c) /\ index[c] = Reads(c) =>
        \A d \in Domains : Closed(hot[c][d]) =>
            /\ d \in Archived(archive[c])
            /\ hot[c][d] # ArchivedRow(archive[c], d) \/ d \in pending[c]

LEMMA UntouchedRun ==
    ASSUME RunInv, NEW k \in Clones, hot'[k] = hot[k], archive'[k] = archive[k],
           index'[k] = index[k], pending'[k] = pending[k], ~Idle(k)', index'[k] = Reads(k)',
           NEW d \in Domains, Closed(hot'[k][d])
    PROVE  /\ d \in Archived(archive'[k])
           /\ hot'[k][d] # ArchivedRow(archive'[k], d) \/ d \in pending'[k]
<1>1. Reads(k)' = Reads(k)
  BY SameReads
<1>2. ~Idle(k)
  BY DEF Idle
<1>3. /\ d \in Archived(archive[k])
      /\ hot[k][d] # ArchivedRow(archive[k], d) \/ d \in pending[k]
  BY <1>1, <1>2 DEF RunInv
<1>4. ArchivedRow(archive'[k], d) = ArchivedRow(archive[k], d)
  BY SameLines
<1>5. d \in Archived(archive'[k])
  BY <1>3 DEF Archived
<1> QED BY <1>3, <1>4, <1>5

(* A run that begins plans every file that its archive will repeat.             *)
LEMMA BeginRun ==
    ASSUME CompactionInv, NEW c \in Clones, Publish(c) \/ CleanUp(c), index'[c] = Reads(c)',
           NEW d \in Domains, Closed(hot'[c][d])
    PROVE  /\ d \in Archived(archive'[c])
           /\ hot'[c][d] # ArchivedRow(archive'[c], d) \/ d \in pending'[c]
<1>1. hot' = hot /\ index' = index
  BY DEF Publish, CleanUp
<1>2. Reads(c)' = Reads(c)
  <2>1. CASE Publish(c)
    BY <2>1, PublishReads
  <2>2. CASE CleanUp(c)
    BY <2>2, SameReads DEF CleanUp
  <2> QED BY <2>1, <2>2
<1>3. index[c][d] = hot[c][d] /\ Closed(hot[c][d])
  BY <1>1, <1>2 DEF Reads, Loaded, Closed, Unwritten
<1>4. d \in Candidates(c) \/ d \in Archived(archive[c])
  BY <1>3 DEF Candidates
<1>5. CASE d \in Candidates(c)
  <2>1. Publish(c)
    BY <1>5 DEF CleanUp
  <2>2. d \in pending'[c]
    BY <1>5, <2>1 DEF Publish, CompactionInv, TypeOK
  <2>3. pending'[c] \subseteq Archived(archive'[c])
    BY <2>1, PublishStep DEF CompactionInv, TypeOK
  <2> QED BY <2>2, <2>3
<1>6. CASE d \notin Candidates(c)
  <2>1. d \in Archived(archive[c])
    BY <1>4, <1>6
  <2>2. \A m \in Names : archive'[c][m][d] = archive[c][m][d]
    BY <1>6, PublishLines DEF CleanUp
  <2>3. /\ ArchivedRow(archive'[c], d) = ArchivedRow(archive[c], d)
        /\ d \in Archived(archive'[c])
    BY <2>1, <2>2, SameLines
  <2>4. Leftovers(c) \subseteq pending'[c]
    BY DEF Publish, CleanUp, CompactionInv, TypeOK
  <2>5. hot[c][d] = ArchivedRow(archive[c], d) => d \in pending'[c]
    BY <2>1, <2>4 DEF Leftovers
  <2> QED BY <1>1, <2>3, <2>5
<1> QED BY <1>5, <1>6

(* Looking at a file leaves it only if the archive contradicts it.              *)
LEMMA UnlinkRun ==
    ASSUME CompactionInv, RunInv, NEW c \in Clones, NEW e \in Domains, Unlink(c, e),
           index[c] = Reads(c), NEW d \in Domains, Closed(hot'[c][d])
    PROVE  /\ d \in Archived(archive[c])
           /\ hot'[c][d] # ArchivedRow(archive[c], d) \/ d \in pending[c] \ {e}
<1>1. \A x \in Domains : hot'[c][x] = IF x = e /\ hot[c][e] = ArchivedRow(archive[c], e)
                                       THEN Unwritten ELSE hot[c][x]
  BY DEF Unlink, CompactionInv, TypeOK, Tree
<1>2. ~Closed(Unwritten)
  BY DEF Closed, Unwritten
<1>3. hot'[c][d] = hot[c][d] /\ (d = e => hot[c][d] # ArchivedRow(archive[c], d))
  BY <1>1, <1>2
<1>4. /\ d \in Archived(archive[c])
      /\ hot[c][d] # ArchivedRow(archive[c], d) \/ d \in pending[c]
  BY <1>3 DEF RunInv, Idle, Unlink
<1> QED BY <1>3, <1>4

LEMMA RunStep ==
    ASSUME CompactionInv, RunInv, [Next]_vars
    PROVE  RunInv'
<1> SUFFICES ASSUME NEW k \in Clones, ~Idle(k)', index'[k] = Reads(k)',
                    NEW d \in Domains, Closed(hot'[k][d])
             PROVE  /\ d \in Archived(archive'[k])
                    /\ hot'[k][d] # ArchivedRow(archive'[k], d) \/ d \in pending'[k]
  BY DEF RunInv
<1>1. CASE hot'[k] = hot[k] /\ archive'[k] = archive[k] /\ index'[k] = index[k] /\ pending'[k] = pending[k]
  BY <1>1, UntouchedRun
<1>2. CASE UNCHANGED vars
  BY <1>1, <1>2 DEF vars
<1>3. CASE Next
  <2>1. PICK c \in Clones :
            \/ Call(c) \/ Refresh(c)
            \/ Publish(c) \/ CleanUp(c) \/ \E e \in Domains : Unlink(c, e)
            \/ Crash(c)
            \/ \E from \in Clones \ {c} : Pull(c, from)
    BY <1>3, Zenon DEF Next
  <2>2. CASE Call(c) \/ Refresh(c) \/ Crash(c)
    <3>1. Idle(c)'
      <4>1. CASE Call(c)
        <5>1. pending' = pending /\ Idle(c)
          BY <4>1, CallWrites DEF Write, Call
        <5> QED BY <5>1 DEF Idle
      <4>2. CASE Refresh(c)
        BY <4>2 DEF Refresh, Idle
      <4>3. CASE Crash(c)
        BY <4>3 DEF Crash, Idle, CompactionInv, TypeOK
      <4> QED BY <2>2, <4>1, <4>2, <4>3
    <3>2. k # c => /\ hot'[k] = hot[k] /\ archive'[k] = archive[k]
                   /\ index'[k] = index[k] /\ pending'[k] = pending[k]
      <4>1. CASE Call(c)
        BY <4>1, CallWrites DEF Write, CompactionInv, TypeOK
      <4>2. CASE Refresh(c) \/ Crash(c)
        BY <4>2 DEF Refresh, Crash, CompactionInv, TypeOK
      <4> QED BY <2>2, <4>1, <4>2
    <3> QED BY <1>1, <3>1, <3>2
  <2>3. CASE Publish(c) \/ CleanUp(c)
    <3>1. k # c => /\ hot'[k] = hot[k] /\ archive'[k] = archive[k]
                   /\ index'[k] = index[k] /\ pending'[k] = pending[k]
      BY <2>3, PublishLines DEF Publish, CleanUp, CompactionInv, TypeOK
    <3> QED BY <1>1, <2>3, <3>1, BeginRun
  <2>4. CASE \E e \in Domains : Unlink(c, e)
    <3>1. PICK e \in Domains : Unlink(c, e)
      BY <2>4
    <3>2. k # c => /\ hot'[k] = hot[k] /\ archive'[k] = archive[k]
                   /\ index'[k] = index[k] /\ pending'[k] = pending[k]
      BY <3>1 DEF Unlink, CompactionInv, TypeOK
    <3>3. CASE k = c
      <4>1. index[c] = Reads(c) /\ archive' = archive
        BY <3>1, <3>3, UnlinkReads DEF Unlink
      <4>2. pending'[c] = pending[c] \ {e}
        BY <3>1 DEF Unlink, CompactionInv, TypeOK
      <4>3. /\ d \in Archived(archive[c])
            /\ hot'[c][d] # ArchivedRow(archive[c], d) \/ d \in pending[c] \ {e}
        BY <3>1, <3>3, <4>1, UnlinkRun
      <4> QED BY <3>3, <4>1, <4>2, <4>3
    <3> QED BY <1>1, <3>2, <3>3
  <2>5. CASE \E from \in Clones \ {c} : Pull(c, from)
    <3>1. PICK from \in Clones \ {c} : Pull(c, from)
      BY <2>5
    <3>2. k = c \/ k = from
      BY CompactionConstants
    <3>3. Idle(k)'
      BY <3>1, <3>2 DEF Pull, Idle
    <3> QED BY <3>3
  <2> QED BY <2>1, <2>2, <2>3, <2>4, <2>5
<1> QED BY <1>2, <1>3

(* A compaction that ends leaves no closed record hot but one that its archived *)
(* line contradicts.                                                          *)
THEOREM CompactionLeavesNoRemains == Spec => CompactionConverges
<1>1. Init => RunInv
  BY DEF Init, RunInv, Idle
<1>2. Spec => [](CompactionInv /\ RunInv)
  BY <1>1, InitCompactionInv, NextStep, RunStep, PTL DEF Spec
<1>3. ASSUME CompactionInv, RunInv, Next, NEW k \in Clones,
             ~Idle(k), Idle(k)', crashes' = crashes, index[k] = Reads(k),
             NEW d \in Domains, Closed(hot'[k][d])
      PROVE  hot'[k][d] # ArchivedRow(archive[k], d) /\ d \in Archived(archive[k])
  <2>1. PICK c \in Clones :
            \/ Call(c) \/ Refresh(c)
            \/ Publish(c) \/ CleanUp(c) \/ \E e \in Domains : Unlink(c, e)
            \/ Crash(c)
            \/ \E from \in Clones \ {c} : Pull(c, from)
    BY <1>3, Zenon DEF Next
  <2>2. CASE \E e \in Domains : Unlink(c, e)
    <3>1. PICK e \in Domains : Unlink(c, e)
      BY <2>2
    <3>2. k = c /\ pending'[c] = pending[c] \ {e} /\ pending'[c] = {}
      BY <1>3, <3>1 DEF Unlink, Idle, CompactionInv, TypeOK
    <3> QED BY <1>3, <3>1, <3>2, UnlinkRun
  <2>3. CASE Call(c) \/ Refresh(c) \/ \E from \in Clones \ {c} : Pull(c, from)
    <3>1. pending' = pending
      BY <2>3, CallWrites DEF Write, Refresh, Pull
    <3> QED BY <1>3, <3>1 DEF Idle
  <2>4. CASE Publish(c) \/ CleanUp(c)
    <3>1. pending'[k] = pending[k] \/ (k = c /\ Idle(c))
      <4>1. Idle(c)
        BY <2>4 DEF Publish, CleanUp
      <4>2. CASE k # c
        <5>1. pending \in [Clones -> SUBSET Domains]
          BY <1>3 DEF CompactionInv, TypeOK
        <5>2. \E S : pending' = [pending EXCEPT ![c] = S]
          BY <2>4, Zenon DEF Publish, CleanUp
        <5> QED BY <4>2, <5>1, <5>2
      <4> QED BY <4>1, <4>2
    <3> QED BY <1>3, <3>1 DEF Idle
  <2>5. CASE Crash(c)
    BY <1>3, <2>5, CompactionConstants DEF Crash, CompactionInv, TypeOK
  <2> QED BY <2>1, <2>2, <2>3, <2>4, <2>5
<1>4. CompactionInv /\ RunInv /\ [Next]_vars =>
          [\A c \in Clones :
              (~Idle(c) /\ Idle(c)' /\ crashes' = crashes /\ index[c] = Reads(c)) =>
                  \A d \in Domains :
                      Closed(hot'[c][d]) => hot'[c][d] # ArchivedRow(archive[c], d)
                                            /\ d \in Archived(archive[c])]_vars
  BY <1>3
<1> QED BY <1>2, <1>4, PTL DEF Spec, CompactionConverges

=============================================================================
