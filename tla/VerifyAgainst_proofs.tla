------------------------- MODULE VerifyAgainst_proofs -------------------------
(***************************************************************************)
(* sidegraph-verify --against accepts legal changes only: the argument     *)
(* goes through the rules in the order of _Against.judge and needs nothing *)
(* of how the tree came about, so it holds of any two trees.               *)
(***************************************************************************)
EXTENDS VerifyAgainst, TLAPS

\* What a set of one body holds.
LEMMA TheBodyIsIn ==
    ASSUME NEW S, OneBody(S) \/ S # {}
    PROVE  TheBody(S) \in S
BY DEF TheBody, OneBody

\* Which bodies the copies of a record have.
LEMMA BodiesOfCopies ==
    ASSUME NEW t, NEW i, NEW b
    PROVE  /\ b \in FileBodies(t, i) <=> [kind |-> "file", at |-> i, body |-> b] \in Occurrences(t, i)
           /\ b \in ShardBodies(t, i) <=>
                \E f \in ShardFiles : [kind |-> "shard", at |-> f, body |-> b] \in Occurrences(t, i)
           /\ b \in ArchiveBodies(t, i) <=>
                \E s \in t.segs : [kind |-> "archive", at |-> s, body |-> b] \in Occurrences(t, i)
<1>1. b \in FileBodies(t, i) <=> [kind |-> "file", at |-> i, body |-> b] \in Occurrences(t, i)
  BY DEF Occurrences, FileCopies, ShardCopies, ArchiveCopies
<1>2. b \in ShardBodies(t, i) <=>
        \E f \in ShardFiles : [kind |-> "shard", at |-> f, body |-> b] \in Occurrences(t, i)
  <2>1. b \in ShardBodies(t, i) => \E f \in ShardFiles : Held(t.shard[f], i, b)
    BY DEF ShardBodies, Held
  <2>2. \A f : [kind |-> "shard", at |-> f, body |-> b] \in Occurrences(t, i) => b \in ShardBodies(t, i)
    BY DEF Occurrences, FileCopies, ShardCopies, ArchiveCopies
  <2>3. \A f \in ShardFiles : b \in ShardBodies(t, i) /\ Held(t.shard[f], i, b) =>
          [kind |-> "shard", at |-> f, body |-> b] \in Occurrences(t, i)
    BY DEF Occurrences, ShardCopies
  <2> QED BY <2>1, <2>2, <2>3
<1>3. b \in ArchiveBodies(t, i) <=>
        \E s \in t.segs : [kind |-> "archive", at |-> s, body |-> b] \in Occurrences(t, i)
  <2>1. b \in ArchiveBodies(t, i) => \E s \in t.segs : Held(SegmentLines[s], i, b)
    BY DEF ArchiveBodies, Held
  <2>2. \A s : [kind |-> "archive", at |-> s, body |-> b] \in Occurrences(t, i) => b \in ArchiveBodies(t, i)
    BY DEF Occurrences, FileCopies, ShardCopies, ArchiveCopies
  <2>3. \A s \in t.segs : b \in ArchiveBodies(t, i) /\ Held(SegmentLines[s], i, b) =>
          [kind |-> "archive", at |-> s, body |-> b] \in Occurrences(t, i)
    BY DEF Occurrences, ArchiveCopies
  <2> QED BY <2>1, <2>2, <2>3
<1> QED BY <1>1, <1>2, <1>3

\* Every copy has its body among those; an archived one names its segment.
LEMMA CopiesHaveBodies ==
    ASSUME NEW t, NEW i, NEW o \in Occurrences(t, i)
    PROVE  /\ o.body \in Copies(t, i)
           /\ o.kind = "archive" => o.at \in t.segs
BY DEF Occurrences, FileCopies, ShardCopies, ArchiveCopies, Copies

\* The copies of a record determine what readers take for it.
LEMMA SameCopiesSameRecord ==
    ASSUME NEW r, NEW d, NEW i, Occurrences(r, i) = Occurrences(d, i)
    PROVE  Effective(r, i) = Effective(d, i)
<1>1. \A b : b \in FileBodies(r, i) <=> b \in FileBodies(d, i)
  BY BodiesOfCopies
<1>2. \A b : b \in ShardBodies(r, i) <=> b \in ShardBodies(d, i)
  BY BodiesOfCopies
<1>3. \A b : b \in ArchiveBodies(r, i) <=> b \in ArchiveBodies(d, i)
  <2>1. ASSUME NEW x, NEW y, Occurrences(x, i) = Occurrences(y, i), NEW b \in ArchiveBodies(x, i)
        PROVE  b \in ArchiveBodies(y, i)
    <3>1. PICK s \in x.segs : [kind |-> "archive", at |-> s, body |-> b] \in Occurrences(x, i)
      BY <2>1, BodiesOfCopies
    <3>2. s \in y.segs
      BY <2>1, <3>1, CopiesHaveBodies
    <3> QED BY <2>1, <3>1, <3>2, BodiesOfCopies
  <2> QED BY <2>1
<1>4. r.file[i] = d.file[i]
  BY <1>1 DEF FileBodies
<1>5. ShardBodies(r, i) = ShardBodies(d, i) /\ ArchiveBodies(r, i) = ArchiveBodies(d, i)
  BY <1>2, <1>3
<1> QED
  BY <1>4, <1>5 DEF Effective, ArchiveReplaces

\* A change of the file alone: the new body is what readers take.
LEMMA FileEdit ==
    ASSUME NEW r, NEW d, NEW i,
           Occurrences(r, i) # Occurrences(d, i), Removed(r, d, i) = {},
           \A o \in NewOnes(r, d, i) : o.kind = "file",
           Effective(d, i) \in Bodies
    PROVE  Effective(d, i) = d.file[i]
<1>1. d.file[i] # None
  <2>1. CASE NewOnes(r, d, i) = {}
    <3>1. Gone(r, d, i) # {}
      BY <2>1 DEF NewOnes, Gone
    <3> QED BY <3>1 DEF Removed, Modified
  <2>2. CASE NewOnes(r, d, i) # {}
    BY <2>2 DEF NewOnes, Occurrences, FileCopies, ShardCopies, ArchiveCopies, FileBodies
  <2> QED BY <2>1, <2>2
<1>2. Effective(d, i) # Gap
  BY MaintenanceAssumption
<1> QED
  BY <1>1, <1>2 DEF Effective

\* The two ways to keep one of the committed copies that contradict.
LEMMA SanctionedKeepsACopy ==
    ASSUME NEW r, NEW d, NEW i, Sanctioned(r, d, i)
    PROVE  /\ ShadowDivergence(r, i) \/ DuplicateUlid(r, i)
           /\ Effective(d, i) \in Copies(r, i)
<1>1. CASE KeepsTheLine(r, d, i)
  <2>1. TheBody(ShardBodies(r, i)) \in ShardBodies(r, i)
    BY <1>1, TheBodyIsIn DEF KeepsTheLine, ShadowPair
  <2> QED
    BY <1>1, <2>1 DEF KeepsTheLine, ShadowPair, ShadowDivergence, FileBodies, Copies
<1>2. CASE KeepsOneCopy(r, d, i)
  <2>1. DuplicateUlid(r, i)
    <3>1. ArchiveBodies(r, i) # {} /\ TheBody(ArchiveBodies(r, i)) \in ArchiveBodies(r, i)
      BY <1>2, TheBodyIsIn DEF KeepsOneCopy, RefDuplicateUlid
    <3>2. CASE Differ(ArchiveBodies(r, i))
      BY <3>2 DEF DuplicateUlid
    <3>3. CASE /\ ~(Differ(ArchiveBodies(r, i)))
               /\ r.file[i] # None
      BY <1>2, <3>1, <3>3 DEF KeepsOneCopy, RefDuplicateUlid, DuplicateUlid, FileBodies
    <3>4. CASE /\ ~(Differ(ArchiveBodies(r, i)))
               /\ r.file[i] = None
      <4>1. TheBody(ShardBodies(r, i)) \in ShardBodies(r, i)
        BY <1>2, <3>4, TheBodyIsIn DEF KeepsOneCopy, RefDuplicateUlid
      <4> QED
        BY <1>2, <3>1, <3>4, <4>1 DEF KeepsOneCopy, RefDuplicateUlid, DuplicateUlid
    <3> QED BY <3>2, <3>3, <3>4
  <2>2. \E p \in Occurrences(r, i) : p.body = Effective(d, i)
    BY <1>2 DEF KeepsOneCopy
  <2>3. \A p \in Occurrences(r, i) : p.body \in Copies(r, i)
    BY CopiesHaveBodies
  <2> QED BY <2>1, <2>2, <2>3
<1> QED
  BY <1>1, <1>2 DEF Sanctioned

-----------------------------------------------------------------------------
\* One record that Judge does not report.
LEMMA UnreportedIsLegal ==
    ASSUME NEW r, NEW d, NEW i, ~Judge(r, d, i), Effective(r, i) \in Bodies
    PROVE  /\ Effective(d, i) \in Bodies
           /\ \/ Legal(Effective(r, i), Effective(d, i))
              \/ /\ ShadowDivergence(r, i) \/ DuplicateUlid(r, i)
                 /\ Effective(d, i) \in Copies(r, i)
<1>1. Effective(r, i) # Gap /\ Effective(r, i) # None
  BY MaintenanceAssumption
<1>2. Occurrences(r, i) # {}
  <2>1. SUFFICES ASSUME Occurrences(r, i) = {} PROVE Effective(r, i) = None
    BY <1>1
  <2>2. \A b : b \notin FileBodies(r, i) /\ b \notin ShardBodies(r, i) /\ b \notin ArchiveBodies(r, i)
    BY <2>1, BodiesOfCopies
  <2>3. r.file[i] = None
    BY <2>2 DEF FileBodies
  <2> QED
    <3>1. ShardBodies(r, i) = {} /\ ArchiveBodies(r, i) = {}
      BY <2>2
    <3> QED BY <2>3, <3>1 DEF Effective, Differ
<1>3. CASE Occurrences(r, i) = Occurrences(d, i)
  <2>1. Effective(d, i) = Effective(r, i)
    BY <1>3, SameCopiesSameRecord
  <2> QED BY <2>1, MaintenanceAssumption DEF Legal
<1>4. CASE Occurrences(r, i) # Occurrences(d, i)
  <2>1. Effective(d, i) \in Bodies
    BY <1>1, <1>2, <1>4 DEF Judge
  <2>2. CASE Removed(r, d, i) = {} /\ \A o \in NewOnes(r, d, i) : o.kind = "file"
    <3>1. ~Edit(r, d, i)
      BY <1>1, <1>2, <1>4, <2>1, <2>2 DEF Judge
    <3> QED BY <1>4, <2>1, <2>2, <3>1, FileEdit DEF Edit
  <2>3. CASE ~(Removed(r, d, i) = {} /\ \A o \in NewOnes(r, d, i) : o.kind = "file")
    <3>1. Sanctioned(r, d, i) \/ ~Relocation(r, d, i)
      BY <1>1, <1>2, <1>4, <2>1, <2>3 DEF Judge
    <3>2. CASE Sanctioned(r, d, i)
      BY <2>1, <3>2, SanctionedKeepsACopy
    <3>3. CASE ~Relocation(r, d, i)
      BY <2>1, <3>3 DEF Relocation
    <3> QED BY <3>1, <3>2, <3>3
  <2> QED BY <2>2, <2>3
<1> QED BY <1>3, <1>4

(* A tree that --against accepts is a legal successor of the committed one. *)
THEOREM AcceptedTreesAreLegal == VSpec => []AcceptedIsLegal
<1>1. AcceptedIsLegal
  <2>1. SUFFICES ASSUME Against(base, Disk) = {}, NEW i \in Ids, Effective(base, i) \in Bodies
                 PROVE  /\ Effective(Disk, i) \in Bodies
                        /\ \/ Legal(Effective(base, i), Effective(Disk, i))
                           \/ /\ ShadowDivergence(base, i) \/ DuplicateUlid(base, i)
                              /\ Effective(Disk, i) \in Copies(base, i)
    BY DEF AcceptedIsLegal
  <2>2. ~Judge(base, Disk, i)
    <3>1. Judge(base, Disk, i) => <<"record", i>> \in Against(base, Disk)
      BY DEF Against
    <3> QED BY <2>1, <3>1
  <2> QED BY <2>1, <2>2, UnreportedIsLegal
<1> QED BY <1>1, PTL

-----------------------------------------------------------------------------
(***************************************************************************)
(* A maintenance run.  It holds what it read; what it expects of the shard  *)
(* files is what it read with the lines of this phase and the phases before *)
(* it (PlanInv); of a record that git left alone the disk is as expected     *)
(* (UntouchedInv).  The arithmetic of the three images is in Stages: until    *)
(* a record's line is written its bodies are the ones read, afterwards its   *)
(* line is the only one, and it is what every reader takes for the record.   *)
(***************************************************************************)

Has(S, i, b) == [id |-> i, body |-> b] \in S

New(d, elig, i) == ~Skipped(d, i) /\ Final(d, elig, i) # None

RunType == [read : Store, elig : SUBSET Ids, head0 : Nat,
            expected : [ShardFiles -> SUBSET Line],
            left : SUBSET (ShardFiles \cup Ids \cup Segments)]

RunTypeOK ==
    /\ file \in [Ids -> Bodies \cup {None}] /\ shard \in [ShardFiles -> SUBSET Line]
    /\ segs \in SUBSET Segments /\ head \in Nat /\ touched \in SUBSET Ids
    /\ pc \in {"idle", "add", "drop", "write", "files", "segments", "done"}
    /\ run \in RunType

PlanInv ==
    pc # "idle" =>
      /\ \A i \in Ids : ~Differ(ShardBodies(run.read, i))
      /\ pc = "add" => \A f \in ShardFiles :
            run.expected[f] = IF f \in run.left THEN run.read.shard[f] ELSE Added(run.read, f)
      /\ pc = "drop" => \A f \in ShardFiles :
            run.expected[f] = IF f \in run.left THEN Added(run.read, f) ELSE Dropped(run.read, f)
      /\ pc = "write" => \A f \in ShardFiles :
            run.expected[f] = IF f \in run.left THEN Dropped(run.read, f)
                              ELSE Written(run.read, run.elig, f)
      /\ pc \in {"files", "segments", "done"} => \A f \in ShardFiles :
            run.expected[f] = Written(run.read, run.elig, f)
      /\ pc = "files" => run.left \subseteq {i \in Ids : Folds(run.read, run.elig, i)}
      /\ pc = "segments" =>
            run.left \subseteq {s \in run.read.segs : SegmentFolds(run.read, run.elig, s)}

UntouchedInv ==
    pc # "idle" => \A i \in Ids \ touched :
      /\ \A f \in ShardFiles, b \in Bodies : Has(shard[f], i, b) <=> Has(run.expected[f], i, b)
      /\ \/ file[i] = run.read.file[i]
         \/ /\ pc \in {"files", "segments", "done"} /\ file[i] = None
            /\ Folds(run.read, run.elig, i)
      /\ \A s \in Segments : (\E l \in SegmentLines[s] : l.id = i) =>
            \/ s \in segs <=> s \in run.read.segs
            \/ /\ pc \in {"segments", "done"} /\ s \in run.read.segs
               /\ SegmentFolds(run.read, run.elig, s)

(* What a phase has done when git left the store alone. *)
DoneInv ==
    touched = {} =>
      /\ pc = "files" => \A i \in Ids :
            (Folds(run.read, run.elig, i) /\ i \notin run.left) => file[i] = None
      /\ pc \in {"segments", "done"} => \A i \in Ids :
            Folds(run.read, run.elig, i) => file[i] = None
      /\ pc = "segments" => \A s \in segs : SegmentFolds(run.read, run.elig, s) => s \in run.left
      /\ pc = "done" => \A s \in segs : ~SegmentFolds(run.read, run.elig, s)

RunInv == RunTypeOK /\ PlanInv /\ UntouchedInv /\ DoneInv

-----------------------------------------------------------------------------
(* Lines and bodies. *)

LEMMA LineIs ==
    ASSUME NEW l \in Line
    PROVE  /\ l = [id |-> l.id, body |-> l.body]
           /\ l.id \in Ids /\ l.body \in Bodies
BY DEF Line

LEMMA ShardBody ==
    ASSUME NEW d, \A f \in ShardFiles : d.shard[f] \subseteq Line, NEW i, NEW b
    PROVE  b \in ShardBodies(d, i) <=> \E f \in ShardFiles : Has(d.shard[f], i, b)
<1>1. ASSUME b \in ShardBodies(d, i)
      PROVE  \E f \in ShardFiles : Has(d.shard[f], i, b)
  <2>1. PICK f \in ShardFiles : \E l \in d.shard[f] : l.id = i /\ l.body = b
    BY <1>1 DEF ShardBodies
  <2>2. PICK l \in d.shard[f] : l.id = i /\ l.body = b
    BY <2>1
  <2> QED BY <2>2, LineIs DEF Has
<1>2. ASSUME NEW f \in ShardFiles, Has(d.shard[f], i, b)
      PROVE  b \in ShardBodies(d, i)
  BY <1>2 DEF Has, ShardBodies
<1> QED BY <1>1, <1>2

LEMMA ArchiveBody ==
    ASSUME NEW d, d.segs \subseteq Segments, NEW i, NEW b
    PROVE  b \in ArchiveBodies(d, i) <=> \E s \in d.segs : Has(SegmentLines[s], i, b)
<1>1. ASSUME b \in ArchiveBodies(d, i)
      PROVE  \E s \in d.segs : Has(SegmentLines[s], i, b)
  <2>1. PICK s \in d.segs : \E l \in SegmentLines[s] : l.id = i /\ l.body = b
    BY <1>1 DEF ArchiveBodies
  <2>2. PICK l \in SegmentLines[s] : l.id = i /\ l.body = b
    BY <2>1
  <2>3. l \in Line
    BY MaintenanceAssumption
  <2> QED BY <2>2, <2>3, LineIs DEF Has
<1>2. ASSUME NEW s \in d.segs, Has(SegmentLines[s], i, b)
      PROVE  b \in ArchiveBodies(d, i)
  BY <1>2 DEF Has, ArchiveBodies
<1> QED BY <1>1, <1>2

LEMMA StoreBodies ==
    ASSUME NEW d \in Store, NEW i \in Ids
    PROVE  /\ ShardBodies(d, i) \subseteq Bodies /\ ArchiveBodies(d, i) \subseteq Bodies
           /\ d.file[i] \in Bodies \cup {None}
<1>1. /\ d.segs \subseteq Segments /\ d.file[i] \in Bodies \cup {None}
      /\ \A f \in ShardFiles : d.shard[f] \subseteq Line
  BY DEF Store
<1>2. \A b : [id |-> i, body |-> b] \in Line => b \in Bodies
  BY DEF Line
<1>3. \A s \in Segments : SegmentLines[s] \subseteq Line
  BY MaintenanceAssumption
<1> QED BY <1>1, <1>2, <1>3, ShardBody, ArchiveBody DEF Has

LEMMA FinalType ==
    ASSUME NEW d \in Store, NEW elig, NEW i \in Ids
    PROVE  Final(d, elig, i) \in Bodies \cup {None}
<1>1. \A S : S # {} => TheBody(S) \in S
  BY TheBodyIsIn
<1> QED BY <1>1, StoreBodies DEF Final

(* What each image holds of one record. *)
LEMMA InImages ==
    ASSUME NEW d \in Store, NEW elig, NEW f \in ShardFiles, NEW i \in Ids, NEW b \in Bodies
    PROVE  /\ Has(Moved(d, f), i, b)
                <=> Has(d.shard[f], i, b) /\ Bucket[i] # f /\ ~Skipped(d, i)
           /\ Has(Added(d, f), i, b)
                <=> \/ Has(d.shard[f], i, b)
                    \/ Bucket[i] = f /\ \E g \in ShardFiles : Has(Moved(d, g), i, b)
           /\ Has(Dropped(d, f), i, b) <=> Has(Added(d, f), i, b) /\ ~Has(Moved(d, f), i, b)
           /\ Has(Written(d, elig, f), i, b)
                <=> IF New(d, elig, i) /\ Bucket[i] = f THEN b = Final(d, elig, i)
                    ELSE Has(Dropped(d, f), i, b)
<1> DEFINE l == [id |-> i, body |-> b]
<1>0. l.id = i /\ l.body = b
  OBVIOUS
<1>1. l \in Moved(d, f) <=> l \in d.shard[f] /\ Bucket[i] # f /\ ~Skipped(d, i)
  BY <1>0 DEF Moved
<1>2. l \in Added(d, f) <=> \/ l \in d.shard[f]
                            \/ Bucket[i] = f /\ \E g \in ShardFiles : l \in Moved(d, g)
  BY <1>0 DEF Added
<1>3. l \in Dropped(d, f) <=> l \in Added(d, f) /\ l \notin Moved(d, f)
  BY DEF Dropped
<1>4. l \in Written(d, elig, f)
        <=> IF New(d, elig, i) /\ Bucket[i] = f THEN b = Final(d, elig, i)
            ELSE l \in Dropped(d, f)
  <2> DEFINE new == {j \in Ids : Bucket[j] = f /\ ~Skipped(d, j) /\ Final(d, elig, j) # None}
  <2>1. i \in new <=> New(d, elig, i) /\ Bucket[i] = f
    BY DEF New
  <2>2. l \in Written(d, elig, f)
          <=> \/ l \in Dropped(d, f) /\ l.id \notin new
              \/ \E j \in new : l = [id |-> j, body |-> Final(d, elig, j)]
    BY DEF Written
  <2> HIDE DEF new
  <2>3. \A j \in new : l = [id |-> j, body |-> Final(d, elig, j)] <=> j = i /\ b = Final(d, elig, j)
    OBVIOUS
  <2> QED BY <1>0, <2>1, <2>2, <2>3
<1> QED BY <1>1, <1>2, <1>3, <1>4 DEF Has

LEMMA ImageTypes ==
    ASSUME NEW d \in Store, NEW elig, NEW f \in ShardFiles
    PROVE  /\ Added(d, f) \subseteq Line /\ Dropped(d, f) \subseteq Line
           /\ Written(d, elig, f) \subseteq Line
           /\ d.shard[f] \subseteq Line
<1>1. \A g \in ShardFiles : d.shard[g] \subseteq Line
  BY DEF Store
<1>2. Added(d, f) \subseteq Line
  BY <1>1 DEF Added, Moved
<1>3. Dropped(d, f) \subseteq Line
  BY <1>2 DEF Dropped
<1>4. \A i \in Ids : Final(d, elig, i) # None => [id |-> i, body |-> Final(d, elig, i)] \in Line
  BY FinalType DEF Line
<1>5. Written(d, elig, f) \subseteq Line
  BY <1>3, <1>4 DEF Written
<1> QED BY <1>1, <1>2, <1>3, <1>5

(* A moved line is in its bucket before it goes where it stood: until its     *)
(* lines are written a record has the bodies that were read.                 *)
LEMMA LinesMove ==
    ASSUME NEW d \in Store, NEW S, NEW i \in Ids, NEW b \in Bodies,
           \/ \A f \in ShardFiles : S[f] = d.shard[f] \/ S[f] = Added(d, f)
           \/ \A f \in ShardFiles : S[f] = Added(d, f) \/ S[f] = Dropped(d, f)
    PROVE  (\E f \in ShardFiles : Has(S[f], i, b)) <=> (\E f \in ShardFiles : Has(d.shard[f], i, b))
<1>b. Bucket[i] \in ShardFiles
  BY MaintenanceAssumption DEF ShardFiles
<1>m. \A f \in ShardFiles : Has(Moved(d, f), i, b)
        <=> Has(d.shard[f], i, b) /\ Bucket[i] # f /\ ~Skipped(d, i)
  BY InImages
<1>a. \A f \in ShardFiles : Has(Added(d, f), i, b)
        <=> \/ Has(d.shard[f], i, b)
            \/ Bucket[i] = f /\ \E g \in ShardFiles : Has(Moved(d, g), i, b)
  BY InImages
<1>d. \A f \in ShardFiles : Has(Dropped(d, f), i, b)
        <=> Has(Added(d, f), i, b) /\ ~Has(Moved(d, f), i, b)
  BY InImages
<1>1. \A f \in ShardFiles : (Has(Added(d, f), i, b) \/ Has(Dropped(d, f), i, b))
                            => \E g \in ShardFiles : Has(d.shard[g], i, b)
  BY <1>m, <1>a, <1>d
<1>2. ASSUME NEW f \in ShardFiles, Has(d.shard[f], i, b)
      PROVE  /\ Has(Added(d, f), i, b)
             /\ \/ Has(Dropped(d, f), i, b)
                \/ Has(Added(d, Bucket[i]), i, b) /\ Has(Dropped(d, Bucket[i]), i, b)
  <2>1. CASE Has(Moved(d, f), i, b)
    BY <1>2, <2>1, <1>b, <1>m, <1>a, <1>d
  <2>2. CASE ~Has(Moved(d, f), i, b)
    BY <1>2, <2>2, <1>a, <1>d
  <2> QED BY <2>1, <2>2
<1>3. CASE \A f \in ShardFiles : S[f] = d.shard[f] \/ S[f] = Added(d, f)
  BY <1>1, <1>2, <1>3
<1>4. CASE \A f \in ShardFiles : S[f] = Added(d, f) \/ S[f] = Dropped(d, f)
  BY <1>1, <1>2, <1>4, <1>b
<1> QED BY <1>3, <1>4

(* Writing its line leaves a record with that line alone. *)
LEMMA LinesWritten ==
    ASSUME NEW d \in Store, NEW elig, NEW S, NEW i \in Ids,
           \A f \in ShardFiles : S[f] = Dropped(d, f) \/ S[f] = Written(d, elig, f)
    PROVE  /\ ~New(d, elig, i) \/ S[Bucket[i]] = Dropped(d, Bucket[i]) =>
                 \A b \in Bodies : (\E f \in ShardFiles : Has(S[f], i, b))
                                   <=> (\E f \in ShardFiles : Has(d.shard[f], i, b))
           /\ New(d, elig, i) =>
                 /\ \A f \in ShardFiles \ {Bucket[i]} : \A b \in Bodies : ~Has(S[f], i, b)
                 /\ S[Bucket[i]] = Written(d, elig, Bucket[i]) =>
                      \A b \in Bodies : Has(S[Bucket[i]], i, b) <=> b = Final(d, elig, i)
<1>b. Bucket[i] \in ShardFiles
  BY MaintenanceAssumption DEF ShardFiles
<1> DEFINE D == [f \in ShardFiles |-> Dropped(d, f)]
<1>1. \A b \in Bodies : (\E f \in ShardFiles : Has(D[f], i, b))
                        <=> (\E f \in ShardFiles : Has(d.shard[f], i, b))
  <2>1. \A f \in ShardFiles : D[f] = Added(d, f) \/ D[f] = Dropped(d, f)
    OBVIOUS
  <2> HIDE DEF D
  <2> QED BY <2>1, LinesMove
<1>2. \A f \in ShardFiles : D[f] = Dropped(d, f)
  OBVIOUS
<1> HIDE DEF D
<1>3. ASSUME NEW f \in ShardFiles, NEW b \in Bodies, ~New(d, elig, i) \/ Bucket[i] # f
      PROVE  Has(S[f], i, b) <=> Has(D[f], i, b)
  <2>1. Has(Written(d, elig, f), i, b) <=> Has(Dropped(d, f), i, b)
    BY <1>3, InImages
  <2> QED BY <2>1, <1>2
<1>4. ASSUME ~New(d, elig, i) \/ S[Bucket[i]] = Dropped(d, Bucket[i]), NEW b \in Bodies
      PROVE  (\E f \in ShardFiles : Has(S[f], i, b))
             <=> (\E f \in ShardFiles : Has(d.shard[f], i, b))
  <2>1. \A f \in ShardFiles : Has(S[f], i, b) <=> Has(D[f], i, b)
    BY <1>3, <1>4, <1>2
  <2> QED BY <2>1, <1>1
<1>5. ASSUME New(d, elig, i), NEW f \in ShardFiles \ {Bucket[i]}, NEW b \in Bodies
      PROVE  ~Has(S[f], i, b)
  <2>1. Has(S[f], i, b) <=> Has(Dropped(d, f), i, b)
    BY <1>3, <1>2, <1>5
  <2>2. Has(Dropped(d, f), i, b) => Has(d.shard[f], i, b) /\ ~Has(Moved(d, f), i, b)
    BY <1>5, InImages
  <2>3. Has(d.shard[f], i, b) => Has(Moved(d, f), i, b)
    BY <1>5, InImages DEF New
  <2> QED BY <2>1, <2>2, <2>3
<1>6. ASSUME New(d, elig, i), S[Bucket[i]] = Written(d, elig, Bucket[i]), NEW b \in Bodies
      PROVE  Has(S[Bucket[i]], i, b) <=> b = Final(d, elig, i)
  BY <1>6, <1>b, InImages
<1> QED BY <1>4, <1>5, <1>6

-----------------------------------------------------------------------------
(* What readers take for a record of which git left every copy alone. *)

LEMMA BodyOfOne ==
    ASSUME NEW b
    PROVE  TheBody({b}) = b /\ ~Differ({b})
BY DEF TheBody, Differ

LEMMA FoldsIsNew ==
    ASSUME NEW d \in Store, NEW elig, NEW i \in Ids
    PROVE  /\ Folds(d, elig, i) => New(d, elig, i) /\ Final(d, elig, i) = d.file[i]
           /\ \A s \in Segments : (SegmentFolds(d, elig, s) /\ \E l \in SegmentLines[s] : l.id = i)
                                  => New(d, elig, i)
BY DEF Folds, New, Final, SegmentFolds

LEMMA FinalIs ==
    ASSUME NEW d, NEW elig, NEW i, ~Folds(d, elig, i), d.file[i] = None
    PROVE  Final(d, elig, i) =
             IF ShardBodies(d, i) = {}
             THEN IF ArchiveBodies(d, i) = {} THEN None ELSE TheBody(ArchiveBodies(d, i))
             ELSE IF ArchiveReplaces(d, i) THEN TheBody(ArchiveBodies(d, i))
             ELSE TheBody(ShardBodies(d, i))
BY DEF Final, ArchiveReplaces, OneBody

(* The line of the plan stands for the record, whatever of its file and of its *)
(* archived copies the run has removed.                                       *)
LEMMA NoArchiveReplacesFinal ==
    ASSUME NEW r \in Store, NEW elig, NEW i \in Ids, New(r, elig, i), NEW d,
           ShardBodies(d, i) = {Final(r, elig, i)},
           ArchiveBodies(d, i) \subseteq ArchiveBodies(r, i),
           d.file[i] = r.file[i] \/ (Folds(r, elig, i) /\ d.file[i] = None),
           d.file[i] = None, ArchiveReplaces(d, i)
    PROVE  TheBody(ArchiveBodies(d, i)) = Final(r, elig, i)
<1> DEFINE final == Final(r, elig, i)
           a == TheBody(ArchiveBodies(d, i))
<1>1. a \in ArchiveBodies(r, i) /\ Superseding(a, final)
  BY TheBodyIsIn, BodyOfOne DEF ArchiveReplaces
<1>2. ~DuplicateUlid(r, i) /\ ~Skipped(r, i)
  BY DEF New, Skipped
<1>3. OneBody(ArchiveBodies(r, i)) /\ TheBody(ArchiveBodies(r, i)) = a
  <2>1. ArchiveBodies(r, i) # {} /\ ~Differ(ArchiveBodies(r, i))
    BY <1>1, <1>2 DEF DuplicateUlid
  <2>2. TheBody(ArchiveBodies(r, i)) \in ArchiveBodies(r, i)
    BY <2>1, TheBodyIsIn
  <2> QED BY <1>1, <2>1, <2>2 DEF Differ, OneBody
<1>g. SUFFICES a = final
  OBVIOUS
<1> HIDE DEF a
<1>4. CASE Folds(r, elig, i)
  <2>1. final = r.file[i] /\ r.file[i] \in FileBodies(r, i)
    BY <1>4, FoldsIsNew DEF Folds, FileBodies
  <2>2. Compatible(a, final)
    BY <1>1, <1>2, <2>1 DEF DuplicateUlid
  <2> QED BY <1>1, <2>2 DEF Superseding
<1>5. CASE ~Folds(r, elig, i)
  <2>1. r.file[i] = None
    BY <1>5
  <2>2. CASE ShardBodies(r, i) = {} \/ ArchiveReplaces(r, i)
    <3>1. ArchiveBodies(r, i) # {}
      BY <1>1
    <3>2. final = IF ShardBodies(r, i) = {}
                  THEN IF ArchiveBodies(r, i) = {} THEN None ELSE TheBody(ArchiveBodies(r, i))
                  ELSE IF ArchiveReplaces(r, i) THEN TheBody(ArchiveBodies(r, i))
                  ELSE TheBody(ShardBodies(r, i))
      BY <1>5, <2>1, FinalIs
    <3> HIDE DEF final
    <3> QED BY <1>3, <2>2, <3>1, <3>2
  <2>3. CASE ShardBodies(r, i) # {} /\ ~ArchiveReplaces(r, i)
    <3>1. final = TheBody(ShardBodies(r, i))
      BY <1>5, <2>1, <2>3, FinalIs
    <3> QED BY <1>1, <1>3, <2>3, <3>1 DEF ArchiveReplaces
  <2> QED BY <2>2, <2>3
<1> QED BY <1>4, <1>5

LEMMA FinalStandsForAll ==
    ASSUME NEW r \in Store, NEW elig, NEW i \in Ids, New(r, elig, i),
           ~Differ(ShardBodies(r, i)), NEW d,
           ShardBodies(d, i) = {Final(r, elig, i)},
           ArchiveBodies(d, i) \subseteq ArchiveBodies(r, i),
           d.file[i] = r.file[i] \/ (Folds(r, elig, i) /\ d.file[i] = None)
    PROVE  /\ Effective(d, i) = Effective(r, i)
           /\ ~Folds(d, elig, i) => Final(d, elig, i) = Final(r, elig, i)
<1> DEFINE final == Final(r, elig, i)
<1>1. ~Differ(ShardBodies(d, i)) /\ TheBody(ShardBodies(d, i)) = final /\ ShardBodies(d, i) # {}
  BY BodyOfOne
<1>2. CASE d.file[i] # None
  <2>1. Effective(d, i) = Effective(r, i)
    BY <1>1, <1>2 DEF Effective
  <2>2. ~Folds(d, elig, i) => Final(d, elig, i) = final
    <3> HIDE DEF final
    <3> QED BY <1>1, <1>2 DEF Final
  <2> QED BY <2>1, <2>2
<1>3. CASE d.file[i] = None
  <2>1. ~ArchiveReplaces(d, i) \/ TheBody(ArchiveBodies(d, i)) = final
    BY <1>3, NoArchiveReplacesFinal
  <2>2. Effective(d, i) = final
    BY <1>1, <1>3, <2>1 DEF Effective
  <2>3. Effective(r, i) = final
    <3>1. CASE Folds(r, elig, i)
      BY <3>1, FoldsIsNew DEF Effective, Folds
    <3>2. CASE ~Folds(r, elig, i)
      <4>1. r.file[i] = None /\ final # None
        BY <1>3, <3>2 DEF New
      <4> QED BY <3>2, <4>1, FinalIs DEF Effective
    <3> QED BY <3>1, <3>2
  <2>4. ~Folds(d, elig, i) => Final(d, elig, i) = final
    <3> HIDE DEF final
    <3> QED BY <1>1, <1>3, <2>1, FinalIs
  <2> QED BY <2>2, <2>3, <2>4
<1> QED BY <1>2, <1>3

(* What git left alone: the bodies on disk in every phase. *)
LEMMA UntouchedBodies ==
    ASSUME RunInv, pc # "idle", NEW i \in Ids \ touched
    PROVE  LET r == run.read
               e == run.elig
           IN  /\ \/ ShardBodies(Disk, i) = ShardBodies(r, i)
                     /\ (New(r, e, i) => pc \notin {"files", "segments", "done"})
                  \/ New(r, e, i) /\ ShardBodies(Disk, i) = {Final(r, e, i)}
               /\ ArchiveBodies(Disk, i) \subseteq ArchiveBodies(r, i)
               /\ ArchiveBodies(Disk, i) # ArchiveBodies(r, i) =>
                      New(r, e, i) /\ pc \in {"segments", "done"}
<1> DEFINE r == run.read
           e == run.elig
           S == run.expected
           Shards == \/ ShardBodies(Disk, i) = ShardBodies(r, i)
                        /\ (New(r, e, i) => pc \notin {"files", "segments", "done"})
                     \/ New(r, e, i) /\ ShardBodies(Disk, i) = {Final(r, e, i)}
<1>t. /\ r \in Store /\ S \in [ShardFiles -> SUBSET Line] /\ i \in Ids
      /\ Disk \in Store /\ Disk.segs = segs /\ Disk.shard = shard
      /\ \A f \in ShardFiles : shard[f] \subseteq Line /\ r.shard[f] \subseteq Line
      /\ segs \subseteq Segments /\ r.segs \subseteq Segments
  BY DEF RunInv, RunTypeOK, RunType, Disk, Store
<1>u. /\ \A f \in ShardFiles, b \in Bodies : Has(shard[f], i, b) <=> Has(S[f], i, b)
      /\ \A s \in Segments : (\E l \in SegmentLines[s] : l.id = i) =>
            \/ s \in segs <=> s \in r.segs
            \/ /\ pc \in {"segments", "done"} /\ s \in r.segs
               /\ SegmentFolds(r, e, s)
  BY DEF RunInv, UntouchedInv
<1>b. /\ ShardBodies(Disk, i) \subseteq Bodies /\ ShardBodies(r, i) \subseteq Bodies
      /\ ArchiveBodies(Disk, i) \subseteq Bodies /\ ArchiveBodies(r, i) \subseteq Bodies
  BY <1>t, StoreBodies
<1>1. \A b : b \in ShardBodies(Disk, i) <=> \E f \in ShardFiles : Has(shard[f], i, b)
  BY <1>t, ShardBody
<1>2. \A b : b \in ShardBodies(r, i) <=> \E f \in ShardFiles : Has(r.shard[f], i, b)
  BY <1>t, ShardBody
<1>3. \A b \in Bodies : b \in ShardBodies(Disk, i) <=> \E f \in ShardFiles : Has(S[f], i, b)
  BY <1>1, <1>u
<1>4. ASSUME pc \in {"add", "drop"} PROVE Shards
  <2>1. \/ \A f \in ShardFiles : S[f] = r.shard[f] \/ S[f] = Added(r, f)
        \/ \A f \in ShardFiles : S[f] = Added(r, f) \/ S[f] = Dropped(r, f)
    BY <1>4 DEF RunInv, PlanInv
  <2>2. \A b \in Bodies : (\E f \in ShardFiles : Has(S[f], i, b))
                          <=> (\E f \in ShardFiles : Has(r.shard[f], i, b))
    BY <1>t, <2>1, LinesMove
  <2>3. ShardBodies(Disk, i) = ShardBodies(r, i)
    BY <1>b, <1>2, <1>3, <2>2
  <2> QED BY <1>4, <2>3
<1>5. ASSUME pc \in {"write", "files", "segments", "done"} PROVE Shards
  <2>1. \A f \in ShardFiles : S[f] = Dropped(r, f) \/ S[f] = Written(r, e, f)
    BY <1>5 DEF RunInv, PlanInv
  <2>2. Bucket[i] \in ShardFiles
    BY MaintenanceAssumption, <1>t DEF ShardFiles
  <2>3. CASE ~New(r, e, i)
    <3>1. \A b \in Bodies : (\E f \in ShardFiles : Has(S[f], i, b))
                            <=> (\E f \in ShardFiles : Has(r.shard[f], i, b))
      BY <1>t, <2>1, <2>3, LinesWritten
    <3> QED BY <1>b, <1>2, <1>3, <2>3, <3>1
  <2>4. CASE New(r, e, i) /\ S[Bucket[i]] = Written(r, e, Bucket[i])
    <3>1. \A b \in Bodies : (\E f \in ShardFiles : Has(S[f], i, b)) <=> b = Final(r, e, i)
      BY <1>t, <2>1, <2>2, <2>4, LinesWritten
    <3>2. Final(r, e, i) \in Bodies
      BY <1>t, <2>4, FinalType DEF New
    <3>3. ShardBodies(Disk, i) = {Final(r, e, i)}
      BY <1>b, <1>3, <3>1, <3>2
    <3> QED BY <2>4, <3>3
  <2>5. CASE New(r, e, i) /\ S[Bucket[i]] # Written(r, e, Bucket[i])
    <3>1. S[Bucket[i]] = Dropped(r, Bucket[i]) /\ pc = "write"
      BY <1>5, <2>1, <2>2, <2>5 DEF RunInv, PlanInv
    <3>2. \A b \in Bodies : (\E f \in ShardFiles : Has(S[f], i, b))
                            <=> (\E f \in ShardFiles : Has(r.shard[f], i, b))
      <4>1. ~New(r, e, i) \/ S[Bucket[i]] = Dropped(r, Bucket[i])
        BY <3>1
      <4> HIDE DEF S, r, e
      <4> QED BY <1>t, <2>1, <4>1, LinesWritten
    <3> QED BY <1>b, <1>2, <1>3, <3>1, <3>2
  <2> QED BY <2>3, <2>4, <2>5
<1>6. /\ ArchiveBodies(Disk, i) \subseteq ArchiveBodies(r, i)
      /\ ArchiveBodies(Disk, i) # ArchiveBodies(r, i) => New(r, e, i) /\ pc \in {"segments", "done"}
  <2>1. \A b : b \in ArchiveBodies(Disk, i) <=> \E s \in segs : Has(SegmentLines[s], i, b)
    BY <1>t, ArchiveBody
  <2>2. \A b : b \in ArchiveBodies(r, i) <=> \E s \in r.segs : Has(SegmentLines[s], i, b)
    BY <1>t, ArchiveBody
  <2>3. \A s \in Segments : \A b : Has(SegmentLines[s], i, b) => \E l \in SegmentLines[s] : l.id = i
    BY DEF Has
  <2>4. \A s \in Segments : \A b : Has(SegmentLines[s], i, b) =>
            \/ s \in segs <=> s \in r.segs
            \/ /\ pc \in {"segments", "done"} /\ s \in r.segs
               /\ New(r, e, i)
    BY <1>t, <1>u, <2>3, FoldsIsNew
  <2> QED BY <1>t, <2>1, <2>2, <2>4
<1>7. pc \in {"add", "drop", "write", "files", "segments", "done"}
  BY DEF RunInv, RunTypeOK
<1> QED BY <1>4, <1>5, <1>6, <1>7

LEMMA UntouchedIsUnchanged ==
    ASSUME RunInv, pc # "idle", NEW i \in Ids \ touched
    PROVE  Effective(Disk, i) = Effective(run.read, i)
<1> DEFINE r == run.read
           e == run.elig
<1>t. r \in Store /\ i \in Ids /\ Disk.file[i] = file[i] /\ ~Differ(ShardBodies(r, i))
  BY DEF RunInv, RunTypeOK, RunType, Disk, PlanInv
<1>u. \/ file[i] = r.file[i]
      \/ pc \in {"files", "segments", "done"} /\ file[i] = None /\ Folds(r, e, i)
  BY DEF RunInv, UntouchedInv
<1>1. /\ \/ ShardBodies(Disk, i) = ShardBodies(r, i)
            /\ (New(r, e, i) => pc \notin {"files", "segments", "done"})
         \/ New(r, e, i) /\ ShardBodies(Disk, i) = {Final(r, e, i)}
      /\ ArchiveBodies(Disk, i) \subseteq ArchiveBodies(r, i)
      /\ ArchiveBodies(Disk, i) # ArchiveBodies(r, i) => New(r, e, i) /\ pc \in {"segments", "done"}
  BY UntouchedBodies
<1>f. Folds(r, e, i) => New(r, e, i)
  BY <1>t, FoldsIsNew
<1>g. SUFFICES Effective(Disk, i) = Effective(r, i)
  OBVIOUS
<1> HIDE DEF r, e
<1>2. CASE New(r, e, i) /\ ShardBodies(Disk, i) = {Final(r, e, i)}
  BY <1>t, <1>u, <1>1, <1>2, FinalStandsForAll
<1>3. CASE ~(New(r, e, i) /\ ShardBodies(Disk, i) = {Final(r, e, i)})
  <2>1. /\ ShardBodies(Disk, i) = ShardBodies(r, i)
        /\ ArchiveBodies(Disk, i) = ArchiveBodies(r, i)
        /\ Disk.file[i] = r.file[i]
    BY <1>t, <1>u, <1>1, <1>3, <1>f
  <2> QED BY <2>1 DEF Effective, ArchiveReplaces
<1> QED BY <1>2, <1>3

RecordsUnchanged ==
    pc # "idle" => \A i \in Ids \ touched : Effective(Disk, i) = Effective(run.read, i)

-----------------------------------------------------------------------------
(* RunInv is inductive, for the steps of a run ... *)

LEMMA QuitKeepsRunInv ==
    ASSUME file' \in [Ids -> Bodies \cup {None}], shard' \in [ShardFiles -> SUBSET Line],
           segs' \in SUBSET Segments, head' \in Nat, touched' \in SUBSET Ids, Quit
    PROVE  RunInv'
<1>1. NoRun \in RunType
  BY DEF NoRun, RunType, Store
<1>2. RunTypeOK'
  BY <1>1 DEF RunTypeOK, Quit
<1> QED BY <1>2 DEF RunInv, PlanInv, UntouchedInv, DoneInv, Quit

LEMMA BeginKeepsRunInv == RunInv /\ Begin => RunInv'
<1> SUFFICES ASSUME RunInv, Begin PROVE RunInv'
  OBVIOUS
<1>1. PICK elig \in SUBSET Ids :
        run' = [read |-> Disk, elig |-> elig, head0 |-> head, expected |-> shard,
                left |-> Changes(Added, Disk, shard)]
  BY DEF Begin
<1>2. /\ file' = file /\ shard' = shard /\ segs' = segs /\ head' = head
      /\ pc' = "add" /\ touched' = {}
      /\ \A i \in Ids : Effective(Disk, i) # Gap
  BY DEF Begin
<1>3. Disk \in Store /\ Disk.shard = shard /\ Disk.file = file /\ Disk.segs = segs
  BY DEF RunInv, RunTypeOK, Disk, Store
<1>4. Changes(Added, Disk, shard) = {f \in ShardFiles : Added(Disk, f) # shard[f]}
  BY DEF Changes
<1>5. RunTypeOK'
  BY <1>1, <1>2, <1>3, <1>4 DEF RunInv, RunTypeOK, RunType
<1>6. \A i \in Ids : ~Differ(ShardBodies(Disk, i))
  BY <1>2 DEF Effective
<1>7. /\ run'.read = Disk /\ run'.expected = shard
      /\ run'.left = {f \in ShardFiles : Added(Disk, f) # shard[f]}
  BY <1>1, <1>4
<1>8. PlanInv'
  <2>1. \A f \in ShardFiles : shard[f] = IF Added(Disk, f) # shard[f] THEN Disk.shard[f]
                                        ELSE Added(Disk, f)
    BY <1>3
  <2>2. \A f \in ShardFiles : run'.expected[f] = IF f \in run'.left THEN run'.read.shard[f]
                                               ELSE Added(run'.read, f)
    BY <1>7, <2>1
  <2>3. \A i \in Ids : ~Differ(ShardBodies(run'.read, i))
    BY <1>6, <1>7
  <2> QED BY <1>2, <2>2, <2>3 DEF PlanInv
<1>9. UntouchedInv'
  BY <1>2, <1>3, <1>7 DEF UntouchedInv
<1>10. DoneInv'
  BY <1>2 DEF DoneInv
<1> QED BY <1>5, <1>8, <1>9, <1>10 DEF RunInv

LEMMA PublishKeepsRunInv ==
    ASSUME RunInv, NEW f \in ShardFiles, NEW image, Publish(f, image),
           \/ pc = "add" /\ image = Added(run.read, f)
           \/ pc = "drop" /\ image = Dropped(run.read, f)
           \/ pc = "write" /\ image = Written(run.read, run.elig, f)
    PROVE  RunInv'
<1>t. /\ run \in RunType /\ run.read \in Store /\ shard \in [ShardFiles -> SUBSET Line]
      /\ run.expected \in [ShardFiles -> SUBSET Line]
      /\ file' = file /\ segs' = segs /\ head' = head /\ touched' = touched
  BY DEF RunInv, RunTypeOK, RunType, Publish
<1>i. image \in SUBSET Line
  <2>1. /\ Added(run.read, f) \subseteq Line /\ Dropped(run.read, f) \subseteq Line
        /\ Written(run.read, run.elig, f) \subseteq Line
    BY <1>t, ImageTypes
  <2> QED BY <2>1
<1>1. CASE shard[f] # run.expected[f] /\ Quit /\ UNCHANGED shard
  BY <1>1, <1>t, QuitKeepsRunInv DEF RunInv, RunTypeOK
<1>2. CASE /\ shard[f] = run.expected[f]
           /\ shard' = [shard EXCEPT ![f] = image]
           /\ run' = [run EXCEPT !.expected[f] = image, !.left = @ \ {f}]
           /\ pc' = pc
  <2>1. /\ run' \in RunType /\ run'.read = run.read /\ run'.elig = run.elig
        /\ run'.expected = [run.expected EXCEPT ![f] = image]
        /\ run'.left = run.left \ {f}
    BY <1>2, <1>t, <1>i DEF RunType
  <2>2. RunTypeOK'
    BY <1>2, <1>t, <1>i, <2>1 DEF RunInv, RunTypeOK
  <2>3. PlanInv'
    BY <1>2, <1>t, <2>1 DEF RunInv, PlanInv
  <2>4. \A g \in ShardFiles : /\ shard'[g] = IF g = f THEN image ELSE shard[g]
                              /\ run'.expected[g] = IF g = f THEN image ELSE run.expected[g]
    BY <1>2, <1>t, <2>1
  <2>5. UntouchedInv'
    BY <1>2, <1>t, <2>1, <2>4 DEF RunInv, UntouchedInv
  <2>6. DoneInv'
    BY <1>2 DEF DoneInv
  <2> QED BY <2>2, <2>3, <2>5, <2>6 DEF RunInv
<1> QED BY <1>1, <1>2 DEF Publish

LEMMA PhaseRun ==
    ASSUME run \in RunType, NEW S \in SUBSET (ShardFiles \cup Ids \cup Segments),
           run' = [run EXCEPT !.left = S]
    PROVE  /\ run' \in RunType /\ run'.read = run.read /\ run'.elig = run.elig
           /\ run'.expected = run.expected /\ run'.left = S
BY DEF RunType

(* The stray shard file has no bucket's lines to write. *)
LEMMA StrayIsDropped ==
    ASSUME NEW d, NEW elig
    PROVE  Written(d, elig, N) = Dropped(d, N)
<1>1. \A i \in Ids : Bucket[i] # N
  BY MaintenanceAssumption
<1> QED BY <1>1 DEF Written

LEMMA PhaseKeepsRunInv ==
    ASSUME RunInv, AfterAdd \/ AfterDrop \/ AfterWrite
    PROVE  RunInv'
<1>t. /\ run \in RunType /\ pc # "idle"
      /\ file' = file /\ shard' = shard /\ segs' = segs /\ head' = head /\ touched' = touched
  BY DEF RunInv, RunTypeOK, AfterAdd, AfterDrop, AfterWrite
<1>1. ASSUME NEW S \in SUBSET (ShardFiles \cup Ids \cup Segments),
             run' = [run EXCEPT !.left = S], pc' \in {"drop", "write", "files"}
      PROVE  RunTypeOK' /\ UntouchedInv'
  <2>1. /\ run' \in RunType /\ run'.read = run.read /\ run'.elig = run.elig
        /\ run'.expected = run.expected
    BY <1>1, <1>t, PhaseRun
  <2>2. RunTypeOK'
    BY <1>1, <1>t, <2>1 DEF RunInv, RunTypeOK
  <2>3. ASSUME pc \in {"add", "drop", "write"}
        PROVE  UntouchedInv'
    BY <1>t, <2>1, <2>3 DEF RunInv, UntouchedInv
  <2>4. pc \in {"add", "drop", "write"}
    BY DEF AfterAdd, AfterDrop, AfterWrite
  <2> QED BY <2>2, <2>3, <2>4
<1>2. CASE AfterAdd
  <2> DEFINE S == {f \in ShardFiles : Dropped(run.read, f) # run.expected[f]}
  <2>1. run' = [run EXCEPT !.left = S] /\ pc' = "drop" /\ pc = "add" /\ run.left = {}
    BY <1>2 DEF AfterAdd, Changes
  <2>2. /\ run'.read = run.read /\ run'.expected = run.expected /\ run'.left = S
    BY <1>t, <2>1, PhaseRun
  <2>3. PlanInv'
    BY <2>1, <2>2 DEF RunInv, PlanInv
  <2>4. RunTypeOK' /\ UntouchedInv'
    <3>1. S \in SUBSET (ShardFiles \cup Ids \cup Segments)
      OBVIOUS
    <3> HIDE DEF S
    <3> QED BY <1>1, <2>1, <3>1
  <2> QED BY <2>1, <2>3, <2>4 DEF RunInv, DoneInv
<1>3. CASE AfterDrop
  <2> DEFINE S == {f \in 0 .. N - 1 : Written(run.read, run.elig, f) # run.expected[f]}
  <2>1. run' = [run EXCEPT !.left = S] /\ pc' = "write" /\ pc = "drop" /\ run.left = {}
    BY <1>3 DEF AfterDrop
  <2>s. \A f \in 0 .. N - 1 : f \in ShardFiles
    BY MaintenanceAssumption DEF ShardFiles
  <2>n. \A f \in ShardFiles : f \notin 0 .. N - 1 => f = N
    BY MaintenanceAssumption DEF ShardFiles
  <2>2. /\ run'.read = run.read /\ run'.expected = run.expected /\ run'.left = S
        /\ run'.elig = run.elig
    BY <1>t, <2>s, <2>1, PhaseRun
  <2>3. \A f \in ShardFiles : run.expected[f] = Dropped(run.read, f)
    BY <2>1 DEF RunInv, PlanInv
  <2>4. \A f \in ShardFiles : run.expected[f] =
           IF f \in S THEN Dropped(run.read, f) ELSE Written(run.read, run.elig, f)
    BY <2>3, <2>n, StrayIsDropped
  <2>5. PlanInv'
    BY <1>t, <2>1, <2>2, <2>4 DEF RunInv, PlanInv
  <2>6. RunTypeOK' /\ UntouchedInv'
    <3>1. S \in SUBSET (ShardFiles \cup Ids \cup Segments)
      BY <2>s
    <3> HIDE DEF S
    <3> QED BY <1>1, <2>1, <3>1
  <2> QED BY <2>1, <2>5, <2>6 DEF RunInv, DoneInv
<1>4. CASE AfterWrite
  <2>1. CASE Quit
    BY <1>t, <2>1, QuitKeepsRunInv DEF RunInv, RunTypeOK
  <2>2. CASE ~Quit
    <3> DEFINE S == {i \in Ids : Folds(run.read, run.elig, i)}
    <3>1. run' = [run EXCEPT !.left = S] /\ pc' = "files" /\ pc = "write" /\ run.left = {}
      BY <1>4, <2>2 DEF AfterWrite
    <3>2. /\ run'.read = run.read /\ run'.expected = run.expected /\ run'.left = S
          /\ run'.elig = run.elig
      BY <1>t, <3>1, PhaseRun
    <3>3. PlanInv'
      BY <1>t, <3>1, <3>2 DEF RunInv, PlanInv
    <3>4. DoneInv'
      BY <3>1, <3>2 DEF DoneInv
    <3>5. RunTypeOK' /\ UntouchedInv'
      <4>1. S \in SUBSET (ShardFiles \cup Ids \cup Segments)
        OBVIOUS
      <4> HIDE DEF S
      <4> QED BY <1>1, <3>1, <4>1
    <3> QED BY <3>3, <3>4, <3>5 DEF RunInv
  <2> QED BY <2>1, <2>2
<1> QED BY <1>2, <1>3, <1>4

(* A bucket holds the one line of a record that has one in the plan. *)
LEMMA InBucketIs ==
    ASSUME RunInv, pc \in {"files", "segments", "done"}, NEW i \in Ids,
           New(run.read, run.elig, i)
    PROVE  InBucket(i) = {Final(run.read, run.elig, i)}
<1>1. /\ run.read \in Store /\ run.expected \in [ShardFiles -> SUBSET Line]
      /\ \A f \in ShardFiles : run.expected[f] = Written(run.read, run.elig, f)
  BY DEF RunInv, RunTypeOK, RunType, PlanInv
<1>2. Bucket[i] \in ShardFiles
  BY MaintenanceAssumption DEF ShardFiles
<1>3. \A b \in Bodies : Has(run.expected[Bucket[i]], i, b) <=> b = Final(run.read, run.elig, i)
  BY <1>1, <1>2, InImages
<1>4. Final(run.read, run.elig, i) \in Bodies
  BY <1>1, FinalType DEF New
<1>5. \A b : b \in InBucket(i) <=> b \in Bodies /\ Has(run.expected[Bucket[i]], i, b)
  <2>1. ASSUME NEW b, b \in InBucket(i)
        PROVE  b \in Bodies /\ Has(run.expected[Bucket[i]], i, b)
    <3>1. PICK l \in run.expected[Bucket[i]] : l.id = i /\ l.body = b
      BY <2>1 DEF InBucket
    <3>2. l \in Line
      BY <1>1, <1>2
    <3> QED BY <3>1, <3>2, LineIs DEF Has
  <2>2. ASSUME NEW b, Has(run.expected[Bucket[i]], i, b)
        PROVE  b \in InBucket(i)
    BY <2>2 DEF Has, InBucket
  <2> QED BY <2>1, <2>2
<1> QED BY <1>3, <1>4, <1>5

(* When git left the store alone the shard files are as the run left them. *)
LEMMA AsExpected ==
    ASSUME RunInv, pc # "idle", touched = {}
    PROVE  shard = run.expected
<1>1. /\ run.expected \in [ShardFiles -> SUBSET Line] /\ shard \in [ShardFiles -> SUBSET Line]
      /\ \A f \in ShardFiles, i \in Ids, b \in Bodies : Has(shard[f], i, b) <=> Has(run.expected[f], i, b)
  BY DEF RunInv, RunTypeOK, RunType, UntouchedInv
<1>2. ASSUME NEW f \in ShardFiles, NEW l \in Line
      PROVE  l \in shard[f] <=> l \in run.expected[f]
  <2>1. l.id \in Ids /\ l.body \in Bodies /\ l = [id |-> l.id, body |-> l.body]
    BY LineIs
  <2>2. Has(shard[f], l.id, l.body) <=> Has(run.expected[f], l.id, l.body)
    BY <1>1, <2>1
  <2> QED BY <2>1, <2>2 DEF Has
<1>3. \A f \in ShardFiles : shard[f] = run.expected[f]
  BY <1>1, <1>2
<1> QED BY <1>1, <1>3

LEMMA DeleteFileKeepsRunInv ==
    ASSUME RunInv, NEW i \in Ids, DeleteFile(i)
    PROVE  RunInv'
<1>t. /\ run \in RunType /\ pc = "files" /\ pc' = "files" /\ i \in run.left
      /\ file \in [Ids -> Bodies \cup {None}]
      /\ shard' = shard /\ segs' = segs /\ head' = head /\ touched' = touched
      /\ Folds(run.read, run.elig, i) /\ run.read \in Store
  BY DEF RunInv, RunTypeOK, RunType, PlanInv, DeleteFile
<1>f. file' = file \/ file' = [file EXCEPT ![i] = None]
  BY DEF DeleteFile
<1>1. /\ run' \in RunType /\ run'.read = run.read /\ run'.elig = run.elig
      /\ run'.expected = run.expected /\ run'.left = run.left \ {i}
  <2>1. run.left \ {i} \in SUBSET (ShardFiles \cup Ids \cup Segments)
    BY <1>t DEF RunType
  <2>2. run' = [run EXCEPT !.left = run.left \ {i}]
    BY DEF DeleteFile
  <2> QED BY <1>t, <2>1, <2>2, PhaseRun
<1>2. RunTypeOK'
  BY <1>t, <1>f, <1>1 DEF RunInv, RunTypeOK
<1>3. PlanInv'
  BY <1>t, <1>1 DEF RunInv, PlanInv
<1>4. UntouchedInv'
  BY <1>t, <1>f, <1>1 DEF RunInv, UntouchedInv
<1>5. DoneInv'
  <2> SUFFICES ASSUME touched = {}
               PROVE  file'[i] = None
    BY <1>t, <1>f, <1>1 DEF RunInv, DoneInv
  <2>1. New(run.read, run.elig, i) /\ Final(run.read, run.elig, i) = run.read.file[i]
    BY <1>t, FoldsIsNew
  <2>2. InBucket(i) = {run.read.file[i]}
    BY <1>t, <2>1, InBucketIs
  <2>3. shard = run.expected
    BY <1>t, AsExpected
  <2>4. file[i] = run.read.file[i] \/ file[i] = None
    BY <1>t DEF RunInv, UntouchedInv
  <2>5. CASE file[i] = None
    BY <1>t, <1>f, <2>5
  <2>6. CASE file[i] = run.read.file[i]
    <3>1. WitnessHolds(i) /\ \A b \in InBucket(i) : b = file[i]
      BY <2>2, <2>3, <2>6 DEF WitnessHolds
    <3> QED BY <1>t, <3>1 DEF DeleteFile
  <2> QED BY <2>4, <2>5, <2>6
<1> QED BY <1>2, <1>3, <1>4, <1>5 DEF RunInv

LEMMA DeleteSegmentKeepsRunInv ==
    ASSUME RunInv, NEW s \in Segments, DeleteSegment(s)
    PROVE  RunInv'
<1>t. /\ run \in RunType /\ pc = "segments" /\ pc' = "segments" /\ s \in run.left
      /\ s \in run.read.segs /\ SegmentFolds(run.read, run.elig, s) /\ run.read \in Store
      /\ shard' = shard /\ file' = file /\ head' = head /\ touched' = touched
  BY DEF RunInv, RunTypeOK, RunType, PlanInv, DeleteSegment
<1>s. segs' = segs \/ segs' = segs \ {s}
  BY DEF DeleteSegment
<1>1. /\ run' \in RunType /\ run'.read = run.read /\ run'.elig = run.elig
      /\ run'.expected = run.expected /\ run'.left = run.left \ {s}
  <2>1. run.left \ {s} \in SUBSET (ShardFiles \cup Ids \cup Segments)
    BY <1>t DEF RunType
  <2>2. run' = [run EXCEPT !.left = run.left \ {s}]
    BY DEF DeleteSegment
  <2> QED BY <1>t, <2>1, <2>2, PhaseRun
<1>2. RunTypeOK'
  BY <1>t, <1>s, <1>1 DEF RunInv, RunTypeOK
<1>3. PlanInv'
  BY <1>t, <1>1 DEF RunInv, PlanInv
<1>4. UntouchedInv'
  BY <1>t, <1>s, <1>1 DEF RunInv, UntouchedInv
<1>5. DoneInv'
  <2> SUFFICES ASSUME touched = {}
               PROVE  s \notin segs'
    BY <1>t, <1>s, <1>1 DEF RunInv, DoneInv
  <2>1. shard = run.expected
    BY <1>t, AsExpected
  <2>2. ASSUME NEW l \in SegmentLines[s]
        PROVE  WitnessHolds(l.id) /\ \A b \in InBucket(l.id) : Deletable(l.body, b)
    <3>1. l.id \in Ids
      BY MaintenanceAssumption, LineIs
    <3>2. New(run.read, run.elig, l.id) /\ Deletable(l.body, Final(run.read, run.elig, l.id))
      BY <1>t DEF SegmentFolds, New
    <3>3. InBucket(l.id) = {Final(run.read, run.elig, l.id)}
      BY <1>t, <3>1, <3>2, InBucketIs
    <3> QED BY <2>1, <3>2, <3>3 DEF WitnessHolds
  <2>3. SegmentHeld(s)
    BY <2>2 DEF SegmentHeld
  <2> QED BY <2>3 DEF DeleteSegment
<1> QED BY <1>2, <1>3, <1>4, <1>5 DEF RunInv

LEMMA EndKeepsRunInv ==
    ASSUME RunInv, AfterFiles \/ End
    PROVE  RunInv'
<1>t. /\ run \in RunType /\ pc \in {"files", "segments"}
      /\ file' = file /\ shard' = shard /\ segs' = segs /\ head' = head /\ touched' = touched
  BY DEF RunInv, RunTypeOK, AfterFiles, End
<1>1. CASE AfterFiles
  <2> DEFINE S == {s \in run.read.segs : SegmentFolds(run.read, run.elig, s)}
  <2>1. run' = [run EXCEPT !.left = S] /\ pc' = "segments" /\ pc = "files" /\ run.left = {}
    BY <1>1 DEF AfterFiles
  <2>2. S \in SUBSET (ShardFiles \cup Ids \cup Segments)
    BY <1>t DEF RunType, Store
  <2>3. /\ run' \in RunType /\ run'.read = run.read /\ run'.expected = run.expected
        /\ run'.left = S /\ run'.elig = run.elig
    <3> HIDE DEF S
    <3> QED BY <1>t, <2>1, <2>2, PhaseRun
  <2>4. RunTypeOK'
    BY <1>t, <2>1, <2>3 DEF RunInv, RunTypeOK
  <2>5. PlanInv'
    BY <1>t, <2>1, <2>3 DEF RunInv, PlanInv
  <2>6. UntouchedInv'
    BY <1>t, <2>1, <2>3 DEF RunInv, UntouchedInv
  <2>7. ASSUME touched = {}, NEW s \in segs, SegmentFolds(run.read, run.elig, s)
        PROVE  s \in run.read.segs
    <3>1. s \in Segments /\ SegmentLines[s] \subseteq Line
      BY MaintenanceAssumption DEF RunInv, RunTypeOK
    <3>2. PICK l \in SegmentLines[s] : TRUE
      BY <2>7 DEF SegmentFolds
    <3>3. l.id \in Ids \ touched
      BY <2>7, <3>1, <3>2, LineIs
    <3> QED BY <2>1, <2>7, <3>1, <3>2, <3>3 DEF RunInv, UntouchedInv
  <2>8. DoneInv'
    BY <1>t, <2>1, <2>3, <2>7 DEF RunInv, DoneInv
  <2> QED BY <2>4, <2>5, <2>6, <2>8 DEF RunInv
<1>2. CASE End
  <2>1. run' = run /\ pc' = "done" /\ pc = "segments" /\ run.left = {}
    BY <1>2 DEF End
  <2>2. RunTypeOK'
    BY <1>t, <2>1 DEF RunInv, RunTypeOK
  <2>3. PlanInv'
    BY <1>t, <2>1 DEF RunInv, PlanInv
  <2>4. UntouchedInv'
    BY <1>t, <2>1 DEF RunInv, UntouchedInv
  <2>5. DoneInv'
    BY <1>t, <2>1 DEF RunInv, DoneInv
  <2> QED BY <2>2, <2>3, <2>4, <2>5 DEF RunInv
<1> QED BY <1>1, <1>2

(* ... and for whatever git, a writer or a crash does between them. *)
LEMMA DisturbKeepsRunInv ==
    ASSUME RunInv, NEW ids \in SUBSET Ids, Disturb(ids), head' \in Nat,
           file' \in [Ids -> Bodies \cup {None}], shard' \in [ShardFiles -> SUBSET Line],
           segs' \in SUBSET Segments,
           \A i \in Ids \ ids :
              /\ file'[i] = file[i]
              /\ \A f \in ShardFiles, b \in Bodies : Has(shard'[f], i, b) <=> Has(shard[f], i, b)
              /\ \A s \in Segments : (\E l \in SegmentLines[s] : l.id = i) =>
                                        (s \in segs' <=> s \in segs)
    PROVE  RunInv'
<1>1. touched' = touched \cup ids /\ touched' \in SUBSET Ids
  BY DEF RunInv, RunTypeOK, Disturb
<1>2. CASE Free
  BY <1>1, <1>2, QuitKeepsRunInv DEF Disturb
<1>3. CASE ~Free
  <2>1. pc' = pc /\ run' = run /\ pc # "done"
    BY <1>3 DEF Disturb, Free
  <2>2. RunTypeOK'
    BY <1>1, <2>1 DEF RunInv, RunTypeOK
  <2>3. PlanInv'
    BY <2>1 DEF RunInv, PlanInv
  <2>4. UntouchedInv'
    BY <1>1, <2>1 DEF RunInv, UntouchedInv
  <2>5. DoneInv'
    <3> SUFFICES ASSUME touched' = {}
                 PROVE  DoneInv'
      BY DEF DoneInv
    <3>1. touched = {} /\ ids = {}
      BY <1>1
    <3>2. \A i \in Ids : file'[i] = file[i]
      BY <3>1
    <3>3. ASSUME NEW s \in segs', SegmentFolds(run.read, run.elig, s)
          PROVE  s \in segs
      <4>1. PICK l \in SegmentLines[s] : TRUE
        BY <3>3 DEF SegmentFolds
      <4>2. l.id \in Ids /\ s \in Segments
        BY <4>1, MaintenanceAssumption, LineIs
      <4> QED BY <3>1, <4>1, <4>2
    <3> QED BY <2>1, <3>1, <3>2, <3>3 DEF RunInv, DoneInv
  <2> QED BY <2>2, <2>3, <2>4, <2>5 DEF RunInv
<1> QED BY <1>2, <1>3

LEMMA GitKeepsRunInv == RunInv /\ Git => RunInv'
<1> SUFFICES ASSUME RunInv, Git PROVE RunInv'
  OBVIOUS
<1>t. RunTypeOK
  BY DEF RunInv
<1>1. ASSUME NEW i \in Ids, NEW b \in Bodies \cup {None}, GitFile(i, b)
      PROVE  RunInv'
  <2>1. /\ Disturb({i}) /\ shard' = shard /\ segs' = segs /\ head' = head
        /\ file' = [file EXCEPT ![i] = b]
    BY <1>1 DEF GitFile
  <2>2. /\ file' \in [Ids -> Bodies \cup {None}] /\ head' \in Nat
        /\ \A j \in Ids \ {i} : file'[j] = file[j]
    BY <1>t, <2>1 DEF RunTypeOK
  <2>3. shard' \in [ShardFiles -> SUBSET Line] /\ segs' \in SUBSET Segments
    BY <1>t, <2>1 DEF RunTypeOK
  <2> QED BY <2>1, <2>2, <2>3, DisturbKeepsRunInv
<1>2. ASSUME NEW f \in ShardFiles, NEW i \in Ids, NEW B \in {{}} \cup {{b} : b \in Bodies},
             GitLine(f, i, B)
      PROVE  RunInv'
  <2> DEFINE image == {l \in shard[f] : l.id # i} \cup {[id |-> i, body |-> b] : b \in B}
  <2>1. /\ Disturb({i}) /\ file' = file /\ segs' = segs /\ head' = head
        /\ shard' = [shard EXCEPT ![f] = image]
    BY <1>2 DEF GitLine
  <2>2. image \in SUBSET Line
    BY <1>t DEF RunTypeOK, Line
  <2>3. \A j \in Ids \ {i}, b \in Bodies : Has(image, j, b) <=> Has(shard[f], j, b)
    BY DEF Has
  <2> HIDE DEF image
  <2>4. shard' \in [ShardFiles -> SUBSET Line]
    BY <1>t, <2>1, <2>2 DEF RunTypeOK
  <2>5. \A j \in Ids \ {i} : \A g \in ShardFiles, b \in Bodies :
           Has(shard'[g], j, b) <=> Has(shard[g], j, b)
    BY <1>t, <2>1, <2>3 DEF RunTypeOK
  <2>6. file' \in [Ids -> Bodies \cup {None}] /\ segs' \in SUBSET Segments /\ head' \in Nat
    BY <1>t, <2>1 DEF RunTypeOK
  <2> QED BY <2>1, <2>4, <2>5, <2>6, DisturbKeepsRunInv
<1>3. ASSUME NEW s \in Segments, GitSegment(s)
      PROVE  RunInv'
  <2> DEFINE ids == {l.id : l \in SegmentLines[s]}
  <2>1. /\ Disturb(ids) /\ file' = file /\ shard' = shard /\ head' = head
        /\ segs' = (segs \ {s}) \cup ({s} \ segs)
    BY <1>3 DEF GitSegment
  <2>2. ids \in SUBSET Ids
    BY MaintenanceAssumption, LineIs
  <2>3. segs' \in SUBSET Segments
    BY <1>t, <2>1 DEF RunTypeOK
  <2>4. \A i \in Ids \ ids : \A x \in Segments :
           (\E l \in SegmentLines[x] : l.id = i) => (x \in segs' <=> x \in segs)
    BY <2>1
  <2> HIDE DEF ids
  <2>5. /\ file' \in [Ids -> Bodies \cup {None}] /\ shard' \in [ShardFiles -> SUBSET Line]
        /\ head' \in Nat
    BY <1>t, <2>1 DEF RunTypeOK
  <2> QED BY <2>1, <2>2, <2>3, <2>4, <2>5, DisturbKeepsRunInv
<1>4. CASE GitHead
  <2>1. /\ Disturb({}) /\ file' = file /\ shard' = shard /\ segs' = segs /\ head' = head + 1
    BY <1>4 DEF GitHead
  <2>2. /\ file' \in [Ids -> Bodies \cup {None}] /\ shard' \in [ShardFiles -> SUBSET Line]
        /\ segs' \in SUBSET Segments /\ head' \in Nat
    BY <1>t, <2>1 DEF RunTypeOK
  <2> QED BY <2>1, <2>2, DisturbKeepsRunInv
<1> QED BY <1>1, <1>2, <1>3, <1>4 DEF Git

LEMMA PublisherKeepsRunInv == RunInv /\ Publisher => RunInv'
<1> SUFFICES ASSUME RunInv, Publisher PROVE RunInv'
  OBVIOUS
<1>1. ASSUME NEW f \in ShardFiles, AddMoved(f) \/ WriteLines(f)
      PROVE  RunInv'
  BY <1>1, PublishKeepsRunInv DEF AddMoved, WriteLines
<1>2. ASSUME NEW f \in ShardFiles, DropMoved(f)
      PROVE  RunInv'
  <2>1. CASE pc = "drop" /\ Publish(f, Dropped(run.read, f))
    BY <2>1, PublishKeepsRunInv
  <2>2. CASE Quit /\ UNCHANGED <<file, shard, segs, head, touched, runs, git>>
    BY <2>2, QuitKeepsRunInv DEF RunInv, RunTypeOK
  <2> QED BY <1>2, <2>1, <2>2 DEF DropMoved
<1>3. ASSUME NEW i \in Ids, DeleteFile(i)
      PROVE  RunInv'
  BY <1>3, DeleteFileKeepsRunInv
<1>4. ASSUME NEW s \in Segments, DeleteSegment(s)
      PROVE  RunInv'
  BY <1>4, DeleteSegmentKeepsRunInv
<1> QED BY <1>1, <1>2, <1>3, <1>4, PhaseKeepsRunInv, EndKeepsRunInv DEF Publisher

LEMMA NextKeepsRunInv == RunInv /\ [VNext]_all => RunInv'
<1> SUFFICES ASSUME RunInv, [VNext]_all PROVE RunInv'
  OBVIOUS
<1>t. RunTypeOK
  BY DEF RunInv
<1>1. CASE BeginCommitted
  BY <1>1, BeginKeepsRunInv DEF BeginCommitted
<1>2. CASE ByTheCode
  <2>1. CASE Die
    BY <1>t, <2>1, QuitKeepsRunInv DEF Die, RunTypeOK
  <2>2. ASSUME NEW i \in Ids, NEW b \in Bodies, Save(i, b)
        PROVE  RunInv'
    BY <1>t, <2>2, QuitKeepsRunInv DEF Save, RunTypeOK
  <2> QED BY <1>2, <2>1, <2>2, PublisherKeepsRunInv DEF ByTheCode
<1>3. CASE ByGit
  BY <1>3, GitKeepsRunInv DEF ByGit
<1>4. ASSUME NEW d \in Stores, Merge(d)
      PROVE  RunInv'
  <2>1. d \in Store
    BY MaintenanceAssumption
  <2>2. /\ d.file \in [Ids -> Bodies \cup {None}] /\ d.shard \in [ShardFiles -> SUBSET Line]
        /\ d.segs \in SUBSET Segments
    BY <2>1 DEF Store
  <2> QED BY <1>t, <1>4, <2>2, QuitKeepsRunInv DEF Merge, RunTypeOK
<1>5. CASE UNCHANGED all
  <2>1. /\ file' = file /\ shard' = shard /\ segs' = segs /\ head' = head /\ pc' = pc
        /\ run' = run /\ touched' = touched
    BY <1>5 DEF all, vars
  <2>2. RunTypeOK' /\ PlanInv'
    BY <2>1 DEF RunInv, RunTypeOK, PlanInv
  <2>3. UntouchedInv' /\ DoneInv'
    BY <2>1 DEF RunInv, UntouchedInv, DoneInv
  <2> QED BY <2>2, <2>3 DEF RunInv
<1> QED BY <1>1, <1>2, <1>3, <1>4, <1>5 DEF VNext

LEMMA InitRunInv == VInit => RunInv
<1> SUFFICES ASSUME VInit PROVE RunInv
  OBVIOUS
<1>1. PICK d \in Stores : file = d.file /\ shard = d.shard /\ segs = d.segs
  BY DEF VInit, Init
<1>2. d \in Store
  BY MaintenanceAssumption
<1>3. NoRun \in RunType
  BY DEF NoRun, RunType, Store
<1>4. RunTypeOK
  BY <1>1, <1>2, <1>3 DEF VInit, Init, RunTypeOK, Store
<1> QED BY <1>4 DEF RunInv, PlanInv, UntouchedInv, DoneInv, VInit, Init

(* What a maintenance run keeps true, whatever git does under it. *)
THEOREM SpecRunInv == VSpec => []RunInv
BY InitRunInv, NextKeepsRunInv, PTL DEF VSpec

-----------------------------------------------------------------------------
(* What a run removes. *)

LEMMA CopyIs ==
    ASSUME NEW d \in Store, NEW i, NEW b
    PROVE  b \in Copies(d, i) <=>
             \/ b # None /\ b = d.file[i]
             \/ \E f \in ShardFiles : Has(d.shard[f], i, b)
             \/ \E s \in d.segs : Has(SegmentLines[s], i, b)
<1>1. d.segs \subseteq Segments /\ \A f \in ShardFiles : d.shard[f] \subseteq Line
  BY DEF Store
<1>2. b \in ShardBodies(d, i) <=> \E f \in ShardFiles : Has(d.shard[f], i, b)
  BY <1>1, ShardBody
<1>3. b \in ArchiveBodies(d, i) <=> \E s \in d.segs : Has(SegmentLines[s], i, b)
  BY <1>1, ArchiveBody
<1>4. b \in FileBodies(d, i) <=> b # None /\ b = d.file[i]
  BY DEF FileBodies
<1> QED BY <1>2, <1>3, <1>4 DEF Copies

(* The line the plan writes for a record is one its old line may become. *)
LEMMA FinalIsLegal ==
    ASSUME NEW r \in Store, NEW elig, NEW i \in Ids, New(r, elig, i),
           ~Differ(ShardBodies(r, i)), NEW b \in ShardBodies(r, i)
    PROVE  Legal(b, Final(r, elig, i))
<1>1. b \in Bodies /\ ShardBodies(r, i) = {b} /\ TheBody(ShardBodies(r, i)) = b
  <2>1. b \in Bodies
    BY StoreBodies
  <2>2. ShardBodies(r, i) = {b}
    BY DEF Differ
  <2> QED BY <2>1, <2>2, BodyOfOne
<1>2. Legal(b, b)
  BY <1>1, MaintenanceAssumption DEF Legal
<1>3. CASE Folds(r, elig, i)
  <2>1. Final(r, elig, i) = r.file[i] /\ r.file[i] \in FileBodies(r, i)
    BY <1>3, FoldsIsNew DEF Folds, FileBodies
  <2> QED BY <2>1 DEF New, Skipped, ShadowDivergence
<1>4. CASE ~Folds(r, elig, i)
  <2>1. CASE r.file[i] = None /\ ArchiveBodies(r, i) # {} /\ ArchiveReplaces(r, i)
    <3>1. Final(r, elig, i) = TheBody(ArchiveBodies(r, i))
      BY <1>1, <1>4, <2>1, FinalIs
    <3> QED BY <1>1, <2>1, <3>1 DEF ArchiveReplaces, Superseding
  <2>2. CASE ~(r.file[i] = None /\ ArchiveBodies(r, i) # {} /\ ArchiveReplaces(r, i))
    <3>1. Final(r, elig, i) = b
      BY <1>1, <1>4, <2>2 DEF Final
    <3> QED BY <1>2, <3>1
  <2> QED BY <2>1, <2>2
<1> QED BY <1>3, <1>4

(* The bucket that a delete relies on keeps a body for the record. *)
LEMMA WitnessIsThere ==
    ASSUME RunInv, NEW i \in Ids, WitnessHolds(i)
    PROVE  \E b \in InBucket(i) : \E f \in ShardFiles : Has(shard[f], i, b)
<1>1. PICK l \in run.expected[Bucket[i]] : l.id = i
  BY DEF WitnessHolds, InBucket
<1>2. Bucket[i] \in ShardFiles
  BY MaintenanceAssumption DEF ShardFiles
<1>3. l \in Line
  BY <1>2 DEF RunInv, RunTypeOK, RunType
<1>4. l.body \in InBucket(i) /\ Has(shard[Bucket[i]], i, l.body)
  BY <1>1, <1>3, LineIs DEF InBucket, Has, WitnessHolds
<1> QED BY <1>2, <1>4

LEMMA PublishRemovesNothing ==
    ASSUME RunInv, NEW f \in ShardFiles, AddMoved(f) \/ DropMoved(f) \/ WriteLines(f),
           NEW i \in Ids, NEW b \in Bodies,
           \E g \in ShardFiles : Has(shard[g], i, b),
           ~ \E g \in ShardFiles : Has(shard'[g], i, b)
    PROVE  \E c \in Bodies : Legal(b, c) /\ \E g \in ShardFiles : Has(shard'[g], i, c)
<1> DEFINE r == run.read
           e == run.elig
<1>t. /\ r \in Store /\ shard \in [ShardFiles -> SUBSET Line]
      /\ ~Differ(ShardBodies(r, i)) \/ pc = "idle"
      /\ \A g \in ShardFiles : r.shard[g] \subseteq Line
      /\ Bucket[i] \in ShardFiles
  BY MaintenanceAssumption DEF RunInv, RunTypeOK, RunType, PlanInv, Store, ShardFiles
<1>p. /\ f \in run.left /\ shard[f] = run.expected[f]
      /\ \E image : /\ shard' = [shard EXCEPT ![f] = image]
                    /\ \/ pc = "add" /\ image = Added(r, f)
                       \/ pc = "drop" /\ image = Dropped(r, f) /\ Witnessed(f)
                       \/ pc = "write" /\ image = Written(r, e, f)
  <2>1. shard' # shard
    OBVIOUS
  <2> QED BY <2>1 DEF AddMoved, DropMoved, WriteLines, Publish
<1>1. PICK image : /\ shard' = [shard EXCEPT ![f] = image]
                   /\ \/ pc = "add" /\ image = Added(r, f)
                      \/ pc = "drop" /\ image = Dropped(r, f) /\ Witnessed(f)
                      \/ pc = "write" /\ image = Written(r, e, f)
  BY <1>p
<1>2. /\ \A g \in ShardFiles : shard'[g] = IF g = f THEN image ELSE shard[g]
      /\ Has(shard[f], i, b) /\ ~Has(image, i, b)
  <2>1. \A g \in ShardFiles : shard'[g] = IF g = f THEN image ELSE shard[g]
    BY <1>t, <1>1
  <2> QED BY <2>1
<1>m. \A g \in ShardFiles : Has(Moved(r, g), i, b)
        <=> Has(r.shard[g], i, b) /\ Bucket[i] # g /\ ~Skipped(r, i)
  BY <1>t, InImages
<1>a. \A g \in ShardFiles : Has(Added(r, g), i, b)
        <=> \/ Has(r.shard[g], i, b)
            \/ Bucket[i] = g /\ \E h \in ShardFiles : Has(Moved(r, h), i, b)
  BY <1>t, InImages
<1>d. \A g \in ShardFiles : Has(Dropped(r, g), i, b)
        <=> Has(Added(r, g), i, b) /\ ~Has(Moved(r, g), i, b)
  BY <1>t, InImages
<1>3. CASE pc = "add" /\ image = Added(r, f)
  <2>1. run.expected[f] = r.shard[f]
    BY <1>3, <1>p DEF RunInv, PlanInv
  <2> QED BY <1>2, <1>3, <1>p, <1>a, <2>1
<1>4. CASE pc = "drop" /\ image = Dropped(r, f) /\ Witnessed(f)
  <2>1. run.expected[f] = Added(r, f)
    BY <1>4, <1>p DEF RunInv, PlanInv
  <2>2. Has(Moved(r, f), i, b)
    BY <1>2, <1>4, <1>p, <1>d, <2>1
  <2>3. shard[Bucket[i]] = run.expected[Bucket[i]]
    BY <1>4, <2>2 DEF Has, Witnessed
  <2>4. run.expected[Bucket[i]] = Added(r, Bucket[i]) \/ run.expected[Bucket[i]] = Dropped(r, Bucket[i])
    BY <1>4, <1>t DEF RunInv, PlanInv
  <2>5. Has(shard[Bucket[i]], i, b) /\ Bucket[i] # f
    BY <1>t, <1>m, <1>a, <1>d, <2>2, <2>3, <2>4
  <2> QED BY <1>t, <1>2, <2>5
<1>5. CASE pc = "write" /\ image = Written(r, e, f)
  <2>1. run.expected[f] = Dropped(r, f)
    BY <1>5, <1>p DEF RunInv, PlanInv
  <2>2. Has(Dropped(r, f), i, b)
    BY <1>2, <1>p, <2>1
  <2>3. New(r, e, i) /\ Bucket[i] = f
    <3>1. Has(Written(r, e, f), i, b)
            <=> IF New(r, e, i) /\ Bucket[i] = f THEN b = Final(r, e, i) ELSE Has(Dropped(r, f), i, b)
      BY <1>t, InImages
    <3> QED BY <1>2, <1>5, <2>2, <3>1
  <2>4. Final(r, e, i) \in Bodies
    BY <1>t, <2>3, FinalType DEF New
  <2>5. Has(image, i, Final(r, e, i))
    <3> DEFINE c == Final(r, e, i)
    <3>1. Has(Written(r, e, f), i, c)
            <=> IF New(r, e, i) /\ Bucket[i] = f THEN c = Final(r, e, i) ELSE Has(Dropped(r, f), i, c)
      BY <1>t, <2>4, InImages
    <3> QED BY <1>5, <2>3, <3>1
  <2>6. b \in ShardBodies(r, i)
    <3>1. \E g \in ShardFiles : Has(r.shard[g], i, b)
      BY <1>m, <1>a, <1>d, <2>2
    <3> QED BY <1>t, <3>1, ShardBody
  <2>7. Legal(b, Final(r, e, i))
    BY <1>t, <1>5, <2>3, <2>6, FinalIsLegal
  <2> QED BY <1>2, <2>4, <2>5, <2>7
<1> QED BY <1>1, <1>3, <1>4, <1>5

LEMMA NothingUniqueRemovedByAStep ==
    ASSUME RunInv, RunInv', Publisher, NEW i \in Ids, NEW b \in Copies(Disk, i) \ Copies(DiskAfter, i)
    PROVE  \E c \in Copies(DiskAfter, i) : Legal(b, c)
<1>t. /\ Disk \in Store /\ Disk.file = file /\ Disk.shard = shard /\ Disk.segs = segs
      /\ DiskAfter \in Store /\ DiskAfter.file = file' /\ DiskAfter.shard = shard'
      /\ DiskAfter.segs = segs' /\ segs \subseteq Segments
  BY DEF RunInv, RunTypeOK, Disk, DiskAfter, Store
<1>1. \A c : c \in Copies(Disk, i) <=>
             \/ c # None /\ c = file[i]
             \/ \E f \in ShardFiles : Has(shard[f], i, c)
             \/ \E s \in segs : Has(SegmentLines[s], i, c)
  BY <1>t, CopyIs
<1>2. \A c : c \in Copies(DiskAfter, i) <=>
             \/ c # None /\ c = file'[i]
             \/ \E f \in ShardFiles : Has(shard'[f], i, c)
             \/ \E s \in segs' : Has(SegmentLines[s], i, c)
  BY <1>t, CopyIs
<1>b. b \in Bodies
  <2>1. \A c \in Copies(Disk, i) : c \in Bodies
    BY <1>t, StoreBodies DEF Copies, FileBodies
  <2> QED BY <2>1
<1>3. ASSUME NEW f \in ShardFiles, AddMoved(f) \/ DropMoved(f) \/ WriteLines(f)
      PROVE  \E c \in Copies(DiskAfter, i) : Legal(b, c)
  <2>1. file' = file /\ segs' = segs
    BY <1>3 DEF AddMoved, DropMoved, WriteLines, Publish
  <2>2. /\ \E g \in ShardFiles : Has(shard[g], i, b)
        /\ ~ \E g \in ShardFiles : Has(shard'[g], i, b)
    BY <1>1, <1>2, <2>1
  <2>3. \E c \in Bodies : Legal(b, c) /\ \E g \in ShardFiles : Has(shard'[g], i, c)
    BY <1>3, <1>b, <2>2, PublishRemovesNothing
  <2> QED BY <1>2, <2>3
<1>4. ASSUME NEW j \in Ids, DeleteFile(j)
      PROVE  \E c \in Copies(DiskAfter, i) : Legal(b, c)
  <2>1. shard' = shard /\ segs' = segs /\ file \in [Ids -> Bodies \cup {None}]
    BY <1>4 DEF DeleteFile, RunInv, RunTypeOK
  <2>2. b = file[i] /\ file'[i] # file[i]
    BY <1>1, <1>2, <2>1
  <2>3. j = i /\ WitnessHolds(i) /\ \A c \in InBucket(i) : c = file[i]
    BY <1>4, <2>1, <2>2 DEF DeleteFile
  <2>4. \E f \in ShardFiles : Has(shard[f], i, file[i])
    BY <2>3, WitnessIsThere
  <2> QED BY <1>2, <2>1, <2>2, <2>4
<1>5. ASSUME NEW s \in Segments, DeleteSegment(s)
      PROVE  \E c \in Copies(DiskAfter, i) : Legal(b, c)
  <2>1. shard' = shard /\ file' = file
    BY <1>5 DEF DeleteSegment
  <2>2. Has(SegmentLines[s], i, b) /\ segs' # segs
    BY <1>1, <1>2, <1>5, <2>1 DEF DeleteSegment
  <2>3. SegmentHeld(s)
    BY <1>5, <2>2 DEF DeleteSegment
  <2>4. WitnessHolds(i) /\ \A c \in InBucket(i) : Deletable(b, c)
    BY <2>2, <2>3 DEF SegmentHeld, Has
  <2>5. PICK c \in InBucket(i) : \E f \in ShardFiles : Has(shard[f], i, c)
    BY <2>4, WitnessIsThere
  <2> QED BY <1>2, <2>1, <2>4, <2>5 DEF Deletable, Compatible
<1>6. ASSUME AfterAdd \/ AfterDrop \/ AfterWrite \/ AfterFiles \/ End
      PROVE  FALSE
  <2>1. file' = file /\ shard' = shard /\ segs' = segs
    BY <1>6 DEF AfterAdd, AfterDrop, AfterWrite, AfterFiles, End
  <2> QED BY <1>1, <1>2, <2>1
<1> QED BY <1>3, <1>4, <1>5, <1>6 DEF Publisher

(* Whatever git does under a run, no body is removed of which no copy is left *)
(* and no copy that it may legally have become.                              *)
THEOREM RunsRemoveNothingUnique == VSpec => NothingUniqueIsRemoved
<1>1. ASSUME RunInv, RunInv', Publisher
      PROVE  \A i \in Ids : \A b \in Copies(Disk, i) \ Copies(DiskAfter, i) :
                \E c \in Copies(DiskAfter, i) : Legal(b, c)
  BY <1>1, NothingUniqueRemovedByAStep
<1>2. RunInv /\ RunInv' /\ [VNext]_all =>
        [Publisher => \A i \in Ids : \A b \in Copies(Disk, i) \ Copies(DiskAfter, i) :
                         \E c \in Copies(DiskAfter, i) : Legal(b, c)]_vars
  BY <1>1
<1> QED BY <1>2, SpecRunInv, PTL DEF VSpec, NothingUniqueIsRemoved

-----------------------------------------------------------------------------
(* What a step of a run changes for a reader. *)

LEMMA EffectiveIs ==
    ASSUME NEW d \in Store, NEW i \in Ids
    PROVE  /\ Effective(d, i) = None <=> Copies(d, i) = {}
           /\ Effective(d, i) = Gap <=> Differ(ShardBodies(d, i))
<1>1. \A S : S # {} => TheBody(S) \in S
  BY TheBodyIsIn
<1>2. /\ ShardBodies(d, i) \subseteq Bodies /\ ArchiveBodies(d, i) \subseteq Bodies
      /\ d.file[i] \in Bodies \cup {None}
  BY StoreBodies
<1>3. None \notin Bodies /\ Gap \notin Bodies /\ None # Gap
  BY MaintenanceAssumption
<1>4. Copies(d, i) = {} <=> d.file[i] = None /\ ShardBodies(d, i) = {} /\ ArchiveBodies(d, i) = {}
  BY DEF Copies, FileBodies
<1>5. ShardBodies(d, i) = {} => ~Differ(ShardBodies(d, i))
  BY DEF Differ
<1>6. ArchiveReplaces(d, i) => ArchiveBodies(d, i) # {}
  BY DEF ArchiveReplaces, OneBody
<1> QED BY <1>1, <1>2, <1>3, <1>4, <1>5, <1>6 DEF Effective

(* A record whose lines all stand in its own bucket, in what the run read and *)
(* on disk, stays readable when a shard file is replaced.                     *)
LEMMA PublishLeavesOneBody ==
    ASSUME RunInv, NEW f \in ShardFiles, AddMoved(f) \/ DropMoved(f) \/ WriteLines(f),
           NEW i \in Ids, ~Misplaced(run.read, i), ~Misplaced(Disk, i),
           NEW b \in Bodies, NEW c \in Bodies, b # c,
           \E g \in ShardFiles : Has(shard'[g], i, b),
           \E g \in ShardFiles : Has(shard'[g], i, c)
    PROVE  /\ \E g \in ShardFiles : Has(shard[g], i, b)
           /\ \E g \in ShardFiles : Has(shard[g], i, c)
<1> DEFINE r == run.read
           e == run.elig
<1>t. /\ r \in Store /\ shard \in [ShardFiles -> SUBSET Line] /\ Disk.shard = shard
      /\ Bucket[i] \in ShardFiles
  BY MaintenanceAssumption DEF RunInv, RunTypeOK, RunType, ShardFiles, Disk
<1>1. CASE shard' = shard
  BY <1>1
<1>2. CASE shard' # shard
  <2>1. /\ f \in run.left /\ shard[f] = run.expected[f]
        /\ \E image : /\ shard' = [shard EXCEPT ![f] = image]
                      /\ \/ pc = "add" /\ image = Added(r, f)
                         \/ pc = "drop" /\ image = Dropped(r, f)
                         \/ pc = "write" /\ image = Written(r, e, f)
    BY <1>2 DEF AddMoved, DropMoved, WriteLines, Publish
  <2>2. PICK image : /\ shard' = [shard EXCEPT ![f] = image]
                     /\ \/ pc = "add" /\ image = Added(r, f)
                        \/ pc = "drop" /\ image = Dropped(r, f)
                        \/ pc = "write" /\ image = Written(r, e, f)
    BY <2>1
  <2>3. \A g \in ShardFiles : shard'[g] = IF g = f THEN image ELSE shard[g]
    BY <1>t, <2>2
  <2>4. \A g \in ShardFiles \ {Bucket[i]}, x \in Bodies : ~Has(r.shard[g], i, x) /\ ~Has(shard[g], i, x)
    BY <1>t DEF Misplaced, Has
  <2>5. \A g \in ShardFiles, x \in Bodies :
           /\ ~Has(Moved(r, g), i, x)
           /\ Has(Added(r, g), i, x) <=> Has(r.shard[g], i, x)
           /\ Has(Dropped(r, g), i, x) <=> Has(r.shard[g], i, x)
    <3>1. \A g \in ShardFiles, x \in Bodies : ~Has(Moved(r, g), i, x)
      BY <1>t, <2>4, InImages
    <3> QED BY <1>t, <3>1, InImages
  <2>6. \A x \in Bodies : Has(run.expected[f], i, x) <=> Has(r.shard[f], i, x)
    <3>1. run.expected[f] = r.shard[f] \/ run.expected[f] = Added(r, f) \/ run.expected[f] = Dropped(r, f)
      BY <2>1, <2>2 DEF RunInv, PlanInv
    <3> QED BY <2>5, <3>1
  <2>7. CASE /\ pc = "write" /\ image = Written(r, e, f)
             /\ New(r, e, i) /\ Bucket[i] = f
    <3>1. \A x \in Bodies : Has(image, i, x) <=> x = Final(r, e, i)
      BY <1>t, <2>7, InImages
    <3>2. \A g \in ShardFiles, x \in Bodies : Has(shard'[g], i, x) => x = Final(r, e, i)
      BY <2>3, <2>4, <2>7, <3>1
    <3> QED BY <3>2
  <2>8. CASE ~(/\ pc = "write" /\ image = Written(r, e, f)
               /\ New(r, e, i) /\ Bucket[i] = f)
    <3>1. \A x \in Bodies : Has(Written(r, e, f), i, x)
            <=> IF New(r, e, i) /\ Bucket[i] = f THEN x = Final(r, e, i) ELSE Has(Dropped(r, f), i, x)
      BY <1>t, InImages
    <3>2. \A x \in Bodies : Has(image, i, x) <=> Has(r.shard[f], i, x)
      BY <2>2, <2>5, <2>8, <3>1
    <3>3. \A g \in ShardFiles, x \in Bodies : Has(shard'[g], i, x) <=> Has(shard[g], i, x)
      BY <2>1, <2>3, <2>6, <3>2
    <3> QED BY <3>3
  <2> QED BY <2>7, <2>8
<1> QED BY <1>1, <1>2

LEMMA FoldIsInvisibleToAReader ==
    ASSUME RunInv, RunInv', RecordsUnchanged, RecordsUnchanged', Publisher, NEW i \in Ids,
           Effective(DiskAfter, i) # Effective(Disk, i)
    PROVE  /\ i \in touched /\ Effective(DiskAfter, i) # None
           /\ Effective(DiskAfter, i) = Gap => Misplaced(run.read, i) \/ Misplaced(Disk, i)
<1>t. /\ Disk \in Store /\ Disk.file = file /\ Disk.shard = shard /\ Disk.segs = segs
      /\ DiskAfter \in Store /\ DiskAfter.shard = shard'
      /\ \A f \in ShardFiles : shard[f] \subseteq Line /\ shard'[f] \subseteq Line
  BY DEF RunInv, RunTypeOK, Disk, DiskAfter, Store
<1>1. i \in touched
  <2>1. DiskAfter = Disk'
    BY DEF Disk, DiskAfter
  <2>2. pc # "idle" /\ touched' = touched /\ (run'.read = run.read \/ Quit)
    <3>1. ASSUME NEW f \in ShardFiles, AddMoved(f) \/ DropMoved(f) \/ WriteLines(f)
          PROVE  pc # "idle" /\ touched' = touched /\ (run'.read = run.read \/ Quit)
      BY <3>1 DEF AddMoved, DropMoved, WriteLines, Publish, RunInv, RunTypeOK, RunType
    <3>2. ASSUME NEW j \in Ids, DeleteFile(j)
          PROVE  pc # "idle" /\ touched' = touched /\ run'.read = run.read
      BY <3>2 DEF DeleteFile, RunInv, RunTypeOK, RunType
    <3>3. ASSUME NEW s \in Segments, DeleteSegment(s)
          PROVE  pc # "idle" /\ touched' = touched /\ run'.read = run.read
      BY <3>3 DEF DeleteSegment, RunInv, RunTypeOK, RunType
    <3>4. ASSUME AfterAdd \/ AfterDrop \/ AfterWrite \/ AfterFiles \/ End
          PROVE  pc # "idle" /\ touched' = touched /\ (run'.read = run.read \/ Quit)
      BY <3>4 DEF AfterAdd, AfterDrop, AfterWrite, AfterFiles, End, RunInv, RunTypeOK, RunType
    <3> QED BY <3>1, <3>2, <3>3, <3>4 DEF Publisher
  <2>4. SUFFICES ASSUME i \notin touched
                 PROVE  Effective(DiskAfter, i) = Effective(Disk, i)
    OBVIOUS
  <2>5. CASE pc' = "idle"
    <3>1. UNCHANGED <<file, shard, segs>>
      <4>1. ASSUME NEW f \in ShardFiles, AddMoved(f) \/ DropMoved(f) \/ WriteLines(f)
            PROVE  UNCHANGED <<file, shard, segs>>
        BY <2>2, <2>5, <4>1 DEF AddMoved, DropMoved, WriteLines, Publish
      <4>2. ASSUME (\E j \in Ids : DeleteFile(j)) \/ (\E s \in Segments : DeleteSegment(s))
            PROVE  FALSE
        BY <2>2, <2>5, <4>2 DEF DeleteFile, DeleteSegment
      <4>3. ASSUME AfterAdd \/ AfterDrop \/ AfterWrite \/ AfterFiles \/ End
            PROVE  UNCHANGED <<file, shard, segs>>
        BY <4>3 DEF AfterAdd, AfterDrop, AfterWrite, AfterFiles, End
      <4> QED BY <4>1, <4>2, <4>3 DEF Publisher
    <3> QED BY <3>1 DEF Disk, DiskAfter
  <2>6. CASE pc' # "idle"
    <3>1. Effective(Disk, i) = Effective(run.read, i)
      BY <2>2, <2>4 DEF RecordsUnchanged
    <3>2. (Effective(Disk, i) = Effective(run.read, i))'
      BY <2>2, <2>4, <2>6 DEF RecordsUnchanged
    <3>3. run'.read = run.read
      BY <2>2, <2>6 DEF Quit
    <3> QED BY <3>1, <3>2, <3>3 DEF Disk, DiskAfter
  <2> QED BY <2>5, <2>6
<1>2. Effective(DiskAfter, i) # None
  <2>1. SUFFICES ASSUME Effective(DiskAfter, i) = None
                 PROVE  Effective(Disk, i) = None
    OBVIOUS
  <2>2. Copies(DiskAfter, i) = {}
    BY <1>t, <2>1, EffectiveIs
  <2>3. Copies(Disk, i) = {}
    BY <2>2, NothingUniqueRemovedByAStep
  <2> QED BY <1>t, <2>3, EffectiveIs
<1>3. ASSUME Effective(DiskAfter, i) = Gap, ~Misplaced(run.read, i), ~Misplaced(Disk, i)
      PROVE  FALSE
  <2>1. Differ(ShardBodies(DiskAfter, i)) /\ ~Differ(ShardBodies(Disk, i))
    BY <1>t, <1>3, EffectiveIs
  <2>2. PICK b, c \in ShardBodies(DiskAfter, i) : b # c
    BY <2>1 DEF Differ
  <2>3. /\ b \in Bodies /\ c \in Bodies
        /\ \E g \in ShardFiles : Has(shard'[g], i, b)
        /\ \E g \in ShardFiles : Has(shard'[g], i, c)
    BY <1>t, <2>2, ShardBody, StoreBodies
  <2>4. \A x : (\E g \in ShardFiles : Has(shard[g], i, x)) => x \in ShardBodies(Disk, i)
    BY <1>t, ShardBody
  <2>5. shard' # shard
    BY <2>1, <2>2, <2>3, <2>4 DEF Differ
  <2>6. \E f \in ShardFiles : AddMoved(f) \/ DropMoved(f) \/ WriteLines(f)
    <3>1. ASSUME (\E j \in Ids : DeleteFile(j)) \/ (\E s \in Segments : DeleteSegment(s))
          PROVE  FALSE
      BY <2>5, <3>1 DEF DeleteFile, DeleteSegment
    <3>2. ASSUME AfterAdd \/ AfterDrop \/ AfterWrite \/ AfterFiles \/ End
          PROVE  FALSE
      BY <2>5, <3>2 DEF AfterAdd, AfterDrop, AfterWrite, AfterFiles, End
    <3> QED BY <3>1, <3>2 DEF Publisher
  <2>7. /\ \E g \in ShardFiles : Has(shard[g], i, b)
        /\ \E g \in ShardFiles : Has(shard[g], i, c)
    BY <1>3, <2>2, <2>3, <2>6, PublishLeavesOneBody
  <2> QED BY <2>1, <2>2, <2>4, <2>7 DEF Differ
<1> QED BY <1>1, <1>2, <1>3

(* A record that git leaves alone reads the same after every step of a run;   *)
(* any other does not vanish, and becomes unreadable only by a misplaced line. *)
THEOREM RunsAreInvisible == VSpec => FoldIsInvisible
<1> DEFINE Seen(i) ==
      LET before == Effective(Disk, i)
          after == Effective(DiskAfter, i)
      IN  \/ after = before
          \/ /\ i \in touched /\ after # None
             /\ after = Gap => Misplaced(run.read, i) \/ Misplaced(Disk, i)
<1>1. RunInv => RecordsUnchanged
  BY UntouchedIsUnchanged DEF RecordsUnchanged
<1>2. ASSUME RunInv, RunInv', RecordsUnchanged, RecordsUnchanged', Publisher, NEW i \in Ids
      PROVE  Seen(i)
  BY <1>2, FoldIsInvisibleToAReader
<1>3. RunInv /\ RunInv' /\ RecordsUnchanged /\ RecordsUnchanged' /\ [VNext]_all =>
        [Publisher => \A i \in Ids : Seen(i)]_vars
  BY <1>2
<1> QED BY <1>1, <1>3, SpecRunInv, PTL DEF VSpec, FoldIsInvisible

-----------------------------------------------------------------------------
(* A run that git left alone has nothing left to do. *)

LEMMA RecordIsSettled ==
    ASSUME RunInv, pc = "done", touched = {}, NEW i \in Ids
    PROVE  LET r == run.read
               e == run.elig
           IN  /\ Skipped(r, i) => Skipped(Disk, i)
               /\ ~Folds(Disk, e, i)
               /\ ~Skipped(Disk, i) => Final(Disk, e, i) = Final(r, e, i)
               /\ \A f \in ShardFiles, b \in Bodies :
                     /\ ~Has(Moved(Disk, f), i, b)
                     /\ Has(Written(Disk, e, f), i, b) <=> Has(shard[f], i, b)
<1> DEFINE r == run.read
           e == run.elig
<1>t. /\ r \in Store /\ Disk \in Store /\ Disk.file[i] = file[i] /\ Disk.shard = shard
      /\ ~Differ(ShardBodies(r, i)) /\ Bucket[i] \in ShardFiles
  BY MaintenanceAssumption DEF RunInv, RunTypeOK, RunType, Disk, PlanInv, Store, ShardFiles
<1>s. \A f \in ShardFiles : shard[f] = Written(r, e, f)
  <2>1. shard = run.expected
    BY AsExpected
  <2> QED BY <2>1 DEF RunInv, PlanInv
<1>f. file[i] = IF Folds(r, e, i) THEN None ELSE r.file[i]
  BY DEF RunInv, UntouchedInv, DoneInv
<1>b. /\ \/ ShardBodies(Disk, i) = ShardBodies(r, i) /\ ~New(r, e, i)
         \/ New(r, e, i) /\ ShardBodies(Disk, i) = {Final(r, e, i)}
      /\ ArchiveBodies(Disk, i) \subseteq ArchiveBodies(r, i)
      /\ ArchiveBodies(Disk, i) # ArchiveBodies(r, i) => New(r, e, i)
  BY UntouchedBodies
<1>n. Folds(r, e, i) => New(r, e, i)
  BY <1>t, FoldsIsNew
<1>i. \A f \in ShardFiles, b \in Bodies :
         /\ Has(Moved(Disk, f), i, b)
              <=> Has(shard[f], i, b) /\ Bucket[i] # f /\ ~Skipped(Disk, i)
         /\ Has(Added(Disk, f), i, b)
              <=> \/ Has(shard[f], i, b)
                  \/ Bucket[i] = f /\ \E g \in ShardFiles : Has(Moved(Disk, g), i, b)
         /\ Has(Dropped(Disk, f), i, b) <=> Has(Added(Disk, f), i, b) /\ ~Has(Moved(Disk, f), i, b)
         /\ Has(Written(Disk, e, f), i, b)
              <=> IF New(Disk, e, i) /\ Bucket[i] = f THEN b = Final(Disk, e, i)
                  ELSE Has(Dropped(Disk, f), i, b)
  BY <1>t, InImages
<1> DEFINE Settled ==
      /\ Skipped(r, i) => Skipped(Disk, i)
      /\ ~Folds(Disk, e, i)
      /\ ~Skipped(Disk, i) => Final(Disk, e, i) = Final(r, e, i)
      /\ \A f \in ShardFiles, b \in Bodies :
            /\ ~Has(Moved(Disk, f), i, b)
            /\ Has(Written(Disk, e, f), i, b) <=> Has(shard[f], i, b)
<1>g. SUFFICES Settled
  OBVIOUS
<1>h. \A d, c \in Store : /\ d.file[i] = c.file[i] /\ ShardBodies(d, i) = ShardBodies(c, i)
                          /\ ArchiveBodies(d, i) = ArchiveBodies(c, i)
         => /\ Skipped(d, i) <=> Skipped(c, i)
            /\ Folds(d, e, i) <=> Folds(c, e, i)
            /\ Final(d, e, i) = Final(c, e, i)
  <2>1. ASSUME NEW d \in Store, NEW c \in Store, d.file[i] = c.file[i],
               ShardBodies(d, i) = ShardBodies(c, i), ArchiveBodies(d, i) = ArchiveBodies(c, i)
        PROVE  /\ Skipped(d, i) <=> Skipped(c, i)
               /\ Folds(d, e, i) <=> Folds(c, e, i)
               /\ Final(d, e, i) = Final(c, e, i)
    <3>1. Skipped(d, i) <=> Skipped(c, i)
      BY <2>1 DEF Skipped, ShadowDivergence, DuplicateUlid, FileBodies
    <3>2. Folds(d, e, i) <=> Folds(c, e, i)
      BY <2>1, <3>1 DEF Folds
    <3>3. ArchiveReplaces(d, i) <=> ArchiveReplaces(c, i)
      BY <2>1 DEF ArchiveReplaces
    <3> QED BY <2>1, <3>1, <3>2, <3>3 DEF Final
  <2> QED BY <2>1
<1>1. ASSUME ~New(r, e, i) PROVE Settled
  <2>1. /\ Disk.file[i] = r.file[i] /\ ShardBodies(Disk, i) = ShardBodies(r, i)
        /\ ArchiveBodies(Disk, i) = ArchiveBodies(r, i)
    BY <1>1, <1>t, <1>f, <1>b, <1>n
  <2>2. /\ Skipped(Disk, i) <=> Skipped(r, i)
        /\ Folds(Disk, e, i) <=> Folds(r, e, i)
        /\ Final(Disk, e, i) = Final(r, e, i)
    BY <1>t, <1>h, <2>1
  <2>3. ~Folds(Disk, e, i) /\ ~New(Disk, e, i)
    BY <1>1, <1>n, <2>2 DEF New
  <2>4. \A f \in ShardFiles, b \in Bodies : ~Has(Moved(Disk, f), i, b)
    <3>1. CASE Skipped(Disk, i)
      BY <1>i, <3>1
    <3>2. CASE ~Skipped(Disk, i)
      <4>1. Final(r, e, i) = None /\ ~Folds(r, e, i)
        BY <1>1, <1>n, <2>2, <3>2 DEF New
      <4>2. ShardBodies(r, i) = {}
        <5>1. \A S : S # {} => TheBody(S) \in S
          BY TheBodyIsIn
        <5>2. ShardBodies(r, i) \subseteq Bodies /\ ArchiveBodies(r, i) \subseteq Bodies
          BY <1>t, StoreBodies
        <5> HIDE DEF r, e
        <5> QED BY <4>1, <5>1, <5>2, MaintenanceAssumption DEF Final
      <4>3. \A f \in ShardFiles, b \in Bodies : ~Has(shard[f], i, b)
        <5>1. \A f \in ShardFiles : Disk.shard[f] \subseteq Line
          BY <1>t DEF Store
        <5> QED BY <1>t, <2>1, <4>2, <5>1, ShardBody
      <4> QED BY <1>i, <4>3
    <3> QED BY <3>1, <3>2
  <2>5. \A f \in ShardFiles, b \in Bodies : Has(Written(Disk, e, f), i, b) <=> Has(shard[f], i, b)
    BY <1>i, <2>3, <2>4
  <2> QED BY <2>2, <2>3, <2>4, <2>5
<1>2. ASSUME New(r, e, i) PROVE Settled
  <2>1. ~Skipped(r, i) /\ ShardBodies(Disk, i) = {Final(r, e, i)}
    BY <1>2, <1>b DEF New
  <2>2. ~Folds(Disk, e, i)
    BY <1>t, <1>f, <2>1 DEF Folds
  <2>3. Final(Disk, e, i) = Final(r, e, i)
    <3>1. Disk.file[i] = r.file[i] \/ (Folds(r, e, i) /\ Disk.file[i] = None)
      BY <1>t, <1>f
    <3> HIDE DEF r, e
    <3> QED BY <1>2, <1>t, <1>b, <2>1, <2>2, <3>1, FinalStandsForAll
  <2>4. \A f \in ShardFiles, b \in Bodies : Has(shard[f], i, b) <=> f = Bucket[i] /\ b = Final(r, e, i)
    <3>1. ASSUME NEW f \in ShardFiles \ {Bucket[i]}, NEW b \in Bodies
          PROVE  ~Has(Written(r, e, f), i, b)
      <4>1. Has(Written(r, e, f), i, b) => Has(Dropped(r, f), i, b)
        BY <1>t, InImages
      <4>2. Has(Dropped(r, f), i, b) => Has(r.shard[f], i, b) /\ ~Has(Moved(r, f), i, b)
        BY <1>t, InImages
      <4>3. Has(r.shard[f], i, b) => Has(Moved(r, f), i, b)
        BY <1>t, <2>1, InImages
      <4> QED BY <4>1, <4>2, <4>3
    <3>2. \A f \in ShardFiles \ {Bucket[i]} : \A b \in Bodies : ~Has(shard[f], i, b)
      BY <1>s, <3>1
    <3>3. \A b \in Bodies : Has(shard[Bucket[i]], i, b) <=> b = Final(r, e, i)
      BY <1>2, <1>t, <1>s, InImages
    <3> QED BY <1>t, <3>2, <3>3
  <2>5. \A f \in ShardFiles, b \in Bodies : ~Has(Moved(Disk, f), i, b)
    BY <1>i, <2>4
  <2>6. \A f \in ShardFiles, b \in Bodies : Has(Written(Disk, e, f), i, b) <=> Has(shard[f], i, b)
    BY <1>i, <2>3, <2>4, <2>5
  <2> QED BY <2>1, <2>2, <2>3, <2>5, <2>6
<1> QED BY <1>1, <1>2

LEMMA SegmentIsSettled ==
    ASSUME RunInv, pc = "done", touched = {}, NEW s \in segs
    PROVE  ~SegmentFolds(Disk, run.elig, s)
<1> DEFINE r == run.read
           e == run.elig
<1>1. SUFFICES ASSUME SegmentFolds(Disk, e, s) PROVE SegmentFolds(r, e, s)
  BY DEF RunInv, DoneInv
<1>2. \A l \in SegmentLines[s] : l.id \in Ids
  <2>1. SegmentLines[s] \subseteq Line
    BY MaintenanceAssumption DEF RunInv, RunTypeOK
  <2> QED BY <2>1, LineIs
<1>3. \A l \in SegmentLines[s] :
         /\ Skipped(r, l.id) => Skipped(Disk, l.id)
         /\ ~Skipped(Disk, l.id) => Final(Disk, e, l.id) = Final(r, e, l.id)
  BY <1>2, RecordIsSettled
<1> HIDE DEF r, e
<1> QED BY <1>1, <1>3 DEF SegmentFolds

LEMMA RunIsSettled == RunInv => OneRunSettles
<1> SUFFICES ASSUME RunInv, pc = "done", touched = {}
             PROVE  /\ \A f \in ShardFiles : /\ Moved(Disk, f) = {}
                                             /\ Written(Disk, run.elig, f) = shard[f]
                    /\ \A i \in Ids : ~Folds(Disk, run.elig, i)
                    /\ \A s \in segs : ~SegmentFolds(Disk, run.elig, s)
  BY DEF OneRunSettles
<1>1. Disk \in Store /\ \A f \in ShardFiles : shard[f] \subseteq Line
  BY DEF RunInv, RunTypeOK, Disk, Store
<1>2. \A f \in ShardFiles, l \in Line : l \notin Moved(Disk, f)
  BY RecordIsSettled, LineIs DEF Has
<1>3. \A f \in ShardFiles, l \in Line : l \in Written(Disk, run.elig, f) <=> l \in shard[f]
  BY RecordIsSettled, LineIs DEF Has
<1>4. \A f \in ShardFiles : Moved(Disk, f) \subseteq Line /\ Written(Disk, run.elig, f) \subseteq Line
  BY <1>1, ImageTypes DEF Moved, Disk
<1>5. \A i \in Ids : ~Folds(Disk, run.elig, i)
  BY RecordIsSettled
<1> QED BY <1>1, <1>2, <1>3, <1>4, <1>5, SegmentIsSettled

(* A finished run that git left alone has done everything there is to do. *)
THEOREM RunsSettle == VSpec => []OneRunSettles
BY SpecRunInv, RunIsSettled, PTL

-----------------------------------------------------------------------------
(***************************************************************************)
(* What the store's own code does to a committed tree is not reported.      *)
(* OwnTree says what its writers and its runs may have made of each record;  *)
(* it keeps what the rules of _Against ask for, and survives a run from what *)
(* the run read, in whatever phase it stands or stopped (RunInv), because   *)
(* only files as committed fold.                                            *)
(***************************************************************************)

(* Record i of tree d, as the store's own code may have left it since tree r,
   where it could be read.  Its lines come from r or carry a body that the
   record may have become; a line, a file or an archived copy that is gone
   left a body in the shard files that it may have become. *)
OwnRecord(r, d, i) ==
    LET e == Effective(r, i)
        n == Effective(d, i)
        lines == ShardBodies(d, i)
    IN  /\ lines \subseteq Copies(r, i)
        /\ e \in Bodies => /\ n \in Bodies /\ Legal(e, n)
                           /\ \A b \in lines : b \in ShardBodies(r, i) \/ Legal(e, b)
        /\ d.file[i] = None =>
              IF r.file[i] = None THEN n = e
              ELSE r.file[i] \in lines /\ \A a \in ArchiveBodies(d, i) : Legal(a, r.file[i])
        /\ \A f \in ShardFiles : \A b \in Bodies :
              Has(r.shard[f], i, b) /\ ~Has(d.shard[f], i, b) => Legal(b, n)
        /\ \A s \in r.segs \ d.segs : \A a \in Bodies :
              Has(SegmentLines[s], i, a) => \E b \in lines : Legal(a, b)

OwnTree(r, d) ==
    /\ d.segs \subseteq r.segs
    /\ \A i \in Ids : Effective(r, i) # Gap => OwnRecord(r, d, i)

\* No run begins while a record cannot be read.
Unreadable(r) == \E i \in Ids : Effective(r, i) = Gap

(* Until something else than this code writes, disk and what a run holds are *)
(* the committed tree's own work.                                            *)
OwnInv ==
    ~foreign =>
      /\ base \in Store /\ touched = {}
      /\ OwnTree(base, Disk)
      /\ pc # "idle" => /\ OwnTree(base, run.read) /\ ~Unreadable(base)
                        /\ \A i \in run.elig : run.read.file[i] = base.file[i]
      /\ Unreadable(base) =>
            /\ shard = base.shard /\ segs = base.segs
            /\ \A i \in Ids : Effective(base, i) = Gap => file[i] = base.file[i]

LEMMA LegalChain ==
    ASSUME NEW a, NEW b, NEW c, Legal(a, b), Legal(b, c)
    PROVE  Legal(a, c)
<1>1. a \in Bodies /\ b \in Bodies /\ c \in Bodies
  BY MaintenanceAssumption DEF Legal
<1> QED BY <1>1, FollowsIsTransitive

LEMMA LegalSame ==
    ASSUME NEW b \in Bodies
    PROVE  Legal(b, b)
BY MaintenanceAssumption DEF Legal

(* A planned line is a file that folds, or a line that was there; it is what readers take for it, or *)
(* the line they take a file over.                                            *)
LEMMA FinalIsACopy ==
    ASSUME NEW r \in Store, NEW elig, NEW i \in Ids, New(r, elig, i),
           ~Differ(ShardBodies(r, i))
    PROVE  /\ \/ Folds(r, elig, i) /\ Final(r, elig, i) = r.file[i]
              \/ Final(r, elig, i) \in ShardBodies(r, i) \cup ArchiveBodies(r, i)
           /\ \/ Final(r, elig, i) = Effective(r, i)
              \/ r.file[i] # None /\ Final(r, elig, i) \in ShardBodies(r, i)
<1> DEFINE final == Final(r, elig, i)
           A == ArchiveBodies(r, i)
           S == ShardBodies(r, i)
<1>n. final # None
  BY DEF New
<1>t. (A # {} => TheBody(A) \in A) /\ (S # {} => TheBody(S) \in S)
  BY TheBodyIsIn
<1>1. CASE Folds(r, elig, i)
  <2>1. final = r.file[i] /\ r.file[i] # None
    BY <1>1, FoldsIsNew DEF Folds
  <2> QED BY <1>1, <2>1 DEF Effective
<1>2. CASE ~Folds(r, elig, i) /\ r.file[i] = None
  <2>1. final = IF S = {}
                THEN IF A = {} THEN None ELSE TheBody(A)
                ELSE IF ArchiveReplaces(r, i) THEN TheBody(A) ELSE TheBody(S)
    BY <1>2, FinalIs
  <2>2. ArchiveReplaces(r, i) => A # {}
    BY DEF ArchiveReplaces, OneBody
  <2>3. Effective(r, i) = IF S # {} THEN IF ArchiveReplaces(r, i) THEN TheBody(A) ELSE TheBody(S)
                          ELSE IF A # {} THEN TheBody(A) ELSE None
    BY <1>2 DEF Effective
  <2> HIDE DEF final, A, S
  <2>4. final = Effective(r, i) /\ (final \in A \/ final \in S)
    BY <1>n, <1>t, <2>1, <2>2, <2>3
  <2> QED BY <2>4 DEF final, A, S
<1>3. CASE ~Folds(r, elig, i) /\ r.file[i] # None
  <2>1. final = IF S = {} THEN None ELSE TheBody(S)
    BY <1>3 DEF Final
  <2>2. final \in S
    <3> HIDE DEF final, A, S
    <3> QED BY <1>n, <1>t, <2>1
  <2> QED BY <1>3, <2>2
<1> QED BY <1>1, <1>2, <1>3

(* What a run finds in the shard files may become what readers take. *)
LEMMA LineMayBecomeEffective ==
    ASSUME NEW r \in Store, NEW elig, NEW i \in Ids, New(r, elig, i),
           ~Differ(ShardBodies(r, i)), NEW b \in ShardBodies(r, i)
    PROVE  Legal(b, Effective(r, i))
<1>1. CASE Final(r, elig, i) = Effective(r, i)
  BY <1>1, FinalIsLegal
<1>2. CASE r.file[i] # None /\ Final(r, elig, i) \in ShardBodies(r, i)
  <2>1. Effective(r, i) = r.file[i] /\ r.file[i] \in FileBodies(r, i)
    BY <1>2 DEF Effective, FileBodies
  <2>2. ~ShadowDivergence(r, i)
    BY DEF New, Skipped
  <2> QED BY <2>1, <2>2 DEF ShadowDivergence
<1> QED BY <1>1, <1>2, FinalIsACopy

(* A line that a run takes away belongs to a record it plans a line for. *)
LEMMA OnlyPlannedLinesGo ==
    ASSUME RunInv, pc # "idle", touched = {}, NEW i \in Ids, NEW f \in ShardFiles, NEW b \in Bodies,
           Has(run.read.shard[f], i, b), ~Has(shard[f], i, b)
    PROVE  b \in ShardBodies(run.read, i) /\ New(run.read, run.elig, i)
<1> DEFINE r == run.read
           e == run.elig
<1>t. r \in Store /\ ~Differ(ShardBodies(r, i)) /\ \A g \in ShardFiles : r.shard[g] \subseteq Line
  BY DEF RunInv, RunTypeOK, RunType, PlanInv, Store
<1>1. b \in ShardBodies(r, i)
  BY <1>t, ShardBody
<1>2. SUFFICES ASSUME ~New(r, e, i)
               PROVE  Has(shard[f], i, b)
  BY <1>1
<1>3. Final(r, e, i) # None
  <2>1. TheBody(ShardBodies(r, i)) \in Bodies
    BY <1>t, <1>1, TheBodyIsIn, StoreBodies
  <2>2. ArchiveBodies(r, i) # {} => TheBody(ArchiveBodies(r, i)) \in Bodies
    BY <1>t, TheBodyIsIn, StoreBodies
  <2> HIDE DEF r, e
  <2> QED BY <1>1, <2>1, <2>2, MaintenanceAssumption DEF Final, Folds
<1>4. Skipped(r, i)
  BY <1>2, <1>3 DEF New
<1>5. /\ Has(Added(r, f), i, b) /\ Has(Dropped(r, f), i, b) /\ Has(Written(r, e, f), i, b)
  BY <1>t, <1>2, <1>4, InImages
<1>6. \/ run.expected[f] = r.shard[f] \/ run.expected[f] = Added(r, f)
      \/ run.expected[f] = Dropped(r, f) \/ run.expected[f] = Written(r, e, f)
  BY DEF RunInv, RunTypeOK, PlanInv
<1>7. shard = run.expected
  BY AsExpected
<1> QED BY <1>5, <1>6, <1>7

LEMMA RunKeepsOwnRecord ==
    ASSUME RunInv, pc # "idle", touched = {}, base \in Store, NEW i \in Ids,
           run.read.segs \subseteq base.segs, OwnRecord(base, run.read, i),
           i \in run.elig => run.read.file[i] = base.file[i]
    PROVE  OwnRecord(base, Disk, i)
<1> DEFINE r == run.read
           elig == run.elig
           final == Final(r, elig, i)
           e == Effective(base, i)
           n == Effective(Disk, i)
           lines == ShardBodies(Disk, i)
<1>t. /\ r \in Store /\ ~Differ(ShardBodies(r, i))
      /\ Disk.file[i] = file[i] /\ Disk.shard = shard /\ Disk.segs = segs
      /\ segs \subseteq Segments /\ r.segs \subseteq Segments /\ base.segs \subseteq Segments
      /\ \A f \in ShardFiles : r.shard[f] \subseteq Line
  BY DEF RunInv, RunTypeOK, RunType, PlanInv, Store, Disk
<1>b. /\ \/ lines = ShardBodies(r, i)
            /\ (New(r, elig, i) => pc \notin {"files", "segments", "done"})
         \/ New(r, elig, i) /\ lines = {final}
      /\ ArchiveBodies(Disk, i) \subseteq ArchiveBodies(r, i)
  BY UntouchedBodies
<1>n. n = Effective(r, i)
  BY UntouchedIsUnchanged
<1>f. \/ file[i] = r.file[i]
      \/ pc \in {"files", "segments", "done"} /\ file[i] = None /\ Folds(r, elig, i)
  BY DEF RunInv, UntouchedInv
<1>k. Folds(r, elig, i) =>
         /\ New(r, elig, i) /\ final = r.file[i] /\ r.file[i] # None /\ ~Skipped(r, i)
         /\ r.file[i] = base.file[i]
  BY <1>t, FoldsIsNew DEF Folds
<1>1. lines \subseteq Copies(base, i)
  <2>1. ShardBodies(r, i) \subseteq Copies(base, i)
    BY DEF OwnRecord
  <2>2. ArchiveBodies(r, i) \subseteq Copies(base, i)
    BY DEF ArchiveBodies, Copies
  <2>3. New(r, elig, i) => final \in Copies(base, i)
    <3>1. CASE Folds(r, elig, i)
      BY <1>k, <3>1 DEF Copies, FileBodies
    <3>2. CASE ~Folds(r, elig, i)
      BY <1>t, <2>1, <2>2, <3>2, FinalIsACopy
    <3> QED BY <3>1, <3>2
  <2> QED BY <1>b, <2>1, <2>3
<1>2. ASSUME e \in Bodies
      PROVE  /\ n \in Bodies /\ Legal(e, n)
             /\ \A b \in lines : b \in ShardBodies(base, i) \/ Legal(e, b)
  <2>1. n \in Bodies /\ Legal(e, n) /\ \A b \in ShardBodies(r, i) : b \in ShardBodies(base, i) \/ Legal(e, b)
    BY <1>n, <1>2 DEF OwnRecord
  <2>2. New(r, elig, i) => final \in ShardBodies(base, i) \/ Legal(e, final)
    BY <1>t, <1>n, <2>1, FinalIsACopy
  <2> QED BY <1>b, <2>1, <2>2
<1>3. ASSUME file[i] = None
      PROVE  IF base.file[i] = None THEN n = e
             ELSE base.file[i] \in lines /\ \A a \in ArchiveBodies(Disk, i) : Legal(a, base.file[i])
  <2>1. CASE Folds(r, elig, i)
    <3>1. New(r, elig, i) /\ pc \in {"files", "segments", "done"} /\ base.file[i] = final /\ base.file[i] # None
      BY <1>f, <1>k, <1>3, <2>1
    <3>2. lines = {final}
      BY <1>b, <3>1
    <3>3. \A a \in ArchiveBodies(r, i) : Legal(a, r.file[i])
      BY <1>k, <2>1 DEF Skipped, DuplicateUlid, FileBodies, Compatible
    <3> QED BY <1>b, <1>k, <2>1, <3>1, <3>2, <3>3
  <2>2. CASE ~Folds(r, elig, i)
    <3>1. r.file[i] = None
      BY <1>f, <1>3, <2>2
    <3>2. CASE base.file[i] = None
      BY <1>n, <3>1, <3>2 DEF OwnRecord
    <3>3. CASE base.file[i] # None
      <4>1. base.file[i] \in ShardBodies(r, i) /\ \A a \in ArchiveBodies(r, i) : Legal(a, base.file[i])
        BY <3>1, <3>3 DEF OwnRecord
      <4>2. TheBody(ShardBodies(r, i)) = base.file[i]
        BY <1>t, <4>1, TheBodyIsIn DEF Differ
      <4>3. ~ArchiveReplaces(r, i)
        BY <4>1, <4>2, TheBodyIsIn DEF ArchiveReplaces, OneBody, Superseding, Compatible
      <4>4. final = base.file[i]
        BY <2>2, <3>1, <4>1, <4>2, <4>3, FinalIs
      <4>5. base.file[i] \in lines
        BY <1>b, <4>1, <4>4
      <4> QED BY <1>b, <3>3, <4>1, <4>5
    <3> QED BY <3>2, <3>3
  <2> QED BY <2>1, <2>2
<1>4. ASSUME NEW f \in ShardFiles, NEW b \in Bodies, Has(base.shard[f], i, b), ~Has(shard[f], i, b)
      PROVE  Legal(b, n)
  <2>1. CASE Has(r.shard[f], i, b)
    <3>1. b \in ShardBodies(r, i) /\ New(r, elig, i)
      BY <1>4, <2>1, OnlyPlannedLinesGo
    <3> QED BY <1>t, <1>n, <3>1, LineMayBecomeEffective
  <2>2. CASE ~Has(r.shard[f], i, b)
    BY <1>n, <1>4, <2>2 DEF OwnRecord
  <2> QED BY <2>1, <2>2
<1>5. ASSUME NEW s \in base.segs \ segs, NEW a \in Bodies, Has(SegmentLines[s], i, a)
      PROVE  \E b \in lines : Legal(a, b)
  <2>1. CASE s \notin r.segs
    <3>1. PICK b \in ShardBodies(r, i) : Legal(a, b)
      BY <1>5, <2>1 DEF OwnRecord
    <3>2. New(r, elig, i) => Legal(a, final)
      BY <1>t, <3>1, FinalIsLegal, LegalChain
    <3> QED BY <1>b, <3>1, <3>2
  <2>2. CASE s \in r.segs
    <3>1. /\ s \in Segments /\ [id |-> i, body |-> a] \in SegmentLines[s]
          /\ \E l \in SegmentLines[s] : l.id = i
      BY <1>t, <1>5 DEF Has
    <3>2. pc \in {"segments", "done"} /\ SegmentFolds(r, elig, s)
      BY <1>5, <2>2, <3>1 DEF RunInv, UntouchedInv
    <3>3. New(r, elig, i)
      BY <1>t, <3>1, <3>2, FoldsIsNew
    <3>4. lines = {final}
      BY <1>b, <3>2, <3>3
    <3>5. Legal(a, final)
      <4>1. \A l \in SegmentLines[s] : Deletable(l.body, Final(r, elig, l.id))
        BY <3>2 DEF SegmentFolds
      <4> QED BY <3>1, <4>1 DEF Deletable, Compatible
    <3> QED BY <3>4, <3>5
  <2> QED BY <2>1, <2>2
<1> QED
  <2> HIDE DEF r, elig, final
  <2> QED BY <1>t, <1>1, <1>2, <1>3, <1>4, <1>5 DEF OwnRecord

\* What a run leaves of its own work is its own work.
RunIsOwnWork ==
    pc # "idle" /\ touched = {} /\ base \in Store /\ run.read.segs \subseteq base.segs =>
        \A i \in Ids : /\ OwnRecord(base, run.read, i)
                       /\ i \in run.elig => run.read.file[i] = base.file[i]
                       => OwnRecord(base, Disk, i)

-----------------------------------------------------------------------------
(* No rule of _Against reports such a record. *)

(* A line of one tree that is not in the other, for the copies of a record. *)
LEMMA NewShardCopy ==
    ASSUME NEW r, NEW d \in Store, NEW i, NEW o \in NewOnes(r, d, i), o.kind = "shard"
    PROVE  o.body \in ShardBodies(d, i)
BY DEF NewOnes, Occurrences, FileCopies, ShardCopies, ArchiveCopies

(* No new archived copy: there is no new segment. *)
LEMMA NoNewArchive ==
    ASSUME NEW r, NEW d, d.segs \subseteq r.segs, NEW i, NEW o \in NewOnes(r, d, i)
    PROVE  o.kind # "archive"
<1> SUFFICES ASSUME o.kind = "archive" PROVE FALSE
  OBVIOUS
<1>1. o \in ArchiveCopies(d, i) /\ o \notin ArchiveCopies(r, i)
  BY DEF NewOnes, Occurrences, FileCopies, ShardCopies, ArchiveCopies
<1>2. /\ o \in [kind : {"archive"}, at : d.segs, body : ArchiveBodies(d, i)]
      /\ Held(SegmentLines[o.at], i, o.body)
  BY <1>1 DEF ArchiveCopies
<1>3. o.at \in r.segs /\ o.body \in ArchiveBodies(r, i)
  BY <1>2 DEF Held, ArchiveBodies
<1>4. o \in [kind : {"archive"}, at : r.segs, body : ArchiveBodies(r, i)]
  BY <1>2, <1>3
<1> QED BY <1>1, <1>2, <1>4 DEF ArchiveCopies

LEMMA OwnRecordIsNotReported ==
    ASSUME NEW r \in Store, NEW d \in Store, NEW i \in Ids, d.segs \subseteq r.segs,
           Effective(r, i) # Gap, OwnRecord(r, d, i)
    PROVE  ~Provenance(r, d, i) /\ ~Judge(r, d, i)
<1> DEFINE e == Effective(r, i)
           n == Effective(d, i)
<1>1. ~Provenance(r, d, i)
  BY NewShardCopy DEF Provenance, OwnRecord
<1>2. SUFFICES ASSUME Occurrences(r, i) # {}, Occurrences(r, i) # Occurrences(d, i)
               PROVE  /\ n \in Bodies
                      /\ Removed(r, d, i) = {} /\ (\A o \in NewOnes(r, d, i) : o.kind = "file")
                           => ~Edit(r, d, i)
                      /\ ~Relocation(r, d, i)
  BY <1>1 DEF Judge
<1>3. e \in Bodies
  <2>1. Copies(r, i) # {}
    BY <1>2, CopiesHaveBodies
  <2>2. e # None
    BY <2>1, EffectiveIs
  <2>3. e \in Bodies \cup {None, Gap}
    <3>1. \A S : S # {} => TheBody(S) \in S
      BY TheBodyIsIn
    <3>2. /\ ShardBodies(r, i) # {} => TheBody(ShardBodies(r, i)) \in Bodies
          /\ ArchiveBodies(r, i) # {} => TheBody(ArchiveBodies(r, i)) \in Bodies
          /\ r.file[i] \in Bodies \cup {None}
      BY <3>1, StoreBodies
    <3>3. ArchiveReplaces(r, i) => ArchiveBodies(r, i) # {}
      BY DEF ArchiveReplaces, OneBody
    <3> QED BY <3>2, <3>3 DEF Effective
  <2> QED BY <2>2, <2>3
<1>4. n \in Bodies /\ Legal(e, n)
  BY <1>3 DEF OwnRecord
<1>5. ASSUME Removed(r, d, i) = {}, \A o \in NewOnes(r, d, i) : o.kind = "file"
      PROVE  ~Edit(r, d, i)
  BY <1>2, <1>4, <1>5, FileEdit DEF Edit
<1>6. ~(r.file[i] # None /\ d.file[i] = None /\ FileRemoval(r, d, i))
  BY DEF FileRemoval, OwnRecord
<1>7. ~AddedArchive(r, d, i)
  BY NoNewArchive DEF AddedArchive
<1>8. \A o \in NewOnes(r, d, i) : o.kind = "shard" /\ o.body \notin ShardBodies(r, i) => Legal(e, o.body)
  BY <1>3, NewShardCopy DEF OwnRecord
<1>9. ASSUME NEW f \in ShardFiles, NEW l \in r.shard[f] \ d.shard[f], l.id = i
      PROVE  Legal(l.body, n)
  <2>1. l \in Line
    BY DEF Store
  <2>2. l.body \in Bodies /\ Has(r.shard[f], i, l.body) /\ ~Has(d.shard[f], i, l.body)
    BY <1>9, <2>1, LineIs DEF Has
  <2> QED BY <2>2 DEF OwnRecord
<1>10. ~Relocation(r, d, i)
  <2> HIDE DEF e, n
  <2> QED BY <1>4, <1>6, <1>7, <1>8, <1>9 DEF Relocation, e, n
<1> QED BY <1>4, <1>5, <1>10

LEMMA OwnTreeIsAccepted ==
    ASSUME NEW r \in Store, NEW d \in Store, OwnTree(r, d),
           Unreadable(r) => /\ d.shard = r.shard /\ d.segs = r.segs
                            /\ \A i \in Ids : Effective(r, i) = Gap => d.file[i] = r.file[i]
    PROVE  Against(r, d) = {}
<1>1. ASSUME NEW i \in Ids
      PROVE  ~Provenance(r, d, i) /\ ~Judge(r, d, i)
  <2>1. CASE Effective(r, i) # Gap
    BY <2>1, OwnRecordIsNotReported DEF OwnTree
  <2>2. CASE Effective(r, i) = Gap
    <3>1. d.shard = r.shard /\ d.segs = r.segs /\ d.file[i] = r.file[i]
      BY <2>2 DEF Unreadable
    <3>2. /\ FileBodies(d, i) = FileBodies(r, i) /\ ShardBodies(d, i) = ShardBodies(r, i)
          /\ ArchiveBodies(d, i) = ArchiveBodies(r, i)
      BY <3>1 DEF FileBodies, ShardBodies, ArchiveBodies
    <3>3. Occurrences(d, i) = Occurrences(r, i)
      BY <3>1, <3>2 DEF Occurrences, FileCopies, ShardCopies, ArchiveCopies
    <3> QED BY <3>3 DEF Provenance, Judge, NewOnes
  <2> QED BY <2>1, <2>2
<1>2. ASSUME NEW s \in r.segs \ d.segs
      PROVE  ~DeletedSegment(r, d, s)
  <2>1. SUFFICES ASSUME NEW l \in SegmentLines[s]
                 PROVE  \E b \in ShardBodies(d, l.id) : Deletable(l.body, b)
    BY DEF DeletedSegment
  <2>2. s \in Segments /\ l \in Line
    BY MaintenanceAssumption DEF Store
  <2>3. ~Unreadable(r)
    BY <1>2
  <2>4. l.id \in Ids /\ OwnRecord(r, d, l.id)
    BY <2>2, <2>3, LineIs DEF OwnTree, Unreadable
  <2>5. l.body \in Bodies /\ Has(SegmentLines[s], l.id, l.body)
    BY <2>1, <2>2, LineIs DEF Has
  <2> QED BY <2>4, <2>5 DEF OwnRecord, Deletable, Compatible
<1> QED BY <1>1, <1>2 DEF Against

-----------------------------------------------------------------------------
(* Every step of this store's own code keeps it. *)

(* A record is judged by its own file and by what the shard files and the *)
(* segments hold.                                                         *)
LEMMA SameFilesSameRecord ==
    ASSUME NEW r, NEW d, NEW c, NEW i, OwnRecord(r, d, i),
           c.file[i] = d.file[i], c.shard = d.shard, c.segs = d.segs
    PROVE  OwnRecord(r, c, i)
<1>1. ShardBodies(c, i) = ShardBodies(d, i) /\ ArchiveBodies(c, i) = ArchiveBodies(d, i)
  BY DEF ShardBodies, ArchiveBodies
<1>2. Effective(c, i) = Effective(d, i)
  BY <1>1 DEF Effective, ArchiveReplaces
<1> QED BY <1>1, <1>2 DEF OwnRecord

LEMMA InitOwnInv == VInit => OwnInv
<1> SUFFICES ASSUME VInit PROVE OwnInv
  OBVIOUS
<1>1. base \in Store /\ Disk = base /\ touched = {} /\ pc = "idle"
  BY InitRunInv DEF VInit, Init, RunInv, RunTypeOK, Disk, Store
<1>2. shard = base.shard /\ segs = base.segs /\ file = base.file
  BY DEF VInit, Disk
<1>3. ASSUME NEW i \in Ids PROVE OwnRecord(base, base, i)
  BY LegalSame DEF OwnRecord, Copies
<1>4. OwnTree(base, Disk)
  BY <1>1, <1>3 DEF OwnTree
<1> QED BY <1>1, <1>2, <1>4 DEF OwnInv

(* A step of a run, or its end. *)
LEMMA PublisherKeepsTheRun ==
    ASSUME RunInv, Publisher \/ Die
    PROVE  /\ pc # "idle" /\ touched' = touched
           /\ \/ pc' = "idle" /\ UNCHANGED <<file, shard, segs>>
              \/ pc' # "idle" /\ run'.read = run.read /\ run'.elig = run.elig
<1> DEFINE Goal == /\ pc # "idle" /\ touched' = touched
                   /\ \/ pc' = "idle" /\ UNCHANGED <<file, shard, segs>>
                      \/ pc' # "idle" /\ run'.read = run.read /\ run'.elig = run.elig
<1>t. run \in RunType
  BY DEF RunInv, RunTypeOK
<1>1. ASSUME NEW f \in ShardFiles, AddMoved(f) \/ DropMoved(f) \/ WriteLines(f)
      PROVE  Goal
  BY <1>t, <1>1 DEF AddMoved, DropMoved, WriteLines, Publish, RunType, Quit
<1>2. ASSUME NEW j \in Ids, DeleteFile(j)
      PROVE  Goal
  BY <1>t, <1>2 DEF DeleteFile, RunType
<1>3. ASSUME NEW s \in Segments, DeleteSegment(s)
      PROVE  Goal
  BY <1>t, <1>3 DEF DeleteSegment, RunType
<1>4. ASSUME AfterAdd \/ AfterDrop \/ AfterWrite \/ AfterFiles \/ End
      PROVE  Goal
  BY <1>t, <1>4 DEF AfterAdd, AfterDrop, AfterWrite, AfterFiles, End, RunType, Quit
<1>5. ASSUME Die
      PROVE  Goal
  BY <1>5 DEF Die, Free, Quit
<1> QED BY <1>1, <1>2, <1>3, <1>4, <1>5 DEF Publisher

LEMMA RunKeepsOwnInv ==
    ASSUME RunInv, OwnInv, RunIsOwnWork', Publisher \/ Die, UNCHANGED <<base, foreign>>, ~foreign
    PROVE  OwnInv'
<1>1. /\ base \in Store /\ touched = {} /\ OwnTree(base, Disk) /\ OwnTree(base, run.read)
      /\ ~Unreadable(base) /\ \A i \in run.elig : run.read.file[i] = base.file[i]
      /\ touched' = {}
  BY PublisherKeepsTheRun DEF OwnInv
<1>2. CASE pc' = "idle" /\ UNCHANGED <<file, shard, segs>>
  <2>1. Disk' = Disk
    BY <1>2 DEF Disk
  <2> QED BY <1>1, <1>2, <2>1 DEF OwnInv
<1>3. CASE pc' # "idle" /\ run'.read = run.read /\ run'.elig = run.elig
  <2>1. \A i \in Ids : OwnRecord(base, run.read, i) /\ (i \in run.elig => run.read.file[i] = base.file[i])
    BY <1>1 DEF OwnTree, Unreadable
  <2>2. run.read.segs \subseteq base.segs
    BY <1>1 DEF OwnTree
  <2>3. ASSUME NEW i \in Ids PROVE OwnRecord(base', Disk', i)
    <3>1. /\ OwnRecord(base', run'.read, i) /\ run'.read.segs \subseteq base'.segs
          /\ i \in run'.elig => run'.read.file[i] = base'.file[i]
      BY <1>3, <2>1, <2>2
    <3>2. (pc # "idle" /\ touched = {} /\ base \in Store)'
      BY <1>1, <1>3
    <3> QED BY <3>1, <3>2 DEF RunIsOwnWork
  <2>4. segs' \subseteq base.segs
    <3>1. /\ segs' \subseteq Segments /\ run.read.segs \subseteq Segments
          /\ \A s \in segs' : s \in segs
      <4>1. segs' = segs \/ \E s \in Segments : segs' = segs \ {s}
        BY DEF Publisher, AddMoved, DropMoved, WriteLines, Publish, AfterAdd, AfterDrop, AfterWrite,
               AfterFiles, End, DeleteFile, DeleteSegment, Die
      <4> QED BY <4>1 DEF RunInv, RunTypeOK, RunType, Store
    <3> QED BY <1>1, <3>1 DEF OwnTree, Disk
  <2>5. OwnTree(base, Disk')
    BY <2>3, <2>4 DEF OwnTree, Disk
  <2> QED BY <1>1, <1>3, <2>5 DEF OwnInv
<1> QED BY <1>2, <1>3, PublisherKeepsTheRun

(* A store in which a record cannot be read stays so until git repairs it. *)
LEMMA GapStays ==
    ASSUME OwnInv, RunInv, ~foreign, NEW i \in Ids, Effective(base, i) = Gap
    PROVE  Effective(Disk, i) = Gap
<1>1. base \in Store /\ Disk \in Store /\ Disk.shard = base.shard
  BY DEF OwnInv, Unreadable, RunInv, RunTypeOK, Disk, Store
<1>2. ShardBodies(Disk, i) = ShardBodies(base, i)
  BY <1>1 DEF ShardBodies
<1> QED BY <1>1, <1>2, EffectiveIs

LEMMA BeginKeepsOwnInv ==
    ASSUME RunInv, OwnInv, BeginCommitted, ~foreign
    PROVE  OwnInv'
<1>1. /\ UNCHANGED <<base, foreign>> /\ touched' = {} /\ Disk' = Disk /\ UNCHANGED <<file, shard, segs>>
      /\ \A i \in Ids : Effective(Disk, i) # Gap
  BY DEF BeginCommitted, Begin, Disk
<1>2. run'.read = Disk /\ Disk.file = file /\ \A i \in run'.elig : file[i] = base.file[i]
  BY DEF BeginCommitted, Begin, Disk
<1>3. ~Unreadable(base)
  BY <1>1, GapStays DEF Unreadable
<1>4. base \in Store /\ OwnTree(base, Disk)
  BY DEF OwnInv
<1> QED BY <1>1, <1>2, <1>3, <1>4 DEF OwnInv

LEMMA SaveKeepsOwnInv ==
    ASSUME RunInv, OwnInv, NEW i \in Ids, NEW b \in Bodies, Save(i, b),
           UNCHANGED <<base, foreign>>, ~foreign
    PROVE  OwnInv'
<1>1. /\ pc' = "idle" /\ touched' = touched /\ UNCHANGED <<shard, segs>>
      /\ file' = [file EXCEPT ![i] = b]
      /\ Effective(Disk, i) \in Bodies /\ Legal(Effective(Disk, i), b)
  BY DEF Save, Quit
<1>2. /\ base \in Store /\ touched = {} /\ OwnTree(base, Disk)
      /\ file \in [Ids -> Bodies \cup {None}] /\ Disk \in Store
  BY DEF OwnInv, RunInv, RunTypeOK, Disk, Store
<1> DEFINE d == DiskAfter
<1>3. /\ Disk' = d /\ d.shard = Disk.shard /\ d.segs = Disk.segs
      /\ d.file[i] = b /\ \A j \in Ids \ {i} : d.file[j] = Disk.file[j]
  BY <1>1, <1>2 DEF DiskAfter, Disk
<1> HIDE DEF d
<1>4. ASSUME NEW j \in Ids, Effective(base, j) # Gap
      PROVE  OwnRecord(base, d, j)
  <2>1. OwnRecord(base, Disk, j)
    BY <1>2, <1>4 DEF OwnTree
  <2>2. CASE j # i
    BY <1>3, <2>1, <2>2, SameFilesSameRecord
  <2>3. CASE j = i
    <3>1. ShardBodies(d, i) = ShardBodies(Disk, i) /\ ArchiveBodies(d, i) = ArchiveBodies(Disk, i)
      BY <1>3 DEF ShardBodies, ArchiveBodies
    <3>2. b # None /\ Effective(Disk, i) # Gap
      BY <1>1, MaintenanceAssumption
    <3>3. Effective(d, i) = b
      <4>1. ~Differ(ShardBodies(d, i))
        BY <1>2, <3>1, <3>2, EffectiveIs
      <4> QED BY <1>3, <3>2, <4>1 DEF Effective
    <3>4. \A a : Legal(a, Effective(Disk, i)) => Legal(a, b)
      BY <1>1, LegalChain
    <3> QED BY <1>3, <2>1, <2>3, <3>1, <3>2, <3>3, <3>4 DEF OwnRecord
  <2> QED BY <2>2, <2>3
<1>5. OwnTree(base, d)
  BY <1>2, <1>3, <1>4 DEF OwnTree
<1>6. ASSUME NEW j \in Ids, Effective(base, j) = Gap
      PROVE  file'[j] = base.file[j]
  <2>1. j # i
    BY <1>1, <1>6, GapStays, MaintenanceAssumption
  <2> QED BY <1>1, <1>2, <1>6, <2>1 DEF OwnInv, Unreadable
<1> QED BY <1>1, <1>2, <1>3, <1>5, <1>6 DEF OwnInv

LEMMA NextKeepsOwnInv ==
    ASSUME RunInv, OwnInv, RunIsOwnWork', [VNext]_all
    PROVE  OwnInv'
<1> SUFFICES ASSUME ~foreign'
             PROVE  OwnInv'
  BY DEF OwnInv
<1>1. CASE BeginCommitted
  BY <1>1, BeginKeepsOwnInv DEF BeginCommitted
<1>2. CASE ByTheCode
  BY <1>2, RunKeepsOwnInv, SaveKeepsOwnInv DEF ByTheCode
<1>3. CASE ByGit \/ \E d \in Stores : Merge(d)
  BY <1>3 DEF ByGit, Merge
<1>4. CASE UNCHANGED all
  <2>1. Disk' = Disk
    BY <1>4 DEF all, vars, Disk
  <2> QED BY <1>4, <2>1 DEF OwnInv, all, vars
<1> QED BY <1>1, <1>2, <1>3, <1>4 DEF VNext

LEMMA OwnWorkFollows == RunInv /\ OwnInv => OwnWorkIsAccepted
<1> SUFFICES ASSUME RunInv, OwnInv, ~foreign PROVE Against(base, Disk) = {}
  BY DEF OwnWorkIsAccepted
<1>1. /\ base \in Store /\ Disk \in Store /\ OwnTree(base, Disk)
      /\ Disk.file = file /\ Disk.shard = shard /\ Disk.segs = segs
  BY DEF OwnInv, RunInv, RunTypeOK, Disk, Store
<1>2. Unreadable(base) => /\ Disk.shard = base.shard /\ Disk.segs = base.segs
                          /\ \A i \in Ids : Effective(base, i) = Gap => Disk.file[i] = base.file[i]
  BY <1>1 DEF OwnInv
<1> QED BY <1>1, <1>2, OwnTreeIsAccepted

(* Verify never reports what the store's own writers and maintenance runs do *)
(* to a committed tree, wherever a run stands or was cut short.              *)
THEOREM OwnWorkIsNeverReported == VSpec => []OwnWorkIsAccepted
<1>1. VInit => OwnInv
  BY InitOwnInv
<1>2. RunInv => RunIsOwnWork
  BY RunKeepsOwnRecord DEF RunIsOwnWork
<1>3. RunInv /\ OwnInv /\ RunIsOwnWork' /\ [VNext]_all => OwnInv'
  BY NextKeepsOwnInv
<1>4. RunInv /\ OwnInv => OwnWorkIsAccepted
  BY OwnWorkFollows
<1> QED BY <1>1, <1>2, <1>3, <1>4, SpecRunInv, PTL DEF VSpec

=============================================================================
