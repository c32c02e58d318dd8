---------------------------- MODULE VerifyAgainst ----------------------------
(***************************************************************************)
(* sidegraph-verify --against <commit> on a packed store: what it reports  *)
(* of the tree on disk compared with a committed one (_Against in          *)
(* verify.py, diff_occurrences in store_rules.py), for the store and the   *)
(* maintenance runs of Maintenance.  The committed tree is HEAD and stays  *)
(* it: the question is what one change from it may bring.                  *)
(*                                                                         *)
(* Every copy is readable and every body carries the same raw keys: the    *)
(* repair of damaged copies and the rules about lost keys are left out.    *)
(***************************************************************************)
EXTENDS Maintenance

\* What the writers of a record do in two steps, the rules allow in one
\* (proposed to deprecated is there for a ratify and a retire in one range).
ASSUME FollowsIsTransitive ==
    \A a, b, c \in Bodies : Legal(a, b) /\ Legal(b, c) => Legal(a, c)

VARIABLES
    base,       \* the committed tree
    foreign     \* something else than this store's code wrote since

all == <<vars, base, foreign>>

-----------------------------------------------------------------------------
(* diff_occurrences: what became of the copies of one record.              *)

Held(lines, i, b) == \E l \in lines : l.id = i /\ l.body = b
FileCopies(d, i) == [kind : {"file"}, at : {i}, body : FileBodies(d, i)]
ShardCopies(d, i) ==
    {o \in [kind : {"shard"}, at : ShardFiles, body : ShardBodies(d, i)] : Held(d.shard[o.at], i, o.body)}
ArchiveCopies(d, i) ==
    {o \in [kind : {"archive"}, at : d.segs, body : ArchiveBodies(d, i)] : Held(SegmentLines[o.at], i, o.body)}
Occurrences(d, i) == FileCopies(d, i) \cup ShardCopies(d, i) \cup ArchiveCopies(d, i)

Gone(r, d, i) == Occurrences(r, i) \ Occurrences(d, i)
NewOnes(r, d, i) == Occurrences(d, i) \ Occurrences(r, i)
Modified(r, d, i) == {o \in Gone(r, d, i) : o.kind = "file" /\ d.file[i] # None}
Removed(r, d, i) == Gone(r, d, i) \ Modified(r, d, i)

-----------------------------------------------------------------------------
(* _Against: the findings on one record.                                   *)

\* A shard body that no copy in the committed tree had.
Provenance(r, d, i) ==
    \E o \in NewOnes(r, d, i) : o.kind = "shard" /\ o.body \notin Copies(r, i)

\* The record had a file that its one shard line could not become.
ShadowPair(r, i) ==
    /\ r.file[i] # None /\ OneBody(ShardBodies(r, i))
    /\ ~Legal(TheBody(ShardBodies(r, i)), r.file[i])
FirstShard(r, i, f) == /\ \E l \in r.shard[f] : l.id = i
                       /\ \A g \in 0 .. f - 1 : \A l \in r.shard[g] : l.id # i

RefDuplicateUlid(r, i) ==
    /\ ArchiveBodies(r, i) # {}
    /\ \/ Differ(ArchiveBodies(r, i))
       \/ LET a == TheBody(ArchiveBodies(r, i))
          IN  IF r.file[i] # None THEN ~Compatible(a, r.file[i])
              ELSE /\ OneBody(ShardBodies(r, i))
                   /\ LET s == TheBody(ShardBodies(r, i))
                      IN  ~Compatible(a, s) /\ ~Superseding(a, s)

\* Keeping one of two copies that contradict each other is what the tool asks
\* for.
KeepsTheLine(r, d, i) ==
    /\ ShadowPair(r, i) /\ d.file[i] = None
    /\ Effective(d, i) = TheBody(ShardBodies(r, i))
KeepsOneCopy(r, d, i) ==
    /\ RefDuplicateUlid(r, i) /\ Modified(r, d, i) = {}
    /\ \E o \in Removed(r, d, i) :
          /\ Removed(r, d, i) = {o}
          /\ \E p \in Occurrences(r, i) \ {o} : p.body = Effective(d, i)
Sanctioned(r, d, i) ==
    Effective(d, i) \in Bodies /\ (KeepsTheLine(r, d, i) \/ KeepsOneCopy(r, d, i))

Transfer(b, archived) == archived \in Terminal /\ Legal(b, archived)
FromArchive(d, i) ==
    /\ d.file[i] = None /\ ArchiveBodies(d, i) # {}
    /\ ShardBodies(d, i) = {} \/ ArchiveReplaces(d, i)
FileRemoval(r, d, i) ==
    /\ r.file[i] \notin ShardBodies(d, i)
    /\ IF ArchiveBodies(d, i) # {} /\ (FromArchive(d, i) \/ ShardBodies(d, i) = {})
       THEN \E b \in ArchiveBodies(d, i) : ~Transfer(r.file[i], b)
       ELSE TRUE

AddedArchive(r, d, i) ==
    \E o \in NewOnes(r, d, i) :
        /\ o.kind = "archive"
        /\ IF FromArchive(d, i) /\ o.body = Effective(d, i)
           THEN ~Transfer(Effective(r, i), o.body)
           ELSE o.body \notin Terminal

Relocation(r, d, i) ==
    LET e == Effective(r, i)
        n == Effective(d, i)
        fileGone == r.file[i] # None /\ d.file[i] = None
    IN  \/ n \in Bodies /\ ~Legal(e, n)
        \/ IF fileGone THEN FileRemoval(r, d, i) ELSE AddedArchive(r, d, i)
        \/ \E o \in NewOnes(r, d, i) :
              o.kind = "shard" /\ o.body \notin ShardBodies(r, i) /\ ~Legal(e, o.body)
        \/ /\ ShadowPair(r, i) /\ n \in Bodies
           /\ \E f \in ShardFiles :
                 /\ FirstShard(r, i, f)
                 /\ \E l \in r.shard[f] \ d.shard[f] : l.id = i /\ ~Legal(l.body, n)

\* The committed tree had no effective record: two shard lines differed.
NoEffective(r, d, i) ==
    \/ Occurrences(d, i) = {}
    \/ LET n == Effective(d, i)
       IN  /\ n \in Bodies
           /\ \/ n \notin Copies(r, i)
              \/ \E b \in Copies(r, i) : Legal(n, b) /\ ~Legal(b, n)

Edit(r, d, i) == ~Legal(Effective(r, i), d.file[i])

(* Mutant: a record that vanished is not reported. *)
JudgeWhatIsLeft(r, d, i) ==
    /\ Occurrences(r, i) # {} /\ Occurrences(r, i) # Occurrences(d, i)
    /\ Occurrences(d, i) # {} /\ Effective(r, i) # Gap
    /\ ~Sanctioned(r, d, i) /\ Relocation(r, d, i)
Judge(r, d, i) ==
    /\ Occurrences(r, i) # {} /\ Occurrences(r, i) # Occurrences(d, i)
    /\ IF Effective(r, i) = Gap THEN NoEffective(r, d, i)
       ELSE IF Effective(d, i) \notin Bodies THEN TRUE
       ELSE IF Removed(r, d, i) = {} /\ \A o \in NewOnes(r, d, i) : o.kind = "file"
       THEN Edit(r, d, i)
       ELSE ~Sanctioned(r, d, i) /\ Relocation(r, d, i)

\* A segment may go when the shard lines hold what it held.
Covered(r, d, i) ==
    \/ Effective(r, i) = Gap /\ Effective(d, i) \in Bodies
    \/ Effective(r, i) \in Bodies /\ Effective(d, i) \in Bodies
       /\ ~KeepsTheLine(r, d, i) /\ KeepsOneCopy(r, d, i)
DeletedSegment(r, d, s) ==
    \E l \in SegmentLines[s] :
        ~Covered(r, d, l.id) /\ \A b \in ShardBodies(d, l.id) : ~Deletable(l.body, b)

Against(r, d) ==
    {<<"source", i>> : i \in {j \in Ids : Provenance(r, d, j)}}
    \cup {<<"record", i>> : i \in {j \in Ids : Judge(r, d, j)}}
    \cup {<<"segment", s>> : s \in {t \in r.segs \ d.segs : DeletedSegment(r, d, t)}}

-----------------------------------------------------------------------------
VInit == Init /\ base = Disk /\ foreign = FALSE

(* Mutant: any settled file folds, also one that is not committed. *)
BeginAnyFile == Begin /\ UNCHANGED <<base, foreign>>
\* A file folds only if it is as HEAD has it.
BeginCommitted ==
    /\ Begin /\ \A i \in run'.elig : file[i] = base.file[i]
    /\ UNCHANGED <<base, foreign>>
ByTheCode ==
    /\ Publisher \/ Die \/ \E i \in Ids, b \in Bodies : Save(i, b)
    /\ UNCHANGED <<base, foreign>>
ByGit == Git /\ foreign' = TRUE /\ UNCHANGED base
\* A merge, a checkout or an edit by hand leaves any other tree.  Bound: no
\* run comes before it or after it (runs start from any of Stores anyway).
Merge(d) ==
    /\ Free /\ git < MaxGit /\ git' = git + 1
    /\ runs = 0 /\ runs' = MaxRuns
    /\ d # Disk /\ file' = d.file /\ shard' = d.shard /\ segs' = d.segs
    /\ foreign' = TRUE /\ Quit
    /\ UNCHANGED <<head, touched, base>>
VNext == BeginCommitted \/ ByTheCode \/ ByGit \/ \E d \in Stores : Merge(d)
VSpec == VInit /\ [][VNext]_all

-----------------------------------------------------------------------------
(* What the store's own code does to a committed tree is never reported: the
   edits of a writer and a maintenance run, finished, between any two of its
   writes, or cut short and run again. *)
OwnWorkIsAccepted == ~foreign => Against(base, Disk) = {}

(* A tree that is accepted holds, for every record the committed tree held,
   the same body or one it may have become, whatever edits, merges and
   deletions of files, lines and segments led to it.  Only where committed
   copies contradicted each other it may hold another one of them. *)
AcceptedIsLegal ==
    Against(base, Disk) = {} =>
        \A i \in Ids : Effective(base, i) \in Bodies =>
            /\ Effective(Disk, i) \in Bodies
            /\ \/ Legal(Effective(base, i), Effective(Disk, i))
               \/ /\ ShadowDivergence(base, i) \/ DuplicateUlid(base, i)
                  /\ Effective(Disk, i) \in Copies(base, i)

=============================================================================
