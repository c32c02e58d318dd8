----------------------------- MODULE Maintenance -----------------------------
(***************************************************************************)
(* Maintenance of a packed (format 2) store: maintenance.py, the rules it  *)
(* takes from store_rules.py, and Store.maintain.  A record may be held by *)
(* its own file, by a line of a shard file and by a line of an archive     *)
(* segment.  A run reads everything, plans, and then folds files and       *)
(* segments into the shard files, one file at a time, while git may change *)
(* any file and the process may die between any two of its writes.  The    *)
(* run holds the writer reservation, so no other writer of this store      *)
(* takes a step during it.                                                 *)
(*                                                                         *)
(* A body is one of Bodies; Follows is what classify_transition allows.    *)
(* A read and the write it allows (publish_bytes, _delete_file) are one    *)
(* step here: the window between them is not modelled.                     *)
(***************************************************************************)
EXTENDS Naturals

CONSTANTS
    Ids,        \* the records of the store
    Bodies,     \* what a record's body may be
    Follows,    \* <<b, c>>: the record may legally change from b to c
    Terminal,   \* bodies whose status is final
    None,       \* no body; what no record holds
    Gap,        \* the record cannot be read: shard lines that differ
    N,          \* the number of buckets; shard file N is a stray one
    Bucket,     \* [Ids -> 0 .. N - 1], the bucket of each record
    Segments,   \* names of archive segments
    SegmentLines, \* [Segments -> set of lines], what each segment holds
    Stores,     \* the stores a run may meet: [file, shard, segs]
    MaxRuns,    \* bound: runs of maintenance
    MaxGit      \* bound: changes by git or by hand

ShardFiles == 0 .. N
Line == [id : Ids, body : Bodies]
Store == [file : [Ids -> Bodies \cup {None}], shard : [ShardFiles -> SUBSET Line],
          segs : SUBSET Segments]

ASSUME MaintenanceAssumption ==
    /\ N \in Nat \ {0} /\ Bucket \in [Ids -> 0 .. N - 1]
    /\ None \notin Bodies /\ Gap \notin Bodies /\ None # Gap
    /\ Follows \subseteq Bodies \X Bodies /\ Terminal \subseteq Bodies
    /\ \A b \in Bodies : <<b, b>> \in Follows
    /\ SegmentLines \in [Segments -> SUBSET Line] /\ Stores \subseteq Store

VARIABLES
    file,       \* file[i]: the body in the record's own file, or None
    shard,      \* shard[f]: the lines of shard file f
    segs,       \* the archive segments on disk
    head,       \* the commit HEAD names
    pc,         \* where the run is
    run,        \* the run: what it read, what it expects on disk, its plan
    touched,    \* records with a copy that git changed since the run read
    runs, git   \* bounded counters

vars == <<file, shard, segs, head, pc, run, touched, runs, git>>

Disk == [file |-> file, shard |-> shard, segs |-> segs]

-----------------------------------------------------------------------------
(* Reading one store.                                                      *)

ShardBodies(d, i) == {l.body : l \in {m \in UNION {d.shard[f] : f \in ShardFiles} : m.id = i}}
ArchiveBodies(d, i) == {l.body : l \in {m \in UNION {SegmentLines[s] : s \in d.segs} : m.id = i}}
FileBodies(d, i) == {d.file[i]} \ {None}
Copies(d, i) == FileBodies(d, i) \cup ShardBodies(d, i) \cup ArchiveBodies(d, i)
TheBody(S) == CHOOSE b \in S : TRUE
Differ(S) == \E a, b \in S : a # b
OneBody(S) == S # {} /\ ~Differ(S)

Legal(b, c) == <<b, c>> \in Follows
Compatible(a, b) == Legal(a, b)
Superseding(a, s) == Legal(s, a) /\ ~Compatible(a, s)
Deletable(a, s) == Compatible(a, s)

\* The archived body that may replace a shard line or stand in for it.
ArchiveReplaces(d, i) ==
    /\ OneBody(ArchiveBodies(d, i))
    /\ Superseding(TheBody(ArchiveBodies(d, i)), TheBody(ShardBodies(d, i)))

\* What every reader takes for the record.  (With archive lines that differ
\* and nothing else the candidate is the first line in name order.)
Effective(d, i) ==
    IF Differ(ShardBodies(d, i)) THEN Gap
    ELSE IF d.file[i] # None THEN d.file[i]
    ELSE IF ShardBodies(d, i) # {}
    THEN IF ArchiveReplaces(d, i) THEN TheBody(ArchiveBodies(d, i)) ELSE TheBody(ShardBodies(d, i))
    ELSE IF ArchiveBodies(d, i) # {} THEN TheBody(ArchiveBodies(d, i))
    ELSE None

-----------------------------------------------------------------------------
(* The plan: plan_maintenance on the store the run read.                   *)

ShadowDivergence(d, i) ==
    \E s \in ShardBodies(d, i), f \in FileBodies(d, i) : ~Legal(s, f)
DuplicateUlid(d, i) ==
    \/ Differ(ArchiveBodies(d, i))
    \/ \E a \in ArchiveBodies(d, i) :
          \/ \E f \in FileBodies(d, i) : ~Compatible(a, f)
          \/ \E s \in ShardBodies(d, i) : ~Compatible(a, s) /\ ~Superseding(a, s)
(* Mutant: a file that differs from its shard line is no reason to skip. *)
SkipNothingShadowed(d, i) == DuplicateUlid(d, i)

Skipped(d, i) == ShadowDivergence(d, i) \/ DuplicateUlid(d, i)

\* The file folds: it is settled, tracked and unmodified (elig).
Folds(d, elig, i) == ~Skipped(d, i) /\ d.file[i] # None /\ i \in elig

\* The line the record's bucket ends with, or None.
Final(d, elig, i) ==
    IF Folds(d, elig, i) THEN d.file[i]
    ELSE IF d.file[i] = None /\ ShardBodies(d, i) = {} /\ ArchiveBodies(d, i) # {}
         THEN TheBody(ArchiveBodies(d, i))
    ELSE IF ShardBodies(d, i) = {} THEN None
    ELSE IF d.file[i] = None /\ ArchiveBodies(d, i) # {} /\ ArchiveReplaces(d, i)
         THEN TheBody(ArchiveBodies(d, i))
    ELSE TheBody(ShardBodies(d, i))

SegmentFolds(d, elig, s) ==
    /\ SegmentLines[s] # {}
    /\ \A l \in SegmentLines[s] :
          /\ l.body \in Terminal
          /\ ~Skipped(d, l.id)
          /\ Final(d, elig, l.id) # None
          /\ Deletable(l.body, Final(d, elig, l.id))

\* The images of shard file f after the moved lines are added to their own
\* buckets, after they are dropped where they stood, and after the lines
\* of folded records are written.
Moved(d, f) == {l \in d.shard[f] : Bucket[l.id] # f /\ ~Skipped(d, l.id)}
Misplaced(d, i) == \E f \in ShardFiles \ {Bucket[i]} : \E l \in d.shard[f] : l.id = i
(* Mutant: moved lines are only dropped. *)
NotAdded(d, f) == d.shard[f]
Added(d, f) == d.shard[f] \cup {l \in UNION {Moved(d, g) : g \in ShardFiles} : Bucket[l.id] = f}
(* Mutant: a moved line stays where it stood. *)
NeverDropped(d, f) == Added(d, f)
Dropped(d, f) == Added(d, f) \ Moved(d, f)
Written(d, elig, f) ==
    LET new == {i \in Ids : Bucket[i] = f /\ ~Skipped(d, i) /\ Final(d, elig, i) # None}
    IN  {l \in Dropped(d, f) : l.id \notin new}
        \cup {[id |-> i, body |-> Final(d, elig, i)] : i \in new}

NoRun == [read |-> [file |-> [i \in Ids |-> None], shard |-> [f \in ShardFiles |-> {}], segs |-> {}],
          elig |-> {}, head0 |-> 0, expected |-> [f \in ShardFiles |-> {}], left |-> {}]

Changes(Image(_, _), d, before) == {f \in ShardFiles : Image(d, f) # before[f]}

-----------------------------------------------------------------------------
Init ==
    /\ \E d \in Stores : file = d.file /\ shard = d.shard /\ segs = d.segs
    /\ head = 0 /\ pc = "idle" /\ run = NoRun /\ touched = {}
    /\ runs = 0 /\ git = 0

Free == pc \in {"idle", "done"}
Quit == pc' = "idle" /\ run' = NoRun

\* The run reads the whole store, refuses a store with a record that cannot
\* be read, and plans.  Git decides which files are settled.
Begin ==
    /\ Free /\ runs < MaxRuns
    /\ \A i \in Ids : Effective(Disk, i) # Gap
    /\ \E elig \in SUBSET {i \in Ids : file[i] # None} :
          run' = [read |-> Disk, elig |-> elig, head0 |-> head, expected |-> shard,
                  left |-> Changes(Added, Disk, shard)]
    /\ pc' = "add" /\ runs' = runs + 1 /\ touched' = {}
    /\ UNCHANGED <<file, shard, segs, head, git>>

\* A shard file is replaced only if it still is what the run expects.
Publish(f, image) ==
    /\ f \in run.left
    /\ \/ /\ shard[f] = run.expected[f]
          /\ shard' = [shard EXCEPT ![f] = image]
          /\ run' = [run EXCEPT !.expected[f] = image, !.left = @ \ {f}]
          /\ pc' = pc
       \/ shard[f] # run.expected[f] /\ Quit /\ UNCHANGED shard
    /\ UNCHANGED <<file, segs, head, touched, runs, git>>

AddMoved(f) == pc = "add" /\ Publish(f, Added(run.read, f))

\* A moved line goes only while its new bucket is as the run left it.
Witnessed(f) == \A l \in Moved(run.read, f) : shard[Bucket[l.id]] = run.expected[Bucket[l.id]]
DropMoved(f) ==
    /\ pc = "drop"
    /\ \/ Witnessed(f) /\ Publish(f, Dropped(run.read, f))
       \/ ~Witnessed(f) /\ Quit /\ UNCHANGED <<file, shard, segs, head, touched, runs, git>>

WriteLines(f) == pc = "write" /\ Publish(f, Written(run.read, run.elig, f))

AfterAdd ==
    /\ pc = "add" /\ run.left = {}
    /\ pc' = "drop" /\ run' = [run EXCEPT !.left = Changes(Dropped, run.read, run.expected)]
    /\ UNCHANGED <<file, shard, segs, head, touched, runs, git>>
AfterDrop ==
    /\ pc = "drop" /\ run.left = {}
    /\ pc' = "write"
    /\ run' = [run EXCEPT !.left =
                 {f \in 0 .. N - 1 : Written(run.read, run.elig, f) # run.expected[f]}]
    /\ UNCHANGED <<file, shard, segs, head, touched, runs, git>>
\* Nothing is deleted when HEAD moved since the run began.
AfterWrite ==
    /\ pc = "write" /\ run.left = {}
    /\ \/ /\ head = run.head0 /\ pc' = "files"
          /\ run' = [run EXCEPT !.left = {i \in Ids : Folds(run.read, run.elig, i)}]
       \/ head # run.head0 /\ Quit
    /\ UNCHANGED <<file, shard, segs, head, touched, runs, git>>

\* A bucket holds the lines of record i that the run left in it.
InBucket(i) == {l.body : l \in {m \in run.expected[Bucket[i]] : m.id = i}}
WitnessHolds(i) == shard[Bucket[i]] = run.expected[Bucket[i]] /\ InBucket(i) # {}

(* Mutant: the file is deleted without being read again. *)
DeleteFileUnread(i) ==
    /\ pc = "files" /\ i \in run.left /\ WitnessHolds(i)
    /\ file' = [file EXCEPT ![i] = None]
    /\ run' = [run EXCEPT !.left = @ \ {i}]
    /\ UNCHANGED <<shard, segs, head, pc, touched, runs, git>>
DeleteFile(i) ==
    /\ pc = "files" /\ i \in run.left
    /\ IF WitnessHolds(i) /\ \A b \in InBucket(i) : b = file[i]
       THEN file' = [file EXCEPT ![i] = None]
       ELSE UNCHANGED file
    /\ run' = [run EXCEPT !.left = @ \ {i}]
    /\ UNCHANGED <<shard, segs, head, pc, touched, runs, git>>
AfterFiles ==
    /\ pc = "files" /\ run.left = {}
    /\ pc' = "segments"
    /\ run' = [run EXCEPT !.left = {s \in run.read.segs : SegmentFolds(run.read, run.elig, s)}]
    /\ UNCHANGED <<file, shard, segs, head, touched, runs, git>>

SegmentHeld(s) ==
    \A l \in SegmentLines[s] :
        WitnessHolds(l.id) /\ \A b \in InBucket(l.id) : Deletable(l.body, b)
DeleteSegment(s) ==
    /\ pc = "segments" /\ s \in run.left
    /\ \/ s \in segs /\ SegmentHeld(s) /\ segs' = segs \ {s}
       \/ ~(s \in segs /\ SegmentHeld(s)) /\ UNCHANGED segs
    /\ run' = [run EXCEPT !.left = @ \ {s}]
    /\ UNCHANGED <<file, shard, head, pc, touched, runs, git>>
End ==
    /\ pc = "segments" /\ run.left = {}
    /\ pc' = "done"
    /\ UNCHANGED <<file, shard, segs, head, run, touched, runs, git>>

\* The process dies; the next run starts from what is on disk.
Die ==
    /\ ~Free /\ Quit
    /\ UNCHANGED <<file, shard, segs, head, touched, runs, git>>

\* A writer of this store, between runs: a new body goes to the file.
Save(i, b) ==
    /\ Free /\ git < MaxGit /\ git' = git + 1
    /\ Effective(Disk, i) \in Bodies /\ Legal(Effective(Disk, i), b) /\ b # Effective(Disk, i)
    /\ file' = [file EXCEPT ![i] = b] /\ Quit
    /\ UNCHANGED <<shard, segs, head, touched, runs>>

\* Git, at any moment and one file at a time: HEAD moves on its own.
Disturb(ids) == git < MaxGit /\ git' = git + 1 /\ touched' = touched \cup ids
                /\ (IF Free THEN Quit ELSE UNCHANGED <<pc, run>>) /\ UNCHANGED runs
GitFile(i, b) ==
    /\ Disturb({i}) /\ b # file[i]
    /\ file' = [file EXCEPT ![i] = b] /\ UNCHANGED <<shard, segs, head>>
GitLine(f, i, S) ==
    /\ Disturb({i})
    /\ shard' = [shard EXCEPT ![f] = {l \in @ : l.id # i} \cup {[id |-> i, body |-> b] : b \in S}]
    /\ shard' # shard /\ UNCHANGED <<file, segs, head>>
GitSegment(s) ==
    /\ Disturb({l.id : l \in SegmentLines[s]})
    /\ segs' = (segs \ {s}) \cup ({s} \ segs) /\ UNCHANGED <<file, shard, head>>
GitHead ==
    /\ Disturb({}) /\ ~Free /\ head = run.head0
    /\ head' = head + 1 /\ UNCHANGED <<file, shard, segs>>

Publisher ==
    \/ \E f \in ShardFiles : AddMoved(f) \/ DropMoved(f) \/ WriteLines(f)
    \/ AfterAdd \/ AfterDrop \/ AfterWrite \/ AfterFiles \/ End
    \/ \E i \in Ids : DeleteFile(i)
    \/ \E s \in Segments : DeleteSegment(s)

Git ==
    \/ \E i \in Ids, b \in Bodies \cup {None} : GitFile(i, b)
    \/ \E f \in ShardFiles, i \in Ids, S \in {{}} \cup {{b} : b \in Bodies} : GitLine(f, i, S)
    \/ \E s \in Segments : GitSegment(s)
    \/ GitHead

Next == Begin \/ Publisher \/ Die \/ (\E i \in Ids, b \in Bodies : Save(i, b)) \/ Git
Spec == Init /\ [][Next]_vars

-----------------------------------------------------------------------------
TypeOK ==
    /\ file \in [Ids -> Bodies \cup {None}] /\ shard \in [ShardFiles -> SUBSET Line]
    /\ segs \subseteq Segments /\ head \in 0 .. MaxGit
    /\ pc \in {"idle", "add", "drop", "write", "files", "segments", "done"}
    /\ run.expected \in [ShardFiles -> SUBSET Line] /\ run.elig \subseteq Ids
    /\ run.left \subseteq ShardFiles \cup Ids \cup Segments /\ touched \subseteq Ids
    /\ runs \in 0 .. MaxRuns /\ git \in 0 .. MaxGit

DiskAfter == [file |-> file', shard |-> shard', segs |-> segs']

(* No step of a run changes what any reader takes for a record, unless git
   changed a copy of that record during the run.  Even then the record does
   not vanish, and it becomes unreadable (two lines that differ) only if it
   has a line in a wrong shard file: a run compares the bucket it writes with
   the disk, not the other shard files. *)
FoldIsInvisible ==
    [][Publisher => \A i \in Ids :
         LET before == Effective(Disk, i)
             after == Effective(DiskAfter, i)
         IN  \/ after = before
             \/ /\ i \in touched /\ after # None
                /\ after = Gap => Misplaced(run.read, i) \/ Misplaced(Disk, i)]_vars

(* Whatever git does meanwhile, a body that a run takes from the disk is
   still there in another copy, or a copy it may legally have become. *)
NothingUniqueIsRemoved ==
    [][Publisher => \A i \in Ids : \A b \in Copies(Disk, i) \ Copies(DiskAfter, i) :
         \E c \in Copies(DiskAfter, i) : Legal(b, c)]_vars

(* A run that git left alone does everything there is to do, also when runs
   before it died half-way: a second run would change nothing. *)
OneRunSettles ==
    pc = "done" /\ touched = {} =>
        /\ \A f \in ShardFiles : Moved(Disk, f) = {} /\ Written(Disk, run.elig, f) = shard[f]
        /\ \A i \in Ids : ~Folds(Disk, run.elig, i)
        /\ \A s \in segs : ~SegmentFolds(Disk, run.elig, s)

=============================================================================
