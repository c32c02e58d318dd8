----------------------------- MODULE Compaction -----------------------------
(***************************************************************************)
(* Store.compact on a format-1 store: the closed records move from their    *)
(* hot files into an archive segment, in clones that pull from each other.   *)
(*                                                                         *)
(* Domains stand for both kinds of record it packs, because a dropped        *)
(* domain is closed and can still be superseded.  What a reader sees is      *)
(* derived: the hot file if there is one, else the first archived line.      *)
(* Segments are read in the order of their names (date, sequence number,     *)
(* hash); between clones that order says nothing of age.                    *)
(***************************************************************************)
EXTENDS DomainRules, GitMerge

CONSTANTS Clones,
          Names,          \* names of segments, in their order
          MaxCrashes      \* bound: compactions that die half way

(* base is the merge base of two clones.                                     *)
ASSUME CompactionConstants ==
    /\ \A a, b, c \in Clones : a = b \/ b = c \/ a = c
    /\ Names \subseteq Nat /\ MaxCrashes \in Nat

Tree == [Domains -> Row]

NoRows == [d \in Domains |-> Unwritten]

VARIABLES
    hot,        \* hot[c]: the files of domains/ in clone c
    archive,    \* archive[c]: the segments in archive/, each with its lines
    index,      \* index[c]: the rows as last loaded or written
    pending,    \* pending[c]: the files a running compaction has to look at
    base,       \* the files of the last state that every clone has
    crashes

vars == <<hot, archive, index, pending, base, crashes>>

Init ==
    /\ hot = [c \in Clones |-> NoRows]
    /\ archive = [c \in Clones |-> [n \in Names |-> NoRows]]
    /\ index = [c \in Clones |-> NoRows]
    /\ pending = [c \in Clones |-> {}]
    /\ base = NoRows
    /\ crashes = 0

Holding(segments, d) == {n \in Names : segments[n][d] # Unwritten}

Archived(segments) == {d \in Domains : Holding(segments, d) # {}}

First(names) == CHOOSE n \in names : \A k \in names : n <= k

(* The first occurrence wins. *)
ArchivedRow(segments, d) ==
    IF Holding(segments, d) = {} THEN Unwritten ELSE segments[First(Holding(segments, d))][d]

(* What a reload indexes. *)
Loaded(files, segments) ==
    [d \in Domains |-> IF files[d] # Unwritten THEN files[d] ELSE ArchivedRow(segments, d)]

Reads(c) == Loaded(hot[c], archive[c])

Idle(c) == pending[c] = {}

-----------------------------------------------------------------------------
(* Domain calls: the rows they change are written as files, also the row of  *)
(* an archived domain.                                                       *)

(* Ids are ULIDs: a new one is new in every clone. *)
Fresh(d) == \A c \in Clones : Reads(c)[d] = Unwritten

Write(c, rows) ==
    /\ index' = [index EXCEPT ![c] = rows]
    /\ hot' = [hot EXCEPT ![c] = [d \in Domains |->
                  IF rows[d] # index[c][d] THEN rows[d] ELSE hot[c][d]]]
    /\ UNCHANGED <<archive, pending, base, crashes>>

Call(c) ==
    /\ Idle(c) /\ index[c] = Reads(c)
    /\ \E d \in Domains :
          \/ \E slug \in Slugs :
                /\ Fresh(d)
                /\ \/ CanAdd(index[c], d, slug) /\ Write(c, AfterAdd(index[c], d, slug))
                   \/ \E old \in Domains :
                         /\ CanSupersede(index[c], old, d, slug)
                         /\ Write(c, AfterSupersede(index[c], old, d, slug))
          \/ CanAccept(index[c], d) /\ Write(c, AfterAccept(index[c], d))
          \/ CanDrop(index[c], d) /\ Write(c, AfterDrop(index[c], d))

(* refresh_if_stale after a pull. *)
Refresh(c) ==
    /\ Idle(c) /\ index[c] # Reads(c)
    /\ index' = [index EXCEPT ![c] = Reads(c)]
    /\ UNCHANGED <<hot, archive, pending, base, crashes>>

-----------------------------------------------------------------------------
(* compact *)

Closed(row) == row.status \in {"superseded", "dropped"}

Candidates(c) == {d \in Domains : Closed(index[c][d]) /\ d \notin Archived(archive[c])}

(* Mutant: what an interrupted run left is left for good. *)
NoLeftovers(c) == {}

(* _leftover_archived_hot: the hot files whose archived line is the same.    *)
Leftovers(c) ==
    {d \in Archived(archive[c]) : hot[c][d] = ArchivedRow(archive[c], d)}

FreeNames == {n \in Names : \A c \in Clones : archive[c][n] = NoRows}

(* Mutant: replaces a segment that has the name. *)
PublishOver(c) ==
    /\ Idle(c) /\ Candidates(c) # {}
    /\ \E n \in Names :
          archive' = [archive EXCEPT ![c][n] =
              [d \in Domains |-> IF d \in Candidates(c) THEN index[c][d] ELSE Unwritten]]
    /\ pending' = [pending EXCEPT ![c] = Candidates(c) \cup Leftovers(c)]
    /\ UNCHANGED <<hot, index, base, crashes>>

(* _write_archive_segment links the finished segment under a free name; the   *)
(* hash keeps segments of different clones apart.                           *)
Publish(c) ==
    /\ Idle(c) /\ Candidates(c) # {}
    /\ \E n \in FreeNames :
          archive' = [archive EXCEPT ![c][n] =
              [d \in Domains |-> IF d \in Candidates(c) THEN index[c][d] ELSE Unwritten]]
    /\ pending' = [pending EXCEPT ![c] = Candidates(c) \cup Leftovers(c)]
    /\ UNCHANGED <<hot, index, base, crashes>>

(* Nothing new to pack. *)
CleanUp(c) ==
    /\ Idle(c) /\ Candidates(c) = {} /\ Leftovers(c) # {}
    /\ pending' = [pending EXCEPT ![c] = Leftovers(c)]
    /\ UNCHANGED <<hot, archive, index, base, crashes>>

(* Mutant: trusts the index. *)
UnlinkUnchecked(c, d) ==
    /\ d \in pending[c]
    /\ hot' = [hot EXCEPT ![c][d] = Unwritten]
    /\ pending' = [pending EXCEPT ![c] = @ \ {d}]
    /\ UNCHANGED <<archive, index, base, crashes>>

(* The file goes if it says what the archive says, and stays otherwise.      *)
Unlink(c, d) ==
    /\ d \in pending[c]
    /\ hot' = [hot EXCEPT ![c][d] = IF @ = ArchivedRow(archive[c], d) THEN Unwritten ELSE @]
    /\ pending' = [pending EXCEPT ![c] = @ \ {d}]
    /\ UNCHANGED <<archive, index, base, crashes>>

Crash(c) ==
    /\ ~Idle(c) /\ crashes < MaxCrashes
    /\ pending' = [pending EXCEPT ![c] = {}]
    /\ crashes' = crashes + 1
    /\ UNCHANGED <<hot, archive, index, base>>

-----------------------------------------------------------------------------

(* Files merge record by record; segments have different names, so the       *)
(* archives are united.                                                     *)
Pull(c, from) ==
    /\ Idle(c) /\ Idle(from)
    /\ hot[from] # base \/ \E n \in Names : archive[c][n] # archive[from][n] /\ archive[from][n] # NoRows
    /\ \E merged \in Merges(base, hot[c], hot[from]) : hot' = [hot EXCEPT ![c] = merged]
    /\ archive' = [archive EXCEPT ![c] = [n \in Names |->
                      IF @[n] # NoRows THEN @[n] ELSE archive[from][n]]]
    /\ base' = hot[from]
    /\ UNCHANGED <<index, pending, crashes>>

Next ==
    \E c \in Clones :
        \/ Call(c) \/ Refresh(c)
        \/ Publish(c) \/ CleanUp(c) \/ \E d \in Domains : Unlink(c, d)
        \/ Crash(c)
        \/ \E from \in Clones \ {c} : Pull(c, from)

Spec == Init /\ [][Next]_vars

-----------------------------------------------------------------------------

(* The type invariant; a segment holds closed records only, and a compaction *)
(* looks only at files whose record is archived.                            *)
TypeOK ==
    /\ hot \in [Clones -> Tree] /\ index \in [Clones -> Tree] /\ base \in Tree
    /\ archive \in [Clones -> [Names -> Tree]]
    /\ pending \in [Clones -> SUBSET Domains]
    /\ crashes \in 0 .. MaxCrashes
    /\ \A c \in Clones :
          /\ pending[c] \subseteq Archived(archive[c])
          /\ \A n \in Names, d \in Domains :
                archive[c][n][d] # Unwritten => Closed(archive[c][n][d])

(* Records move, they do not disappear: no compaction, crash or merge takes a *)
(* domain that a clone had out of its sight (compact, _archived_records).    *)
NothingLost ==
    [][\A c \in Clones, d \in Domains : Reads(c)[d] # Unwritten => Reads(c)'[d] # Unwritten]_vars

Pulled == \E c, from \in Clones : c # from /\ Pull(c, from)

DomainCall(rows, after) ==
    \E d \in Domains :
        \/ \E slug \in Slugs : CanAdd(rows, d, slug) /\ after = AfterAdd(rows, d, slug)
        \/ \E old \in Domains, slug \in Slugs :
              CanSupersede(rows, old, d, slug) /\ after = AfterSupersede(rows, old, d, slug)
        \/ CanAccept(rows, d) /\ after = AfterAccept(rows, d)
        \/ CanDrop(rows, d) /\ after = AfterDrop(rows, d)

(* A reader cannot tell how far a compaction came: between pulls, what a      *)
(* clone reads changes by domain calls only, whatever index the compaction   *)
(* began on (hot_matches_archive).                                          *)
CompactionIsInvisible ==
    [][~Pulled =>
          \A c \in Clones :
              Reads(c)' = Reads(c) \/ DomainCall(Reads(c), Reads(c)')]_vars

(* A compaction that ends leaves no closed record hot but one that its       *)
(* archived line contradicts: the remains of an interrupted run go.          *)
CompactionConverges ==
    [][\A c \in Clones :
          (~Idle(c) /\ Idle(c)' /\ crashes' = crashes /\ index[c] = Reads(c)) =>
              \A d \in Domains :
                  Closed(hot'[c][d]) => hot'[c][d] # ArchivedRow(archive[c], d)
                                        /\ d \in Archived(archive[c])]_vars

(* _archived_records: two segments with the same id "are guaranteed          *)
(* byte-identical by design (terminal records never change once archived)".  *)
ArchivedCopiesAgree ==
    \A c \in Clones, d \in Domains :
        \A n, k \in Holding(archive[c], d) : archive[c][n][d] = archive[c][k][d]

=============================================================================
