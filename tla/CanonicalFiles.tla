--------------------------- MODULE CanonicalFiles ---------------------------
(***************************************************************************)
(* How a Store call reaches the disk.  A call computes its outcome from the *)
(* index, publishes the record files one by one with os.replace, and then   *)
(* commits the index.  SQLite can undo the index, nothing undoes a          *)
(* published file: a crash between two publishes leaves the files ahead of  *)
(* the index, and the next reload takes the files as the truth.             *)
(*                                                                         *)
(* The order of the publishes is the code's: a successor before the record  *)
(* it closes, a decision before its evidence.  The facts of a cascade are    *)
(* taken in any order (the code takes them by id).                          *)
(***************************************************************************)
EXTENDS RecordRules

CONSTANT MaxCrashes     \* bound

ASSUME CrashConstants == MaxCrashes \in Nat

VARIABLES files,    \* the committed record files
          index,    \* the rows of the committed index
          target,   \* the rows the open call will commit; index when none is open
          todo,     \* the records it has still to publish
          crashes,
          stale     \* some call began on an index that the files were ahead of

vars == <<files, index, target, todo, crashes, stale>>

OnDisk == INSTANCE Lifecycle WITH rows <- files

InIndex == INSTANCE Lifecycle WITH rows <- index

Init ==
    /\ files = [r \in Records |-> Unwritten]
    /\ index = files
    /\ target = files
    /\ todo = {}
    /\ crashes = 0
    /\ stale = FALSE

(* Every outcome a call can have on these rows. *)
Outcome(rows, after) ==
    \/ \E d \in Decisions :
          \/ \E row \in OnDisk!NewDecision : CanAdd(rows, d, row) /\ after = AfterAdd(rows, d, row)
          \/ CanRatify(rows, d) /\ after = AfterRatify(rows, d)
          \/ CanDrop(rows, d) /\ after = AfterDrop(rows, d)
          \/ \E dup \in Decisions \cup {None} :
                CanRetire(rows, d, dup) /\ after = AfterRetire(rows, d)
    \/ \E f \in Facts :
          \/ \E row \in OnDisk!NewFact : CanAdd(rows, f, row) /\ after = AfterAdd(rows, f, row)
          \/ CanRatifyFact(rows, f) /\ after = AfterRatifyFact(rows, f)
          \/ CanDropFact(rows, f) /\ after = AfterDropFact(rows, f)

(* A call opens on what the index holds, which is not what the files say when   *)
(* another process died after this call's refresh; the id of a new record is a *)
(* fresh ULID, never one that a crashed call has left on disk.                 *)
Begin ==
    /\ target = index
    /\ stale' = (stale \/ index # files)
    /\ Outcome(index, target')
    /\ todo' = {r \in Records : target'[r] # index[r]}
    /\ \A r \in todo' : index[r].status = "unwritten" => files[r].status = "unwritten"
    /\ UNCHANGED <<files, index, crashes>>

(* Mutant: the predecessor is closed before its successor is written. *)
PrecedesReversed(x, r) ==
    \/ target[r].supersedes = x
    \/ x \in Decisions /\ r \in Facts

(* x is published before r. *)
Precedes(x, r) ==
    \/ target[x].supersedes = r
    \/ x \in Decisions /\ r \in Facts

Publish(r) ==
    /\ r \in todo
    /\ \A x \in todo : ~Precedes(x, r)
    /\ files' = [files EXCEPT ![r] = target[r]]
    /\ todo' = todo \ {r}
    /\ UNCHANGED <<index, target, crashes, stale>>

(* Mutant: the index is committed publish by publish. *)
CommitEachPublish ==
    /\ target # index /\ index # files
    /\ index' = files
    /\ UNCHANGED <<files, target, todo, crashes, stale>>

Commit ==
    /\ target # index /\ todo = {}
    /\ index' = target
    /\ UNCHANGED <<files, target, todo, crashes, stale>>

Crash ==
    /\ target # index /\ crashes < MaxCrashes
    /\ crashes' = crashes + 1
    /\ target' = index
    /\ todo' = {}
    /\ UNCHANGED <<files, index, stale>>

(* _reload_index_from_canonical, on the next open or refresh. *)
Reload ==
    /\ target = index /\ index # files
    /\ index' = files
    /\ target' = files
    /\ UNCHANGED <<files, todo, crashes, stale>>

Next ==
    \/ Begin
    \/ \E r \in Records : Publish(r)
    \/ Commit
    \/ Crash
    \/ Reload

Spec == Init /\ [][Next]_vars

-----------------------------------------------------------------------------

(* The type invariant; between calls there is nothing left to publish.        *)
TypeOK ==
    /\ files \in [Records -> Row] /\ index \in [Records -> Row] /\ target \in [Records -> Row]
    /\ todo \subseteq Records /\ crashes \in Nat /\ stale \in BOOLEAN
    /\ target = index => todo = {}

(* Whatever the instant of a crash, the committed files never hold a record    *)
(* that is superseded by nothing: add_decision and ratify write the successor  *)
(* first so that a reload cannot adopt such a record.                         *)
SupersededOnDisk == OnDisk!SupersededHasSuccessor

(* No file refers to a record that is not on disk (verify's dangling           *)
(* references), crash or not.                                                 *)
NothingDangles ==
    \A r \in Records :
        /\ files[r].supersedes # None => files[files[r].supersedes].status # "unwritten"
        /\ \A d \in files[r].supports : files[d].status # "unwritten"

(* What a crash may never leave, or make of the files.                         *)
DiskIsWhole == SupersededOnDisk /\ NothingDangles

(* A proposal that is dropped leaves something live behind: the record it       *)
(* would have replaced is still open, even if an earlier attempt to ratify the  *)
(* proposal died half way; unless the drop was decided on a stale index.        *)
DropLosesNoRule ==
    [][~stale => \A s \in Records :
          (/\ files[s].status \notin {"unwritten", "rejected"}
           /\ files'[s].status = "rejected"
           /\ files[s].supersedes # None) =>
              files[files[s].supersedes].status # "superseded"]_vars

(* The files change by verify's transitions only, also while a call is half    *)
(* published and after its remains are reloaded, until a call is decided on a  *)
(* stale index.                                                              *)
FilesAppendOnly == [][~stale => OnDisk!Appended]_files

(* No recovery rewrites history: both of the above.                            *)
DiskKeepsHistory == FilesAppendOnly /\ DropLosesNoRule

(* Up to the first crash, what the index holds at each commit is what the       *)
(* abstract store of Lifecycle holds after each call; with MaxCrashes = 0 this  *)
(* is InIndex!Spec.                                                            *)
ImplementsLifecycle == InIndex!Init /\ [][crashes = 0 => InIndex!Next]_index

=============================================================================
