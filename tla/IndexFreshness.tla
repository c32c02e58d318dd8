--------------------------- MODULE IndexFreshness ---------------------------
(***************************************************************************)
(* The committed files of a store and the SQLite index derived from them.  *)
(*                                                                         *)
(* Writers hold SQLite's reservation from before their first publish to     *)
(* COMMIT, but git, an editor or a backup tool change files at any moment   *)
(* and take no lock.  The index carries a certificate: the digest of the    *)
(* files it was built from.  A process that finds the certificate equal to  *)
(* the digest of the disk serves the index as it is.                       *)
(*                                                                         *)
(* A file is its version: Absent, or a number that stands for its content   *)
(* together with its size and mtime.  A digest is a function from files to  *)
(* versions (canonical_digest without the hash).  Every walk over the files *)
(* visits them one at a time, in any order.                                 *)
(***************************************************************************)
EXTENDS Integers, FiniteSets

CONSTANTS Files,
          Procs,
          None,         \* no certificate; no holder; no file
          MaxVersion,   \* bound: versions ever published or edited
          MaxFailures   \* bound: crashes and rolled back transactions

ASSUME FreshnessConstants ==
    /\ None \notin Procs \cup Files
    /\ None \notin [Files -> Nat]
    /\ MaxVersion \in Nat /\ MaxFailures \in Nat

Absent == 0

Digest == [Files -> Nat]

Nothing == [f \in Files |-> Absent]

(* What one transaction sees: the indexed content of each file, the stat it  *)
(* was loaded with (canonical_stat, Absent for no row) and the certificate.  *)
Database == [index : Digest, stat : Digest, stamp : Digest \cup {None}]

VARIABLES disk,      \* the canonical files
          db,        \* the committed database
          work,      \* the database as the open transaction sees it, db when none is
          holder,    \* the process between BEGIN IMMEDIATE and COMMIT, or None
          pc,        \* where each process is
          todo,      \* the files its current walk has not reached
          view,      \* what its walk has seen: the digest being computed
          seen,      \* the certificate its refresh read before the walk
          reading,   \* the file a reload has stat-ed and not read yet
          last,      \* the last version used
          failures

vars == <<disk, db, work, holder, pc, todo, view, seen, reading, last, failures>>

counters == <<last, failures>>

Labels == {"idle", "walk", "wait", "settle", "load", "write", "touch", "touched"}

Init ==
    /\ disk = Nothing
    /\ db = [index |-> Nothing, stat |-> Nothing, stamp |-> None]
    /\ work = db
    /\ holder = None
    /\ pc = [p \in Procs |-> "idle"]
    /\ todo = [p \in Procs |-> {}]
    /\ view = [p \in Procs |-> Nothing]
    /\ seen = [p \in Procs |-> None]
    /\ reading = None
    /\ last = 0
    /\ failures = 0

Goto(p, label) == pc' = [pc EXCEPT ![p] = label]

StartWalk(p) ==
    /\ todo' = [todo EXCEPT ![p] = Files]
    /\ view' = [view EXCEPT ![p] = Nothing]

(* p is done: what it computed goes out of scope. *)
Leave(p) ==
    /\ Goto(p, "idle")
    /\ todo' = [todo EXCEPT ![p] = {}]
    /\ view' = [view EXCEPT ![p] = Nothing]
    /\ seen' = [seen EXCEPT ![p] = None]

(* One step of a walk that stats the files (canonical_digest). *)
WalkFile(p, f) ==
    /\ pc[p] \in {"walk", "settle", "touch"}
    /\ f \in todo[p]
    /\ view' = [view EXCEPT ![p][f] = disk[f]]
    /\ todo' = [todo EXCEPT ![p] = @ \ {f}]
    /\ UNCHANGED <<disk, db, work, holder, pc, seen, reading, counters>>

Walked(p) == todo[p] = {}

(* Mutant: looks only at files that have a row. *)
StatMismatchOfRows(d, walked) ==
    \E f \in Files : walked[f] # Absent /\ d.stat[f] \notin {Absent, walked[f]}

(* Some file the walk saw was not loaded in that state.  A row whose file is *)
(* gone is no mismatch.                                                      *)
StatMismatch(d, walked) ==
    \E f \in Files : walked[f] # Absent /\ d.stat[f] # walked[f]

-----------------------------------------------------------------------------
(* open and refresh_if_stale: _refresh_freshness, without the reservation *)

BeginRefresh(p) ==
    /\ pc[p] = "idle"
    /\ seen' = [seen EXCEPT ![p] = db.stamp]
    /\ StartWalk(p)
    /\ Goto(p, "walk")
    /\ UNCHANGED <<disk, db, work, holder, reading, counters>>

(* index_freshness, for an index whose schema stamp is the expected one. *)
FoundFresh(p) ==
    /\ pc[p] = "walk" /\ Walked(p)
    /\ seen[p] = view[p]
    /\ Leave(p)
    /\ UNCHANGED <<disk, db, work, holder, reading, counters>>

FoundStale(p) ==
    /\ pc[p] = "walk" /\ Walked(p)
    /\ seen[p] # view[p]
    /\ Goto(p, "wait")
    /\ view' = [view EXCEPT ![p] = Nothing]
    /\ seen' = [seen EXCEPT ![p] = None]
    /\ UNCHANGED <<disk, db, work, holder, todo, reading, counters>>

-----------------------------------------------------------------------------
(* _reload_index_from_canonical *)

(* BEGIN IMMEDIATE; the files are walked again under the reservation. *)
BeginReload(p) ==
    /\ pc[p] = "wait" /\ holder = None
    /\ holder' = p
    /\ StartWalk(p)
    /\ Goto(p, "settle")
    /\ UNCHANGED <<disk, db, work, seen, reading, counters>>

(* Mutant: asks only whether every file is loaded, not what is certified. *)
AlreadyLoaded(p) == ~StatMismatch(work, view[p])

(* The index that another process committed meanwhile will do. *)
AlreadyCurrent(p) ==
    /\ work.stamp = view[p]
    /\ \A f \in Files : work.stat[f] # Absent => view[p][f] # Absent
    /\ ~StatMismatch(work, view[p])

LeaveReload(p) ==
    /\ pc[p] = "settle" /\ Walked(p)
    /\ AlreadyCurrent(p)
    /\ holder' = None
    /\ Leave(p)
    /\ UNCHANGED <<disk, db, work, reading, counters>>

(* _reset_record_tables; view keeps the digest the rebuild will be stamped    *)
(* with.                                                                     *)
BeginRebuild(p) ==
    /\ pc[p] = "settle" /\ Walked(p)
    /\ ~AlreadyCurrent(p)
    /\ work' = [work EXCEPT !.index = Nothing, !.stat = Nothing]
    /\ todo' = [todo EXCEPT ![p] = Files]
    /\ Goto(p, "load")
    /\ UNCHANGED <<disk, db, holder, view, seen, reading, counters>>

(* A file that the listing does not have. *)
LoadNothing(p, f) ==
    /\ pc[p] = "load" /\ reading = None
    /\ f \in todo[p] /\ disk[f] = Absent
    /\ todo' = [todo EXCEPT ![p] = @ \ {f}]
    /\ UNCHANGED <<disk, db, work, holder, pc, view, seen, reading, counters>>

(* The stat comes first ...                                                  *)
LoadStat(p, f) ==
    /\ pc[p] = "load" /\ reading = None
    /\ f \in todo[p] /\ disk[f] # Absent
    /\ work' = [work EXCEPT !.stat[f] = disk[f]]
    /\ reading' = f
    /\ todo' = [todo EXCEPT ![p] = @ \ {f}]
    /\ UNCHANGED <<disk, db, holder, pc, view, seen, counters>>

(* ... and the content after; a file that is gone by then is skipped.        *)
LoadRead(p) ==
    /\ pc[p] = "load" /\ reading # None
    /\ work' = [work EXCEPT !.index[reading] = disk[reading]]
    /\ reading' = None
    /\ UNCHANGED <<disk, db, holder, pc, todo, view, seen, counters>>

(* _finish_rebuild and COMMIT. *)
CommitReload(p) ==
    /\ pc[p] = "load" /\ reading = None /\ Walked(p)
    /\ work' = [work EXCEPT !.stamp = view[p]]
    /\ db' = work'
    /\ holder' = None
    /\ Leave(p)
    /\ UNCHANGED <<disk, reading, counters>>

-----------------------------------------------------------------------------
(* A canonical writer: _mutation around one or more published files *)

BeginWrite(p) ==
    /\ pc[p] = "idle" /\ holder = None /\ last < MaxVersion
    /\ holder' = p
    /\ Goto(p, "write")
    /\ UNCHANGED <<disk, db, work, todo, view, seen, reading, counters>>

(* _refuse_if_skipped: a file the last reload examined and could not load. *)
Skipped(d, f) == d.stat[f] # Absent /\ d.index[f] = Absent

(* The file is replaced; its stat (taken from the tmp file) and its index row *)
(* join the transaction.                                                     *)
Publish(p, f) ==
    /\ pc[p] \in {"write", "touched"} /\ last < MaxVersion
    /\ ~Skipped(work, f)
    /\ last' = last + 1
    /\ disk' = [disk EXCEPT ![f] = last']
    /\ work' = [work EXCEPT !.stat[f] = last', !.index[f] = last']
    /\ StartWalk(p)
    /\ Goto(p, "touch")
    /\ UNCHANGED <<db, holder, seen, reading, failures>>

(* _touch_digest: certify the disk as walked, or withdraw the certificate. *)
TouchDigest(p) ==
    /\ pc[p] = "touch" /\ Walked(p)
    /\ work' = [work EXCEPT !.stamp = IF StatMismatch(work, view[p]) THEN None ELSE view[p]]
    /\ Goto(p, "touched")
    /\ view' = [view EXCEPT ![p] = Nothing]
    /\ UNCHANGED <<disk, db, holder, todo, seen, reading, counters>>

CommitWrite(p) ==
    /\ pc[p] = "touched"
    /\ db' = work
    /\ holder' = None
    /\ Leave(p)
    /\ UNCHANGED <<disk, work, reading, counters>>

(* The call is refused before it publishes (a broken rule, a skipped file).   *)
Refuse(p) ==
    /\ pc[p] = "write"
    /\ holder' = None
    /\ Leave(p)
    /\ UNCHANGED <<disk, db, work, reading, counters>>

(* A crash or an exception: SQLite drops the transaction, the files that were *)
(* published stay.                                                           *)
Fail(p) ==
    /\ pc[p] # "idle" /\ failures < MaxFailures
    /\ failures' = failures + 1
    /\ IF holder = p THEN holder' = None /\ work' = db /\ reading' = None
                     ELSE UNCHANGED <<holder, work, reading>>
    /\ Leave(p)
    /\ UNCHANGED <<disk, db, last>>

-----------------------------------------------------------------------------
(* git pull, git checkout, an editor, mv: no lock, no index *)

Edit(f) ==
    /\ last < MaxVersion
    /\ last' = last + 1
    /\ disk' = [disk EXCEPT ![f] = last']
    /\ UNCHANGED <<db, work, holder, pc, todo, view, seen, reading, failures>>

Remove(f) ==
    /\ disk[f] # Absent
    /\ disk' = [disk EXCEPT ![f] = Absent]
    /\ UNCHANGED <<db, work, holder, pc, todo, view, seen, reading, last, failures>>

External == \E f \in Files : Edit(f) \/ Remove(f)

(* What a process does of its own accord once it has begun, and its next       *)
(* refresh.                                                                   *)
Proceed(p) ==
    \/ BeginRefresh(p) \/ FoundFresh(p) \/ FoundStale(p)
    \/ BeginReload(p) \/ LeaveReload(p) \/ BeginRebuild(p) \/ LoadRead(p) \/ CommitReload(p)
    \/ TouchDigest(p) \/ CommitWrite(p) \/ Refuse(p)
    \/ \E f \in Files : WalkFile(p, f) \/ LoadNothing(p, f) \/ LoadStat(p, f)

Next ==
    \/ External
    \/ \E p \in Procs :
          \/ Proceed(p)
          \/ BeginWrite(p)
          \/ \E f \in Files : Publish(p, f)
          \/ Fail(p)

Spec == Init /\ [][Next]_vars

(* A store that is used: a process finishes what it began, and it refreshes    *)
(* again and again (the server does before every unit of work, a command when  *)
(* it opens the store).  A reload retries for the reservation (busy_timeout,   *)
(* 30 s) and writers hold it for milliseconds: it does not lose every race.    *)
FairSpec ==
    Spec /\ \A p \in Procs : /\ WF_vars(Proceed(p))
                             /\ SF_vars(BeginRefresh(p))
                             /\ SF_vars(BeginReload(p))

-----------------------------------------------------------------------------

(* The type invariant; no transaction is open when nobody holds the           *)
(* reservation.                                                               *)
TypeOK ==
    /\ disk \in Digest
    /\ db \in Database /\ work \in Database
    /\ holder \in Procs \cup {None}
    /\ pc \in [Procs -> Labels]
    /\ todo \in [Procs -> SUBSET Files]
    /\ view \in [Procs -> Digest]
    /\ seen \in [Procs -> Digest \cup {None}]
    /\ reading \in Files \cup {None}
    /\ last \in Nat /\ failures \in Nat
    /\ holder = None => work = db

Certified(d) == d.stamp = disk

(* A process that trusts the certificate serves every file on disk in its     *)
(* current state, however writers, reloads, crashes and outside edits         *)
(* interleave (_touch_digest, _reload_index_from_canonical).                  *)
CertifiedIndexIsLoaded ==
    Certified(db) => \A f \in Files : disk[f] # Absent => db.index[f] = disk[f]

(* canonical_stat never claims a state of a file that the index did not load  *)
(* (the stat-before-read rule of the reload and of _atomic_write_text): a      *)
(* lying row would let a later write certify the wrong content.               *)
StatNeverLies ==
    \A f \in Files : (disk[f] # Absent /\ db.stat[f] = disk[f]) => db.index[f] = disk[f]

(* Once the disk comes to rest, refreshing brings the index to it and the      *)
(* certificate with it.                                                       *)
IndexCatchesUp ==
    <>[](/\ Certified(db)
         /\ \A f \in Files : disk[f] # Absent => db.index[f] = disk[f])

(* "Re-check the canonical files against the index and rebuild it when they   *)
(* changed" (refresh_if_stale): what a certificate vouches for includes that   *)
(* no record of a removed file is still served.                               *)
CertifiedIndexIsExact == Certified(db) => db.index = disk

=============================================================================
