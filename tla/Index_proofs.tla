---------------------------- MODULE Index_proofs ----------------------------
(***************************************************************************)
(* The two things one index file holds beside records: the certificate of  *)
(* IndexFreshness and the meta rows of Sessions.                           *)
(*                                                                         *)
(* A certificate that equals the digest of the disk is to be trusted, for  *)
(* any number of files, processes, edits and crashes.                      *)
(*                                                                         *)
(* The argument rests on versions being used once: what a stat, a walk or a *)
(* certificate saw of a file is either still there or gone for good.  So a  *)
(* row loaded, or a certificate written, for the state a file is in now was *)
(* made after that state appeared.  A file that comes back as it was breaks *)
(* the argument, and the property: see IndexRestore.                        *)
(*                                                                         *)
(* The second half is about the hooks.  A row tells only the last stamp, so *)
(* each argument relates the rows to the log of what was stamped, claimed   *)
(* and printed, and uses that a hook runs for no more than Span ticks: the  *)
(* stamps of a row are in order up to Span.                                 *)
(***************************************************************************)
EXTENDS IndexFreshness, Sessions, FiniteSetTheorems, FunctionTheorems, TLAPS

(* Who is inside a transaction. *)
Holding ==
    /\ \A p \in Procs : pc[p] \in {"settle", "load", "write", "touch", "touched"} => holder = p
    /\ \A p \in Procs : pc[p] \in {"settle", "write"} => work = db
    /\ reading # None => holder # None /\ pc[holder] = "load"

UpTo(digest) == \A f \in Files : digest[f] <= last

(* Nothing has seen a version that is still to come. *)
Bounded ==
    /\ UpTo(disk)
    /\ UpTo(db.stat) /\ UpTo(work.stat)
    /\ db.stamp # None => UpTo(db.stamp)
    /\ work.stamp # None => UpTo(work.stamp)
    /\ \A p \in Procs : UpTo(view[p])

StatTrue(d, except) ==
    \A f \in Files \ {except} :
        (disk[f] # Absent /\ d.stat[f] = disk[f]) => d.index[f] = disk[f]

StampTrue(d) ==
    d.stamp # None =>
        \A f \in Files : (disk[f] # Absent /\ d.stamp[f] = disk[f]) => d.index[f] = disk[f]

Loading == holder # None /\ pc[holder] = "load"

(* What a reload has passed, it has loaded in the state its digest names. *)
LoadTrue ==
    Loading => \A f \in Files \ (todo[holder] \cup {reading}) :
                  (disk[f] # Absent /\ view[holder][f] = disk[f]) => work.index[f] = disk[f]

FreshInv ==
    /\ TypeOK
    /\ Holding
    /\ Bounded
    /\ StatTrue(db, None) /\ StatTrue(work, reading)
    /\ StampTrue(db) /\ (~Loading => StampTrue(work))
    /\ LoadTrue


-----------------------------------------------------------------------------

LEMMA DigestExcept ==
    ASSUME NEW d \in Digest, NEW f, NEW v \in Nat
    PROVE  [d EXCEPT ![f] = v] \in Digest
BY DEF Digest

-----------------------------------------------------------------------------
(* One lemma per action. *)

LEMMA BeginRefreshKeepsFreshInv ==
    ASSUME FreshInv, NEW p \in Procs, BeginRefresh(p)
    PROVE  FreshInv'
<1> USE FreshnessConstants DEF FreshInv, BeginRefresh, counters, Goto, StartWalk, Leave, Walked
<1>1. TypeOK'
  BY DEF TypeOK, Database, Digest, Nothing, Absent, Labels
<1>2. Holding'
  BY DEF Holding, TypeOK
<1>3. Bounded'
  BY DEF Bounded, UpTo, TypeOK, Database, Digest, Nothing, Absent
<1>4. StatTrue(db, None)' /\ StatTrue(work, reading)'
  BY DEF StatTrue, Bounded, UpTo, Holding, TypeOK, Database, Digest, Nothing, Absent
<1>5. StampTrue(db)' /\ (~Loading => StampTrue(work))'
  BY DEF StampTrue, Loading, Bounded, UpTo, Holding, TypeOK, Database, Digest, Nothing, Absent
<1>6. LoadTrue'
  BY DEF LoadTrue, Loading, Bounded, UpTo, Holding, TypeOK, Database, Digest, Nothing, Absent
<1> QED BY <1>1, <1>2, <1>3, <1>4, <1>5, <1>6

LEMMA FoundFreshKeepsFreshInv ==
    ASSUME FreshInv, NEW p \in Procs, FoundFresh(p)
    PROVE  FreshInv'
<1> USE FreshnessConstants DEF FreshInv, FoundFresh, counters, Goto, StartWalk, Leave, Walked
<1>1. TypeOK'
  BY DEF TypeOK, Database, Digest, Nothing, Absent, Labels
<1>2. Holding'
  BY DEF Holding, TypeOK
<1>3. Bounded'
  BY DEF Bounded, UpTo, TypeOK, Database, Digest, Nothing, Absent
<1>4. StatTrue(db, None)' /\ StatTrue(work, reading)'
  BY DEF StatTrue, Bounded, UpTo, Holding, TypeOK, Database, Digest, Nothing, Absent
<1>5. StampTrue(db)' /\ (~Loading => StampTrue(work))'
  BY DEF StampTrue, Loading, Bounded, UpTo, Holding, TypeOK, Database, Digest, Nothing, Absent
<1>6. LoadTrue'
  BY DEF LoadTrue, Loading, Bounded, UpTo, Holding, TypeOK, Database, Digest, Nothing, Absent
<1> QED BY <1>1, <1>2, <1>3, <1>4, <1>5, <1>6

LEMMA FoundStaleKeepsFreshInv ==
    ASSUME FreshInv, NEW p \in Procs, FoundStale(p)
    PROVE  FreshInv'
<1> USE FreshnessConstants DEF FreshInv, FoundStale, counters, Goto, StartWalk, Leave, Walked
<1>1. TypeOK'
  BY DEF TypeOK, Database, Digest, Nothing, Absent, Labels
<1>2. Holding'
  BY DEF Holding, TypeOK
<1>3. Bounded'
  BY DEF Bounded, UpTo, TypeOK, Database, Digest, Nothing, Absent
<1>4. StatTrue(db, None)' /\ StatTrue(work, reading)'
  BY DEF StatTrue, Bounded, UpTo, Holding, TypeOK, Database, Digest, Nothing, Absent
<1>5. StampTrue(db)' /\ (~Loading => StampTrue(work))'
  BY DEF StampTrue, Loading, Bounded, UpTo, Holding, TypeOK, Database, Digest, Nothing, Absent
<1>6. LoadTrue'
  BY DEF LoadTrue, Loading, Bounded, UpTo, Holding, TypeOK, Database, Digest, Nothing, Absent
<1> QED BY <1>1, <1>2, <1>3, <1>4, <1>5, <1>6

LEMMA BeginReloadKeepsFreshInv ==
    ASSUME FreshInv, NEW p \in Procs, BeginReload(p)
    PROVE  FreshInv'
<1> USE FreshnessConstants DEF FreshInv, BeginReload, counters, Goto, StartWalk, Leave, Walked
<1>1. TypeOK'
  BY DEF TypeOK, Database, Digest, Nothing, Absent, Labels
<1>2. Holding'
  BY DEF Holding, TypeOK
<1>3. Bounded'
  BY DEF Bounded, UpTo, TypeOK, Database, Digest, Nothing, Absent
<1>4. StatTrue(db, None)' /\ StatTrue(work, reading)'
  BY DEF StatTrue, Bounded, UpTo, Holding, TypeOK, Database, Digest, Nothing, Absent
<1>5. StampTrue(db)' /\ (~Loading => StampTrue(work))'
  BY DEF StampTrue, Loading, Bounded, UpTo, Holding, TypeOK, Database, Digest, Nothing, Absent
<1>6. LoadTrue'
  BY DEF LoadTrue, Loading, Bounded, UpTo, Holding, TypeOK, Database, Digest, Nothing, Absent
<1> QED BY <1>1, <1>2, <1>3, <1>4, <1>5, <1>6

LEMMA LeaveReloadKeepsFreshInv ==
    ASSUME FreshInv, NEW p \in Procs, LeaveReload(p)
    PROVE  FreshInv'
<1> USE FreshnessConstants DEF FreshInv, LeaveReload, counters, Goto, StartWalk, Leave, Walked
<1>1. TypeOK'
  BY DEF TypeOK, Holding, Database, Digest, Nothing, Absent, Labels
<1>2. Holding'
  BY DEF Holding, TypeOK
<1>3. Bounded'
  BY DEF Bounded, UpTo, TypeOK, Database, Digest, Nothing, Absent
<1>4. StatTrue(db, None)' /\ StatTrue(work, reading)'
  BY DEF StatTrue, Bounded, UpTo, Holding, TypeOK, Database, Digest, Nothing, Absent
<1>5. StampTrue(db)' /\ (~Loading => StampTrue(work))'
  BY DEF StampTrue, Loading, Bounded, UpTo, Holding, TypeOK, Database, Digest, Nothing, Absent
<1>6. LoadTrue'
  BY DEF LoadTrue, Loading, Bounded, UpTo, Holding, TypeOK, Database, Digest, Nothing, Absent
<1> QED BY <1>1, <1>2, <1>3, <1>4, <1>5, <1>6

LEMMA BeginRebuildKeepsFreshInv ==
    ASSUME FreshInv, NEW p \in Procs, BeginRebuild(p)
    PROVE  FreshInv'
<1> USE FreshnessConstants DEF FreshInv, BeginRebuild, counters, Goto, StartWalk, Leave, Walked
<1>w. work' \in Database
  <2>1. /\ work.index \in Digest /\ work.stat \in Digest /\ work.stamp \in Digest \cup {None}
        /\ disk \in Digest /\ Nothing \in Digest
    BY DEF TypeOK, Database, Digest, Nothing, Absent
  <2>2. work' = [index |-> Nothing, stat |-> Nothing, stamp |-> work.stamp]
    BY DEF TypeOK, Database
  <2> QED BY <2>1, <2>2 DEF TypeOK, Database, Digest
<1>1. TypeOK'
  BY <1>w DEF TypeOK, Holding, Digest, Nothing, Absent, Labels
<1>2. Holding'
  BY DEF Holding, TypeOK
<1>3. Bounded'
  BY DEF Bounded, UpTo, TypeOK, Database, Digest, Nothing, Absent
<1>4. StatTrue(db, None)' /\ StatTrue(work, reading)'
  BY DEF StatTrue, Bounded, UpTo, Holding, TypeOK, Database, Digest, Nothing, Absent
<1>5. StampTrue(db)' /\ (~Loading => StampTrue(work))'
  BY DEF StampTrue, Loading, Bounded, UpTo, Holding, TypeOK, Database, Digest, Nothing, Absent
<1>6. LoadTrue'
  BY DEF LoadTrue, Loading, Bounded, UpTo, Holding, TypeOK, Database, Digest, Nothing, Absent
<1> QED BY <1>1, <1>2, <1>3, <1>4, <1>5, <1>6

LEMMA LoadReadKeepsFreshInv ==
    ASSUME FreshInv, NEW p \in Procs, LoadRead(p)
    PROVE  FreshInv'
<1> USE FreshnessConstants DEF FreshInv, LoadRead, counters, Goto, StartWalk, Leave, Walked
<1>w. work' \in Database
  <2>1. /\ work.index \in Digest /\ work.stat \in Digest /\ work.stamp \in Digest \cup {None}
        /\ disk \in Digest /\ Nothing \in Digest
    BY DEF TypeOK, Database, Digest, Nothing, Absent
  <2>2. work' = [index |-> [work.index EXCEPT ![reading] = disk[reading]], stat |-> work.stat, stamp |-> work.stamp]
    BY DEF TypeOK, Database
  <2>3. disk[reading] \in Nat
    BY DEF TypeOK, Digest
  <2>4. [work.index EXCEPT ![reading] = disk[reading]] \in Digest
    BY <2>1, <2>3, DigestExcept
  <2> QED BY <2>1, <2>2, <2>4 DEF Database
<1>1. TypeOK'
  BY <1>w DEF TypeOK, Holding, Digest, Nothing, Absent, Labels
<1>2. Holding'
  BY DEF Holding, TypeOK
<1>3. Bounded'
  BY DEF Bounded, UpTo, TypeOK, Database, Digest, Nothing, Absent
<1>4. StatTrue(db, None)' /\ StatTrue(work, reading)'
  BY DEF StatTrue, Bounded, UpTo, Holding, TypeOK, Database, Digest, Nothing, Absent
<1>5. StampTrue(db)' /\ (~Loading => StampTrue(work))'
  BY DEF StampTrue, Loading, Bounded, UpTo, Holding, TypeOK, Database, Digest, Nothing, Absent
<1>6. LoadTrue'
  BY DEF LoadTrue, Loading, Bounded, UpTo, Holding, TypeOK, Database, Digest, Nothing, Absent
<1> QED BY <1>1, <1>2, <1>3, <1>4, <1>5, <1>6

LEMMA CommitReloadKeepsFreshInv ==
    ASSUME FreshInv, NEW p \in Procs, CommitReload(p)
    PROVE  FreshInv'
<1> USE FreshnessConstants DEF FreshInv, CommitReload, counters, Goto, StartWalk, Leave, Walked
<1>1. TypeOK'
  BY DEF TypeOK, Database, Digest, Nothing, Absent, Labels
<1>2. Holding'
  BY DEF Holding, TypeOK
<1>3. Bounded'
  BY DEF Bounded, UpTo, TypeOK, Database, Digest, Nothing, Absent
<1>4. StatTrue(db, None)' /\ StatTrue(work, reading)'
  BY DEF StatTrue, Bounded, UpTo, Holding, TypeOK, Database, Digest, Nothing, Absent
<1>5. StampTrue(db)' /\ (~Loading => StampTrue(work))'
  <2>1. work'.stamp = view[p] /\ work'.index = work.index /\ db' = work' /\ disk' = disk
    BY DEF TypeOK, Database
  <2>2. holder = p /\ Loading
    BY DEF Holding, Loading, TypeOK
  <2>3. \A f \in Files : (disk[f] # Absent /\ view[p][f] = disk[f]) => work.index[f] = disk[f]
    BY <2>2 DEF LoadTrue
  <2> QED BY <2>1, <2>3 DEF StampTrue
<1>6. LoadTrue'
  BY DEF LoadTrue, Loading, Bounded, UpTo, Holding, TypeOK, Database, Digest, Nothing, Absent
<1> QED BY <1>1, <1>2, <1>3, <1>4, <1>5, <1>6

LEMMA TouchDigestKeepsFreshInv ==
    ASSUME FreshInv, NEW p \in Procs, TouchDigest(p)
    PROVE  FreshInv'
<1> USE FreshnessConstants DEF FreshInv, TouchDigest, counters, Goto, StartWalk, Leave, Walked
<1>w. work' \in Database
  <2>1. /\ work.index \in Digest /\ work.stat \in Digest /\ work.stamp \in Digest \cup {None}
        /\ disk \in Digest /\ Nothing \in Digest
    BY DEF TypeOK, Database, Digest, Nothing, Absent
  <2>2. work' = [index |-> work.index, stat |-> work.stat, stamp |-> IF StatMismatch(work, view[p]) THEN None ELSE view[p]]
    BY DEF TypeOK, Database
  <2> QED BY <2>1, <2>2 DEF TypeOK, Database, Digest
<1>1. TypeOK'
  BY <1>w DEF TypeOK, Holding, Digest, Nothing, Absent, Labels
<1>2. Holding'
  BY DEF Holding, TypeOK
<1>3. Bounded'
  BY DEF Bounded, UpTo, TypeOK, Database, Digest, Nothing, Absent
<1>4. StatTrue(db, None)' /\ StatTrue(work, reading)'
  BY DEF StatTrue, Bounded, UpTo, Holding, TypeOK, Database, Digest, Nothing, Absent
<1>5. StampTrue(db)' /\ (~Loading => StampTrue(work))'
  <2>1. db' = db /\ disk' = disk /\ work'.index = work.index /\ reading = None
    BY DEF Holding, TypeOK, Database
  <2>2. StampTrue(db)'
    BY <2>1 DEF StampTrue
  <2>3. CASE StatMismatch(work, view[p])
    <3>1. work'.stamp = None
      BY <2>3 DEF TypeOK, Database
    <3> QED BY <2>2, <3>1 DEF StampTrue
  <2>4. CASE ~StatMismatch(work, view[p])
    <3>1. work'.stamp = view[p]
      BY <2>4 DEF TypeOK, Database
    <3>2. \A f \in Files : (disk[f] # Absent /\ view[p][f] = disk[f]) => work.index[f] = disk[f]
      BY <2>1, <2>4 DEF StatMismatch, StatTrue
    <3> QED BY <2>1, <2>2, <3>1, <3>2 DEF StampTrue
  <2> QED BY <2>3, <2>4
<1>6. LoadTrue'
  BY DEF LoadTrue, Loading, Bounded, UpTo, Holding, TypeOK, Database, Digest, Nothing, Absent
<1> QED BY <1>1, <1>2, <1>3, <1>4, <1>5, <1>6

LEMMA CommitWriteKeepsFreshInv ==
    ASSUME FreshInv, NEW p \in Procs, CommitWrite(p)
    PROVE  FreshInv'
<1> USE FreshnessConstants DEF FreshInv, CommitWrite, counters, Goto, StartWalk, Leave, Walked
<1>1. TypeOK'
  BY DEF TypeOK, Database, Digest, Nothing, Absent, Labels
<1>2. Holding'
  BY DEF Holding, TypeOK
<1>3. Bounded'
  BY DEF Bounded, UpTo, TypeOK, Database, Digest, Nothing, Absent
<1>4. StatTrue(db, None)' /\ StatTrue(work, reading)'
  BY DEF StatTrue, Bounded, UpTo, Holding, TypeOK, Database, Digest, Nothing, Absent
<1>5. StampTrue(db)' /\ (~Loading => StampTrue(work))'
  BY DEF StampTrue, Loading, Bounded, UpTo, Holding, TypeOK, Database, Digest, Nothing, Absent
<1>6. LoadTrue'
  BY DEF LoadTrue, Loading, Bounded, UpTo, Holding, TypeOK, Database, Digest, Nothing, Absent
<1> QED BY <1>1, <1>2, <1>3, <1>4, <1>5, <1>6

LEMMA RefuseKeepsFreshInv ==
    ASSUME FreshInv, NEW p \in Procs, Refuse(p)
    PROVE  FreshInv'
<1> USE FreshnessConstants DEF FreshInv, Refuse, counters, Goto, StartWalk, Leave, Walked
<1>1. TypeOK'
  BY DEF TypeOK, Holding, Database, Digest, Nothing, Absent, Labels
<1>2. Holding'
  BY DEF Holding, TypeOK
<1>3. Bounded'
  BY DEF Bounded, UpTo, TypeOK, Database, Digest, Nothing, Absent
<1>4. StatTrue(db, None)' /\ StatTrue(work, reading)'
  BY DEF StatTrue, Bounded, UpTo, Holding, TypeOK, Database, Digest, Nothing, Absent
<1>5. StampTrue(db)' /\ (~Loading => StampTrue(work))'
  BY DEF StampTrue, Loading, Bounded, UpTo, Holding, TypeOK, Database, Digest, Nothing, Absent
<1>6. LoadTrue'
  BY DEF LoadTrue, Loading, Bounded, UpTo, Holding, TypeOK, Database, Digest, Nothing, Absent
<1> QED BY <1>1, <1>2, <1>3, <1>4, <1>5, <1>6

LEMMA BeginWriteKeepsFreshInv ==
    ASSUME FreshInv, NEW p \in Procs, BeginWrite(p)
    PROVE  FreshInv'
<1> USE FreshnessConstants DEF FreshInv, BeginWrite, counters, Goto, StartWalk, Leave, Walked
<1>1. TypeOK'
  BY DEF TypeOK, Database, Digest, Nothing, Absent, Labels
<1>2. Holding'
  BY DEF Holding, TypeOK
<1>3. Bounded'
  BY DEF Bounded, UpTo, TypeOK, Database, Digest, Nothing, Absent
<1>4. StatTrue(db, None)' /\ StatTrue(work, reading)'
  BY DEF StatTrue, Bounded, UpTo, Holding, TypeOK, Database, Digest, Nothing, Absent
<1>5. StampTrue(db)' /\ (~Loading => StampTrue(work))'
  BY DEF StampTrue, Loading, Bounded, UpTo, Holding, TypeOK, Database, Digest, Nothing, Absent
<1>6. LoadTrue'
  BY DEF LoadTrue, Loading, Bounded, UpTo, Holding, TypeOK, Database, Digest, Nothing, Absent
<1> QED BY <1>1, <1>2, <1>3, <1>4, <1>5, <1>6

LEMMA FailKeepsFreshInv ==
    ASSUME FreshInv, NEW p \in Procs, Fail(p)
    PROVE  FreshInv'
<1> USE FreshnessConstants DEF FreshInv, Fail, counters, Goto, StartWalk, Leave, Walked
<1>1. TypeOK'
  BY DEF TypeOK, Database, Digest, Nothing, Absent, Labels
<1>2. Holding'
  BY DEF Holding, TypeOK
<1>3. Bounded'
  BY DEF Bounded, UpTo, TypeOK, Database, Digest, Nothing, Absent
<1>4. StatTrue(db, None)' /\ StatTrue(work, reading)'
  BY DEF StatTrue, Bounded, UpTo, Holding, TypeOK, Database, Digest, Nothing, Absent
<1>5. StampTrue(db)' /\ (~Loading => StampTrue(work))'
  BY DEF StampTrue, Loading, Bounded, UpTo, Holding, TypeOK, Database, Digest, Nothing, Absent
<1>6. LoadTrue'
  BY DEF LoadTrue, Loading, Bounded, UpTo, Holding, TypeOK, Database, Digest, Nothing, Absent
<1> QED BY <1>1, <1>2, <1>3, <1>4, <1>5, <1>6

LEMMA WalkFileKeepsFreshInv ==
    ASSUME FreshInv, NEW p \in Procs, NEW f \in Files, WalkFile(p, f)
    PROVE  FreshInv'
<1> USE FreshnessConstants DEF FreshInv, WalkFile, counters, Goto, StartWalk, Leave, Walked
<1>1. TypeOK'
  BY DEF TypeOK, Database, Digest, Nothing, Absent, Labels
<1>2. Holding'
  BY DEF Holding, TypeOK
<1>3. Bounded'
  BY DEF Bounded, UpTo, TypeOK, Database, Digest, Nothing, Absent
<1>4. StatTrue(db, None)' /\ StatTrue(work, reading)'
  BY DEF StatTrue, Bounded, UpTo, Holding, TypeOK, Database, Digest, Nothing, Absent
<1>5. StampTrue(db)' /\ (~Loading => StampTrue(work))'
  BY DEF StampTrue, Loading, Bounded, UpTo, Holding, TypeOK, Database, Digest, Nothing, Absent
<1>6. LoadTrue'
  BY DEF LoadTrue, Loading, Bounded, UpTo, Holding, TypeOK, Database, Digest, Nothing, Absent
<1> QED BY <1>1, <1>2, <1>3, <1>4, <1>5, <1>6

LEMMA LoadNothingKeepsFreshInv ==
    ASSUME FreshInv, NEW p \in Procs, NEW f \in Files, LoadNothing(p, f)
    PROVE  FreshInv'
<1> USE FreshnessConstants DEF FreshInv, LoadNothing, counters, Goto, StartWalk, Leave, Walked
<1>1. TypeOK'
  BY DEF TypeOK, Database, Digest, Nothing, Absent, Labels
<1>2. Holding'
  BY DEF Holding, TypeOK
<1>3. Bounded'
  BY DEF Bounded, UpTo, TypeOK, Database, Digest, Nothing, Absent
<1>4. StatTrue(db, None)' /\ StatTrue(work, reading)'
  BY DEF StatTrue, Bounded, UpTo, Holding, TypeOK, Database, Digest, Nothing, Absent
<1>5. StampTrue(db)' /\ (~Loading => StampTrue(work))'
  BY DEF StampTrue, Loading, Bounded, UpTo, Holding, TypeOK, Database, Digest, Nothing, Absent
<1>6. LoadTrue'
  BY DEF LoadTrue, Loading, Bounded, UpTo, Holding, TypeOK, Database, Digest, Nothing, Absent
<1> QED BY <1>1, <1>2, <1>3, <1>4, <1>5, <1>6

LEMMA LoadStatKeepsFreshInv ==
    ASSUME FreshInv, NEW p \in Procs, NEW f \in Files, LoadStat(p, f)
    PROVE  FreshInv'
<1> USE FreshnessConstants DEF FreshInv, LoadStat, counters, Goto, StartWalk, Leave, Walked
<1>w. work' \in Database
  <2>1. /\ work.index \in Digest /\ work.stat \in Digest /\ work.stamp \in Digest \cup {None}
        /\ disk \in Digest /\ Nothing \in Digest
    BY DEF TypeOK, Database, Digest, Nothing, Absent
  <2>2. work' = [index |-> work.index, stat |-> [work.stat EXCEPT ![f] = disk[f]], stamp |-> work.stamp]
    BY DEF TypeOK, Database
  <2>3. disk[f] \in Nat
    BY DEF TypeOK, Digest
  <2>4. [work.stat EXCEPT ![f] = disk[f]] \in Digest
    BY <2>1, <2>3, DigestExcept
  <2> QED BY <2>1, <2>2, <2>4 DEF Database
<1>1. TypeOK'
  BY <1>w DEF TypeOK, Holding, Digest, Nothing, Absent, Labels
<1>2. Holding'
  BY DEF Holding, TypeOK
<1>3. Bounded'
  BY DEF Bounded, UpTo, TypeOK, Database, Digest, Nothing, Absent
<1>4. StatTrue(db, None)' /\ StatTrue(work, reading)'
  BY DEF StatTrue, Bounded, UpTo, Holding, TypeOK, Database, Digest, Nothing, Absent
<1>5. StampTrue(db)' /\ (~Loading => StampTrue(work))'
  BY DEF StampTrue, Loading, Bounded, UpTo, Holding, TypeOK, Database, Digest, Nothing, Absent
<1>6. LoadTrue'
  BY DEF LoadTrue, Loading, Bounded, UpTo, Holding, TypeOK, Database, Digest, Nothing, Absent
<1> QED BY <1>1, <1>2, <1>3, <1>4, <1>5, <1>6

LEMMA PublishKeepsFreshInv ==
    ASSUME FreshInv, NEW p \in Procs, NEW f \in Files, Publish(p, f)
    PROVE  FreshInv'
<1> USE FreshnessConstants DEF FreshInv, Publish, counters, Goto, StartWalk, Leave, Walked
<1>w. work' \in Database
  <2>1. /\ work.index \in Digest /\ work.stat \in Digest /\ work.stamp \in Digest \cup {None}
        /\ disk \in Digest /\ Nothing \in Digest
    BY DEF TypeOK, Database, Digest, Nothing, Absent
  <2>2. work' = [index |-> [work.index EXCEPT ![f] = last'], stat |-> [work.stat EXCEPT ![f] = last'], stamp |-> work.stamp]
    BY DEF TypeOK, Database
  <2>3. last' \in Nat
    BY DEF TypeOK, Digest
  <2>4. [work.index EXCEPT ![f] = last'] \in Digest /\ [work.stat EXCEPT ![f] = last'] \in Digest
    BY <2>1, <2>3, DigestExcept
  <2> QED BY <2>1, <2>2, <2>4 DEF Database
<1>1. TypeOK'
  BY <1>w DEF TypeOK, Holding, Digest, Nothing, Absent, Labels
<1>2. Holding'
  BY DEF Holding, TypeOK
<1>3. Bounded'
  BY DEF Bounded, UpTo, TypeOK, Database, Digest, Nothing, Absent
<1>4. StatTrue(db, None)' /\ StatTrue(work, reading)'
  BY DEF StatTrue, Bounded, UpTo, Holding, TypeOK, Database, Digest, Nothing, Absent
<1>5. StampTrue(db)' /\ (~Loading => StampTrue(work))'
  BY DEF StampTrue, Loading, Bounded, UpTo, Holding, TypeOK, Database, Digest, Nothing, Absent
<1>6. LoadTrue'
  BY DEF LoadTrue, Loading, Bounded, UpTo, Holding, TypeOK, Database, Digest, Nothing, Absent
<1> QED BY <1>1, <1>2, <1>3, <1>4, <1>5, <1>6

LEMMA EditKeepsFreshInv ==
    ASSUME FreshInv, NEW f \in Files, Edit(f)
    PROVE  FreshInv'
<1> USE FreshnessConstants DEF FreshInv, Edit, counters, Goto, StartWalk, Leave, Walked
<1>1. TypeOK'
  BY DEF TypeOK, Database, Digest, Nothing, Absent, Labels
<1>2. Holding'
  BY DEF Holding, TypeOK
<1>3. Bounded'
  BY DEF Bounded, UpTo, TypeOK, Database, Digest, Nothing, Absent
<1>4. StatTrue(db, None)' /\ StatTrue(work, reading)'
  BY DEF StatTrue, Bounded, UpTo, Holding, TypeOK, Database, Digest, Nothing, Absent
<1>5. StampTrue(db)' /\ (~Loading => StampTrue(work))'
  BY DEF StampTrue, Loading, Bounded, UpTo, Holding, TypeOK, Database, Digest, Nothing, Absent
<1>6. LoadTrue'
  BY DEF LoadTrue, Loading, Bounded, UpTo, Holding, TypeOK, Database, Digest, Nothing, Absent
<1> QED BY <1>1, <1>2, <1>3, <1>4, <1>5, <1>6

LEMMA RemoveKeepsFreshInv ==
    ASSUME FreshInv, NEW f \in Files, Remove(f)
    PROVE  FreshInv'
<1> USE FreshnessConstants DEF FreshInv, Remove, counters, Goto, StartWalk, Leave, Walked
<1>1. TypeOK'
  BY DEF TypeOK, Database, Digest, Nothing, Absent, Labels
<1>2. Holding'
  BY DEF Holding, TypeOK
<1>3. Bounded'
  BY DEF Bounded, UpTo, TypeOK, Database, Digest, Nothing, Absent
<1>4. StatTrue(db, None)' /\ StatTrue(work, reading)'
  BY DEF StatTrue, Bounded, UpTo, Holding, TypeOK, Database, Digest, Nothing, Absent
<1>5. StampTrue(db)' /\ (~Loading => StampTrue(work))'
  BY DEF StampTrue, Loading, Bounded, UpTo, Holding, TypeOK, Database, Digest, Nothing, Absent
<1>6. LoadTrue'
  BY DEF LoadTrue, Loading, Bounded, UpTo, Holding, TypeOK, Database, Digest, Nothing, Absent
<1> QED BY <1>1, <1>2, <1>3, <1>4, <1>5, <1>6

-----------------------------------------------------------------------------

LEMMA InitFreshInv == Init => FreshInv
<1> SUFFICES ASSUME Init PROVE FreshInv
  OBVIOUS
<1>1. Nothing \in Digest /\ \A f \in Files : Nothing[f] = 0
  BY DEF Nothing, Digest, Absent
<1>2. TypeOK
  BY <1>1 DEF Init, TypeOK, Database, Labels
<1>3. Holding /\ Bounded
  BY <1>1, FreshnessConstants DEF Init, Holding, Bounded, UpTo
<1>4. StatTrue(db, None) /\ StatTrue(work, reading) /\ StampTrue(db) /\ StampTrue(work) /\ LoadTrue
  BY <1>1 DEF Init, StatTrue, StampTrue, LoadTrue, Loading, Absent
<1> QED BY <1>2, <1>3, <1>4 DEF FreshInv

LEMMA NextKeepsFreshInv == FreshInv /\ [Next]_vars => FreshInv'
<1> SUFFICES ASSUME FreshInv, [Next]_vars PROVE FreshInv'
  OBVIOUS
<1>1. ASSUME NEW p \in Procs, Proceed(p)
      PROVE  FreshInv'
  BY <1>1, BeginRefreshKeepsFreshInv, FoundFreshKeepsFreshInv, FoundStaleKeepsFreshInv,
     BeginReloadKeepsFreshInv, LeaveReloadKeepsFreshInv, BeginRebuildKeepsFreshInv,
     LoadReadKeepsFreshInv, CommitReloadKeepsFreshInv, TouchDigestKeepsFreshInv,
     CommitWriteKeepsFreshInv, RefuseKeepsFreshInv, WalkFileKeepsFreshInv,
     LoadNothingKeepsFreshInv, LoadStatKeepsFreshInv DEF Proceed
<1>2. ASSUME NEW p \in Procs, BeginWrite(p) \/ Fail(p) \/ \E f \in Files : Publish(p, f)
      PROVE  FreshInv'
  BY <1>2, BeginWriteKeepsFreshInv, FailKeepsFreshInv, PublishKeepsFreshInv
<1>3. CASE External
  BY <1>3, EditKeepsFreshInv, RemoveKeepsFreshInv DEF External
<1>4. CASE UNCHANGED vars
  BY <1>4 DEF vars, FreshInv, TypeOK, Holding, Bounded, UpTo, StatTrue, StampTrue, Loading, LoadTrue
<1> QED BY <1>1, <1>2, <1>3, <1>4 DEF Next

THEOREM SpecFreshInv == Spec => []FreshInv
<1>1. FreshInv /\ [Next]_vars => FreshInv'
  BY NextKeepsFreshInv
<1> QED BY <1>1, InitFreshInv, PTL DEF Spec

(* A process that finds the certificate equal to the digest of the disk serves *)
(* every file in its current state (_refresh_freshness's fast path).            *)
THEOREM CertificateIsSound == Spec => []CertifiedIndexIsLoaded
<1>0. Spec => []FreshInv
  BY SpecFreshInv
<1>1. FreshInv => CertifiedIndexIsLoaded
  BY FreshnessConstants DEF FreshInv, StampTrue, CertifiedIndexIsLoaded, Certified, TypeOK, Digest
<1> QED BY <1>0, <1>1, PTL

(* canonical_stat never describes a state the index did not load.              *)
THEOREM StatRowsAreSound == Spec => []StatNeverLies
<1>0. Spec => []FreshInv
  BY SpecFreshInv
<1>1. FreshInv => StatNeverLies
  BY FreshnessConstants DEF FreshInv, StatTrue, StatNeverLies
<1> QED BY <1>0, <1>1, PTL

-----------------------------------------------------------------------------
(* What a row, a hook and an entry of the log may be.                       *)
Steps == {"over", "peek", "stamp", "prune", "recorded", "check", "notice", "clean",
          "select", "claim", "ledger", "ask", "mark", "rearm", "first", "swap", "again"}
Row == Nat \cup {NoRow}
NoticeRow == {NoRow} \cup [rank : Nat, at : Nat]
HookType == [Hooks -> [pc : Steps, id : Ids \cup {NoRow}, at : Nat, rank : Nat,
                       was : NoticeRow, saw : Row, todo : SUBSET Paths]]
Ask == [what : {"first", "again"}, id : Ids, at : Nat]
Entries == [what : {"stamp"}, id : Ids, at : Nat]
    \cup [what : {"claim"}, at : Nat, rank : Nat]
    \cup [what : {"delete"}, at : Nat]
    \cup [what : {"inject"}, id : Ids, at : Nat, file : Paths, stamp : Nat]
    \cup Ask

RowTypes ==
    /\ start \in {NoRow} \cup [id : Ids, at : Nat]
    /\ notice \in NoticeRow
    /\ claim \in [Ids -> [Paths -> Row]]
    /\ captured \in [Ids -> Row] /\ rearm \in [Ids -> Row]
SessionTypes == now \in Nat /\ hook \in HookType /\ log \in Seq(Entries) /\ RowTypes

LEMMA GoEffect ==
  ASSUME hook \in HookType, NEW x \in Hooks, NEW label \in Steps, Go(x, label)
  PROVE  /\ hook' \in HookType
         /\ \A y \in Hooks \ {x} : hook'[y] = hook[y]
         /\ hook'[x].pc = label /\ hook'[x].id = hook[x].id /\ hook'[x].at = hook[x].at
         /\ hook'[x].saw = hook[x].saw /\ hook'[x].todo = hook[x].todo
BY DEF HookType, Go

LEMMA FinishEffect ==
  ASSUME hook \in HookType, NEW x \in Hooks, Finish(x)
  PROVE  /\ hook' \in HookType
         /\ \A y \in Hooks \ {x} : hook'[y] = hook[y]
         /\ hook'[x].pc = "over" /\ hook'[x].id = NoRow
BY SessionsAssumption DEF HookType, Finish, Idle, Steps, Row, NoticeRow

LEMMA FireEffect ==
  ASSUME hook \in HookType, NEW x \in Hooks, NEW s \in Ids, NEW t \in Nat,
         hook' = [hook EXCEPT ![x].id = s, ![x].at = t]
  PROVE  /\ hook' \in HookType
         /\ \A y \in Hooks \ {x} : hook'[y] = hook[y]
         /\ hook'[x].pc = hook[x].pc /\ hook'[x].id = s /\ hook'[x].at = t
BY DEF HookType

LEMMA SawEffect ==
  ASSUME hook \in HookType, NEW x \in Hooks, NEW label \in Steps, NEW r \in Row,
         hook' = [hook EXCEPT ![x].pc = label, ![x].saw = r]
  PROVE  /\ hook' \in HookType
         /\ \A y \in Hooks \ {x} : hook'[y] = hook[y]
         /\ hook'[x].pc = label /\ hook'[x].id = hook[x].id /\ hook'[x].at = hook[x].at
         /\ hook'[x].saw = r
BY DEF HookType

LEMMA WasEffect ==
  ASSUME hook \in HookType, NEW x \in Hooks, NEW label \in Steps, NEW r \in NoticeRow,
         hook' = [hook EXCEPT ![x].pc = label, ![x].was = r]
  PROVE  /\ hook' \in HookType
         /\ \A y \in Hooks \ {x} : hook'[y] = hook[y]
         /\ hook'[x].pc = label /\ hook'[x].id = hook[x].id /\ hook'[x].at = hook[x].at
BY DEF HookType

LEMMA AtEffect ==
  ASSUME hook \in HookType, NEW x \in Hooks, NEW label \in Steps, NEW t \in Nat,
         hook' = [hook EXCEPT ![x].pc = label, ![x].at = t]
  PROVE  /\ hook' \in HookType
         /\ \A y \in Hooks \ {x} : hook'[y] = hook[y]
         /\ hook'[x].pc = label /\ hook'[x].id = hook[x].id /\ hook'[x].at = t
BY DEF HookType

LEMMA TimeEffect ==
  ASSUME NEW g \in HookType, NEW h, NEW x \in Hooks, NEW t \in Nat, h = [g EXCEPT ![x].at = t]
  PROVE  /\ h \in HookType
         /\ \A y \in Hooks \ {x} : h[y] = g[y]
         /\ h[x].pc = g[x].pc /\ h[x].id = g[x].id /\ h[x].at = t
BY DEF HookType

LEMMA SelectEffect ==
  ASSUME hook \in HookType, now \in Nat, NEW x \in Hooks, ToolSelect(x)
  PROVE  /\ hook' \in HookType
         /\ \A y \in Hooks \ {x} : hook'[y] = hook[y]
         /\ hook'[x].pc = "claim" /\ hook'[x].id = hook[x].id /\ hook'[x].at = now
<1> DEFINE c == "claim"
<1>1. c \in Steps
  BY DEF Steps
<1>2. PICK F \in SUBSET Paths : hook' = [hook EXCEPT ![x].pc = c, ![x].todo = F, ![x].at = now]
  BY DEF ToolSelect
<1> HIDE DEF c
<1>3. \E h \in HookType : /\ hook' = [h EXCEPT ![x].at = now] /\ h[x].pc = c /\ h[x].id = hook[x].id
                          /\ \A y \in Hooks \ {x} : h[y] = hook[y]
  <2> DEFINE h == [hook EXCEPT ![x].pc = c, ![x].todo = F]
  <2>1. h \in HookType /\ h[x].pc = c /\ h[x].id = hook[x].id
        /\ \A y \in Hooks \ {x} : h[y] = hook[y]
    BY <1>1 DEF HookType
  <2>2. hook' = [h EXCEPT ![x].at = now]
    BY <1>2 DEF HookType
  <2> HIDE DEF h
  <2> QED
    BY <2>1, <2>2
<1>4. PICK h \in HookType : /\ hook' = [h EXCEPT ![x].at = now] /\ h[x].pc = c /\ h[x].id = hook[x].id
                           /\ \A y \in Hooks \ {x} : h[y] = hook[y]
  BY <1>3
<1>5. /\ hook' \in HookType /\ hook'[x].pc = c /\ hook'[x].id = hook[x].id /\ hook'[x].at = now
      /\ \A y \in Hooks \ {x} : hook'[y] = hook[y]
  BY <1>4 DEF HookType
<1> QED
  BY <1>5 DEF c

LEMMA WithoutEffect ==
  ASSUME hook \in HookType, NEW x \in Hooks, NEW F, Without(x, F)
  PROVE  /\ hook' \in HookType
         /\ \A y \in Hooks \ {x} : hook'[y] = hook[y]
         /\ \/ hook'[x].pc = "over" /\ hook'[x].id = NoRow
            \/ hook'[x].pc = hook[x].pc /\ hook'[x].id = hook[x].id /\ hook'[x].at = hook[x].at
<1>1. CASE hook[x].todo \subseteq F
  BY <1>1, FinishEffect DEF Without
<1>2. CASE ~(hook[x].todo \subseteq F)
  BY <1>2 DEF Without, HookType
<1> QED
  BY <1>1, <1>2

LEMMA NoteEffect ==
  ASSUME log \in Seq(Entries), NEW e \in Entries, Note(e)
  PROVE  /\ log' \in Seq(Entries)
         /\ DOMAIN log' = DOMAIN log \cup {Len(log) + 1}
         /\ \A i \in DOMAIN log : i \in 1..Len(log) /\ log'[i] = log[i]
         /\ log'[Len(log) + 1] = e
         /\ Len(log) \in Nat
BY DEF Note

-----------------------------------------------------------------------------
(* A hook that runs is Span ticks old at most, and so is every stamp that it  *)
(* writes: two entries of the log are at most Span out of order.              *)
HookTiming ==
    \A x \in Hooks :
        /\ hook[x].pc = "over" => ~Running(x)
        /\ Running(x) => hook[x].at <= now /\ now <= hook[x].at + Span
LogTiming ==
    \A i \in DOMAIN log :
        /\ log[i].at <= now
        /\ \A k \in DOMAIN log : i < k => log[i].at <= log[k].at + Span
Basics == SessionTypes /\ HookTiming /\ LogTiming

(* What every step of a hook does to the hooks and to the log. *)
Moved(x) ==
    /\ hook' \in HookType /\ \A y \in Hooks \ {x} : hook'[y] = hook[y]
    /\ \/ hook'[x].id = NoRow
       \/ /\ hook'[x].pc # "over" /\ hook'[x].id \in Ids
          /\ \/ hook'[x].at = hook[x].at /\ hook'[x].id = hook[x].id
             \/ hook'[x].at = now
Noted ==
    \/ log' = log
    \/ \E e \in Entries : Note(e) /\ e.at <= now /\ now <= e.at + Span

LEMMA EntryTime == \A e \in Entries : e.at \in Nat
BY DEF Entries, Ask

LEMMA NotedLog ==
  ASSUME SessionTypes, LogTiming, Noted, now' = now
  PROVE  log' \in Seq(Entries) /\ LogTiming'
<1>1. CASE log' = log
  BY <1>1 DEF SessionTypes, LogTiming
<1>2. CASE \E e \in Entries : Note(e) /\ e.at <= now /\ now <= e.at + Span
  <2>1. PICK e \in Entries : Note(e) /\ e.at <= now /\ now <= e.at + Span
    BY <1>2
  <2> DEFINE n == Len(log) + 1
  <2>2. /\ log' \in Seq(Entries) /\ DOMAIN log' = DOMAIN log \cup {n}
        /\ \A i \in DOMAIN log : i \in 1..Len(log) /\ log'[i] = log[i]
        /\ log'[n] = e /\ n \in Nat /\ Len(log) \in Nat
    <3>1. Len(log) \in Nat
      BY DEF SessionTypes
    <3>2. n \in Nat
      BY <3>1
    <3>3. log \in Seq(Entries) /\ Note(e)
      BY <2>1 DEF SessionTypes
    <3> QED
      BY <3>1, <3>2, <3>3, NoteEffect, Zenon
  <2>3. e.at \in Nat /\ \A i \in DOMAIN log : log[i].at \in Nat
    BY EntryTime DEF SessionTypes
  <2>4. n = Len(log) + 1
    OBVIOUS
  <2> HIDE DEF n
  <2>5. ASSUME NEW i \in DOMAIN log' PROVE log'[i].at <= now'
    BY <2>1, <2>2 DEF LogTiming
  <2>6. ASSUME NEW i \in DOMAIN log', NEW k \in DOMAIN log', i < k
        PROVE  log'[i].at <= log'[k].at + Span
    <3>1. i \in DOMAIN log
      BY <2>2, <2>4, <2>6
    <3>2. CASE k = n
      <4>1. log'[i] = log[i] /\ log'[k] = e
        BY <3>1, <3>2, <2>2
      <4>2. log[i].at <= now /\ now <= e.at + Span
        BY <3>1, <2>1 DEF LogTiming
      <4>3. log[i].at \in Nat /\ e.at \in Nat /\ now \in Nat /\ Span \in Nat
        BY <3>1, <2>3, SessionsAssumption DEF SessionTypes
      <4> QED
        BY <4>1, <4>2, <4>3
    <3>3. CASE k \in DOMAIN log
      BY <3>1, <3>3, <2>2, <2>6 DEF LogTiming
    <3> QED
      BY <3>2, <3>3, <2>2
  <2> QED
    BY <2>2, <2>5, <2>6 DEF LogTiming
<1> QED
  BY <1>1, <1>2 DEF Noted

LEMMA MovedTiming ==
  ASSUME SessionTypes, HookTiming, NEW x \in Hooks, Moved(x), now' = now
  PROVE  HookTiming'
<1> SUFFICES ASSUME NEW y \in Hooks
             PROVE  /\ hook'[y].pc = "over" => hook'[y].id = NoRow
                    /\ hook'[y].id # NoRow => hook'[y].at <= now /\ now <= hook'[y].at + Span
  BY DEF HookTiming, Running
<1>1. CASE y # x
  BY <1>1 DEF HookTiming, Running, Moved
<1>2. CASE y = x
  BY <1>2, SessionsAssumption DEF HookTiming, Running, Moved, SessionTypes
<1> QED
  BY <1>1, <1>2

-----------------------------------------------------------------------------
(* Every step of a hook moves that hook only, and notes at most one entry.    *)
HookActs(x) ==
    \/ Fire(x) \/ Die(x)
    \/ StartPeek(x) \/ StartStamp(x) \/ StartPrune(x) \/ StartRecorded(x)
    \/ StartCheck(x) \/ StartNotice(x) \/ StartClean(x)
    \/ ToolSelect(x) \/ (\E f \in Paths : ToolClaim(x, f))
    \/ StopLedger(x) \/ StopAsk(x) \/ StopSwap(x) \/ StopMark(x) \/ StopStamp(x) \/ StopPrint(x)

LEMMA RunningHook ==
  ASSUME Basics, NEW x \in Hooks, hook[x].id # NoRow
  PROVE  /\ hook[x].id \in Ids /\ hook[x].at \in Nat /\ hook[x].saw \in Row /\ hook[x].todo \subseteq Paths
         /\ hook[x].at <= now /\ now <= hook[x].at + Span /\ hook[x].pc # "over" /\ now \in Nat
BY DEF Basics, SessionTypes, HookType, HookTiming, Running

(* What is written at the time of a hook was written no more than Span ago.   *)
LEMMA NotedNow ==
  ASSUME Basics, NEW e \in Entries, Note(e),
         \/ e.at = now
         \/ \E x \in Hooks : hook[x].id # NoRow /\ e.at = hook[x].at
  PROVE  Noted
<1>1. CASE e.at = now
  BY <1>1, SessionsAssumption DEF Noted, Basics, SessionTypes
<1>2. CASE \E x \in Hooks : hook[x].id # NoRow /\ e.at = hook[x].at
  BY <1>2, RunningHook DEF Noted
<1> QED
  BY <1>1, <1>2

LEMMA GoMoves ==
  ASSUME Basics, NEW x \in Hooks, NEW label \in Steps \ {"over"}, hook[x].id # NoRow, Go(x, label)
  PROVE  Moved(x)
BY RunningHook, GoEffect DEF Moved, Basics, SessionTypes

LEMMA FinishMoves ==
  ASSUME Basics, NEW x \in Hooks, Finish(x)
  PROVE  Moved(x)
BY FinishEffect DEF Moved, Basics, SessionTypes

LEMMA StartSteps ==
  ASSUME Basics, NEW x \in Hooks,
         \/ StartPeek(x) \/ StartStamp(x) \/ StartPrune(x) \/ StartRecorded(x)
         \/ StartCheck(x) \/ StartNotice(x) \/ StartClean(x)
  PROVE  Moved(x) /\ Noted /\ RowTypes' /\ now' = now
<1>0. hook[x].id # NoRow
  BY DEF StartPeek, StartStamp, StartPrune, StartRecorded, StartCheck, StartNotice, StartClean, At
<1>t. /\ hook \in HookType /\ now \in Nat /\ RowTypes
      /\ hook[x].id \in Ids /\ hook[x].at \in Nat
  BY <1>0, RunningHook DEF Basics, SessionTypes
<1>r. hook[x].rank \in Nat
  BY <1>t DEF HookType
<1>s. {"stamp", "prune", "recorded", "check", "notice", "clean"} \subseteq Steps \ {"over"}
  BY DEF Steps
<1>1. CASE StartPeek(x)
  BY <1>1, <1>0, <1>t, <1>s, GoMoves, FinishMoves DEF StartPeek, Noted, RowTypes, rows
<1>2. CASE StartStamp(x)
  <2> DEFINE e == [what |-> "stamp", id |-> hook[x].id, at |-> hook[x].at]
  <2>1. e \in Entries /\ e.at = hook[x].at
    BY <1>t DEF Entries
  <2> HIDE DEF e
  <2>2. log' = log \/ Note(e)
    BY <1>2 DEF StartStamp, e
  <2>3. Noted
    BY <2>1, <2>2, <1>0, NotedNow DEF Noted
  <2>4. Moved(x)
    BY <1>2, <1>0, <1>s, GoMoves, FinishMoves DEF StartStamp
  <2>5. RowTypes' /\ now' = now
    BY <1>2, <1>t DEF StartStamp, Fault, rows, RowTypes
  <2> QED
    BY <2>3, <2>4, <2>5
<1>3. CASE StartPrune(x)
  <2>1. Moved(x)
    BY <1>3, <1>0, <1>s, GoMoves DEF StartPrune
  <2>2. RowTypes' /\ now' = now /\ log' = log
    BY <1>3, <1>t DEF StartPrune, Fault, rows, RowTypes, Pruned, Row
  <2> QED
    BY <2>1, <2>2 DEF Noted
<1>4. CASE StartRecorded(x)
  <2>1. Moved(x)
    BY <1>4, <1>t, <1>s, WasEffect DEF StartRecorded, Moved, RowTypes
  <2> QED
    BY <2>1, <1>4, <1>t DEF StartRecorded, rows, RowTypes, Noted
<1>5. CASE StartCheck(x)
  <2>1. Moved(x)
    <3> DEFINE c == "clean"
               n == "notice"
    <3>1. c \in Steps \ {"over"} /\ n \in Steps \ {"over"}
      BY <1>s
    <3>2. \/ hook' = [hook EXCEPT ![x].pc = c, ![x].at = now]
          \/ \E rank \in Ranks : hook' = [hook EXCEPT ![x].pc = n, ![x].at = now, ![x].rank = rank]
      BY <1>5 DEF StartCheck
    <3>3. Ranks \subseteq Nat
      BY SessionsAssumption
    <3> HIDE DEF c, n
    <3>4. /\ hook' \in HookType /\ \A y \in Hooks \ {x} : hook'[y] = hook[y]
          /\ hook'[x].pc \in {c, n} /\ hook'[x].id = hook[x].id /\ hook'[x].at = now
      <4>1. CASE hook' = [hook EXCEPT ![x].pc = c, ![x].at = now]
        <5>1. PICK label \in Steps : label = c /\ hook' = [hook EXCEPT ![x].pc = label, ![x].at = now]
          BY <3>1, <4>1
        <5>2. /\ hook' \in HookType /\ \A y \in Hooks \ {x} : hook'[y] = hook[y]
              /\ hook'[x].pc = label /\ hook'[x].id = hook[x].id /\ hook'[x].at = now
          BY <5>1, <1>t DEF HookType
        <5> QED
          BY <5>1, <5>2
      <4>2. CASE \E rank \in Ranks : hook' = [hook EXCEPT ![x].pc = n, ![x].at = now, ![x].rank = rank]
        <5>1. PICK rank \in Nat : hook' = [hook EXCEPT ![x].pc = n, ![x].at = now, ![x].rank = rank]
          BY <4>2, <3>3
        <5>2. PICK label \in Steps :
                label = n /\ hook' = [hook EXCEPT ![x].pc = label, ![x].at = now, ![x].rank = rank]
          BY <3>1, <5>1
        <5>3. /\ hook' \in HookType /\ \A y \in Hooks \ {x} : hook'[y] = hook[y]
              /\ hook'[x].pc = label /\ hook'[x].id = hook[x].id /\ hook'[x].at = now
          <6>1. \E h \in HookType : /\ hook' = [h EXCEPT ![x].at = now] /\ h[x].pc = label
                                    /\ h[x].id = hook[x].id /\ \A y \in Hooks \ {x} : h[y] = hook[y]
            <7> DEFINE h == [hook EXCEPT ![x].pc = label, ![x].rank = rank]
            <7>1. /\ h \in HookType /\ h[x].pc = label /\ h[x].id = hook[x].id
                  /\ \A y \in Hooks \ {x} : h[y] = hook[y]
              BY <1>t DEF HookType
            <7>2. hook' = [h EXCEPT ![x].at = now]
              BY <5>2, <1>t DEF HookType
            <7> HIDE DEF h
            <7> QED
              BY <7>1, <7>2
          <6>2. PICK h \in HookType : /\ hook' = [h EXCEPT ![x].at = now] /\ h[x].pc = label
                                      /\ h[x].id = hook[x].id /\ \A y \in Hooks \ {x} : h[y] = hook[y]
            BY <6>1
          <6> QED
            BY <6>2, <1>t DEF HookType
        <5> QED
          BY <5>2, <5>3
      <4> QED
        BY <3>2, <4>1, <4>2
    <3> QED
      BY <3>1, <3>4, <1>t DEF Moved
  <2> QED
    BY <2>1, <1>5, <1>t DEF StartCheck, rows, RowTypes, Noted
<1>6. CASE StartNotice(x)
  <2> DEFINE e == [what |-> "claim", at |-> hook[x].at, rank |-> hook[x].rank]
  <2>1. e \in Entries /\ e.at = hook[x].at
    BY <1>t, <1>r DEF Entries
  <2> HIDE DEF e
  <2>2. log' = log \/ Note(e)
    BY <1>6 DEF StartNotice, e
  <2>3. Noted
    BY <2>1, <2>2, <1>0, NotedNow DEF Noted
  <2>4. Moved(x)
    BY <1>6, FinishMoves DEF StartNotice
  <2>5. RowTypes' /\ now' = now
    BY <1>6, <1>t, <1>r DEF StartNotice, Fault, rows, RowTypes, NoticeRow
  <2> QED
    BY <2>3, <2>4, <2>5
<1>7. CASE StartClean(x)
  <2> DEFINE e == [what |-> "delete", at |-> now]
  <2>1. e \in Entries /\ e.at = now
    BY <1>t DEF Entries
  <2> HIDE DEF e
  <2>2. log' = log \/ Note(e)
    BY <1>7 DEF StartClean, e
  <2>3. Noted
    BY <2>1, <2>2, NotedNow DEF Noted
  <2>4. Moved(x)
    BY <1>7, FinishMoves DEF StartClean
  <2>5. RowTypes' /\ now' = now
    BY <1>7, <1>t DEF StartClean, Fault, rows, RowTypes, NoticeRow
  <2> QED
    BY <2>3, <2>4, <2>5
<1> QED
  BY <1>1, <1>2, <1>3, <1>4, <1>5, <1>6, <1>7

LEMMA OtherSteps ==
  ASSUME Basics, NEW x \in Hooks,
         \/ Fire(x) \/ Die(x)
         \/ ToolSelect(x) \/ (\E f \in Paths : ToolClaim(x, f))
  PROVE  Moved(x) /\ Noted /\ RowTypes' /\ now' = now
<1>t. hook \in HookType /\ now \in Nat /\ RowTypes
  BY DEF Basics, SessionTypes
<1>1. CASE Fire(x)
  <2>1. Moved(x)
    <3>1. PICK s \in Ids : hook' = [hook EXCEPT ![x].id = s, ![x].at = now]
      BY <1>1 DEF Fire
    <3>2. hook[x].pc # "over"
      BY <1>1 DEF Fire
    <3> QED
      BY <3>1, <3>2, <1>t, FireEffect DEF Moved
  <2> QED
    BY <2>1, <1>1, <1>t DEF Fire, rows, RowTypes, Noted
<1>2. CASE Die(x)
  BY <1>2, <1>t, FinishMoves DEF Die, Fault, rows, RowTypes, Noted
<1>3. CASE ToolSelect(x)
  <2>1. Moved(x)
    BY <1>3, <1>t, SelectEffect, RunningHook DEF ToolSelect, Moved, At
  <2> QED
    BY <2>1, <1>3, <1>t DEF ToolSelect, rows, RowTypes, Noted
<1>4. CASE \E f \in Paths : ToolClaim(x, f)
  <2>1. PICK f \in Paths : ToolClaim(x, f)
    BY <1>4
  <2>2. hook[x].id # NoRow
    BY <2>1 DEF ToolClaim, At
  <2>3. hook[x].id \in Ids /\ hook[x].at \in Nat /\ hook[x].pc # "over"
    BY <2>2, RunningHook
  <2> DEFINE e == [what |-> "inject", id |-> hook[x].id, at |-> now, file |-> f, stamp |-> hook[x].at]
  <2>4. e \in Entries /\ e.at = now
    BY <1>t, <2>3 DEF Entries
  <2> HIDE DEF e
  <2>5. log' = log \/ Note(e)
    BY <2>1 DEF ToolClaim, e
  <2>6. Noted
    BY <2>4, <2>5, NotedNow DEF Noted
  <2>7. Moved(x)
    <3>1. Without(x, {f}) \/ Without(x, Paths)
      BY <2>1 DEF ToolClaim
    <3> QED
      BY <3>1, <1>t, <2>3, WithoutEffect DEF Moved
  <2>8. RowTypes' /\ now' = now
    <3>1. Row # {} /\ hook[x].at \in Row
      BY <2>3 DEF Row
    <3>2. RowTypes'
      BY <2>1, <2>3, <3>1, <1>t DEF ToolClaim, Fault, rows, RowTypes
    <3> QED
      BY <2>1, <3>2 DEF ToolClaim
  <2> QED
    BY <2>6, <2>7, <2>8
<1> QED
  BY <1>1, <1>2, <1>3, <1>4

LEMMA StopSteps ==
  ASSUME Basics, NEW x \in Hooks,
         StopLedger(x) \/ StopAsk(x) \/ StopSwap(x) \/ StopMark(x) \/ StopStamp(x) \/ StopPrint(x)
  PROVE  Moved(x) /\ Noted /\ RowTypes' /\ now' = now
<1>0. hook[x].id # NoRow
  BY DEF StopLedger, StopAsk, StopSwap, StopMark, StopStamp, StopPrint, At
<1>t. /\ hook \in HookType /\ now \in Nat /\ RowTypes
      /\ hook[x].id \in Ids /\ hook[x].at \in Nat
  BY <1>0, RunningHook DEF Basics, SessionTypes
<1>s. {"ask", "mark", "rearm", "first", "swap", "again"} \subseteq Steps \ {"over"}
  BY DEF Steps
<1>1. CASE StopLedger(x)
  <2>1. Moved(x)
    <3>1. \/ Go(x, "ask") \/ Finish(x)
          \/ hook' = [hook EXCEPT ![x].pc = "swap", ![x].saw = rearm[hook[x].id]]
      BY <1>1 DEF StopLedger
    <3>2. rearm[hook[x].id] \in Row
      BY <1>t DEF RowTypes
    <3>3. CASE hook' = [hook EXCEPT ![x].pc = "swap", ![x].saw = rearm[hook[x].id]]
      BY <3>2, <3>3, <1>t, <1>s, SawEffect DEF Moved
    <3> QED
      BY <3>1, <3>3, <1>0, <1>s, GoMoves, FinishMoves
  <2> QED
    BY <2>1, <1>1, <1>t DEF StopLedger, rows, RowTypes, Noted
<1>2. CASE StopAsk(x)
  BY <1>2, <1>0, <1>t, <1>s, GoMoves, FinishMoves DEF StopAsk, Noted, RowTypes, rows
<1>3. CASE StopSwap(x)
  <2>1. Moved(x)
    BY <1>3, <1>0, <1>s, GoMoves, FinishMoves DEF StopSwap
  <2> QED
    BY <2>1, <1>3, <1>t DEF StopSwap, Fault, rows, RowTypes, Noted, Row
<1>4. CASE StopMark(x)
  <2>1. Moved(x)
    BY <1>4, <1>0, <1>s, GoMoves, FinishMoves DEF StopMark
  <2> QED
    BY <2>1, <1>4, <1>t DEF StopMark, Fault, rows, RowTypes, Noted, Row
<1>5. CASE StopStamp(x)
  <2>1. Moved(x)
    BY <1>5, <1>0, <1>s, GoMoves DEF StopStamp
  <2> QED
    BY <2>1, <1>5, <1>t DEF StopStamp, Fault, rows, RowTypes, Noted, Row
<1>6. CASE StopPrint(x)
  <2> DEFINE e == [what |-> hook[x].pc, id |-> hook[x].id, at |-> now]
  <2>1. e \in Entries /\ e.at = now
    BY <1>6, <1>t DEF Entries, Ask, StopPrint, At
  <2> HIDE DEF e
  <2>2. Note(e)
    BY <1>6 DEF StopPrint, e
  <2>3. Noted
    BY <2>1, <2>2, NotedNow DEF Noted
  <2> QED
    BY <2>3, <1>6, <1>t, FinishMoves DEF StopPrint, rows, RowTypes
<1> QED
  BY <1>1, <1>2, <1>3, <1>4, <1>5, <1>6

LEMMA HookStep ==
  ASSUME Basics, NEW x \in Hooks, HookActs(x)
  PROVE  Moved(x) /\ Noted /\ RowTypes' /\ now' = now
BY StartSteps, OtherSteps, StopSteps DEF HookActs

(* The clock waits for the hooks that run. *)
LEMMA BasicsKept == Basics /\ [SNext]_svars => Basics'
<1> SUFFICES ASSUME Basics, [SNext]_svars PROVE Basics'
  OBVIOUS
<1>1. CASE UNCHANGED svars
  BY <1>1 DEF svars, Basics, SessionTypes, RowTypes, HookTiming, LogTiming, Running
<1>2. CASE Tick
  <2>1. now \in Nat /\ now' = now + 1 /\ UNCHANGED <<hook, log, start, notice, claim, captured, rearm>>
    BY <1>2 DEF Tick, rows, Basics, SessionTypes
  <2>2. SessionTypes'
    BY <2>1 DEF Basics, SessionTypes, RowTypes
  <2>3. HookTiming'
    BY <1>2, <2>1 DEF Basics, SessionTypes, HookTiming, Running, HookType, Tick
  <2>4. LogTiming'
    BY <2>1, EntryTime DEF Basics, SessionTypes, LogTiming
  <2> QED
    BY <2>2, <2>3, <2>4 DEF Basics
<1>3. CASE \E x \in Hooks : HookActs(x)
  <2>1. PICK x \in Hooks : HookActs(x)
    BY <1>3
  <2>2. Moved(x) /\ Noted /\ RowTypes' /\ now' = now
    BY <2>1, HookStep
  <2> QED
    BY <2>2, NotedLog, MovedTiming DEF Basics, SessionTypes, Moved
<1> QED
  BY <1>1, <1>2, <1>3 DEF SNext, HookActs

LEMMA BasicsInit == SInit => Basics
<1> SUFFICES ASSUME SInit PROVE Basics
  OBVIOUS
<1>1. PICK c \in Crews : hook = [x \in Hooks |-> [Idle EXCEPT !.pc = c[x]]]
  BY DEF SInit
<1>2. c \in [Hooks -> Kinds]
  BY <1>1, SessionsAssumption
<1>3. \A x \in Hooks : hook[x].id = NoRow
  BY <1>1 DEF Idle
<1>4. hook \in HookType
  BY <1>1, <1>2 DEF HookType, Idle, Kinds, Steps, Row, NoticeRow
<1>5. HookTiming
  BY <1>3 DEF HookTiming, Running
<1>6. log \in Seq(Entries) /\ LogTiming /\ RowTypes /\ now \in Nat
  BY DEF SInit, LogTiming, RowTypes, Row, NoticeRow
<1> QED
  BY <1>4, <1>5, <1>6 DEF Basics, SessionTypes

-----------------------------------------------------------------------------
(* Which step notes what.                                                   *)
Quiet(W) == log' = log \/ \E e \in Entries : Note(e) /\ e.what \notin W

LEMMA QuietEntries ==
  ASSUME SessionTypes, NEW W, Quiet(W)
  PROVE  /\ \A w \in W : Entry(w)' = Entry(w)
         /\ \A i \in DOMAIN log : i \in DOMAIN log' /\ log'[i] = log[i]
<1>1. CASE log' = log
  BY <1>1 DEF Entry
<1>2. CASE \E e \in Entries : Note(e) /\ e.what \notin W
  <2>1. PICK e \in Entries : Note(e) /\ e.what \notin W
    BY <1>2
  <2>2. log \in Seq(Entries)
    BY DEF SessionTypes
  <2> DEFINE n == Len(log) + 1
  <2>3. /\ DOMAIN log' = DOMAIN log \cup {n} /\ log'[n] = e
        /\ \A i \in DOMAIN log : log'[i] = log[i]
    BY <2>1, <2>2, NoteEffect, Zenon
  <2> HIDE DEF n
  <2> QED
    BY <2>1, <2>3 DEF Entry
<1> QED
  BY <1>1, <1>2 DEF Quiet

LEMMA NewEntry ==
  ASSUME SessionTypes, NEW e \in Entries, Note(e)
  PROVE  LET n == Len(log) + 1 IN
         /\ n \in Nat /\ n \notin DOMAIN log /\ log'[n] = e
         /\ \A i \in DOMAIN log : i < n /\ i \in Nat /\ log'[i] = log[i] /\ log[i] \in Entries /\ log[i].at \in Nat
         /\ \A w : Entry(w)' = IF e.what = w THEN Entry(w) \cup {n} ELSE Entry(w)
<1> DEFINE n == Len(log) + 1
<1>1. log \in Seq(Entries) /\ Len(log) \in Nat
  BY DEF SessionTypes
<1>2. /\ DOMAIN log' = DOMAIN log \cup {n} /\ log'[n] = e
      /\ \A i \in DOMAIN log : i \in 1..Len(log) /\ log'[i] = log[i]
  BY <1>1, NoteEffect, Zenon
<1>3. \A i \in DOMAIN log : i < n /\ i \in Nat
  BY <1>1, <1>2
<1>4. n \in Nat /\ n \notin DOMAIN log
  BY <1>1, <1>3
<1> HIDE DEF n
<1>5. \A i \in DOMAIN log : log[i] \in Entries /\ log[i].at \in Nat
  BY <1>1, EntryTime
<1>6. \A w : Entry(w)' = IF e.what = w THEN Entry(w) \cup {n} ELSE Entry(w)
  BY <1>2, <1>4 DEF Entry
<1>7. /\ n \in Nat /\ n \notin DOMAIN log /\ log'[n] = e
      /\ \A i \in DOMAIN log : i < n /\ i \in Nat /\ log'[i] = log[i] /\ log[i] \in Entries /\ log[i].at \in Nat
      /\ \A w : Entry(w)' = IF e.what = w THEN Entry(w) \cup {n} ELSE Entry(w)
  BY <1>2, <1>3, <1>4, <1>5, <1>6
<1> QED
  BY <1>7 DEF n

LEMMA NotedIsQuiet ==
  ASSUME NEW e \in Entries, NEW W, log' = log \/ Note(e), e.what \notin W
  PROVE  Quiet(W)
BY DEF Quiet

LEMMA HookNotes ==
  ASSUME Basics, NEW x \in Hooks, HookActs(x)
  PROVE  /\ Quiet({"stamp"}) \/ StartStamp(x)
         /\ Quiet({"claim", "delete"}) \/ StartNotice(x) \/ StartClean(x)
         /\ Quiet({"inject"}) \/ \E f \in Paths : ToolClaim(x, f)
         /\ Quiet({"first", "again"}) \/ StopPrint(x)
<1>t. now \in Nat /\ (hook[x].id # NoRow => hook[x].id \in Ids /\ hook[x].at \in Nat)
  BY RunningHook DEF Basics, SessionTypes
<1>r. hook[x].rank \in Nat
  BY DEF Basics, SessionTypes, HookType
<1>1. CASE log' = log
  BY <1>1 DEF Quiet
<1>2. CASE StartStamp(x)
  <2> DEFINE e == [what |-> "stamp", id |-> hook[x].id, at |-> hook[x].at]
  <2>1. e \in Entries /\ e.what = "stamp"
    BY <1>2, <1>t DEF Entries, StartStamp, At
  <2> HIDE DEF e
  <2>2. log' = log \/ Note(e)
    BY <1>2 DEF StartStamp, e
  <2>3. Quiet({"claim", "delete"}) /\ Quiet({"inject"}) /\ Quiet({"first", "again"})
    BY <2>1, <2>2, NotedIsQuiet
  <2> QED
    BY <1>2, <2>3
<1>3. CASE StartNotice(x)
  <2> DEFINE e == [what |-> "claim", at |-> hook[x].at, rank |-> hook[x].rank]
  <2>1. e \in Entries /\ e.what = "claim"
    BY <1>3, <1>t, <1>r DEF Entries, StartNotice, At
  <2> HIDE DEF e
  <2>2. log' = log \/ Note(e)
    BY <1>3 DEF StartNotice, e
  <2>3. Quiet({"stamp"}) /\ Quiet({"inject"}) /\ Quiet({"first", "again"})
    BY <2>1, <2>2, NotedIsQuiet
  <2> QED
    BY <1>3, <2>3
<1>4. CASE StartClean(x)
  <2> DEFINE e == [what |-> "delete", at |-> now]
  <2>1. e \in Entries /\ e.what = "delete"
    BY <1>t DEF Entries
  <2> HIDE DEF e
  <2>2. log' = log \/ Note(e)
    BY <1>4 DEF StartClean, e
  <2>3. Quiet({"stamp"}) /\ Quiet({"inject"}) /\ Quiet({"first", "again"})
    BY <2>1, <2>2, NotedIsQuiet
  <2> QED
    BY <1>4, <2>3
<1>5. CASE \E f \in Paths : ToolClaim(x, f)
  <2>1. PICK f \in Paths : ToolClaim(x, f)
    BY <1>5
  <2> DEFINE e == [what |-> "inject", id |-> hook[x].id, at |-> now, file |-> f, stamp |-> hook[x].at]
  <2>2. e \in Entries /\ e.what = "inject"
    BY <2>1, <1>t DEF Entries, ToolClaim, At
  <2> HIDE DEF e
  <2>3. log' = log \/ Note(e)
    BY <2>1 DEF ToolClaim, e
  <2>4. Quiet({"stamp"}) /\ Quiet({"claim", "delete"}) /\ Quiet({"first", "again"})
    BY <2>2, <2>3, NotedIsQuiet
  <2> QED
    BY <1>5, <2>4
<1>6. CASE StopPrint(x)
  <2> DEFINE e == [what |-> hook[x].pc, id |-> hook[x].id, at |-> now]
  <2>1. e \in Entries /\ e.what \in {"first", "again"}
    BY <1>6, <1>t DEF Entries, Ask, StopPrint, At
  <2> HIDE DEF e
  <2>2. Note(e)
    BY <1>6 DEF StopPrint, e
  <2>3. Quiet({"stamp"}) /\ Quiet({"claim", "delete"}) /\ Quiet({"inject"})
    BY <2>1, <2>2, NotedIsQuiet
  <2> QED
    BY <1>6, <2>3
<1> QED
  <2>1. ASSUME Fire(x) \/ Die(x) \/ StartPeek(x) \/ StartPrune(x) \/ StartRecorded(x) \/ StartCheck(x)
        PROVE  log' = log
    BY <2>1 DEF Fire, Die, StartPeek, StartPrune, StartRecorded, StartCheck
  <2>2. ASSUME \/ ToolSelect(x) \/ StopLedger(x) \/ StopAsk(x)
               \/ StopSwap(x) \/ StopMark(x) \/ StopStamp(x)
        PROVE  log' = log
    BY <2>2 DEF ToolSelect, StopLedger, StopAsk, StopSwap, StopMark, StopStamp
  <2> QED
    BY <1>1, <1>2, <1>3, <1>4, <1>5, <1>6, <2>1, <2>2 DEF HookActs

(* Only the step named in the disjunct may write the row.                    *)
LEMMA HookWrites ==
  ASSUME NEW x \in Hooks, HookActs(x)
  PROVE  /\ start' = start \/ StartStamp(x)
         /\ notice' = notice \/ StartNotice(x) \/ StartClean(x)
         /\ claim' = claim \/ StartPrune(x) \/ \E f \in Paths : ToolClaim(x, f)
         /\ captured' = captured \/ StopMark(x)
         /\ rearm' = rearm \/ StartPrune(x) \/ StopSwap(x) \/ StopStamp(x)
<1>1. CASE \/ Fire(x) \/ Die(x) \/ StartPeek(x) \/ StartRecorded(x) \/ StartCheck(x)
           \/ ToolSelect(x) \/ StopLedger(x) \/ StopAsk(x) \/ StopPrint(x)
  BY <1>1 DEF Fire, Die, Fault, rows, StartPeek, StartRecorded, StartCheck, ToolSelect, StopLedger, StopAsk, StopPrint
<1>2. CASE StartStamp(x)
  BY <1>2 DEF StartStamp, Fault, rows
<1>3. CASE StartPrune(x)
  BY <1>3 DEF StartPrune, Fault, rows
<1>4. CASE StartNotice(x)
  BY <1>4 DEF StartNotice, Fault, rows
<1>5. CASE StartClean(x)
  BY <1>5 DEF StartClean, Fault, rows
<1>6. CASE \E f \in Paths : ToolClaim(x, f)
  BY <1>6 DEF ToolClaim, Fault, rows
<1>7. CASE StopSwap(x)
  BY <1>7 DEF StopSwap, Fault, rows
<1>8. CASE StopMark(x)
  BY <1>8 DEF StopMark, Fault, rows
<1>9. CASE StopStamp(x)
  BY <1>9 DEF StopStamp, Fault, rows
<1> QED
  BY <1>1, <1>2, <1>3, <1>4, <1>5, <1>6, <1>7, <1>8, <1>9 DEF HookActs

(* A later mark within d of an earlier one is within d of all between them.   *)
LEMMA Between ==
  ASSUME NEW a \in Nat, NEW l \in Nat, NEW t \in Nat, NEW d \in Nat,
         Span < d, a <= l + Span, l <= t + Span,
         a < t + d, t < a + d, ~(l < t + d /\ t < l + d)
  PROVE  a < l + d /\ l < a + d
BY SessionsAssumption

-----------------------------------------------------------------------------
(* SessionStart: the row holds the last stamp.                              *)
StartInv ==
    /\ start = NoRow => Entry("stamp") = {}
    /\ start # NoRow =>
          \E l \in Entry("stamp") : /\ log[l].id = start.id /\ log[l].at = start.at
                                    /\ \A k \in Entry("stamp") : k <= l

LEMMA StampStep ==
  ASSUME Basics, StartInv, MapOncePerStart, Span < Dedupe, NEW x \in Hooks, StartStamp(x), log' # log
  PROVE  StartInv' /\ MapOncePerStart'
<1> DEFINE s == hook[x].id
           t == hook[x].at
           e == [what |-> "stamp", id |-> s, at |-> t]
           n == Len(log) + 1
<1>1. Note(e) /\ ~Recent(s, t) /\ start' = [id |-> s, at |-> t] /\ s # NoRow
  BY DEF StartStamp, At
<1>2. s \in Ids /\ t \in Nat /\ t <= now /\ now <= t + Span /\ now \in Nat /\ Dedupe \in Nat /\ Span \in Nat
  BY <1>1, RunningHook, SessionsAssumption
<1>3. e \in Entries /\ e.what = "stamp" /\ e.id = s /\ e.at = t
  BY <1>2 DEF Entries
<1>4. start' # NoRow /\ start'.id = s /\ start'.at = t
  BY <1>1, <1>2, SessionsAssumption
<1>5. start \in {NoRow} \cup [id : Ids, at : Nat] /\ LogTiming
  BY DEF Basics, SessionTypes, RowTypes
<1> HIDE DEF e, s, t
<1>6. /\ n \in Nat /\ n \notin DOMAIN log /\ log'[n] = e
      /\ \A i \in DOMAIN log : i < n /\ i \in Nat /\ log'[i] = log[i] /\ log[i] \in Entries /\ log[i].at \in Nat
      /\ Entry("stamp")' = Entry("stamp") \cup {n}
  BY <1>1, <1>3, NewEntry DEF Basics
<1> HIDE DEF n
<1>7. Entry("stamp") \subseteq DOMAIN log
  BY DEF Entry
<1>8. StartInv'
  <2>1. \A k \in Entry("stamp")' : k <= n
    BY <1>6, <1>7
  <2> QED
    BY <2>1, <1>3, <1>4, <1>6 DEF StartInv
<1>9. ASSUME NEW i \in Entry("stamp"), log[i].id = s, log[i].at < t + Dedupe, t < log[i].at + Dedupe
      PROVE  \E k \in Entry("stamp") : i < k /\ k < n /\ log[k].id # log[i].id
  <2>1. PICK l \in Entry("stamp") : /\ start # NoRow /\ log[l].id = start.id /\ log[l].at = start.at
                                    /\ \A k \in Entry("stamp") : k <= l
    BY <1>9 DEF StartInv
  <2>2. i \in DOMAIN log /\ l \in DOMAIN log /\ i <= l /\ l < n
    BY <2>1, <1>6, <1>7, <1>9
  <2>3. log[i].at \in Nat /\ log[l].at \in Nat /\ i \in Nat /\ l \in Nat
    BY <2>2, <1>6
  <2>4. CASE log[l].id # s
    BY <2>1, <2>2, <2>3, <2>4, <1>9
  <2>5. CASE log[l].id = s
    <3>1. ~(log[l].at < t + Dedupe /\ t < log[l].at + Dedupe)
      BY <1>1, <1>2, <2>1, <2>3, <2>5 DEF Recent
    <3>2. i < l
      BY <3>1, <2>2, <2>3, <1>9
    <3>3. log[i].at <= log[l].at + Span /\ log[l].at <= t + Span
      BY <3>2, <2>2, <2>3, <1>2, <1>5 DEF LogTiming
    <3>4. Near(i, l, Dedupe)
      BY <3>1, <3>3, <2>3, <1>2, <1>9, Between DEF Near
    <3>5. PICK k \in Entry("stamp") : i < k /\ k < l /\ log[k].id # log[i].id
      BY <3>2, <3>4, <2>5, <1>9 DEF MapOncePerStart
    <3>6. k < n
      BY <3>5, <1>6, <1>7
    <3> QED
      BY <3>5, <3>6
  <2> QED
    BY <2>4, <2>5
<1>10. MapOncePerStart'
  <2> SUFFICES ASSUME NEW i \in Entry("stamp")', NEW j \in Entry("stamp")', i < j,
                      log'[i].id = log'[j].id, Near(i, j, Dedupe)'
               PROVE  \E k \in Entry("stamp")' : i < k /\ k < j /\ log'[k].id # log'[i].id
    BY DEF MapOncePerStart
  <2>1. i \in Entry("stamp")
    BY <1>6, <1>7
  <2>2. CASE j = n
    <3>1. log[i].id = s /\ log[i].at < t + Dedupe /\ t < log[i].at + Dedupe
      BY <2>1, <2>2, <1>3, <1>6, <1>7 DEF Near
    <3>2. PICK k \in Entry("stamp") : i < k /\ k < n /\ log[k].id # log[i].id
      BY <3>1, <2>1, <1>9
    <3> QED
      BY <3>2, <2>1, <2>2, <1>6, <1>7
  <2>3. CASE j \in Entry("stamp")
    <3>1. Near(i, j, Dedupe) /\ log[i].id = log[j].id
      BY <2>1, <2>3, <1>6, <1>7 DEF Near
    <3>2. PICK k \in Entry("stamp") : i < k /\ k < j /\ log[k].id # log[i].id
      BY <3>1, <2>1, <2>3 DEF MapOncePerStart
    <3> QED
      BY <3>2, <2>1, <1>6, <1>7
  <2> QED
    BY <2>2, <2>3, <1>6
<1> QED
  BY <1>8, <1>10

LEMMA StampsKept ==
  ASSUME SessionTypes, StartInv, MapOncePerStart, start' = start, Quiet({"stamp"})
  PROVE  StartInv' /\ MapOncePerStart'
<1>1. Entry("stamp")' = Entry("stamp") /\ \A i \in DOMAIN log : log'[i] = log[i]
  BY QuietEntries
<1>2. Entry("stamp") \subseteq DOMAIN log
  BY DEF Entry
<1>3. StartInv'
  BY <1>1, <1>2 DEF StartInv
<1>4. \A i, j \in Entry("stamp") : Near(i, j, Dedupe)' = Near(i, j, Dedupe)
  BY <1>1, <1>2 DEF Near
<1>5. MapOncePerStart'
  BY <1>1, <1>2, <1>4 DEF MapOncePerStart
<1> QED
  BY <1>3, <1>5

(* What two registrations of one hook, or two starts within a minute, print: *)
(* a session gets the map once, unless a lock refused the stamp or another    *)
(* session started in between.  A start stamps within the window.             *)
THEOREM OneMapPerStart == Span < Dedupe => (SSpec => []MapOncePerStart)
<1> SUFFICES ASSUME Span < Dedupe PROVE SSpec => []MapOncePerStart
  OBVIOUS
<1>1. SInit => Basics /\ StartInv /\ MapOncePerStart
  <2>1. SInit => log = <<>> /\ start = NoRow
    BY DEF SInit
  <2>2. SInit => Entry("stamp") = {}
    BY <2>1 DEF Entry
  <2> QED
    BY <2>1, <2>2, BasicsInit DEF StartInv, MapOncePerStart
<1>2. Basics /\ StartInv /\ MapOncePerStart /\ [SNext]_svars => Basics' /\ StartInv' /\ MapOncePerStart'
  <2> SUFFICES ASSUME Basics, StartInv, MapOncePerStart, [SNext]_svars
               PROVE  StartInv' /\ MapOncePerStart'
    BY BasicsKept
  <2>1. CASE start' = start /\ log' = log
    BY <2>1, StampsKept DEF Quiet, Basics
  <2>2. CASE \E x \in Hooks : HookActs(x)
    <3>1. PICK x \in Hooks : HookActs(x)
      BY <2>2
    <3>2. CASE StartStamp(x) /\ log' # log
      BY <3>2, StampStep
    <3>3. CASE StartStamp(x) /\ log' = log
      <4>1. start' = start
        BY <3>3 DEF StartStamp, Fault, rows, Note, Basics, SessionTypes
      <4> QED
        BY <4>1, <3>3, <2>1
    <3>4. CASE ~StartStamp(x)
      <4>1. start' = start /\ Quiet({"stamp"})
        BY <3>1, <3>4, HookNotes, HookWrites
      <4> QED
        BY <4>1, StampsKept DEF Basics
    <3> QED
      BY <3>2, <3>3, <3>4
  <2>3. Tick \/ UNCHANGED svars => start' = start /\ log' = log
    BY DEF Tick, rows, svars
  <2> QED
    BY <2>1, <2>2, <2>3 DEF SNext, HookActs
<1> QED
  BY <1>1, <1>2, PTL DEF SSpec

-----------------------------------------------------------------------------
(* The notice: the row holds the last claim, and once it is gone a deletion   *)
(* follows every claim.                                                     *)
NoticeInv ==
    /\ notice = NoRow => \A i \in Entry("claim") : \E k \in Entry("delete") : i < k
    /\ notice # NoRow =>
          \E l \in Entry("claim") : /\ log[l].at = notice.at /\ log[l].rank = notice.rank
                                   /\ \A k \in Entry("claim") : k <= l

LEMMA ClaimEntry ==
  ASSUME SessionTypes, NEW i \in Entry("claim")
  PROVE  i \in DOMAIN log /\ i \in Nat /\ log[i].at \in Nat /\ log[i].rank \in Nat
<1>1. i \in DOMAIN log /\ log[i] \in Entries /\ log[i].what = "claim" /\ i \in Nat
  BY DEF Entry, SessionTypes
<1>2. log[i] \in [what : {"claim"}, at : Nat, rank : Nat]
  BY <1>1 DEF Entries, Ask
<1> QED
  BY <1>1, <1>2

LEMMA ClaimStep ==
  ASSUME Basics, NoticeInv, NoticeOncePerDay, NEW x \in Hooks, StartNotice(x), log' # log
  PROVE  NoticeInv' /\ NoticeOncePerDay'
<1> DEFINE t == hook[x].at
           rank == hook[x].rank
           e == [what |-> "claim", at |-> t, rank |-> rank]
           m == Len(log) + 1
<1>1. Note(e) /\ Due(notice, rank, t) /\ notice' = [rank |-> rank, at |-> t] /\ hook[x].id # NoRow
  BY DEF StartNotice, At
<1>2. t \in Nat /\ t <= now /\ now <= t + Span /\ now \in Nat /\ Repeat \in Nat /\ Span \in Nat /\ Span < Repeat
  BY <1>1, RunningHook, SessionsAssumption
<1>r. rank \in Nat
  BY DEF Basics, SessionTypes, HookType
<1>3. e \in Entries /\ e.what = "claim" /\ e.at = t /\ e.rank = rank
  BY <1>2, <1>r DEF Entries
<1>4. notice' # NoRow /\ notice'.at = t /\ notice'.rank = rank
  BY <1>1, <1>2, <1>r, SessionsAssumption
<1>5. LogTiming
  BY DEF Basics
<1> HIDE DEF e, t, rank
<1>m. /\ m \in Nat /\ m \notin DOMAIN log /\ log'[m] = e
      /\ \A i \in DOMAIN log : i < m /\ i \in Nat /\ log'[i] = log[i] /\ log[i] \in Entries /\ log[i].at \in Nat
      /\ Entry("claim")' = Entry("claim") \cup {m} /\ Entry("delete")' = Entry("delete")
  BY <1>1, <1>3, NewEntry DEF Basics
<1> HIDE DEF m
<1>6. PICK n \in Nat :
        /\ n \notin DOMAIN log /\ log'[n] = e
        /\ \A i \in DOMAIN log : i < n /\ i \in Nat /\ log'[i] = log[i] /\ log[i] \in Entries /\ log[i].at \in Nat
        /\ Entry("claim")' = Entry("claim") \cup {n} /\ Entry("delete")' = Entry("delete")
  BY <1>m
<1>7. Entry("claim") \subseteq DOMAIN log /\ Entry("delete") \subseteq DOMAIN log
  BY DEF Entry
<1>8. NoticeInv'
  <2>1. \A k \in Entry("claim")' : k <= n
    BY <1>6, <1>7
  <2>2. n \in Entry("claim")' /\ log'[n].at = notice'.at /\ log'[n].rank = notice'.rank
    BY <1>3, <1>4, <1>6
  <2> QED
    BY <2>1, <2>2, <1>4 DEF NoticeInv
<1>w. \A i, j \in Entry("claim") : GotWorse(i, j) => GotWorse(i, j)'
  BY <1>6, <1>7 DEF GotWorse
<1>9. ASSUME NEW i \in Entry("claim"), log[i].at < t + Repeat, t < log[i].at + Repeat
      PROVE  (\E k \in Entry("delete") : i < k) \/ GotWorse(i, n)'
  <2>1. CASE notice = NoRow
    BY <2>1, <1>9 DEF NoticeInv
  <2>2. CASE notice # NoRow
    <3>1. PICK l \in Entry("claim") : /\ log[l].at = notice.at /\ log[l].rank = notice.rank
                                      /\ \A k \in Entry("claim") : k <= l
      BY <2>2 DEF NoticeInv
    <3>2. i \in DOMAIN log /\ l \in DOMAIN log /\ i <= l /\ l < n
      BY <3>1, <1>6, <1>7, <1>9
    <3>3. log[i].at \in Nat /\ log[l].at \in Nat /\ i \in Nat /\ l \in Nat /\ log[l].rank \in Nat
      BY <3>1, ClaimEntry DEF Basics
    <3>4. CASE rank > log[l].rank
      <4>1. n \in Entry("claim")' /\ l \in Entry("claim")' /\ log'[l].rank < log'[n].rank
        BY <3>2, <3>3, <3>4, <1>3, <1>6, <1>r, <3>1
      <4>2. n <= n
        BY <1>6
      <4> QED
        BY <4>1, <4>2, <3>2, Zenon DEF GotWorse
    <3>5. CASE ~(rank > log[l].rank)
      <4>4. ~(log[l].at < t + Repeat /\ t < log[l].at + Repeat)
        BY <1>1, <2>2, <3>1, <3>5 DEF Due
      <4>5. i < l
        BY <3>2, <3>3, <4>4, <1>9
      <4>6. log[i].at <= log[l].at + Span /\ log[l].at <= t + Span
        BY <4>5, <3>2, <3>3, <1>2, <1>5 DEF LogTiming
      <4>7. Near(i, l, Repeat)
        BY <3>3, <4>4, <4>6, <1>2, <1>9, Between DEF Near
      <4>8. (\E k \in Entry("delete") : i < k) \/ GotWorse(i, l)
        BY <3>1, <4>5, <4>7, <1>9 DEF NoticeOncePerDay
      <4>9. GotWorse(i, l)' => GotWorse(i, n)'
        <5>1. \A k \in Entry("claim")' : k <= l => k <= n
          BY <3>2, <3>3, <1>6, <1>7
        <5> QED
          BY <5>1, Zenon DEF GotWorse
      <4> QED
        BY <4>8, <4>9, <3>1, <1>w, <1>9
    <3> QED
      BY <3>4, <3>5
  <2> QED
    BY <2>1, <2>2
<1>10. NoticeOncePerDay'
  <2> SUFFICES ASSUME NEW i \in Entry("claim")', NEW j \in Entry("claim")', i < j, Near(i, j, Repeat)'
               PROVE  (\E k \in Entry("delete")' : i < k /\ k < j) \/ GotWorse(i, j)'
    BY DEF NoticeOncePerDay
  <2>1. i \in Entry("claim")
    BY <1>6, <1>7
  <2>2. CASE j = n
    <3>1. log[i].at < t + Repeat /\ t < log[i].at + Repeat
      BY <2>1, <2>2, <1>3, <1>6, <1>7 DEF Near
    <3>2. (\E k \in Entry("delete") : i < k) \/ GotWorse(i, n)'
      BY <3>1, <2>1, <1>9
    <3>3. GotWorse(i, n)' => GotWorse(i, j)'
      BY <2>2 DEF GotWorse
    <3> QED
      BY <3>2, <3>3, <2>2, <1>6, <1>7
  <2>3. CASE j \in Entry("claim")
    <3>1. Near(i, j, Repeat)
      BY <2>1, <2>3, <1>6, <1>7 DEF Near
    <3> QED
      BY <3>1, <2>1, <2>3, <1>6, <1>w DEF NoticeOncePerDay
  <2> QED
    BY <2>2, <2>3, <1>6
<1> QED
  BY <1>8, <1>10

LEMMA DeleteStep ==
  ASSUME Basics, NoticeInv, NoticeOncePerDay, NEW x \in Hooks, StartClean(x), log' # log
  PROVE  NoticeInv' /\ NoticeOncePerDay'
<1> DEFINE e == [what |-> "delete", at |-> now]
           n == Len(log) + 1
<1>1. Note(e) /\ notice' = NoRow
  BY DEF StartClean
<1>2. e \in Entries /\ e.what = "delete"
  BY DEF Entries, Basics, SessionTypes
<1> HIDE DEF e
<1>3. /\ n \in Nat /\ n \notin DOMAIN log /\ log'[n] = e
      /\ \A i \in DOMAIN log : i < n /\ i \in Nat /\ log'[i] = log[i]
      /\ Entry("claim")' = Entry("claim") /\ Entry("delete")' = Entry("delete") \cup {n}
  BY <1>1, <1>2, NewEntry DEF Basics
<1> HIDE DEF n
<1>4. Entry("claim") \subseteq DOMAIN log
  BY DEF Entry
<1>5. NoticeInv'
  BY <1>1, <1>3, <1>4 DEF NoticeInv
<1>6. \A i, j \in Entry("claim") : Near(i, j, Repeat)' = Near(i, j, Repeat) /\ GotWorse(i, j)' = GotWorse(i, j)
  BY <1>3, <1>4 DEF Near, GotWorse
<1>7. NoticeOncePerDay'
  BY <1>3, <1>6 DEF NoticeOncePerDay
<1> QED
  BY <1>5, <1>7

LEMMA ClaimsKept ==
  ASSUME SessionTypes, NoticeInv, NoticeOncePerDay, notice' = notice, Quiet({"claim", "delete"})
  PROVE  NoticeInv' /\ NoticeOncePerDay'
<1>1. /\ Entry("claim")' = Entry("claim") /\ Entry("delete")' = Entry("delete")
      /\ \A i \in DOMAIN log : log'[i] = log[i]
  BY QuietEntries
<1>2. Entry("claim") \subseteq DOMAIN log
  BY DEF Entry
<1>3. NoticeInv'
  BY <1>1, <1>2 DEF NoticeInv
<1>4. \A i, j \in Entry("claim") : Near(i, j, Repeat)' = Near(i, j, Repeat) /\ GotWorse(i, j)' = GotWorse(i, j)
  BY <1>1, <1>2 DEF Near, GotWorse
<1>5. NoticeOncePerDay'
  BY <1>1, <1>4 DEF NoticeOncePerDay
<1> QED
  BY <1>3, <1>5

(* A notice that one start claimed is claimed again within the day only after *)
(* a start that found the problem gone or because the problem got worse,      *)
(* whatever starts run side by side.                                         *)
THEOREM OneNoticePerDay == SSpec => []NoticeOncePerDay
<1>1. SInit => Basics /\ NoticeInv /\ NoticeOncePerDay
  <2>1. SInit => log = <<>> /\ notice = NoRow
    BY DEF SInit
  <2>2. SInit => Entry("claim") = {}
    BY <2>1 DEF Entry
  <2> QED
    BY <2>1, <2>2, BasicsInit DEF NoticeInv, NoticeOncePerDay
<1>2. Basics /\ NoticeInv /\ NoticeOncePerDay /\ [SNext]_svars => Basics' /\ NoticeInv' /\ NoticeOncePerDay'
  <2> SUFFICES ASSUME Basics, NoticeInv, NoticeOncePerDay, [SNext]_svars
               PROVE  NoticeInv' /\ NoticeOncePerDay'
    BY BasicsKept
  <2>1. CASE notice' = notice /\ log' = log
    BY <2>1, ClaimsKept DEF Quiet, Basics
  <2>2. CASE \E x \in Hooks : HookActs(x)
    <3>1. PICK x \in Hooks : HookActs(x)
      BY <2>2
    <3>2. CASE (StartNotice(x) \/ StartClean(x)) /\ log' # log
      BY <3>2, ClaimStep, DeleteStep
    <3>3. CASE (StartNotice(x) \/ StartClean(x)) /\ log' = log
      <4>1. \A e : Note(e) => log' # log
        BY DEF Note, Basics, SessionTypes
      <4>2. notice' = notice
        BY <3>3, <4>1 DEF StartNotice, StartClean, Fault, rows
      <4> QED
        BY <4>2, <3>3, <2>1
    <3>4. CASE ~StartNotice(x) /\ ~StartClean(x)
      <4>1. notice' = notice /\ Quiet({"claim", "delete"})
        BY <3>1, <3>4, HookNotes, HookWrites
      <4> QED
        BY <4>1, ClaimsKept DEF Basics
    <3> QED
      BY <3>2, <3>3, <3>4
  <2>3. Tick \/ UNCHANGED svars => notice' = notice /\ log' = log
    BY DEF Tick, rows, svars
  <2> QED
    BY <2>1, <2>2, <2>3 DEF SNext, HookActs
<1> QED
  BY <1>1, <1>2, PTL DEF SSpec

-----------------------------------------------------------------------------
(* PreToolUse: what an agent was told of is on record until it expires.      *)
ClaimInv ==
    \A i \in Entry("inject") :
        claim[log[i].id][log[i].file] = log[i].stamp \/ log[i].stamp + Retention < now

LEMMA InjectEntry ==
  ASSUME SessionTypes, NEW i \in Entry("inject")
  PROVE  /\ log[i].id \in Ids /\ log[i].file \in Paths /\ log[i].stamp \in Nat /\ log[i].at \in Nat
         /\ i \in DOMAIN log /\ i \in Nat
<1>1. i \in DOMAIN log /\ log[i] \in Entries /\ log[i].what = "inject" /\ i \in Nat
  BY DEF Entry, SessionTypes
<1>2. log[i] \in [what : {"inject"}, id : Ids, at : Nat, file : Paths, stamp : Nat]
  BY <1>1 DEF Entries, Ask
<1> QED
  BY <1>1, <1>2

(* The records that have not expired are of different files.                 *)
LEMMA UnexpiredAreClaimed ==
  ASSUME Basics, ClaimInv, FileToldOnce, NEW s \in Ids
  PROVE  LET K == {k \in Entry("inject") : log[k].id = s /\ log[k].stamp + Retention >= now} IN
         IsFiniteSet(K) /\ Cardinality(K) <= Cardinality(Live(s)) /\ IsFiniteSet(Live(s))
<1> DEFINE K == {k \in Entry("inject") : log[k].id = s /\ log[k].stamp + Retention >= now}
           g == [k \in K |-> log[k].file]
<1>t. now \in Nat /\ Retention \in Nat /\ SessionTypes /\ LogTiming
  BY SessionsAssumption DEF Basics, SessionTypes
<1>1. ASSUME NEW k \in K PROVE log[k].file \in Live(s)
  <2>1. log[k].file \in Paths /\ log[k].stamp \in Nat /\ log[k].id = s
    BY <1>1, <1>t, InjectEntry
  <2>2. claim[s][log[k].file] = log[k].stamp
    BY <1>1, <1>t, <2>1 DEF ClaimInv
  <2> QED
    BY <2>1, <2>2, SessionsAssumption DEF Live
<1>2. ASSUME NEW k \in K, NEW l \in K, k < l PROVE log[k].file # log[l].file
  <2>1. log[k].stamp \in Nat /\ log[l].at \in Nat /\ k \in Nat /\ l \in Nat /\ l \in DOMAIN log
    BY <1>t, InjectEntry
  <2>2. log[l].at <= now
    BY <2>1, <1>t DEF LogTiming
  <2>3. ~(log[k].stamp + Retention < log[l].at)
    BY <2>1, <2>2, <1>t
  <2> QED
    BY <2>3, <1>2 DEF FileToldOnce
<1>3. ASSUME NEW k \in K, NEW l \in K, k # l PROVE log[k].file # log[l].file
  <2>1. k \in Nat /\ l \in Nat
    BY <1>t, InjectEntry
  <2>2. k < l \/ l < k
    BY <2>1, <1>3
  <2> QED
    BY <2>2, <1>2
<1>4. g \in Injection(K, Live(s))
  <2>1. g \in [K -> Live(s)]
    BY <1>1
  <2>2. \A a, b \in K : g[a] = g[b] => a = b
    BY <1>3
  <2> QED
    BY <2>1, <2>2, Fun_IsInj
<1>5. IsFiniteSet(Live(s))
  BY SessionsAssumption, FS_Subset DEF Live
<1> HIDE DEF K, g
<1>6. IsFiniteSet(K) /\ Cardinality(K) <= Cardinality(Live(s))
  BY <1>4, <1>5, FS_Injection
<1> QED
  BY <1>5, <1>6 DEF K

LEMMA InjectStep ==
  ASSUME Basics, ClaimInv, FileToldOnce, NEW x \in Hooks, NEW f \in Paths, ToolClaim(x, f), log' # log
  PROVE  ClaimInv' /\ FileToldOnce'
<1> DEFINE s == hook[x].id
           t == hook[x].at
           e == [what |-> "inject", id |-> s, at |-> now, file |-> f, stamp |-> t]
           n == Len(log) + 1
<1>1. /\ Note(e) /\ claim' = [claim EXCEPT ![s][f] = t] /\ s # NoRow
      /\ claim[s][f] = NoRow /\ Cardinality(Live(s)) < Cap /\ now' = now
  BY DEF ToolClaim, At
<1>2. s \in Ids /\ t \in Nat /\ now \in Nat /\ Retention \in Nat /\ Cap \in Nat
  BY <1>1, RunningHook, SessionsAssumption
<1>3. e \in Entries /\ e.what = "inject" /\ e.id = s /\ e.at = now /\ e.file = f /\ e.stamp = t
  BY <1>2 DEF Entries
<1>t. SessionTypes /\ claim \in [Ids -> [Paths -> Row]]
  BY DEF Basics, SessionTypes, RowTypes
<1>4. claim'[s][f] = t /\ \A r \in Ids : \A g \in Paths : r # s \/ g # f => claim'[r][g] = claim[r][g]
  BY <1>1, <1>2, <1>t
<1> HIDE DEF e, s, t
<1>6. /\ n \in Nat /\ n \notin DOMAIN log /\ log'[n] = e
      /\ \A i \in DOMAIN log : i < n /\ i \in Nat /\ log'[i] = log[i]
      /\ Entry("inject")' = Entry("inject") \cup {n}
  BY <1>1, <1>3, <1>t, NewEntry
<1> HIDE DEF n
<1>7. Entry("inject") \subseteq DOMAIN log
  BY DEF Entry
<1>8. ASSUME NEW i \in Entry("inject"), log[i].id = s, log[i].stamp + Retention >= now
      PROVE  log[i].file # f
  <2>1. log[i].stamp \in Nat
    BY <1>t, InjectEntry
  <2>2. claim[s][log[i].file] = log[i].stamp
    BY <1>8, <1>2, <2>1 DEF ClaimInv
  <2> QED
    BY <2>1, <2>2, <1>1, SessionsAssumption
<1>9. ClaimInv'
  <2> SUFFICES ASSUME NEW i \in Entry("inject")'
               PROVE  \/ claim'[log'[i].id][log'[i].file] = log'[i].stamp
                      \/ log'[i].stamp + Retention < now
    BY <1>1 DEF ClaimInv
  <2>1. CASE i = n
    BY <2>1, <1>3, <1>4, <1>6
  <2>2. CASE i \in Entry("inject")
    <3>1. log[i].id \in Ids /\ log[i].file \in Paths /\ log[i].stamp \in Nat /\ log'[i] = log[i]
      BY <2>2, <1>t, <1>6, <1>7, InjectEntry
    <3>2. log[i].stamp + Retention < now \/ claim'[log[i].id][log[i].file] = claim[log[i].id][log[i].file]
      BY <3>1, <2>2, <1>2, <1>4, <1>8
    <3> QED
      BY <3>1, <3>2, <2>2 DEF ClaimInv
  <2> QED
    BY <2>1, <2>2, <1>6
<1> DEFINE K0 == {k \in Entry("inject") : log[k].id = s /\ log[k].stamp + Retention >= now}
           K(j) == {k \in Entry("inject") : k <= j /\ log[k].id = log[j].id /\ log[k].stamp + Retention >= log[j].at}
           K1(j) == {k \in Entry("inject")' : k <= j /\ log'[k].id = log'[j].id
                                              /\ log'[k].stamp + Retention >= log'[j].at}
<1>10. Cardinality(K1(n)) <= Cap
  <2>1. IsFiniteSet(K0) /\ Cardinality(K0) <= Cardinality(Live(s)) /\ IsFiniteSet(Live(s))
    BY <1>2, UnexpiredAreClaimed
  <2>2. K1(n) \subseteq K0 \cup {n}
    BY <1>3, <1>6, <1>7
  <2> HIDE DEF K0, K1
  <2>3. /\ IsFiniteSet(K0 \cup {n}) /\ Cardinality(K0 \cup {n}) <= Cardinality(K0) + 1
        /\ Cardinality(K0) \in Nat /\ Cardinality(Live(s)) \in Nat
    <3>1. Cardinality(K0) \in Nat /\ Cardinality(Live(s)) \in Nat
      BY <2>1, FS_CardinalityType
    <3>2. /\ IsFiniteSet(K0 \cup {n})
          /\ Cardinality(K0 \cup {n}) = IF n \in K0 THEN Cardinality(K0) ELSE Cardinality(K0) + 1
      BY <2>1, FS_AddElement, Zenon
    <3> QED
      BY <3>1, <3>2
  <2>4. Cardinality(K1(n)) <= Cardinality(K0 \cup {n}) /\ Cardinality(K1(n)) \in Nat /\ Cardinality(K0 \cup {n}) \in Nat
    BY <2>2, <2>3, FS_Subset, FS_CardinalityType
  <2> QED
    BY <2>1, <2>3, <2>4, <1>1, <1>2
<1>11. \A j \in Entry("inject") : K1(j) = K(j)
  <2> SUFFICES ASSUME NEW j \in Entry("inject") PROVE K1(j) = K(j)
    OBVIOUS
  <2>1. log'[j] = log[j] /\ ~(n <= j) /\ j \in Nat
    BY <1>6, <1>7
  <2> QED
    BY <2>1, <1>6, <1>7
<1>12. FileToldOnce'
  <2> SUFFICES ASSUME NEW i \in Entry("inject")', NEW j \in Entry("inject")', i < j, log'[i].id = log'[j].id
               PROVE  \/ log'[i].stamp + Retention < log'[j].at
                      \/ log'[i].file # log'[j].file /\ Cardinality(K1(j)) <= Cap
    BY DEF FileToldOnce
  <2>1. i \in Entry("inject") /\ log'[i] = log[i]
    BY <1>6, <1>7
  <2>2. CASE j = n
    <3>1. log[i].stamp \in Nat
      BY <2>1, <1>t, InjectEntry
    <3>2. CASE log[i].stamp + Retention >= now
      BY <3>2, <2>1, <2>2, <1>3, <1>6, <1>8, <1>10
    <3> QED
      BY <3>1, <3>2, <2>1, <2>2, <1>2, <1>3, <1>6
  <2>3. CASE j \in Entry("inject")
    <3>1. log'[j] = log[j] /\ K1(j) = K(j)
      BY <2>3, <1>6, <1>7, <1>11
    <3>2. \/ log[i].stamp + Retention < log[j].at
          \/ log[i].file # log[j].file /\ Cardinality(K(j)) <= Cap
      BY <3>1, <2>1, <2>3 DEF FileToldOnce
    <3> QED
      BY <3>1, <3>2, <2>1
  <2> QED
    BY <2>2, <2>3, <1>6
<1> QED
  BY <1>9, <1>12

LEMMA InjectsKept ==
  ASSUME SessionTypes, ClaimInv, FileToldOnce, Quiet({"inject"}), now' \in Nat, now <= now',
         \A s \in Ids : \A f \in Paths :
            claim'[s][f] = claim[s][f] \/ claim[s][f] = NoRow \/ claim[s][f] + Retention < now'
  PROVE  ClaimInv' /\ FileToldOnce'
<1>1. Entry("inject")' = Entry("inject") /\ \A i \in DOMAIN log : log'[i] = log[i]
  BY QuietEntries
<1>2. ClaimInv'
  <2> SUFFICES ASSUME NEW i \in Entry("inject")
               PROVE  \/ claim'[log[i].id][log[i].file] = log[i].stamp
                      \/ log[i].stamp + Retention < now'
    BY <1>1, InjectEntry DEF ClaimInv
  <2>1. log[i].id \in Ids /\ log[i].file \in Paths /\ log[i].stamp \in Nat /\ now \in Nat /\ Retention \in Nat
    BY InjectEntry, SessionsAssumption DEF SessionTypes
  <2>2. claim[log[i].id][log[i].file] = log[i].stamp \/ log[i].stamp + Retention < now
    BY DEF ClaimInv
  <2> QED
    BY <2>1, <2>2, SessionsAssumption
<1> DEFINE K(j) == {k \in Entry("inject") : k <= j /\ log[k].id = log[j].id /\ log[k].stamp + Retention >= log[j].at}
           K1(j) == {k \in Entry("inject")' : k <= j /\ log'[k].id = log'[j].id
                                              /\ log'[k].stamp + Retention >= log'[j].at}
<1>3. ASSUME NEW j \in Entry("inject") PROVE K1(j) = K(j) /\ log'[j] = log[j]
  BY <1>1, InjectEntry
<1>4. FileToldOnce'
  <2> SUFFICES ASSUME NEW i \in Entry("inject"), NEW j \in Entry("inject"), i < j, log[i].id = log[j].id
               PROVE  \/ log[i].stamp + Retention < log[j].at
                      \/ log[i].file # log[j].file /\ Cardinality(K1(j)) <= Cap
    BY <1>1, <1>3 DEF FileToldOnce
  <2> QED
    BY <1>3 DEF FileToldOnce
<1> QED
  BY <1>2, <1>4

(* Parallel reads of one agent, whatever is refused or expires: no file is    *)
(* told again before its record expires, and no more than Cap files are.      *)
THEOREM FilesAreToldOnce == SSpec => []FileToldOnce
<1>1. SInit => Basics /\ ClaimInv /\ FileToldOnce
  <2>1. SInit => log = <<>>
    BY DEF SInit
  <2>2. SInit => Entry("inject") = {}
    BY <2>1 DEF Entry
  <2> QED
    BY <2>2, BasicsInit DEF ClaimInv, FileToldOnce
<1>2. Basics /\ ClaimInv /\ FileToldOnce /\ [SNext]_svars => Basics' /\ ClaimInv' /\ FileToldOnce'
  <2> SUFFICES ASSUME Basics, ClaimInv, FileToldOnce, [SNext]_svars
               PROVE  ClaimInv' /\ FileToldOnce'
    BY BasicsKept
  <2>t. SessionTypes /\ now \in Nat /\ claim \in [Ids -> [Paths -> Row]]
    BY DEF Basics, SessionTypes, RowTypes
  <2>1. CASE claim' = claim /\ Quiet({"inject"}) /\ now' \in Nat /\ now <= now'
    BY <2>1, <2>t, InjectsKept
  <2>2. CASE \E x \in Hooks : HookActs(x)
    <3>1. PICK x \in Hooks : HookActs(x)
      BY <2>2
    <3>2. now' = now
      BY <3>1, HookStep
    <3>3. CASE \E f \in Paths : ToolClaim(x, f)
      <4>1. PICK f \in Paths : ToolClaim(x, f)
        BY <3>3
      <4>2. CASE log' # log
        BY <4>1, <4>2, InjectStep
      <4>3. CASE log' = log
        <5>1. \A e : Note(e) => log' # log
          BY <2>t DEF Note, SessionTypes
        <5>2. claim' = claim
          BY <4>1, <4>3, <5>1 DEF ToolClaim, Fault, rows
        <5> QED
          BY <5>2, <4>3, <3>2, <2>1, <2>t DEF Quiet
      <4> QED
        BY <4>2, <4>3
    <3>4. CASE StartPrune(x)
      <4>1. Quiet({"inject"})
        BY <3>4 DEF StartPrune, Quiet
      <4>2. ASSUME NEW s \in Ids, NEW f \in Paths
            PROVE  claim'[s][f] = claim[s][f] \/ claim[s][f] = NoRow \/ claim[s][f] + Retention < now'
        BY <3>2, <3>4 DEF StartPrune, Fault, rows, Pruned
      <4> QED
        BY <4>1, <4>2, <3>2, <2>t, InjectsKept
    <3>5. CASE ~StartPrune(x) /\ ~\E f \in Paths : ToolClaim(x, f)
      BY <3>1, <3>2, <3>5, <2>1, <2>t, HookNotes, HookWrites
    <3> QED
      BY <3>3, <3>4, <3>5
  <2>3. Tick \/ UNCHANGED svars => claim' = claim /\ Quiet({"inject"}) /\ now' \in Nat /\ now <= now'
    BY <2>t DEF Tick, rows, svars, Quiet
  <2> QED
    BY <2>1, <2>2, <2>3 DEF SNext, HookActs
<1> QED
  BY <1>1, <1>2, PTL DEF SSpec

-----------------------------------------------------------------------------
(* Stop: which hooks may still ask, and what the stamps say of their time.    *)
Resting == {"over", "peek", "select", "ledger"}
Asking == {"mark", "rearm", "first"}
Asked == Entry("first") \cup Entry("again")

RowTimes(s) ==
    /\ captured[s] # NoRow => captured[s] <= now
    /\ rearm[s] # NoRow => captured[s] # NoRow /\ captured[s] <= rearm[s] /\ rearm[s] <= now
\* Who asks for the first time is no older than the mark.
FirstTime(x) ==
    hook[x].pc \in Asking =>
        /\ captured[hook[x].id] # NoRow => captured[hook[x].id] >= hook[x].at
        /\ hook[x].pc # "mark" => captured[hook[x].id] # NoRow
\* Who is about to swap saw a stamp that a gap separates from now, or no stamp.
Swapping(x) ==
    hook[x].pc = "swap" =>
        /\ hook[x].saw # NoRow => hook[x].saw + Gap <= now
        /\ hook[x].saw = NoRow /\ rearm[hook[x].id] # NoRow => rearm[hook[x].id] >= hook[x].at
Swapped(x) ==
    hook[x].pc = "again" => rearm[hook[x].id] # NoRow /\ rearm[hook[x].id] >= hook[x].at
\* No first question is under way beside a repeated one, and one repeated one is.
Alone(x) ==
    hook[x].pc \in {"swap", "again"} =>
        /\ captured[hook[x].id] # NoRow
        /\ \A y \in Hooks : hook[y].id = hook[x].id =>
              hook[y].pc \notin Asking /\ (hook[x].pc = "again" /\ hook[y].pc = "again" => x = y)
Spaced(x) ==
    hook[x].pc = "again" \/ (hook[x].pc = "swap" /\ rearm[hook[x].id] = hook[x].saw) =>
        \A i \in Asked : log[i].id = hook[x].id => log[i].at + Gap <= now + Span
Answered(i) ==
    /\ captured[log[i].id] # NoRow
    /\ log[i].at <= Last(log[i].id) + Span \/ log[i].at + Gap <= now + Span
HookAsks(x) == FirstTime(x) /\ Swapping(x) /\ Swapped(x) /\ Alone(x) /\ Spaced(x)

AskInv ==
    /\ \A x \in Hooks : IF Running(x) THEN HookAsks(x) ELSE hook[x].pc \in Resting
    /\ \A s \in Ids : RowTimes(s)
    /\ \A i \in Asked : Answered(i)

LEMMA AskedEntry ==
  ASSUME SessionTypes, NEW i \in Asked
  PROVE  log[i].id \in Ids /\ log[i].at \in Nat /\ i \in DOMAIN log /\ i \in Nat
<1>1. i \in DOMAIN log /\ log[i] \in Entries /\ log[i].what \in {"first", "again"} /\ i \in Nat
  BY DEF Entry, Asked, SessionTypes
<1>2. log[i] \in Ask
  BY <1>1 DEF Entries
<1> QED
  BY <1>1, <1>2 DEF Ask

LEMMA AskNumbers ==
  /\ Gap \in Nat /\ Span \in Nat /\ Retention \in Nat
  /\ Span < Gap /\ Gap <= Retention /\ NoRow \notin Nat /\ NoRow \notin Ids
BY SessionsAssumption

(* Steps that ask nothing: the clock, the starts, the reads, a hook that ends. *)
LEMMA AskFrame ==
  ASSUME Basics, Basics', AskInv, captured' = captured, now <= now', Quiet({"first", "again"}),
         \A s \in Ids : \/ rearm'[s] = rearm[s]
                        \/ rearm'[s] = NoRow /\ rearm[s] # NoRow /\ rearm[s] + Retention < now',
         \A y \in Hooks : \/ hook'[y] = hook[y]
                          \/ /\ hook'[y].pc \notin Asking \cup {"swap", "again"}
                             /\ hook'[y].id # NoRow \/ hook'[y].pc \in Resting
  PROVE  AskInv'
<1>t. /\ now \in Nat /\ now' \in Nat /\ SessionTypes
      /\ captured \in [Ids -> Row] /\ rearm \in [Ids -> Row] /\ rearm' \in [Ids -> Row]
  BY DEF Basics, SessionTypes, RowTypes
<1>1. Asked' = Asked /\ \A i \in Asked : log'[i] = log[i]
  BY <1>t, QuietEntries, AskedEntry DEF Asked
<1>2. ASSUME NEW s \in Ids PROVE RowTimes(s)'
  <2>1. RowTimes(s) /\ captured[s] \in Row /\ rearm[s] \in Row /\ rearm'[s] \in Row
    BY <1>2, <1>t DEF AskInv
  <2> QED
    BY <2>1, <1>t, AskNumbers DEF RowTimes, Row
<1>3. ASSUME NEW i \in Asked' PROVE Answered(i)'
  <2> DEFINE s == log[i].id
  <2>1. i \in Asked /\ log'[i] = log[i] /\ s \in Ids /\ log[i].at \in Nat
    BY <1>1, <1>3, <1>t, AskedEntry
  <2>2. Answered(i) /\ RowTimes(s)
    BY <2>1 DEF AskInv
  <2>3. captured[s] \in Row /\ rearm[s] \in Row /\ rearm'[s] \in Row
    BY <2>1, <1>t
  <2>4. CASE rearm'[s] = rearm[s]
    BY <2>1, <2>2, <2>3, <2>4, <1>t, AskNumbers DEF Answered, Last, Row, RowTimes
  <2>5. CASE rearm'[s] = NoRow /\ rearm[s] # NoRow /\ rearm[s] + Retention < now'
    <3>1. log[i].at + Gap <= now' + Span
      BY <2>1, <2>2, <2>3, <2>5, <1>t, AskNumbers DEF Answered, Last, Row, RowTimes
    <3> QED
      BY <3>1, <2>1, <2>2 DEF Answered
  <2> QED
    BY <2>4, <2>5, <2>1
<1>4. ASSUME NEW x \in Hooks PROVE IF Running(x)' THEN HookAsks(x)' ELSE hook'[x].pc \in Resting
  <2>1. CASE hook'[x] # hook[x]
    BY <2>1 DEF Running, HookAsks, FirstTime, Swapping, Swapped, Alone, Spaced
  <2>2. CASE hook'[x] = hook[x] /\ ~Running(x)
    BY <2>2 DEF AskInv, Running
  <2>3. CASE hook'[x] = hook[x] /\ Running(x)
    <3> DEFINE s == hook[x].id
    <3>1. /\ s \in Ids /\ hook[x].at \in Nat /\ hook[x].saw \in Row /\ now' <= hook[x].at + Span
          /\ s # NoRow /\ captured[s] \in Row /\ rearm[s] \in Row /\ rearm'[s] \in Row
      <4>1. hook'[x].id # NoRow
        BY <2>3 DEF Running
      <4>2. now' <= hook'[x].at + Span
        BY <4>1 DEF Basics, HookTiming, Running
      <4> QED
        BY <4>2, <2>3, <1>t, RunningHook DEF Running
    <3>2. HookAsks(x) /\ RowTimes(s)
      BY <2>3, <3>1 DEF AskInv
    <3>3. FirstTime(x)'
      BY <2>3, <3>2 DEF HookAsks, FirstTime
    <3>4. rearm[s] # NoRow /\ rearm[s] >= hook[x].at => rearm'[s] = rearm[s]
      BY <3>1, <1>t, AskNumbers DEF Row
    <3>5. Swapping(x)'
      <4>1. hook[x].saw # NoRow => hook[x].saw \in Nat
        BY <3>1 DEF Row
      <4> QED
        BY <2>3, <3>1, <3>2, <3>4, <4>1, <1>t, AskNumbers DEF HookAsks, Swapping
    <3>6. Swapped(x)'
      BY <2>3, <3>2, <3>4 DEF HookAsks, Swapped
    <3>7. Alone(x)'
      <4>1. Alone(x)
        BY <3>2 DEF HookAsks
      <4>2. ASSUME NEW y \in Hooks, hook'[y] # hook[y]
            PROVE  hook'[y].pc \notin Asking /\ hook'[y].pc # "again"
        BY <4>2
      <4> QED
        BY <4>1, <4>2, <2>3 DEF Alone
    <3>8. Spaced(x)'
      <4>1. ASSUME hook[x].pc = "again" \/ (hook[x].pc = "swap" /\ rearm'[s] = hook[x].saw)
            PROVE  hook[x].pc = "again" \/ (hook[x].pc = "swap" /\ rearm[s] = hook[x].saw)
        <5>1. rearm'[s] = rearm[s] \/ (rearm'[s] = NoRow /\ rearm[s] # NoRow)
          BY <3>1
        <5>2. CASE hook[x].pc = "swap" /\ rearm'[s] = NoRow /\ rearm[s] # NoRow
          BY <5>2, <4>1, <3>2, <3>4 DEF HookAsks, Swapping
        <5> QED
          BY <5>1, <5>2, <4>1
      <4>2. ASSUME NEW i \in Asked, log[i].id = s,
                   hook[x].pc = "again" \/ (hook[x].pc = "swap" /\ rearm'[s] = hook[x].saw)
            PROVE  log[i].at + Gap <= now' + Span
        <5>1. log[i].at + Gap <= now + Span /\ log[i].at \in Nat
          BY <4>1, <4>2, <3>2, <1>t, AskedEntry DEF HookAsks, Spaced
        <5> QED
          BY <5>1, <1>t, AskNumbers
      <4>3. ASSUME NEW i \in Asked, log'[i].id = s,
                   hook[x].pc = "again" \/ (hook[x].pc = "swap" /\ rearm'[s] = hook[x].saw)
            PROVE  log'[i].at + Gap <= now' + Span
        <5>1. log'[i] = log[i]
          BY <1>1
        <5> QED
          BY <5>1, <4>2, <4>3
      <4> HIDE DEF s
      <4>4. hook'[x] = hook[x] /\ hook[x].id = s
        BY <2>3 DEF s
      <4> QED
        BY <4>3, <4>4, <1>1 DEF Spaced
    <3> QED
      BY <2>3, <3>3, <3>5, <3>6, <3>7, <3>8 DEF HookAsks, Running
  <2> QED
    BY <2>1, <2>2, <2>3
<1> QED
  BY <1>2, <1>3, <1>4 DEF AskInv

LEMMA HookOf ==
  ASSUME Basics, AskInv, NEW y \in Hooks, Running(y)
  PROVE  /\ hook[y].id \in Ids /\ hook[y].id # NoRow /\ hook[y].at \in Nat
         /\ (hook[y].saw = NoRow \/ hook[y].saw \in Nat)
         /\ hook[y].at <= now /\ now <= hook[y].at + Span /\ now \in Nat
         /\ HookAsks(y) /\ RowTimes(hook[y].id)
         /\ (captured[hook[y].id] = NoRow \/ captured[hook[y].id] \in Nat)
         /\ (rearm[hook[y].id] = NoRow \/ rearm[hook[y].id] \in Nat)
<1>1. hook[y].id \in Ids /\ hook[y].id # NoRow /\ hook[y].at \in Nat /\ hook[y].saw \in Row
      /\ hook[y].at <= now /\ now <= hook[y].at + Span /\ now \in Nat
  BY RunningHook DEF Running
<1>2. captured[hook[y].id] \in Row /\ rearm[hook[y].id] \in Row
  BY <1>1 DEF Basics, SessionTypes, RowTypes
<1> QED
  BY <1>1, <1>2 DEF AskInv, Row

(* With the rows and the log as they were, only who runs beside whom may       *)
(* change for a hook that does not move.                                     *)
LEMMA SameRows ==
  ASSUME AskInv, SessionTypes, now' = now, log' = log, captured' = captured, rearm' = rearm
  PROVE  /\ \A s \in Ids : RowTimes(s)'
         /\ \A i \in Asked' : Answered(i)'
         /\ \A y \in Hooks : hook'[y] = hook[y] /\ Running(y) =>
               FirstTime(y)' /\ Swapping(y)' /\ Swapped(y)' /\ Spaced(y)'
<1>1. Asked' = Asked
  BY DEF Asked, Entry
<1>2. \A s \in Ids : RowTimes(s)'
  BY DEF AskInv, RowTimes
<1>3. \A i \in Asked' : Answered(i)'
  BY <1>1 DEF AskInv, Answered, Last
<1>4. ASSUME NEW y \in Hooks, hook'[y] = hook[y], Running(y)
      PROVE  FirstTime(y)' /\ Swapping(y)' /\ Swapped(y)' /\ Spaced(y)'
  <2>1. HookAsks(y)
    BY <1>4 DEF AskInv
  <2>2. Spaced(y)'
    BY <1>1, <1>4, <2>1 DEF HookAsks, Spaced
  <2>3. FirstTime(y)' /\ Swapping(y)' /\ Swapped(y)'
    BY <1>4, <2>1 DEF HookAsks, FirstTime, Swapping, Swapped
  <2> QED
    BY <2>2, <2>3
<1> QED
  BY <1>2, <1>3, <1>4

LEMMA LedgerStep ==
  ASSUME Basics, AskInv, NEW x \in Hooks, At(x, "ledger"), captured[hook[x].id] # NoRow,
         Last(hook[x].id) + Gap <= now,
         hook' = [hook EXCEPT ![x].pc = "swap", ![x].saw = rearm[hook[x].id]],
         now' = now, log' = log, captured' = captured, rearm' = rearm
  PROVE  AskInv'
<1> DEFINE s == hook[x].id
<1>1. Running(x)
  BY DEF At, Running
<1>2. /\ \A y \in Hooks \ {x} : hook'[y] = hook[y]
      /\ hook'[x].pc = "swap" /\ hook'[x].id = s /\ hook'[x].at = hook[x].at /\ hook'[x].saw = rearm[s]
  <2> DEFINE c == "swap"
             r == rearm[s]
  <2>1. c \in Steps /\ hook \in HookType /\ r \in Row
    BY <1>1, RunningHook DEF Steps, Basics, SessionTypes, RowTypes, Running
  <2>2. hook' = [hook EXCEPT ![x].pc = c, ![x].saw = r]
    OBVIOUS
  <2> HIDE DEF c, r
  <2>3. /\ \A y \in Hooks \ {x} : hook'[y] = hook[y]
        /\ hook'[x].pc = c /\ hook'[x].id = hook[x].id /\ hook'[x].at = hook[x].at /\ hook'[x].saw = r
    BY <2>1, <2>2 DEF HookType
  <2> QED
    BY <2>3 DEF c, r
<1>3. /\ s \in Ids /\ s # NoRow /\ now \in Nat /\ RowTimes(s)
      /\ (captured[s] = NoRow \/ captured[s] \in Nat) /\ (rearm[s] = NoRow \/ rearm[s] \in Nat)
  BY <1>1, HookOf
<1>t. SessionTypes
  BY DEF Basics
<1>4. /\ \A r \in Ids : RowTimes(r)'
      /\ \A i \in Asked' : Answered(i)'
      /\ \A y \in Hooks : hook'[y] = hook[y] /\ Running(y) =>
            FirstTime(y)' /\ Swapping(y)' /\ Swapped(y)' /\ Spaced(y)'
  BY <1>t, SameRows
<1>5. ASSUME NEW y \in Hooks, hook[y].id = s PROVE hook[y].pc \notin Asking
  <2>1. Running(y)
    BY <1>3, <1>5 DEF Running
  <2>2. hook[y].at \in Nat /\ now <= hook[y].at + Span /\ FirstTime(y)
    BY <2>1, HookOf DEF HookAsks
  <2>3. Last(s) \in Nat /\ captured[s] <= Last(s)
    BY <1>3 DEF Last, RowTimes
  <2> QED
    BY <1>3, <1>5, <2>2, <2>3, AskNumbers DEF FirstTime
<1>6. ASSUME NEW i \in Asked, log[i].id = s PROVE log[i].at + Gap <= now + Span
  <2>1. log[i].at \in Nat /\ Answered(i)
    BY <1>t, AskedEntry DEF AskInv
  <2>2. Last(s) \in Nat
    BY <1>3 DEF Last
  <2> QED
    BY <1>3, <1>6, <2>1, <2>2, AskNumbers DEF Answered
<1>7. HookAsks(x)'
  <2>1. FirstTime(x)' /\ Swapped(x)'
    BY <1>2 DEF FirstTime, Swapped, Asking
  <2>2. Swapping(x)'
    BY <1>2, <1>3 DEF Swapping, Last
  <2>3. Alone(x)'
    <3>1. ASSUME NEW y \in Hooks, hook'[y].id = s PROVE hook'[y].pc \notin Asking
      BY <3>1, <1>2, <1>5 DEF Asking
    <3> QED
      BY <3>1, <1>2 DEF Alone
  <2>4. Spaced(x)'
    <3>1. Asked' = Asked
      BY DEF Asked, Entry
    <3> QED
      BY <3>1, <1>2, <1>6 DEF Spaced
  <2> QED
    BY <2>1, <2>2, <2>3, <2>4 DEF HookAsks
<1>8. ASSUME NEW y \in Hooks, y # x, Running(y) PROVE HookAsks(y)'
  <2>1. hook'[y] = hook[y] /\ Alone(y)
    BY <1>2, <1>8, HookOf DEF HookAsks
  <2>2. Alone(y)'
    <3>1. ASSUME NEW z \in Hooks PROVE hook'[z].id = hook[z].id /\ (hook'[z].pc = hook[z].pc \/ hook'[z].pc = "swap")
      BY <1>2
    <3> QED
      BY <3>1, <2>1 DEF Alone, Asking
  <2> QED
    BY <2>1, <2>2, <1>4, <1>8 DEF HookAsks
<1>9. ASSUME NEW y \in Hooks PROVE IF Running(y)' THEN HookAsks(y)' ELSE hook'[y].pc \in Resting
  BY <1>2, <1>3, <1>7, <1>8 DEF AskInv, Running
<1> QED
  BY <1>4, <1>9 DEF AskInv

LEMMA AskStep ==
  ASSUME Basics, AskInv, NEW x \in Hooks, At(x, "ask"), captured[hook[x].id] = NoRow, Go(x, "mark"),
         now' = now, log' = log, captured' = captured, rearm' = rearm
  PROVE  AskInv'
<1> DEFINE s == hook[x].id
<1>1. Running(x)
  BY DEF At, Running
<1>t. SessionTypes
  BY DEF Basics
<1>2. /\ \A y \in Hooks \ {x} : hook'[y] = hook[y]
      /\ hook'[x].pc = "mark" /\ hook'[x].id = s /\ s # NoRow
  <2>1. "mark" \in Steps /\ hook \in HookType
    BY DEF Steps, Basics, SessionTypes
  <2> QED
    BY <2>1, <1>1, GoEffect DEF Running
<1>4. /\ \A r \in Ids : RowTimes(r)'
      /\ \A i \in Asked' : Answered(i)'
      /\ \A y \in Hooks : hook'[y] = hook[y] /\ Running(y) =>
            FirstTime(y)' /\ Swapping(y)' /\ Swapped(y)' /\ Spaced(y)'
  BY <1>t, SameRows
<1>7. HookAsks(x)'
  BY <1>2 DEF HookAsks, FirstTime, Swapping, Swapped, Alone, Spaced
<1>8. ASSUME NEW y \in Hooks, y # x, Running(y) PROVE HookAsks(y)'
  <2>1. hook'[y] = hook[y] /\ Alone(y)
    BY <1>2, <1>8, HookOf DEF HookAsks
  <2>2. Alone(y)'
    <3>1. ASSUME NEW z \in Hooks, z # x PROVE hook'[z] = hook[z]
      BY <1>2, <3>1
    <3>2. hook[y].pc \in {"swap", "again"} => hook[y].id # s
      BY <2>1 DEF Alone
    <3> QED
      BY <3>1, <3>2, <1>2, <2>1 DEF Alone
  <2> QED
    BY <2>1, <2>2, <1>4, <1>8 DEF HookAsks
<1>9. ASSUME NEW y \in Hooks PROVE IF Running(y)' THEN HookAsks(y)' ELSE hook'[y].pc \in Resting
  BY <1>2, <1>7, <1>8 DEF AskInv, Running
<1> QED
  BY <1>4, <1>9 DEF AskInv

(* Of several Stops that read one stamp the swap lets one through: a stamp     *)
(* that is as it was read is a gap old, so nobody else is about to print.     *)
LEMMA SwapStep ==
  ASSUME Basics, AskInv, NEW x \in Hooks, At(x, "swap"), rearm[hook[x].id] = hook[x].saw, Go(x, "again"),
         rearm' = [rearm EXCEPT ![hook[x].id] = now],
         now' = now, log' = log, captured' = captured
  PROVE  AskInv'
<1> DEFINE s == hook[x].id
<1>1. Running(x) /\ hook[x].pc = "swap"
  BY DEF At, Running
<1>t. SessionTypes /\ rearm \in [Ids -> Row] /\ captured \in [Ids -> Row]
  BY DEF Basics, SessionTypes, RowTypes
<1>2. /\ \A y \in Hooks \ {x} : hook'[y] = hook[y]
      /\ hook'[x].pc = "again" /\ hook'[x].id = s /\ hook'[x].at = hook[x].at
  <2>1. "again" \in Steps /\ hook \in HookType
    BY <1>t DEF Steps, SessionTypes
  <2> QED
    BY <2>1, GoEffect
<1>3. /\ s \in Ids /\ s # NoRow /\ now \in Nat /\ RowTimes(s) /\ hook[x].at \in Nat /\ hook[x].at <= now
      /\ (captured[s] = NoRow \/ captured[s] \in Nat) /\ (rearm[s] = NoRow \/ rearm[s] \in Nat)
      /\ Swapping(x) /\ Alone(x) /\ Spaced(x)
  BY <1>1, HookOf DEF HookAsks
<1>4. rearm'[s] = now /\ \A r \in Ids \ {s} : rearm'[r] = rearm[r]
  BY <1>3, <1>t
<1>5. captured[s] # NoRow /\ \A y \in Hooks : hook[y].id = s => hook[y].pc \notin Asking
  BY <1>1, <1>3 DEF Alone
<1>6. rearm[s] # NoRow => rearm[s] + Gap <= now
  BY <1>1, <1>3 DEF Swapping
<1>7. Asked' = Asked
  BY DEF Asked, Entry
<1>8. ASSUME NEW r \in Ids PROVE RowTimes(r)'
  <2>1. RowTimes(r)
    BY <1>8 DEF AskInv
  <2>2. CASE r = s
    BY <2>2, <1>3, <1>4, <1>5 DEF RowTimes
  <2> QED
    BY <2>1, <2>2, <1>4 DEF RowTimes
<1>9. ASSUME NEW i \in Asked' PROVE Answered(i)'
  <2>1. i \in Asked /\ log[i].id \in Ids /\ log[i].at \in Nat /\ i \in DOMAIN log
    BY <1>7, <1>9, <1>t, AskedEntry
  <2>2. Answered(i) /\ log[i].at <= now
    BY <2>1 DEF AskInv, Basics, LogTiming
  <2>3. CASE log[i].id = s
    <3>1. Last(log[i].id)' = now
      BY <2>3, <1>3, <1>4, AskNumbers DEF Last
    <3> QED
      BY <2>1, <2>2, <3>1, <1>3, AskNumbers DEF Answered
  <2>4. CASE log[i].id # s
    <3>1. Last(log[i].id)' = Last(log[i].id)
      BY <2>1, <2>4, <1>4 DEF Last
    <3> QED
      BY <2>2, <3>1 DEF Answered
  <2> QED
    BY <2>3, <2>4
<1>10. ASSUME NEW y \in Hooks, hook[y].id = s PROVE hook[y].pc # "again"
  <2>1. Running(y)
    BY <1>3, <1>10 DEF Running
  <2>2. hook[y].at \in Nat /\ now <= hook[y].at + Span /\ Swapped(y)
    BY <2>1, HookOf DEF HookAsks
  <2> QED
    BY <1>3, <1>6, <1>10, <2>2, AskNumbers DEF Swapped
<1>11. HookAsks(x)'
  <2>1. FirstTime(x)' /\ Swapping(x)'
    BY <1>2 DEF FirstTime, Swapping, Asking
  <2>2. Swapped(x)'
    BY <1>2, <1>3, <1>4, AskNumbers DEF Swapped
  <2>3. Alone(x)'
    <3>1. ASSUME NEW y \in Hooks, hook'[y].id = s PROVE hook'[y].pc \notin Asking /\ (hook'[y].pc = "again" => x = y)
      BY <3>1, <1>2, <1>5, <1>10 DEF Asking
    <3> QED
      BY <3>1, <1>2, <1>5 DEF Alone
  <2>4. Spaced(x)'
    <3>1. \A i \in Asked : log[i].id = s => log[i].at + Gap <= now + Span
      BY <1>1, <1>3 DEF Spaced
    <3> QED
      BY <3>1, <1>2, <1>7 DEF Spaced
  <2> QED
    BY <2>1, <2>2, <2>3, <2>4 DEF HookAsks
<1>12. ASSUME NEW y \in Hooks, y # x, Running(y) PROVE HookAsks(y)'
  <2>1. /\ hook'[y] = hook[y] /\ HookAsks(y) /\ hook[y].at \in Nat /\ hook[y].at <= now /\ hook[y].id \in Ids
        /\ (hook[y].saw = NoRow \/ hook[y].saw \in Nat)
    BY <1>2, <1>12, HookOf
  <2>2. rearm'[hook[y].id] = rearm[hook[y].id] \/ (hook[y].id = s /\ rearm'[hook[y].id] = now)
    BY <2>1, <1>4
  <2>3. FirstTime(y)'
    BY <2>1 DEF HookAsks, FirstTime
  <2>4. Swapping(y)'
    BY <2>1, <2>2, <1>3 DEF HookAsks, Swapping
  <2>5. Swapped(y)'
    BY <2>1, <2>2, <1>3, AskNumbers DEF HookAsks, Swapped
  <2>6. Alone(y)'
    <3>1. ASSUME NEW z \in Hooks PROVE hook'[z].id = hook[z].id /\ (z # x => hook'[z].pc = hook[z].pc)
      BY <1>2
    <3> QED
      BY <3>1, <2>1, <1>2, <1>10 DEF HookAsks, Alone, Asking
  <2>7. Spaced(y)'
    <3>1. CASE hook[y].id = s
      <4>1. hook[y].pc # "again"
        BY <3>1, <1>10
      <4>2. hook[y].pc = "swap" => hook[y].saw # now
        BY <2>1, <1>3, AskNumbers DEF HookAsks, Swapping
      <4> QED
        BY <4>1, <4>2, <3>1, <2>1, <1>4 DEF Spaced
    <3>2. CASE hook[y].id # s
      <4>1. Spaced(y) /\ rearm'[hook[y].id] = rearm[hook[y].id]
        BY <2>1, <3>2, <1>4 DEF HookAsks
      <4> QED
        BY <4>1, <2>1, <1>7 DEF Spaced
    <3> QED
      BY <3>1, <3>2
  <2> QED
    BY <2>3, <2>4, <2>5, <2>6, <2>7 DEF HookAsks
<1>13. ASSUME NEW y \in Hooks PROVE IF Running(y)' THEN HookAsks(y)' ELSE hook'[y].pc \in Resting
  BY <1>2, <1>3, <1>11, <1>12 DEF AskInv, Running
<1> QED
  BY <1>8, <1>9, <1>13 DEF AskInv

LEMMA MarkStep ==
  ASSUME Basics, AskInv, NEW x \in Hooks, At(x, "mark"), Go(x, "rearm"),
         captured' = [captured EXCEPT ![hook[x].id] = IF @ = NoRow THEN now ELSE @],
         now' = now, log' = log, rearm' = rearm
  PROVE  AskInv'
<1> DEFINE s == hook[x].id
<1>1. Running(x) /\ hook[x].pc = "mark"
  BY DEF At, Running
<1>t. SessionTypes /\ rearm \in [Ids -> Row] /\ captured \in [Ids -> Row]
  BY DEF Basics, SessionTypes, RowTypes
<1>2. /\ \A y \in Hooks \ {x} : hook'[y] = hook[y]
      /\ hook'[x].pc = "rearm" /\ hook'[x].id = s /\ hook'[x].at = hook[x].at
  <2>1. "rearm" \in Steps /\ hook \in HookType
    BY <1>t DEF Steps, SessionTypes
  <2> QED
    BY <2>1, GoEffect
<1>3. /\ s \in Ids /\ s # NoRow /\ now \in Nat /\ RowTimes(s) /\ hook[x].at \in Nat /\ hook[x].at <= now
      /\ (captured[s] = NoRow \/ captured[s] \in Nat) /\ (rearm[s] = NoRow \/ rearm[s] \in Nat)
      /\ FirstTime(x)
  BY <1>1, HookOf DEF HookAsks
<1>4. /\ captured'[s] = IF captured[s] = NoRow THEN now ELSE captured[s]
      /\ \A r \in Ids \ {s} : captured'[r] = captured[r]
  BY <1>3, <1>t
<1>5. captured'[s] # NoRow /\ \A r \in Ids : captured[r] # NoRow => captured'[r] = captured[r]
  BY <1>3, <1>4, AskNumbers
<1>6. ASSUME NEW y \in Hooks, Running(y), hook[y].id = s PROVE hook[y].pc \notin {"swap", "again"}
  <2>1. Alone(y)
    BY <1>6, HookOf DEF HookAsks
  <2> QED
    BY <2>1, <1>1, <1>6 DEF Alone, Asking
<1>7. Asked' = Asked
  BY DEF Asked, Entry
<1>8. ASSUME NEW r \in Ids PROVE RowTimes(r)'
  <2>1. RowTimes(r)
    BY <1>8 DEF AskInv
  <2>2. captured'[r] = captured[r] \/ (captured[r] = NoRow /\ captured'[r] = now)
    BY <1>4, <1>8
  <2> QED
    BY <2>1, <2>2, <1>3 DEF RowTimes
<1>9. ASSUME NEW i \in Asked' PROVE Answered(i)'
  <2>1. i \in Asked /\ log[i].id \in Ids
    BY <1>7, <1>9, <1>t, AskedEntry
  <2>2. Answered(i)
    BY <2>1 DEF AskInv
  <2>3. captured'[log[i].id] = captured[log[i].id]
    BY <2>1, <2>2, <1>5 DEF Answered
  <2> QED
    BY <2>2, <2>3 DEF Answered, Last
<1>10. HookAsks(x)'
  <2>1. FirstTime(x)'
    BY <1>1, <1>2, <1>3, <1>4, <1>5 DEF FirstTime, Asking
  <2> QED
    BY <2>1, <1>2 DEF HookAsks, Swapping, Swapped, Alone, Spaced
<1>11. ASSUME NEW y \in Hooks, y # x, Running(y) PROVE HookAsks(y)'
  <2>1. hook'[y] = hook[y] /\ HookAsks(y) /\ hook[y].at \in Nat /\ hook[y].at <= now /\ hook[y].id \in Ids
    BY <1>2, <1>11, HookOf
  <2>2. \/ captured'[hook[y].id] = captured[hook[y].id]
        \/ captured[hook[y].id] = NoRow /\ captured'[hook[y].id] = now /\ hook[y].id = s
    BY <2>1, <1>4
  <2>3. FirstTime(y)'
    BY <2>1, <2>2, <1>3, <1>5 DEF HookAsks, FirstTime
  <2>4. Swapping(y)' /\ Swapped(y)'
    BY <2>1 DEF HookAsks, Swapping, Swapped
  <2>5. Alone(y)'
    <3>1. \A z \in Hooks : z # x => hook'[z] = hook[z]
      BY <1>2
    <3>2. hook[y].pc \in {"swap", "again"} => hook[y].id # s
      BY <1>6, <1>11
    <3> QED
      BY <3>1, <3>2, <2>1, <2>2, <1>2 DEF HookAsks, Alone
  <2>6. Spaced(y)'
    BY <2>1, <1>7 DEF HookAsks, Spaced
  <2> QED
    BY <2>3, <2>4, <2>5, <2>6 DEF HookAsks
<1>12. ASSUME NEW y \in Hooks PROVE IF Running(y)' THEN HookAsks(y)' ELSE hook'[y].pc \in Resting
  BY <1>2, <1>3, <1>10, <1>11 DEF AskInv, Running
<1> QED
  BY <1>8, <1>9, <1>12 DEF AskInv

LEMMA StampRowStep ==
  ASSUME Basics, AskInv, NEW x \in Hooks, At(x, "rearm"), Go(x, "first"),
         rearm' = rearm \/ rearm' = [rearm EXCEPT ![hook[x].id] = now],
         now' = now, log' = log, captured' = captured
  PROVE  AskInv'
<1> DEFINE s == hook[x].id
<1>1. Running(x) /\ hook[x].pc = "rearm"
  BY DEF At, Running
<1>t. SessionTypes /\ rearm \in [Ids -> Row] /\ captured \in [Ids -> Row]
  BY DEF Basics, SessionTypes, RowTypes
<1>2. /\ \A y \in Hooks \ {x} : hook'[y] = hook[y]
      /\ hook'[x].pc = "first" /\ hook'[x].id = s /\ hook'[x].at = hook[x].at
  <2>1. "first" \in Steps /\ hook \in HookType
    BY <1>t DEF Steps, SessionTypes
  <2> QED
    BY <2>1, GoEffect
<1>3. /\ s \in Ids /\ s # NoRow /\ now \in Nat /\ RowTimes(s)
      /\ (captured[s] = NoRow \/ captured[s] \in Nat) /\ (rearm[s] = NoRow \/ rearm[s] \in Nat)
      /\ FirstTime(x)
  BY <1>1, HookOf DEF HookAsks
<1>4. (rearm'[s] = rearm[s] \/ rearm'[s] = now) /\ \A r \in Ids \ {s} : rearm'[r] = rearm[r]
  BY <1>3, <1>t
<1>5. captured[s] # NoRow
  BY <1>1, <1>3 DEF FirstTime, Asking
<1>6. ASSUME NEW y \in Hooks, Running(y), hook[y].id = s PROVE hook[y].pc \notin {"swap", "again"}
  <2>1. Alone(y)
    BY <1>6, HookOf DEF HookAsks
  <2> QED
    BY <2>1, <1>1, <1>6 DEF Alone, Asking
<1>7. Asked' = Asked
  BY DEF Asked, Entry
<1>8. ASSUME NEW r \in Ids PROVE RowTimes(r)'
  <2>1. RowTimes(r)
    BY <1>8 DEF AskInv
  <2>2. rearm'[r] = rearm[r] \/ (r = s /\ rearm'[r] = now)
    BY <1>4, <1>8
  <2> QED
    BY <2>1, <2>2, <1>3, <1>5 DEF RowTimes
<1>9. ASSUME NEW i \in Asked' PROVE Answered(i)'
  <2>1. i \in Asked /\ log[i].id \in Ids /\ log[i].at \in Nat /\ i \in DOMAIN log
    BY <1>7, <1>9, <1>t, AskedEntry
  <2>2. Answered(i) /\ log[i].at <= now
    BY <2>1 DEF AskInv, Basics, LogTiming
  <2>3. CASE rearm'[log[i].id] = rearm[log[i].id]
    BY <2>2, <2>3 DEF Answered, Last
  <2>4. CASE rearm'[log[i].id] = now
    <3>1. Last(log[i].id)' = now
      BY <2>4, <1>3, AskNumbers DEF Last
    <3> QED
      BY <2>1, <2>2, <3>1, <1>3, AskNumbers DEF Answered
  <2> QED
    BY <2>1, <2>3, <2>4, <1>4
<1>10. HookAsks(x)'
  <2>1. FirstTime(x)'
    BY <1>1, <1>2, <1>3, <1>5 DEF FirstTime, Asking
  <2> QED
    BY <2>1, <1>2 DEF HookAsks, Swapping, Swapped, Alone, Spaced
<1>11. ASSUME NEW y \in Hooks, y # x, Running(y) PROVE HookAsks(y)'
  <2>1. hook'[y] = hook[y] /\ HookAsks(y) /\ hook[y].id \in Ids
    BY <1>2, <1>11, HookOf
  <2>2. hook[y].pc \in {"swap", "again"} => hook[y].id # s /\ rearm'[hook[y].id] = rearm[hook[y].id]
    BY <2>1, <1>4, <1>6, <1>11
  <2>3. FirstTime(y)'
    BY <2>1 DEF HookAsks, FirstTime
  <2>4. Swapping(y)' /\ Swapped(y)'
    BY <2>1, <2>2 DEF HookAsks, Swapping, Swapped
  <2>5. Alone(y)'
    <3>1. \A z \in Hooks : z # x => hook'[z] = hook[z]
      BY <1>2
    <3> QED
      BY <3>1, <2>2, <2>1, <1>2 DEF HookAsks, Alone
  <2>6. Spaced(y)'
    BY <2>1, <2>2, <1>7 DEF HookAsks, Spaced
  <2> QED
    BY <2>3, <2>4, <2>5, <2>6 DEF HookAsks
<1>12. ASSUME NEW y \in Hooks PROVE IF Running(y)' THEN HookAsks(y)' ELSE hook'[y].pc \in Resting
  BY <1>2, <1>3, <1>10, <1>11 DEF AskInv, Running
<1> QED
  BY <1>8, <1>9, <1>12 DEF AskInv

LEMMA PrintStep ==
  ASSUME Basics, AskInv, AskedAgainAfterGap, NEW x \in Hooks, StopPrint(x)
  PROVE  AskInv' /\ AskedAgainAfterGap'
<1> DEFINE s == hook[x].id
           w == hook[x].pc
           e == [what |-> w, id |-> s, at |-> now]
           n == Len(log) + 1
<1>1. /\ Running(x) /\ w \in {"first", "again"} /\ Note(e) /\ Finish(x)
      /\ now' = now /\ captured' = captured /\ rearm' = rearm
  BY DEF StopPrint, At, Running, rows
<1>t. SessionTypes
  BY DEF Basics
<1>2. /\ \A y \in Hooks \ {x} : hook'[y] = hook[y]
      /\ hook'[x].pc = "over" /\ hook'[x].id = NoRow
  BY <1>1, <1>t, FinishEffect DEF SessionTypes
<1>3. /\ s \in Ids /\ s # NoRow /\ now \in Nat /\ RowTimes(s) /\ hook[x].at \in Nat /\ now <= hook[x].at + Span
      /\ (captured[s] = NoRow \/ captured[s] \in Nat) /\ (rearm[s] = NoRow \/ rearm[s] \in Nat)
      /\ FirstTime(x) /\ Swapped(x) /\ Alone(x) /\ Spaced(x)
  BY <1>1, HookOf DEF HookAsks
<1>4. e \in Entries /\ e.what = w /\ e.id = s /\ e.at = now
  BY <1>1, <1>3 DEF Entries, Ask
<1>5. captured[s] # NoRow /\ now <= Last(s) + Span
  <2>1. CASE w = "first"
    <3>1. captured[s] # NoRow /\ captured[s] >= hook[x].at
      BY <2>1, <1>3 DEF FirstTime, Asking
    <3>2. Last(s) \in Nat /\ captured[s] <= Last(s)
      BY <3>1, <1>3 DEF Last, RowTimes
    <3> QED
      BY <3>1, <3>2, <1>3, AskNumbers
  <2>2. CASE w = "again"
    BY <2>2, <1>3, AskNumbers DEF Swapped, Alone, Last
  <2> QED
    BY <2>1, <2>2, <1>1
<1>6. ASSUME NEW y \in Hooks, y # x, Running(y), hook[y].id = s
      PROVE  hook[y].pc # "again" /\ (hook[y].pc = "swap" => rearm[s] # hook[y].saw)
  <2>1. Alone(y) /\ Swapping(y) /\ (hook[y].saw = NoRow \/ hook[y].saw \in Nat)
    BY <1>6, HookOf DEF HookAsks
  <2>2. CASE w = "first"
    BY <2>1, <2>2, <1>6 DEF Alone, Asking
  <2>3. CASE w = "again"
    <3>1. rearm[s] # NoRow /\ rearm[s] >= hook[x].at
      BY <2>3, <1>3 DEF Swapped
    <3>2. hook[y].pc # "again"
      BY <2>3, <1>3, <1>6 DEF Alone
    <3>3. hook[y].pc = "swap" => rearm[s] # hook[y].saw
      BY <3>1, <2>1, <1>3, AskNumbers DEF Swapping
    <3> QED
      BY <3>2, <3>3
  <2> QED
    BY <2>2, <2>3, <1>1
<1> HIDE DEF e, w, s
<1>7. /\ n \in Nat /\ n \notin DOMAIN log /\ log'[n] = e
      /\ \A i \in DOMAIN log : i < n /\ i \in Nat /\ log'[i] = log[i]
      /\ \A v : Entry(v)' = IF e.what = v THEN Entry(v) \cup {n} ELSE Entry(v)
  BY <1>1, <1>4, <1>t, NewEntry
<1> HIDE DEF n
<1>8. Asked' = Asked \cup {n} /\ Asked \subseteq DOMAIN log /\ \A i \in Asked : log'[i] = log[i]
  BY <1>1, <1>4, <1>7 DEF Asked, Entry
<1>9. ASSUME NEW i \in Asked' PROVE Answered(i)'
  <2>1. CASE i = n
    <3>1. log'[i].id = s /\ log'[i].at = now /\ captured'[s] # NoRow
      BY <2>1, <1>1, <1>4, <1>5, <1>7
    <3>2. Last(log[i].id)' = Last(s)
      BY <3>1, <1>1 DEF Last
    <3> QED
      BY <3>1, <3>2, <1>1, <1>5 DEF Answered
  <2>2. CASE i \in Asked
    <3>1. Answered(i) /\ log'[i] = log[i]
      BY <2>2, <1>8 DEF AskInv
    <3>2. Last(log[i].id)' = Last(log[i].id)
      BY <3>1, <1>1 DEF Last
    <3> QED
      BY <3>1, <3>2, <1>1 DEF Answered
  <2> QED
    BY <2>1, <2>2, <1>8, <1>9
<1>10. ASSUME NEW y \in Hooks, y # x, Running(y) PROVE HookAsks(y)'
  <2>1. hook'[y] = hook[y] /\ HookAsks(y)
    BY <1>2, <1>10, HookOf
  <2>2. FirstTime(y)' /\ Swapping(y)' /\ Swapped(y)'
    BY <2>1, <1>1 DEF HookAsks, FirstTime, Swapping, Swapped
  <2>3. Alone(y)'
    <3>1. \A z \in Hooks : z # x => hook'[z] = hook[z]
      BY <1>2
    <3> QED
      BY <3>1, <2>1, <1>1, <1>2 DEF HookAsks, Alone, Asking
  <2>4. Spaced(y)'
    <3>1. ASSUME hook[y].pc = "again" \/ (hook[y].pc = "swap" /\ rearm[hook[y].id] = hook[y].saw)
          PROVE  hook[y].id # s
      BY <3>1, <1>6, <1>10
    <3>2. ASSUME NEW i \in Asked', log'[i].id = hook[y].id,
                 hook[y].pc = "again" \/ (hook[y].pc = "swap" /\ rearm[hook[y].id] = hook[y].saw)
          PROVE  log'[i].at + Gap <= now + Span
      <4>1. i \in Asked /\ log'[i] = log[i]
        BY <3>1, <3>2, <1>4, <1>7, <1>8
      <4> QED
        BY <4>1, <3>2, <2>1 DEF HookAsks, Spaced
    <3> QED
      BY <3>2, <2>1, <1>1 DEF Spaced
  <2> QED
    BY <2>2, <2>3, <2>4 DEF HookAsks
<1>11. ASSUME NEW y \in Hooks PROVE IF Running(y)' THEN HookAsks(y)' ELSE hook'[y].pc \in Resting
  BY <1>2, <1>10 DEF AskInv, Running, Resting
<1>12. \A r \in Ids : RowTimes(r)'
  BY <1>1 DEF AskInv, RowTimes
<1>13. AskInv'
  BY <1>9, <1>11, <1>12 DEF AskInv
<1>14. ASSUME NEW i \in Asked', NEW j \in Entry("again")', i < j, log'[i].id = log'[j].id
       PROVE  log'[i].at + Gap <= log'[j].at + Span
  <2>1. i \in Asked
    <3>1. j \in Asked'
      BY <1>14 DEF Asked
    <3>2. j <= n
      BY <3>1, <1>7, <1>8
    <3>3. j \in Nat
      BY <3>1, <1>7, <1>8
    <3> QED
      BY <3>2, <3>3, <1>7, <1>8, <1>14
  <2>2. CASE j = n
    <3>1. w = "again"
      <4>1. n \notin Entry("again")
        BY <1>7 DEF Entry
      <4> QED
        BY <4>1, <2>2, <1>4, <1>7, <1>14
    <3>2. log[i].id = s
      BY <2>1, <2>2, <1>4, <1>7, <1>8, <1>14
    <3>3. log[i].at + Gap <= now + Span
      BY <3>1, <3>2, <2>1, <1>3 DEF Spaced, s, w
    <3> QED
      BY <3>3, <2>1, <2>2, <1>4, <1>7, <1>8
  <2>3. CASE j # n
    <3>1. j \in Entry("again") /\ log'[j] = log[j]
      BY <2>3, <1>7, <1>14 DEF Entry
    <3> QED
      BY <3>1, <2>1, <1>8, <1>14 DEF AskedAgainAfterGap, Asked
  <2> QED
    BY <2>2, <2>3
<1>15. AskedAgainAfterGap'
  BY <1>14 DEF AskedAgainAfterGap, Asked
<1> QED
  BY <1>13, <1>15

LEMMA AskInvKept ==
  ASSUME Basics, AskInv, AskedAgainAfterGap, [SNext]_svars
  PROVE  AskInv' /\ AskedAgainAfterGap'
<1>b. Basics'
  BY BasicsKept
<1>t. now \in Nat /\ SessionTypes
  BY DEF Basics, SessionTypes
<1>1. ASSUME Quiet({"first", "again"}) PROVE AskedAgainAfterGap'
  <2>1. /\ Entry("first")' = Entry("first") /\ Entry("again")' = Entry("again")
        /\ \A i \in DOMAIN log : log'[i] = log[i]
    BY <1>1, <1>t, QuietEntries
  <2>2. Entry("first") \subseteq DOMAIN log /\ Entry("again") \subseteq DOMAIN log
    BY DEF Entry
  <2> QED
    BY <2>1, <2>2 DEF AskedAgainAfterGap
<1>2. CASE UNCHANGED svars \/ Tick
  <2>1. captured' = captured /\ rearm' = rearm /\ hook' = hook /\ log' = log /\ now' \in Nat /\ now <= now'
    BY <1>2, <1>t DEF svars, Tick, rows
  <2> QED
    BY <2>1, <1>b, <1>1, AskFrame DEF Quiet
<1>3. CASE \E x \in Hooks : HookActs(x)
  <2>1. PICK x \in Hooks : HookActs(x)
    BY <1>3
  <2>2. Moved(x) /\ now' = now
    BY <2>1, HookStep
  <2>n. \A e : Note(e) => log' # log
    BY <1>t DEF Note, SessionTypes
  \* A step that leaves the rows alone and asks nothing.
  <2>3. ASSUME captured' = captured, rearm' = rearm, Quiet({"first", "again"}),
               hook'[x].pc \notin Asking \cup {"swap", "again"},
               hook'[x].id # NoRow \/ hook'[x].pc \in Resting
        PROVE  AskInv' /\ AskedAgainAfterGap'
    <3>1. \A y \in Hooks : hook'[y] = hook[y] \/ y = x
      BY <2>2 DEF Moved
    <3>2. now <= now'
      BY <2>2, <1>t
    <3> QED
      BY <3>1, <3>2, <2>3, <1>b, <1>1, AskFrame
  <2>f. ASSUME Finish(x) PROVE hook'[x].pc = "over"
    BY <2>f, <1>t, FinishEffect DEF SessionTypes
  <2>4. CASE Fire(x)
    <3>1. hook'[x].pc = hook[x].pc /\ hook'[x].id # NoRow
      <4>1. PICK s \in Ids : hook' = [hook EXCEPT ![x].id = s, ![x].at = now]
        BY <2>4 DEF Fire
      <4> QED
        BY <4>1, <1>t, FireEffect, AskNumbers DEF SessionTypes
    <3>2. hook[x].pc \in Resting
      BY <2>4 DEF Fire, AskInv
    <3> QED
      BY <3>1, <3>2, <2>3, <2>4 DEF Fire, rows, Quiet, Resting, Asking
  <2>5. CASE Die(x)
    BY <2>5, <2>f, <2>3 DEF Die, Fault, rows, Quiet, Resting, Asking
  <2>6. CASE \/ StartPeek(x) \/ StartStamp(x) \/ StartRecorded(x) \/ StartCheck(x)
             \/ StartNotice(x) \/ StartClean(x) \/ ToolSelect(x) \/ (\E f \in Paths : ToolClaim(x, f))
    <3>1. hook[x].pc \notin Asking \cup {"swap", "again"} /\ hook[x].id # NoRow /\ ~StopPrint(x)
      BY <2>6 DEF StartPeek, StartStamp, StartRecorded, StartCheck, StartNotice, StartClean, ToolSelect,
                  ToolClaim, At, Asking, StopPrint
    <3>2. captured' = captured /\ rearm' = rearm
      BY <2>6 DEF StartPeek, StartStamp, StartRecorded, StartCheck, StartNotice, StartClean, ToolSelect,
                  ToolClaim, Fault, rows
    <3>3. /\ hook'[x].pc \in {"over", "stamp", "prune", "recorded", "check", "notice", "clean", "claim"}
          /\ hook'[x].pc = "over" \/ hook'[x].id = hook[x].id
      <4>1. CASE StartPeek(x) \/ StartStamp(x)
        <5>1. Finish(x) \/ Go(x, "stamp") \/ Go(x, "prune")
          BY <4>1 DEF StartPeek, StartStamp
        <5> QED
          BY <5>1, <2>f, <1>t, GoEffect DEF SessionTypes, Steps
      <4>2. CASE StartRecorded(x)
        BY <4>2, <1>t DEF StartRecorded, SessionTypes, HookType
      <4>3. CASE StartCheck(x)
        BY <4>3, <1>t DEF StartCheck, SessionTypes, HookType
      <4>4. CASE StartNotice(x) \/ StartClean(x)
        BY <4>4, <2>f DEF StartNotice, StartClean
      <4>5. CASE ToolSelect(x)
        BY <4>5, <1>t, SelectEffect DEF SessionTypes
      <4>6. CASE \E f \in Paths : ToolClaim(x, f)
        <5>1. PICK f \in Paths : ToolClaim(x, f)
          BY <4>6
        <5>2. hook[x].pc = "claim" /\ (Without(x, {f}) \/ Without(x, Paths))
          BY <5>1 DEF ToolClaim, At
        <5> QED
          BY <5>2, <1>t, WithoutEffect DEF SessionTypes
      <4> QED
        BY <2>6, <4>1, <4>2, <4>3, <4>4, <4>5, <4>6
    <3>4. hook'[x].id # NoRow \/ hook'[x].pc \in Resting
      BY <3>1, <3>3 DEF Resting
    <3>5. Quiet({"first", "again"})
      BY <2>1, <3>1, HookNotes
    <3> QED
      BY <3>2, <3>3, <3>4, <3>5, <2>3 DEF Asking
  <2>7. CASE StartPrune(x)
    <3>1. hook'[x].pc = "recorded" /\ hook'[x].id # NoRow
      BY <2>7, <1>t, GoEffect DEF StartPrune, At, SessionTypes, Steps
    <3>2. captured' = captured /\ log' = log
      BY <2>7 DEF StartPrune, Fault, rows
    <3>3. ASSUME NEW s \in Ids
          PROVE  \/ rearm'[s] = rearm[s]
                 \/ rearm'[s] = NoRow /\ rearm[s] # NoRow /\ rearm[s] + Retention < now'
      BY <2>2, <2>7 DEF StartPrune, Fault, rows, Pruned
    <3>4. \A y \in Hooks : hook'[y] = hook[y] \/ y = x
      BY <2>2 DEF Moved
    <3>5. now <= now'
      BY <2>2, <1>t
    <3>6. hook'[x].pc \notin Asking \cup {"swap", "again"}
      BY <3>1 DEF Asking
    <3> QED
      BY <3>1, <3>2, <3>3, <3>4, <3>5, <3>6, <1>b, <1>1, AskFrame DEF Quiet
  <2>8. CASE StopLedger(x)
    <3>1. CASE Finish(x)
      BY <3>1, <2>8, <2>f, <2>3 DEF StopLedger, rows, Quiet, Resting, Asking
    <3>2. CASE Go(x, "ask")
      <4>1. hook'[x].pc = "ask" /\ hook'[x].id # NoRow
        BY <3>2, <2>8, <1>t, GoEffect DEF StopLedger, At, SessionTypes, Steps
      <4> QED
        BY <4>1, <2>8, <2>3 DEF StopLedger, rows, Quiet, Asking
    <3>3. CASE ~Finish(x) /\ ~Go(x, "ask")
      <4>1. /\ At(x, "ledger") /\ captured[hook[x].id] # NoRow /\ Last(hook[x].id) + Gap <= now
            /\ hook' = [hook EXCEPT ![x].pc = "swap", ![x].saw = rearm[hook[x].id]]
            /\ log' = log /\ captured' = captured /\ rearm' = rearm
        BY <3>3, <2>8 DEF StopLedger, rows
      <4> QED
        BY <4>1, <2>2, <1>1, LedgerStep DEF Quiet
    <3> QED
      BY <3>1, <3>2, <3>3
  <2>9. CASE StopAsk(x)
    <3>0. At(x, "ask") /\ log' = log /\ captured' = captured /\ rearm' = rearm
      BY <2>9 DEF StopAsk, rows
    <3>1. CASE captured[hook[x].id] = NoRow
      <4>1. Go(x, "mark")
        BY <3>1, <2>9 DEF StopAsk
      <4> QED
        BY <4>1, <3>0, <3>1, <2>2, <1>1, AskStep DEF Quiet
    <3>2. CASE captured[hook[x].id] # NoRow
      <4>1. Finish(x)
        BY <3>2, <2>9 DEF StopAsk
      <4> QED
        BY <4>1, <3>0, <2>f, <2>3 DEF Quiet, Resting, Asking
    <3> QED
      BY <3>1, <3>2
  <2>10. CASE StopSwap(x)
    <3>0. At(x, "swap") /\ log' = log /\ captured' = captured
      BY <2>10 DEF StopSwap, Fault, rows
    <3>1. CASE Finish(x) /\ rearm' = rearm
      BY <3>0, <3>1, <2>f, <2>3 DEF Quiet, Resting, Asking
    <3>2. CASE ~(Finish(x) /\ rearm' = rearm)
      <4>1. rearm[hook[x].id] = hook[x].saw /\ Go(x, "again") /\ rearm' = [rearm EXCEPT ![hook[x].id] = now]
        BY <3>2, <2>10 DEF StopSwap, Fault, rows
      <4> QED
        BY <4>1, <3>0, <2>2, <1>1, SwapStep DEF Quiet
    <3> QED
      BY <3>1, <3>2
  <2>11. CASE StopMark(x)
    <3>0. At(x, "mark") /\ log' = log /\ rearm' = rearm
      BY <2>11 DEF StopMark, Fault, rows
    <3>1. CASE Finish(x) /\ captured' = captured
      BY <3>0, <3>1, <2>f, <2>3 DEF Quiet, Resting, Asking
    <3>2. CASE ~(Finish(x) /\ captured' = captured)
      <4>1. /\ Go(x, "rearm")
            /\ captured' = [captured EXCEPT ![hook[x].id] = IF @ = NoRow THEN now ELSE @]
        BY <3>2, <2>11 DEF StopMark, Fault, rows
      <4> QED
        BY <4>1, <3>0, <2>2, <1>1, MarkStep DEF Quiet
    <3> QED
      BY <3>1, <3>2
  <2>12. CASE StopStamp(x)
    <3>1. /\ At(x, "rearm") /\ Go(x, "first") /\ log' = log /\ captured' = captured
          /\ (rearm' = rearm \/ rearm' = [rearm EXCEPT ![hook[x].id] = now])
      BY <2>12 DEF StopStamp, Fault, rows
    <3> QED
      BY <3>1, <2>2, <1>1, StampRowStep DEF Quiet
  <2>13. CASE StopPrint(x)
    BY <2>13, PrintStep
  <2> QED
    BY <2>1, <2>4, <2>5, <2>6, <2>7, <2>8, <2>9, <2>10, <2>11, <2>12, <2>13 DEF HookActs
<1> QED
  BY <1>2, <1>3 DEF SNext, HookActs

(* However Stops of one session race, and whatever starts prune: a captured   *)
(* session is asked again only when a gap has passed since every earlier      *)
(* question.                                                                *)
THEOREM NoHurriedQuestion == SSpec => []AskedAgainAfterGap
<1>1. SInit => Basics /\ AskInv /\ AskedAgainAfterGap
  <2> SUFFICES ASSUME SInit PROVE AskInv /\ AskedAgainAfterGap
    BY BasicsInit
  <2>1. log = <<>> /\ captured = [s \in Ids |-> NoRow] /\ rearm = [s \in Ids |-> NoRow]
    BY DEF SInit
  <2>2. Entry("first") = {} /\ Entry("again") = {}
    BY <2>1 DEF Entry
  <2>3. ASSUME NEW x \in Hooks PROVE hook[x].pc \in Resting /\ ~Running(x)
    <3>1. PICK c \in Crews : hook = [y \in Hooks |-> [Idle EXCEPT !.pc = c[y]]]
      BY DEF SInit
    <3>2. c[x] \in Kinds
      BY <3>1, SessionsAssumption
    <3>3. hook[x].pc = c[x] /\ hook[x].id = NoRow
      BY <3>1 DEF Idle
    <3> QED
      BY <3>2, <3>3 DEF Kinds, Resting, Running
  <2> QED
    BY <2>1, <2>2, <2>3 DEF AskInv, AskedAgainAfterGap, Asked, RowTimes
<1>2. Basics /\ AskInv /\ AskedAgainAfterGap /\ [SNext]_svars => Basics' /\ AskInv' /\ AskedAgainAfterGap'
  BY BasicsKept, AskInvKept
<1> QED
  BY <1>1, <1>2, PTL DEF SSpec
=============================================================================
