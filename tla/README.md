# Sidegraph's store in TLA+

Sidegraph keeps what a team decided about its code (decisions, facts that
support them, and the domains of the system) as JSON files committed beside the
code, one file per record, with a local SQLite index that is derived from them.
Agents, humans, git hooks and command lines all write through one Python class,
`Store` (`src/src/sidegraph/store.py`). There is no server that owns the data: the processes
of one checkout share the directory and the index, and checkouts share the
records through git.

This directory models that core and what is built on it, checks it with TLC on
small instances and proves with TLAPS, for instances of every size, nearly every
safety property the runs check. Paths below are relative to `src/src/sidegraph/`
unless they say otherwise.

## 1. The system

### Components, their state and their operations

| Component | State | Operations |
| --- | --- | --- |
| Record lifecycle (`store.py`, `store_rules.py`, `schema.py`) | one row per decision and fact: status, `supersedes`, `supports`, `valid_to`, `ratified_by` | `add_decision`, `add_fact`, `ratify`, `drop`, `ratify_fact`, `drop_fact`, `retire` |
| Domain lifecycle (`store.py`, `domain_splits.py`) | one row per domain: status, slug, `supersedes`, parent; the paired entity `domain:<slug>` | `add_domain`, `supersede_domain`, `ratify_domains` (accept, drop) |
| Canonical files (`store.py`) | `decisions/`, `facts/`, `domains/`, `entities/`, `bindings/`: one JSON file each, replaced atomically | `_atomic_write_text` per file, in the order the call gives |
| Index and freshness (`store.py`) | `index.db`: the rows, `canonical_digest`, `canonical_stat`, the skipped files | `refresh_if_stale`, `_reload_index_from_canonical`, `_touch_digest`, `_mutation` |
| Archive (`store.py`, `store_layout.py`) | `archive/*.jsonl` segments beside the hot files | `compact` |
| Packed store (`store_format.py`, `maintenance.py`, `maintenance_clock.py`, `check_fold.py`, `migrate.py`) | shards of a format-2 store, `verifications/packed.shard`, the settled clock | fold, publish, remove; `sidegraph-migrate` |
| Anchors and sync (`anchoring.py`, `sync.py`, `engine/reader.py`) | bindings with a status (live, degraded, orphaned), an entity's descriptor, last-seen node and community, meta rows of the version gate | capture-time binding, `sync` and its rebind ladder |
| Domain membership (`domains.py`, `domain_snapshot.py`, `sync.py`) | which nodes a domain owns, a committed snapshot, a certificate in the index | bootstrap, refresh, `_uncertify_membership`, the snapshot command |
| Capture (`capture.py`, `importer.py`, `server.py`) | none of its own: it writes through the Store | propose, deduplicate, auto-ratify under a policy, the direct tools |
| Documents and bootstrap (`doc_import.py`, `bootstrap/`) | the documents of the checkout; none of its own | import and re-import, plan, review, apply |
| Sessions (`host/hooks.py`, `delivery.py`, `hot_index.py`) | rows in the index's meta and delivery tables | claim a notice or a nudge, deliver once |
| Drift checks (`drift_checks.py`, `doctor.py`, `server.py`) | `verifications/`: one file per check; a cached answer in the index | record, scan, fold |
| Checks (`verify.py`, `integrity.py`, `doctor.py`, `drift_groups.py`) | none: they read files, index and git | lint, transitions against a base commit |
| Retrieval, projections, statistics, servers, command lines, git hooks, host settings | none that the store's rules depend on | they call the above |

How they interact: every write runs inside `Store._mutation`, which takes
SQLite's writer reservation (`BEGIN IMMEDIATE`) before it reads what it decides
on, publishes files as it goes and commits the index last. A reader refreshes
first: it walks the files into a digest, compares the digest with the one the
index is certified for and, if they differ, reloads the whole index under the
same reservation. Git replaces files under everybody's feet and takes no lock.

### What is hard here, and the properties it asks for

* **Two stores of truth.** Files are durable one by one, the index commits at
  the end: a crash leaves some files of a call and none of its index rows, and
  the next reload takes the files as they are.
* **Certified staleness.** A digest, a graph version, a membership certificate
  and a cached drift answer each let later work be skipped. If one is stamped
  over something that was never looked at, everything after it is fooled.
* **Supersession.** Proposals wait for days while what they replace is
  superseded, retired or dropped, and branches supersede the same record
  independently. One record must continue what was accepted, and a proposal must
  not become impossible to settle.
* **Cascades.** Evidence is shared between decisions and follows verdicts, also
  those of a policy that no human sees.
* **Many transactions for one act.** A draft, an import, a review, a bootstrap
  and a sync pass are sequences of transactions: others act in between, and a
  process may die anywhere.
* **Domains** claim a name and can be dropped after acceptance and recovered.
* **Merges** run none of the store's rules.

PROJECT.json lists each hazard at its line with the properties that cover it.

## 2. The modules

| Module | What it models |
| --- | --- |
| `RecordRules` | the conditions and effects of the Store's calls on decision and fact rows, as operators on a table of rows |
| `Lifecycle` | one store, calls in any order; the abstract specification of a store: a call is one step |
| `Capture`, `DocImport`, `Review`, `Bootstrap` | who makes those calls, each module on top of the one before; `Bootstrap`'s specification has them all and implements `Lifecycle` |
| `CanonicalFiles` | the calls published file by file, with crashes, failed writes and reloads; implements `Lifecycle` until the first crash |
| `IndexFreshness`, `IndexRestore` | several processes over one directory and one `index.db`, and the digest that certifies the index; the same where a removed file may come back as it was |
| `DomainRules`, `GitMerge`, `Clones` | the rules of domains, git's record-by-record three-way merge, and the Store's calls on records and domains in two clones that pull from each other |
| `Compaction` | moving closed records into archive segments, with crashes, in clones that pull |
| `Anchors` | sync and the rebinding of records to code that moves |
| `Membership` | which nodes a domain owns, and what certifies it |
| `Maintenance`, `VerifyAgainst` | maintenance of a packed store, and `sidegraph-verify --against` over what it does |
| `CheckStore`, `DriftChecks` | drift checks as files and lines; their recording, scan and fold |
| `Sessions` | the host's hooks over the rows of one index |
| `..._proofs` | theorems and proofs; `Writers_proofs` holds those of `Lifecycle` and of all who write, `Records_proofs` those of `CanonicalFiles` and `Clones`, `Index_proofs` those of `IndexFreshness` and `Sessions` |
| `MC...` | model values, settings and symmetry sets for TLC |

### RecordRules and Lifecycle

`rows` maps every id to a row, `Unwritten` until an add writes it. Each method
is two operators: `CanX` is the conjunction of the checks that raise, `AfterX`
the rows at commit. A call that raises rolls back, so it is no step.

| Code | Operator |
| --- | --- |
| `_check_supersede_target` (rules A and B) | `MayBeSuperseded` |
| `_live_head_after` (breadth-first over accepted and superseded successors) | `Chain`, `LiveHeadsAfter` |
| `_refuse_stale_predecessor` | `StalePredecessor` |
| the close of predecessors in `add_*`, `ratify`, `_close_fact_predecessor` | `ClosedBy` |
| the fact cascades of `ratify` and `drop` | `Evidence`, `AfterRatify`, `AfterDrop` |
| `retire` with and without `duplicate_of` | `CanRetire`, `AfterRetire` |

`valid_to` is left out because no writer sets it on a row it leaves proposed or
accepted, so accepted and "accepted and open" coincide. Properties:
`SuccessionIsSound` (a superseded record has a successor, no record has two that
were ever accepted, and no proposal of a never-merged store is ever refused by
ratify), `AppendOnly`, `EvidenceFollowsVerdict`.

### Capture, DocImport, Review, Bootstrap

`Capture` adds what a call of `Lifecycle` does not show: who ratified a record
(`by`), what its best anchor is worth (`route`), of which decision it is a
duplicate, and where each agent stands in its draft (`job`). A draft is one
transaction per step: `Propose`, `Bind`, then for each fact `CheckFact`,
`AddFactOf`, `BindFact` or `FactFails`, then `Judge` and, in a transaction that
judges the evidence again, `AutoRatify`. `Internal` agents, the direct tools, a
human (`Accept`, `Reject`, `RetireDecision`) and `Rebind` (sync) act in between, and
`Stop` ends an agent anywhere. `missing` counts the facts of a decision's draft
that are not written and bound.

`DocImport` is `_import_one_record`: `ReadDoc` decides what is to be done,
`DropPending`, `AddDoc`, `BindDoc`, `JudgeDoc`, `RatifyDoc` and `SettleDoc` do
it one transaction at a time, with edits of the document, verdicts and deaths
in between. `text` is what a record was imported with. `Disposition` is
`_classify_doc_candidate`, with the documents' status lines and the mode.

`Review` is `sidegraph-ratify` and the ratify tool: `BeginAll` reads the
decisions, `ListFacts` the facts that do not ride on one of them, and then
`AcceptNext` and `DropNext` settle one record at a time. `Bootstrap` is
`sidegraph-bootstrap`: `Plan` over all documents and the catalog, `Answer`,
a second look at the inputs (`Refresh`, `Apply`), then `BeginItem` to `EndItem` for
each answer through the import of `DocImport`, and `Report`.

* `AutoMeansComplete`: what a policy accepted on its own has all of its draft.
* `EvidenceIsHandled`: evidence goes along with the verdict on its decision, and
  where no human looked it was fit for the policy at that very moment.
* `DuplicatesStrandNothing`: retiring a duplicate takes no fact out of retrieval.
* `OneRecordPerDocument`: with one importer at a time, a document has one record
  in force and one that waits.
* `ReimportFindsItsRecord`: an import that ends undisturbed leaves the next one
  nothing to write.
* `BatchesComplete`: a review of everything, and a bootstrap that ends, leave
  nothing of theirs undone (`AllReviewed`, `RunsConverge`).

What the code does not do, met on the way: two importers at once write two
accepted records for one document; a record that a human superseded or retired
comes back as a new one when its document is imported again; an import that dies
between two anchors leaves the record partly anchored; a dropped proposal is
imported anew from an unchanged open document (docs read otherwise,
`docs/reference/cli.md`); superseding a decision leaves its facts to the
doctor's stranded-fact report; retiring without a graph takes any orphaned
anchor for a route; accepting a decision and dropping its evidence in one call
of `ratify` accepts both; a bootstrap's "keep as proposed" never completes for an
accepted record that says the same, and its accept overrides a human's drop
between the second look and the write.

### CanonicalFiles

`files` are the rows on disk, `index` the rows of the index. `Begin` decides a
call's `target` from the index; `Publish` writes one of the changed files, in any
order that `Precedes` allows (the successor before its predecessor, a decision
before the facts of its cascade); `Commit` makes the index the target. A
`Crash` (the process dies, or a write raises and the index rolls back) forgets
the rest, and `Reload` makes the index what the files say.

A call may begin on an index older than the files: it refreshed, then waited
for the reservation while another process published and died. The history
variable `stale` says that this has happened.

* `DiskIsWhole`: at every instant no file holds a record that nothing
  superseded, or one that refers to a record that is not there. This holds with
  stale calls too.
* `DiskKeepsHistory`: files move along the legal transitions only, and a drop
  never leaves the rule it would have replaced superseded. This stops at a stale call: a
  ratification that died after accepting the successor and closing its
  predecessor, followed by a `drop` of that successor decided on the old index,
  rejects an accepted record and leaves its predecessor superseded.
* `ImplementsLifecycle`: up to the first crash, what the index holds at each commit
  is a behaviour of `Lifecycle`.

### IndexFreshness

A file's content is a version number; `size` and `mtime_ns` identify it. Each
process walks the files one by one (`WalkFile`), and everything else that
happens in between happens between two visits: other processes' publishes and
commits, edits and removals from outside. The reservation is `holder`; the
writer's uncommitted database is `work`, which `Fail` throws away.

`CertifiedIndexIsLoaded`: when the stored digest equals the digest of the disk,
every file that is there is in the index with the content that is there, unless
the reload examined and skipped it. `IndexCatchesUp`: once outside edits end, the
index comes to be certified for what is on disk and stays so.

`index_restore` is expected to fail: a file that is there when a reload computes
its digest, away while its directory is loaded and back with its old `mtime`
afterwards is certified without having been loaded. A removed file is another
matter: one that goes after a refresh and before a write of the same process is
left out of the digest that the write stamps, so the index keeps serving its
record (`CertifiedIndexIsExact`, in no run, fails in nine steps).
An outside edit of a file that a writer is about to publish is overwritten.

### Clones

`GitMerge!Merges` gives the trees a pull may end in; `base` is the last state
both clones have. A change to a decision or fact stamps a time, so two
independent changes of one row always conflict; those pulls are left out, since
their result is whatever a human types. Conflicting domains are settled either
way. Callers write domains as proposals only, as every caller in the repository
does. Parent links are left out: a parent is any domain that exists, checked
when the child is written and never again.

* `OneLiveHead`: whatever merges brought together, what was ever accepted is
  continued by exactly one record in force, unless a record on the way was
  retired: the re-checks in `ratify` do their job, and no merge loses a head.
* `SlugHasOneHolder` before any pull, and `OnlyMergesCollide` whatever is pulled:
  no call gives a slug its second accepted holder.

Where a record was retired (`Ended`) there may be two, because the code looks for
a head from the predecessor on, through accepted and superseded records
(`Store._live_head_after`), and finds none. Two proposals for d1 meet in a
merge; d3 is accepted, two proposals for d3 meet in the next merge, d5 is
accepted and retired: now the other proposal for d1 and the other one for d3 can
both be ratified, and both continue d1. That takes five decisions, one more than the run
has; the proof of `ChainsKeepOneHead` showed it, TLC confirmed it, and the property says what is left.
`SplitNeedsMerge`, the statement of `domain_splits` that a
split of a domain needs a merge or a hand edit, is in no run and does not hold:
an accepted domain dropped under its pending revision, the revision accepted,
the dropped domain recovered under another slug and that accepted too is a split in one store.

### Compaction

A clone has hot files and archive segments; what a reader gets (`Reads`) is the
hot file, else the first archived line in name order (`_archived_records`).
`Publish` is the exclusive link of a finished segment, `Unlink` the removal of
one hot file if it still says what the archive says, `Crash` forgets the
removals that are left. A compaction decides on `index`, which a pull since the
last refresh may have made stale; pulls do not happen while one runs. Domains
stand for both kinds of record that are packed: a decision's end is final, a dropped domain's is not.

* `NothingLost` and `CompactionIsInvisible`: a reader sees no difference at any
  step of a compaction or after its crash, and no merge hides a record. The
  comparison before each removal is what the second rests on. (Between the
  comparison and the removal the file system gives no guarantee.)
* `CompactionConverges`: a compaction that ends leaves no duplicate of an
  archived record.
* `compaction_copies` is expected to fail: a dropped domain packed in one clone,
  recovered and packed in another, gives two archived lines that differ, and no
  conflict, because both sides deleted the file. Whether it reads as superseded or
  as dropped again depends on the names of the segments.

### Anchors

An entity is a symbol with a descriptor, the file it is in; a record is bound to
it by a `leaf` and to the community of its node by a tier-1 row of `rows`. `tree`
and `head` are the working tree and the commit, `graph` is `graph.json`, built
from the tree at some moment (`Build`). `Rung` is the rebind ladder.

| Code | Operator |
| --- | --- |
| the gate of `sync`: full pass, orphan pass, re-verification, nothing | `Gate`, `Begin` |
| `rebind_entity`: the rung is decided, then each row, the entity and each leaf is written, a transaction each | `Visit`, `Rebind`; `WriteRow`, `WriteEntity`, `WriteLeaf`, `MoveOn` |
| `_record_pending_moves` | `RecordPendingMoves` |
| `_retry_pending_tier1`, `_reconcile_vacated`: one record after the other, one row at a time | `Weigh`, `Restore`, `Retire`, `NextRecord`, `Collect`, `Remember` |
| the end of a pass, a meta key at a time | `StampGraph`, `ClearVolatile`, `Acknowledge`, `VerifyEnds` |
| a visit or a reconcile that raises, a refresh that is refused, a death | `Raise`, `ReconcileRaises`, `Refused`, `Crash` |
| captures with and without a graph, `_finish_rebuild` | `Capture`, `CaptureBlind`, `Reload` |

No lock keeps passes apart: each `Process` may begin one beside any that runs,
on whatever graph is then on disk, and everything in the environment happens
between any two writes.

* `SettledMeansRebound`: when nothing runs and the gate admits no pass on the
  store's own graph, every leaf says what the graph on disk says.
* `StaleRowsAreAccounted`: a live community row is a baseline of its record's
  leaves, about to be settled, ahead of a baseline that a visit is going to write,
  or on the list `lost` of rows that sync no longer revisits.
* `DescriptorsFollowCommits`: a visit rewrites a descriptor, which every clone
  shares, only along a move that the commits showed when it decided.
* `CommittedMovesAreFollowed` (liveness): a move that is committed is followed.

What the code does not promise, and the properties therefore except:

* *Passes side by side.* A pass on an older graph can overwrite leaves, or an
  orphan pass acknowledge what another pass was still owed, after another process
  has stamped the newer graph; and a pass clears the cold flag of a reload
  that came while it ran. `crossed` says that one of the two happened since the last
  full pass that ran alone, and `SettledMeansRebound` is silent until the next one.
  Without the exception TLC refutes it. For the same reason a pass may write back a descriptor that
  another one has followed meanwhile; the last conjunct of `DescriptorsFollowCommits` says so.
* *Visits that raise.* `sync` does not retry them before the graph changes, and
  says so; `raised` holds them.
* *A borrowed graph.* `UpToDate` speaks of the gate on the store's own graph. When the stamp is a
  borrowed pass's and a full pass on the own graph, the same version, dies between the entity and the leaf of a move,
  the next borrowed sync is skipped while the moved entity's leaf still has its old status; the next
  sync on the own graph repairs it. TLC finds that in five events if `Modes` has both and the property is stated of either gate.
* *An earlier graph that a build brings back* (`Returns`): the old stamp fits again, and with it
  what a pass that died half way has done to the leaves is not seen.
* *Rows.* `lost` grows where a visit dies or raises between the new row and the new
  baseline, where a pass dies before the reconcile, where a reconcile abstains
  (`_reconcile_vacated` forgets the pair, although the comment at
  `PENDING_TIER1_META` says that it is kept), where a baseline is overwritten that
  the pass did not read (a capture or another pass wrote it), and where two passes
  settle one record or save the retry memory, which is read and written back whole, at once.

`RepointReachesEveryRecord`, what `_repoint_communities` says of itself, is in no run: a
capture of a second record writes the baseline of their entity, the next pass sees a
baseline that is right already, and the first record gets no row.
Simplified: a row's read and its write are one step, as are the reads of the stamp
and the gate when no reconcile is retried; a pass begins in the first idle process, since
which one makes no difference. Left out: descriptors without a file, the stale scan.

### Membership

Members of a domain are derived from its rules over a graph, or taken from the
committed snapshot where that freezes it (`MembershipOf`). A `Pass` writes the
rows of every accepted domain and certifies them for an identity, the graph and
snapshot they were derived from; it may fail for some domains (`Fails`) or as a
whole (`PassFails`). Several processes, each with the graph it has read, ratify
(`Accept`, `Drop`, `Supersede`), capture (`CaptureEnsure`, `CapturePick`,
`CaptureBind`) and take snapshots (`SnapshotBegin`, `SnapshotFreeze`,
`SnapshotWrite`), while `Git` writes both files at any moment. The history
variable `basis` says what each domain's rows were derived from, and from which
communities before.

* `RowsAreCurrent`: under a certificate every accepted domain's rows were derived
  from what it names; after a partial failure, every domain's that did not fail.
* `BindsFromWhatIsOnDisk`: what a record takes from a domain, and keeps for good,
  is right for the snapshot on disk when the row is written.
* `RefreshKeepsMembership`: a refresh that names no domain changes no members.

A domain that keeps earlier communities under a snapshot may lose members when
they are derived once more: the derivation is not idempotent, and the last two
properties say "from the communities it had". Left out: the fallback of pick to
`Domain.communities`, stub nodes, `VOLATILE_STALE`, and the window between the
last comparison with the snapshot file and its replacement.

### Maintenance and VerifyAgainst

A record is held by its file, by a line of a shard file, by a line of a segment;
`Effective` is what a reader gets. A run plans once (`Begin`), adds misplaced lines to
their own buckets (`AddMoved`), drops them where they stood (`DropMoved`), writes
the folded records (`WriteLines`), and removes files and segments whose lines it
finds on disk (`DeleteFile`, `DeleteSegment`), one file at a time. `Die` ends it
anywhere; `GitFile`, `GitLine`, `GitSegment` and `GitHead` act in between.
`VerifyAgainst` compares two such trees as `_Against` does and composes itself
with the runs, with an edit by `Save` and with a merge to any store.

* `FoldIsInvisible`, `NothingUniqueIsRemoved`: no step of a run changes what is
  read of a record that git left alone, and none removes a body unless a copy is
  left that it may legally have become.
* `OneRunSettles`: a run that ends undisturbed leaves nothing for the next one.
* `OwnWorkIsAccepted`: verify reports nothing of a tree that only the store's
  code has changed, wherever a run was cut short.
* `AcceptedIsLegal`: an accepted tree holds for every committed record the same
  body or a legal successor, or one of copies that contradicted each other.

Left out: unreadable and conflicted copies, lost raw keys, unions of bindings,
the marker and downgrades, migration, empty buckets; the comparison of a file
and its replacement or removal are one step; which records are old enough
(the settled clock) is a free choice.

### CheckStore and DriftChecks

One open decision, its anchored files and the checks of it. `Begin` and `Publish`
record a check under the reservation; a refresh reads anchors, diff, file list,
files and packed lines step by step (`ScanBegin` to `ScanPublish`) without it;
a fold moves check files into `packed.shard` (`FoldPlan`, `FoldRaise`,
`FoldPublish`, `FoldRecheck`, `FoldUnlink`), under the reservation, and dies
anywhere; `EditCode`, `CommitAll`, `Pull`, `Checkout` are git. `Passes` is what
verify says of two commits.

* `FoldKeepsChecks`: no step of a fold changes the check that decides.
* `ReadsLatest`, `QuietMeansSeen`: an undisturbed refresh has the check that
  decides, and leaves the decision off the list only if its capture or that check has
  seen every anchored file as it is.
* `CommitsPassVerify`: the commit of a store in which a fold ran, or died, passes verify.
* `ClearedAsScanned`: a check clears the cached answer only where a refresh would.
* `AgesAreRight`: what comes back on the list is new exactly if its last episode
  was over.

`CommitsPassVerify` excludes stores in which a checkout met uncommitted changes
or a fold (`mixed`): HEAD going away and back while a fold runs can leave a packed file without
its requirement in the marker. A refresh in flight lists a decision that was just
checked until the next one. Left out: declared sections, file modes, git's
deadlines and read bounds, the check that the working tree is clean, damaged
lines, two records under one capture commit, ULIDs of clones whose clocks
differ, and the window between a look at HEAD and the write after it. A refresh
has two modes, statuses known or index unavailable; the third one of the code, rows
that can be read but are not certified (`VOLATILE_STALE`, `doctor._binding_status_snapshot`), only
lists more.

### Sessions

Hook processes over the rows of one index: `start`, `notice`, `claim`,
`captured`, `rearm`. One step is one transaction or one print; `Fault` is a
write that the lock refused or a killed hook; a hook runs for at most `Span`
ticks, since the host kills it after its timeout. `log` is a history of what
was stamped, claimed, printed and deleted.

* `MapOncePerStart`, `NoticeOncePerDay`, `FileToldOnce`, `AskedAgainAfterGap`:
  what is promised once is claimed once, up to the exceptions that each states. A notice
  is claimed again within the day only after a clean start, or because the problem has got
  worse (`_notice_is_due`): `Due` compares the severity with the recorded one, and
  where two claims within a day have no clean start between them, the property asks that the
  severity rose on the way from the first to the second. No check in the code changes its
  severity yet; the rule is there and a test requires it.

`FirstNudgeOnce` ("guarantees the first block-and-nudge fires once per session",
`docs/reference/hooks.md`) is in no run: two Stops of one session that ask at
once both find the session not captured, and both print (eight steps). Left
out: briefs for subagents, the grep nudge, telemetry rows; whether a session is
substantial, or has enough commits, is a free choice.

## 3. The runs and their bounds

| Run | Module, configuration | Properties | Shows |
| --- | --- | --- | --- |
| `writers` | `MCWriters`, `Writers.cfg` | `SuccessionIsSound`, `AutoMeansComplete`, `OneRecordPerDocument`, `EvidenceIsHandled`, `DuplicatesStrandNothing`, `ReimportFindsItsRecord`, `BatchesComplete` | Everybody who writes records in one store: agents that propose drafts step by step under every policy, a human who reviews and retires, imports of a document that is edited meanwhile, a review of everything that waits, a bootstrap of two documents, sync, and anybody who calls the store directly. Chains stay linear and the queue ratifiable; an automatic policy accepts only complete drafts with fit evidence; a duplicate strands no fact; a document keeps one record; a review or a bootstrap that ends undisturbed leaves nothing undone. |
| `index_freshness` | `MCIndexFreshness`, `IndexFreshness.cfg` | `CertifiedIndexIsLoaded`, `IndexCatchesUp` | Two processes refresh, reload and write while outside edits and a crash land anywhere, between any two file visits: a certificate equal to the disk's digest is never attached to an index that misses a file; and, under fair refreshing, once edits end the index and its certificate reach the state of the disk and stay there. |
| `index_restore` (violation) | `IndexRestore`, `IndexFreshnessRestore.cfg` | `CertifiedIndexIsLoaded` | A file moved away and back with its mtime during a reload is certified although the reload did not load it. |
| `canonical_files` | `MCCanonicalFiles`, `CanonicalFiles.cfg` | `DiskIsWhole`, `DiskKeepsHistory`, `ImplementsLifecycle` | Calls on three decisions and two facts, published file by file, with a crash between any two publishes and a reload: no record on disk is superseded by nothing, no reference dangles, the files keep to the legal transitions, and up to the crash the index implements Lifecycle. |
| `clones` | `MCClones`, `Clones.cfg` | `OneLiveHead`, `SlugHasOneHolder`, `OnlyMergesCollide` | Two clones that pull from each other, with four decisions, or three facts and a decision they support, or three domains over two slugs: what was accepted is continued by one record in force unless one on the way was retired, also when one ratification carries several facts; before any merge a slug has one live holder; with merges, no call brings two accepted holders of a slug about. |
| `compaction` | `MCCompaction`, `Compaction.cfg` | `NothingLost`, `CompactionIsInvisible`, `CompactionConverges` | Two clones call, compact, die half way through a compaction and pull from each other, also between a refresh and a compaction: whatever is packed stays readable as it was, and the next compaction clears what an interrupted one left. |
| `compaction_copies` (violation) | `MCCompaction`, `CompactionCopies.cfg` | `ArchivedCopiesAgree` | A dropped domain archived in one clone and recovered and archived in another: the merge has no conflict and brings two different archived lines of one id. |
| `anchors` | `MCAnchors`, `Anchors.cfg` | `SettledMeansRebound`, `StaleRowsAreAccounted`, `DescriptorsFollowCommits`, `CommittedMovesAreFollowed` | Sync passes of all three kinds, of two processes side by side, each write a transaction of its own, with visits and reconciles that raise, deaths, edits, commits, graph builds, captures and reloads between any two: a store that declares itself synced has rebound every leaf, live community rows are accounted for, and descriptors follow commits only. |
| `membership` | `MCMembership`, `Membership.cfg` | `RowsAreCurrent`, `BindsFromWhatIsOnDisk`, `RefreshKeepsMembership` | Two processes with graphs of different age sync, ratify, capture and take snapshots on one index, while git replaces the snapshot file at any moment and passes fail in part or as a whole. |
| `verify_against` | `MCVerifyAgainst`, `VerifyAgainst.cfg` | `OneRunSettles`, `OwnWorkIsAccepted`, `AcceptedIsLegal`, `FoldIsInvisible`, `NothingUniqueIsRemoved` | Two maintenance runs over every mix of copies of a record in its file, its bucket, a stray shard file and a segment, with crashes between any two writes, a change by git at any moment or a merge to any other mix; verify --against judges every tree on the way. |
| `sessions` | `MCSessions`, `Sessions.cfg` | `MapOncePerStart`, `NoticeOncePerDay`, `FileToldOnce`, `AskedAgainAfterGap` | Three hook processes of two sessions on one index, each step a transaction, with refused writes, killed hooks and expiring rows: what is promised once is claimed once. |
| `drift` | `MCDriftChecks`, `DriftChecks.cfg` | `ReadsLatest`, `FoldKeepsChecks`, `CommitsPassVerify`, `QuietMeansSeen`, `ClearedAsScanned`, `AgesAreRight` | One open decision over two files: checks are recorded, scanned, folded and committed, step by step, while git moves HEAD, anchors come and go, comparisons fail and processes die. The answer a refresh leaves is never quieter than the checks that decide, and no fold changes which do. |

Each configuration picks the smallest cast in which the run's hazards happen.
Counters that would grow for ever are bounded by constants of the module.

| Run | Bounds, and why they are enough |
| --- | --- |
| `writers` | `MCSettings`: ten settings with two or three decisions, up to two facts and two agents, one question each, so that not everything has to vary at once. Three decisions make the shortest chain with a competing successor, two facts the shortest collision in a cascade. `MaxFacts` 1 is one fact for a draft, two `Texts` one edit of a document |
| `canonical_files` | three decisions and two facts: a call that publishes three files; one crash, since after a reload the store is again at rest |
| `index_freshness` | two files, so that a change can land behind a walk or ahead of it; two processes; `MaxVersion` 2 and one failure |
| `clones` | four decisions hold two chains that compete for one predecessor, one in each clone, or a head that is retired under a competing proposal; three facts and a decision collide in one ratification; three domains over two slugs. `MCMixes` takes one kind at a time, because the rules of the three do not meet |
| `compaction` | a domain and its replacement, two segment `Names`, one crash: every order of packing, recovering and pulling |
| `anchors` | two processes; two entities, one of them an overload, one record, two files and two communities; three events (`MaxEvents`), which are edits, commits, builds, captures, reloads, raises, refusals and deaths: a move, its commit and its build, or a death between two captures. To begin beside another pass costs two of the three. One record, because what a second one would add is the limit named above |
| `membership` | a domain and two that may replace it, two processes whose graphs differ, three events, one failure |
| `verify_against` | record 1 with any file and any line, record 2 in each of the places a run treats differently (`MCStores`); two runs, one event of git |
| `sessions` | three hooks on two sessions; every window is two ticks, a hook runs for one, the clock reaches three: a claim can expire and be claimed again; two severities (`Ranks`), for a problem that gets worse |
| `drift` | seven settings, each a budget of acts for one question; two files |

`DriftChecks` counts keys up to `MaxKey`. Symmetry sets are used only where no
liveness is checked and only over ids that the rules compare for equality;
segment names, versions and keys are ordered and are never in one. In `clones`
the ids of the three kinds turn together. Deadlock is not checked: a store in
which nothing is left to write rightly stops.

Fairness is assumed in two modules. In `IndexFreshness`, `Proceed` is weakly
fair, since a process in the middle of a call goes on by itself, and starting a
refresh and taking the reservation are strongly fair: every
request of a server refreshes first, and SQLite's busy timeout retries a lock
that is free again and again. Writes, failures and edits are not fair. In `Anchors`,
`InPass` of each process is weakly fair, since a pass goes on by itself, and so is that some process begins one
on the store's own graph (`Begin(p, TRUE)`), since each session start and context request runs a sync that may do everything.

## 4. What is proved

`tlapm` checks these for every value of the constants.

| Theorem | In | Establishes |
| --- | --- | --- |
| `LifecycleTypeOK` | `Writers_proofs` | Every id keeps a well-formed row, for any number of decisions and facts. |
| `LifecycleSupersededHasSuccessor` | `Writers_proofs` | A superseded record always has a successor that is more than a proposal. |
| `LifecycleChainNeverForks` | `Writers_proofs` | A record has at most one successor that was ever accepted, and none while it is live. |
| `LifecycleQueueIsRatifiable` | `Writers_proofs` | In a store that was never merged, no proposal is ever refused by ratify or ratify_fact. |
| `LifecycleSuccession` | `Writers_proofs` | Whatever is called, in any order, on any number of decisions and facts: a superseded record has a successor that is more than a proposal, no record has two that were ever accepted, and no proposal becomes impossible to ratify. |
| `LifecycleAppendOnly` | `Writers_proofs` | Every call moves rows only along the transitions of store_rules and rewrites nothing but the status. |
| `LifecycleEvidence` | `Writers_proofs` | Whatever is called: no accepted decision has pending evidence, and none has evidence rejected that no verdict of its own rejected. |
| `WritersRefineLifecycle` | `Writers_proofs` | Whatever agents, imports, reviews, bootstraps and scripts do in a store, its rows behave as Lifecycle allows: each of their steps is one of its calls, or changes no row. |
| `WritersSuccession` | `Writers_proofs` | The rules of succession hold with every writer at work at once, through the refinement of Lifecycle. |
| `WritersAppendOnly` | `Writers_proofs` | No writer's step rewrites a record or moves it off the legal transitions. |
| `WritersAutoMeansComplete` | `Writers_proofs` | For any agents, policies and drafts: what a policy accepted on its own had its anchors and every fact of its draft when it was accepted, wherever other writers stood. |
| `WritersEvidence` | `Writers_proofs` | No step of any writer accepts a decision over pending evidence it was not allowed to take along, and none leaves evidence pending under an accepted decision. |
| `WritersStrandNothing` | `Writers_proofs` | Retiring a duplicate leaves no fact that retrieval reached before without a way to it. |
| `WritersAllReviewed` | `Writers_proofs` | What a review of everything took up is settled when it ends, unless somebody settled it meanwhile. |
| `WritersOneRecord` | `Writers_proofs` | While one import runs at a time, whatever edits, verdicts, modes and deaths come in between: a document never has two live records of its own. |
| `WritersReimport` | `Writers_proofs` | While one import runs at a time: an import that ended undisturbed leaves nothing to write for the next one, whatever the imports before it, dead ones included, left in the store. |
| `WritersBatches` | `Writers_proofs` | For any number of documents and records: a review of everything settles all it listed, and, while one import runs at a time, a bootstrap that ended undisturbed has every answer in the store that could be put there. |
| `CertificateIsSound` | `Index_proofs` | For any number of files and processes, and without restored files, a certificate equal to the disk's digest means every file on disk is indexed in its current state. |
| `StatRowsAreSound` | `Index_proofs` | A canonical_stat row that matches the disk describes content the index holds. |
| `DiskTypes` | `Records_proofs` | Rows stay rows, on disk, in the index and in the call that is open. |
| `DiskStaysWhole` | `Records_proofs` | For any records: at every instant of a call, of a crash and of the reload after it, also when a call was decided on an index older than the files, no file holds a record that nothing superseded or one that refers to nothing. |
| `DiskHistory` | `Records_proofs` | Until a call is decided on a stale index: files move along the legal transitions only, through crashes and recoveries, and no drop loses the rule it would have replaced. |
| `IndexImplementsLifecycle` | `Records_proofs` | Until the first crash, calls that publish file by file and commit at the end are single steps of Lifecycle for who reads the index. |
| `ChainsKeepOneHead` | `Records_proofs` | For any decisions and facts in two clones: whatever is proposed side by side, merged and ratified, what was ever accepted is continued by exactly one record in force, unless a record on the way was retired. |
| `UnmergedSlugsHaveOneHolder` | `Records_proofs` | For any domains and slugs: in a store that was never merged, no order of proposals, revisions, verdicts and recoveries lets two domains claim one slug. |
| `CallsNeverCollide` | `Records_proofs` | Whatever merges have brought into a store, no call gives a slug its second accepted holder. |
| `CompactionTypeOK` | `Compaction_proofs` | For any domains, slugs, segment names and crashes in two clones: the types, and that a segment only ever holds closed records. |
| `CompactionLosesNothing` | `Compaction_proofs` | No call, compaction, crash or merge, with conflicts settled either way, takes a record that a clone reads out of its sight. |
| `CompactionIsUnseen` | `Compaction_proofs` | Outside pulls, what a clone reads changes by domain calls only, wherever a compaction stands and however stale the index it started from. |
| `CompactionLeavesNoRemains` | `Compaction_proofs` | A compaction of an index that is up to date, once it ends, leaves no closed record with a file that the archive does not contradict, whatever earlier ones left when they died. |
| `AnchorsTypes` | `Anchors_proofs` | Types, for any processes, entities, records, files, communities and graphs. |
| `SkippedSyncIsSafe` | `Anchors_proofs` | When the gate of sync admits no pass on the store's own graph, every leaf says what the graph on disk says, wherever passes died and whatever was captured, built or committed. Not for an entity whose visit raised, not after passes that overlapped each other or a reload (until a full pass ran alone), and not if a build brings an earlier graph back (hypothesis ~Returns). |
| `RowsAreAccounted` | `Anchors_proofs` | A live community row is a baseline of its record's leaves, on its way to one, about to be settled by this or a later pass, or it was lost in one of the ways that the property names; with passes side by side, deaths and raises between any two writes. |
| `SharedDescriptorsAreCommitted` | `Anchors_proofs` | On a store that does not trust the working tree, a visit that has read a descriptor rewrites it only along a move that the commits showed when it decided; what a pass beside another writes back is what it had read. |
| `CertifiedMembership` | `Membership_proofs` | For any domains, rules, graphs, snapshots and processes: under a certificate the rows of every accepted domain were derived from the graph and the snapshot it names. |
| `UnfailedMembership` | `Membership_proofs` | After a pass that failed in part the rows of every domain it did not fail for are as current as under a certificate. |
| `MembershipIsCurrent` | `Membership_proofs` | For any domains, rules, graphs, snapshots and processes, whatever a capture binds from is as current as the certificate, or the note of a partial failure, says. |
| `CapturesBindFromDisk` | `Membership_proofs` | What a record takes from a domain is right for the snapshot on disk when the row is written, whatever git wrote since the membership pass and since the pick. |
| `RefreshesKeepMembership` | `Membership_proofs` | A snapshot refresh that names no domain leaves every accepted domain the members it had over the refresher's graph. |
| `AcceptedTreesAreLegal` | `VerifyAgainst_proofs` | For any records, bodies, rule of succession, shard files and segments: a tree that verify --against accepts holds for every committed record the same body or a legal successor, or one of the committed copies that contradicted each other. |
| `RunsRemoveNothingUnique` | `VerifyAgainst_proofs` | For any records, buckets and segments, and whatever git does under a run: no step removes a body unless a copy is left that it may legally have become. |
| `RunsAreInvisible` | `VerifyAgainst_proofs` | A record that git leaves alone reads the same after every step of a run; any other does not vanish, and becomes unreadable only by a line that git misplaced. |
| `RunsSettle` | `VerifyAgainst_proofs` | A run that git left alone, and that ends, leaves nothing for the next one: its three phases reach the image that was planned. |
| `OwnWorkIsNeverReported` | `VerifyAgainst_proofs` | For any records, buckets and segments: verify --against reports nothing of a committed tree that only the store's own writers and maintenance runs have changed, wherever a run stands or was cut short. |
| `OneMapPerStart` | `Index_proofs` | For any number of hooks and sessions, if a hook runs for less than the window, a session gets the map twice within it only where another session's start was stamped in between. |
| `OneNoticePerDay` | `Index_proofs` | A notice is claimed again within the day only after a start that found the problem gone, or because the problem got worse between two claims. |
| `FilesAreToldOnce` | `Index_proofs` | An agent is told about a file once while the claim lasts, and about no more than the cap at a time, whatever is claimed in parallel. |
| `NoHurriedQuestion` | `Index_proofs` | A captured session is asked again no sooner than a gap after every question that was answered by a stamp. |
| `FoldsKeepChecks` | `DriftChecks_proofs` | For any number of checks, paths and commits: no step of a fold, wherever the fold dies and whatever git does in between, changes the check that decides for an open decision. |
| `DriftTypes` | `DriftChecks_proofs` | Types, and that every check in a file, a line or a commit was recorded. |
| `AgesCountEpisodes` | `DriftChecks_proofs` | A decision that comes back on the list is new if and only if its last episode had ended; after a failed comparison never newer than that. |
| `ScansReadTheLatest` | `DriftChecks_proofs` | A refresh that reads files and lines while a fold moves one into the other ends with the check that decides. |
| `QuietRefreshesSaw` | `DriftChecks_proofs` | A refresh that nothing disturbs leaves a decision off the list only if its capture or the check that decides saw every anchored file as it is. |
| `FoldsMayBeCommitted` | `DriftChecks_proofs` | The commit of a store in which a fold ran or died anywhere passes verify --against the commit before. |
| `ChecksClearWhatScansWould` | `DriftChecks_proofs` | Recording a check takes the decision off the list at once only where the next refresh would. |

They use the named assumptions of the modules and no other. These say what kind of thing a
constant is; the few that say more are named below, with the theorems that need them, and so
is every hypothesis of a single theorem.

* **Lifecycle.** `ChainInv` strengthens the properties to an inductive
  invariant: that a live record has
  at most one pending successor and no settled one, that a superseded record has exactly one
  settled successor or a rejected import, and that the predecessor of a pending
  proposal is accepted. "No two successors" alone is not inductive: it
  needs to know that a pending proposal's predecessor is still live when
  `ratify` closes it.
* **Writers.** `WritersRefineLifecycle` takes `Bootstrap`'s next-state relation apart,
  module by module, and shows each step to be one of `Lifecycle` or to leave the
  rows alone; `WritersSuccession` follows. For `AutoMeansComplete` the draft
  invariant says that what is missing of a decision's draft is known to exactly
  one agent, the one at work on it, and that this agent's next steps either write it
  or give up the draft's chance of ratification. `EvidenceIsHandled` and
  `DuplicatesStrandNothing` follow step by step from the types and the
  cascades. `OneRecordPerDocument` has the hypothesis `OneImporter`, that one
  import or bootstrap runs at a time: with two the property is false. Its
  invariant relates the text of the document, what the importer read, and
  the records imported from it, at each control point of the import.
  Two more invariants, with the same hypothesis, are about imports that nobody disturbs.
  `CalmInv` says at each control point of such an import what the store holds of its document: no
  open record that says the same until it writes, afterwards the record that another import
  would prefer; `WritersReimport` follows. `ItemInv` says which answers of a bootstrap are
  in the store by now. It needs `LineInv`, that an imported record supersedes only a record
  of its own document: without that a later item could close what an earlier one wrote.
  `WritersBatches` joins this to `WritersAllReviewed`, which needs no hypothesis.
* **CanonicalFiles.** After a crash neither the files nor the index satisfy
  `ChainInv`. What survives is that each file is *sound* (its successor or
  predecessor is on disk) and that the files are never behind the index except
  by what a dead call left. The order of publishes is what carries the step:
  whatever is published last refers to what was published before.
  `DiskKeepsHistory` adds the queue of the open call, in step with its target as long as no call was decided on
  a stale index. `IndexImplementsLifecycle` maps `Commit` to the call and every other step before a
  crash to a stutter.
* **IndexFreshness.** `FreshInv` says, for each control point of a process, how
  what it saw, the working database and the disk relate; the certificate is sound because
  versions only grow: a file whose version a walk saw has not changed since if
  it still has that version. `IndexRestore` gives that up, and loses the property.
* **Clones.** `ChainsHold` is what one table of rows satisfies whoever wrote it:
  a successor that was ever accepted has a predecessor that is no longer in force, a superseded
  record has a head or an end, and one heir where it has no end. `OneHead` concludes from it by
  reasoning on `Chain` as the least closed set. It is kept by calls (`MovesHold`, from
  a summary of a call that all six satisfy) and by merges (`MergeHolds`): both sides are `Later` than the merge base,
  a closed record stays closed with the same status, and a chain that one side built on a
  record the base had in force has no record the base knew (`ChainIsNew`), so the other side
  cannot have touched it. `UnmergedSlugsHaveOneHolder` strengthens the slug rule with `OnePending`, one
  pending successor for each domain; `CallsNeverCollide` follows call by call. Hypothesis of the
  module: at most two clones, as for `Compaction`.
* **Compaction.** `CompactionInv` adds to the types: what the merge base had as a
  file, each clone still has as a file or an archived line, so a deletion that a
  merge brings comes with the segment that justifies it; what an index holds,
  however stale, is still kept, so no candidate without a file is archived into
  view; and a segment name has one content in both clones. `NothingLost` alone
  is not inductive for the first reason, `CompactionIsInvisible` for the second.
  For `CompactionConverges`, `RunInv` says that
  while a compaction runs on an up-to-date index, a closed record that has a file is archived, and
  its file is still to be looked at unless the archive contradicts it.
  Hypothesis of the module: at most two clones, since `base` stands for the merge base of two.
* **Anchors.** The invariant says of each process what its visit is about to write and why
  (`PlanInv`: the rung was decided on the graph of the pass and what it had read), and
  of a pass that runs alone (`Alone`) that what it read still holds (`DescInv`). Graph versions only grow, so a stamp
  that is stale stays stale; a leaf that disagrees with the graph is owed to a pass that the
  gate must admit, is ahead of the running pass, in its hands, or already settled by it
  (`SettledInv`); a watched entity is pending while HEAD has not moved (`TrackInv`).
  `CrossInv` gives all this up when passes overlap and `StampGraph` of a pass that ran alone
  restores it, which is why the theorem needs no assumption on how passes interleave but
  speaks only outside `crossed`. Hypothesis `~Returns`, without which TLC refutes it.
  For `StaleRowsAreAccounted`, which holds with any overlap, `GroundsInv`, `VacanciesInv`, `RecallsInv` and `RestoreInv`
  follow a row from the write ahead of its baseline to the vacancy, the reconcile and the retry
  memory, and say which steps drop it. `DescriptorsFollowCommits`
  has the hypothesis `~TrustDirtyTree`, the default of the setting.
* **Membership.** `RowsAreDerived` says of every domain what its rows were
  derived from, for the certificate and the note of a partial failure alike;
  `ReservationInv` that while a capture holds the reservation only git moves, so that what it
  compared with the snapshot file still holds when it writes, but for the
  one comparison that it makes. For `RefreshKeepsMembership`, every accepted
  domain is its own name in the file that a refresh writes.
* **Maintenance and VerifyAgainst.** `AcceptedIsLegal` is a case analysis of the
  comparison. For the runs, `RunInv` says what the shard files must hold at each
  phase of the plan (`PlanInv`), that a record git has not touched stands as the
  plan saw it (`UntouchedInv`), and what is left when the removals end (`DoneInv`). The
  image of a store is the same for the planned store, the one
  half way and the one at the end, from which `OneRunSettles` follows.
  `OwnTree` lists what the store's own code may have made of each committed record; it is what
  the rules of `_Against` ask for, and a run cut short anywhere keeps it, because only files as
  committed fold. `FollowsIsTransitive` is an assumption for this theorem alone: what two
  writes do, `classify_transition` allows in one. That holds of what the store's writers write
  (every ratification stamps); of bodies edited by hand it need not, since without the
  stamp a proposed decision may become accepted, and that one deprecated, but not at once.
* **DriftChecks.** The invariant of a fold (`IInv`) says that what it packs is in the image
  that it publishes, and that what it drops is outdated by the image, or the commit
  it planned on has the decision closed. `ScanInv`: files only go
  into lines, so a check that a refresh missed as a file it finds as a line,
  because it reads lines last. `CommitInv`: while nothing of another branch is in the store, it may be
  committed at any moment, since the marker is raised before the first line is written. `AgesInv`
  and `RecordedInv` relate the cached answer and its ages to the checks.

* **Sessions.** A row tells only the last stamp, so each invariant relates it to the
  history. Stamps of one row are in order up to `Span`, because nobody stamps a
  time older than the start of a hook that still runs: with that, the last
  stamp decides for all before it. For the cap on files, an
  unexpired showing has its claim in a row, and different showings have different files: the
  showings are no more than the rows the statement counted. For the repeated question,
  `AskInv` says that a first-timer is no older than the mark, and that a Stop whose
  stamp is still the one it read is a gap younger than every question. Hypotheses: the module's
  (a hook runs for less than the gap and the repeat, and claims are kept for at least a gap:
  seconds, half an hour, a day, thirty days in the code), and for `MapOncePerStart`
  that it runs for less than the window of duplicates (the manifest in `plugin/` kills it
  after 30 seconds, the window is 60).

What stays with TLC, and why:

* `IndexCatchesUp` and `CommittedMovesAreFollowed` are liveness under fairness,
  which is out of the prover's reach.
* Nothing that a recursive definition computes is proved for every
  input: that needs induction over data. The modules have none; where the code
  walks a chain, `Chain` is a set of
  records closed under succession, and the proofs reason about that.

## 5. Plan

Every safety and action property of the passing runs is proved. What is left:

1. The safety half of the two liveness properties: the measure that each fair step
   lowers, and that no step but a write or an edit raises it, as theorems beside the
   runs that show the rest.
2. `Clones` and `Compaction` for more than two clones, which needs a merge base for each
   pair of them in the model.

## 6. Not modelled

* **Store marker and the checkout window.** The requirement in the marker is modelled where a
  fold raises it (`DriftChecks`); its first-open backfill is not.
* **Migration** to format 2: one pass over a store that
  nobody else may write.
* **Retrieval, projections, statistics, text processing**: functions of the index
  and of text, without state of their own. A model would restate them.
* **Algorithms that name domains and group drift** (`drift_groups.py`, bootstrap's
  catalog): the same.
* **Servers, command lines, installers, the git seam, host settings**: they parse
  arguments and call what is modelled, and these calls are the actions
  here. What git answers is a free choice where a rule depends on it.
* File permissions, network mounts and clocks that go backwards.
