---------------------------- MODULE DriftChecks ----------------------------
(***************************************************************************)
(* Drift of one open decision: has the code it is anchored to changed since  *)
(* it was captured, or since it was last checked against the code?           *)
(*                                                                         *)
(* An agent records a check (_record_drift_check_impl), which holds the       *)
(* writer's reservation; a hook rescans (refresh_code_drift_snapshot), which  *)
(* takes it only to write the cached answer; maintenance folds check files    *)
(* into packed.shard under the reservation (publish_check_fold) and may die   *)
(* at any step; and git, which takes no reservation, commits, checks out and  *)
(* brings commits in between.                                              *)
(*                                                                         *)
(* A path stands for a leaf entity in that file.  Left out: declared          *)
(* sections, file modes, git's deadlines and the bounds on what it reads,     *)
(* the check of the working tree (a check names the blobs of HEAD, whatever   *)
(* is edited after it), and two records under one capture commit.            *)
(***************************************************************************)
EXTENDS CheckStore, Sequences

CONSTANTS
    Paths,
    Contents,       \* of a file; None for no file
    Settings        \* bounds: how often each thing may happen, one question each

Anchor == {"none", "live", "orphaned"}

ASSUME SettingsAssumption ==
    \A s \in Settings : /\ s.codes \subseteq [Paths -> Contents \cup {None}]
                        /\ s.anchors \subseteq [Paths -> Anchor]

VARIABLES
    left,       \* what may still happen (bound)
    commits,    \* commits[c]: the code and the store it holds; 1 is the capture's
    head,       \* the commit that is checked out
    store,      \* the check files and the rest of the store in the working tree
    mixed,      \* a checkout found uncommitted changes of the store, or a fold
    anchors,    \* the leaf in each path: "none", "live" or "orphaned"
    body,       \* body[k]: the check that has key k, None before it is recorded
    cache,      \* meta code_drift_cache, None before the first refresh
    ended,      \* the last episode of drift is over, and the next one is new
    rec,        \* the check that is being recorded
    scan,       \* the refresh that is running
    fold        \* the fold that is running

vars == <<left, commits, head, store, mixed, anchors, body, cache, ended, rec, scan, fold>>

Code == commits[head].code
Landed == commits[head].tree
Captured == commits[1].code

NoRecord == [pc |-> "idle", head |-> 0, checked |-> {}]
NoFold == [pc |-> "idle", head |-> 0, current |-> None, image |-> {}, packs |-> {}, drops |-> {}]

\* calm: nothing the answer depends on has changed since the scan began.
NoScan == [pc |-> "idle", known |-> TRUE, leaves |-> {}, orphaned |-> {}, changed |-> {},
           head |-> 0, names |-> {}, found |-> {}, failed |-> "no", calm |-> TRUE]

Leaves == {p \in Paths : anchors[p] # "none"}
Live == {p \in Paths : anchors[p] = "live"}
There(code, S) == {p \in S : code[p] # None}

Reserved == rec.pc # "idle" \/ fold.pc # "idle"

Spend(what) ==
    /\ left[what] > 0
    /\ left' = [left EXCEPT ![what] = @ - 1]

Disturb == scan' = [scan EXCEPT !.calm = FALSE]

-----------------------------------------------------------------------------
(* Recording a check *)

Begin(checked) ==
    LET required == There(Code, Live) IN
    /\ ~Reserved /\ ~store.closed
    /\ Spend("records")
    /\ required # {} /\ required \subseteq checked /\ checked \subseteq There(Code, Paths)
    /\ rec' = [pc |-> "writing", head |-> head, checked |-> checked]
    /\ UNCHANGED <<commits, head, store, mixed, anchors, body, cache, ended, scan, fold>>

Check == [code |-> Code, checked |-> rec.checked, required |-> There(Code, Live), subject |-> Leaves]

(* Keys are minted in the order of time. *)
NextKey(k) == body[k] = None /\ \A j \in Keys : j > k => body[j] = None /\ j \notin Checks(store)

(* Mutant: any check clears the cached answer. *)
AlwaysCovers == TRUE

(* clear_cached_advisory: the check covers every anchored file. *)
Covers == Live \subseteq rec.checked

(* What a check does to the cached answer (Store.record_drift_check).         *)
Cleared ==
    IF cache = None THEN None
    ELSE IF Covers THEN [listed |-> FALSE, stamp |-> None, tomb |-> None, mark |-> FALSE]
    ELSE [cache EXCEPT !.mark = @ \/ cache.listed, !.tomb = None]

(* The check is published and the cache rewritten in one transaction; the     *)
(* process may die between the two.                                        *)
Publish(k, dies) ==
    /\ rec.pc = "writing" /\ head = rec.head
    /\ NextKey(k)
    /\ body' = [body EXCEPT ![k] = Check]
    /\ store' = [store EXCEPT !.files = @ \cup {k}]
    /\ IF dies THEN Spend("crashes") /\ UNCHANGED <<cache, ended>>
       ELSE cache' = Cleared /\ ended' = TRUE /\ UNCHANGED left
    /\ rec' = NoRecord
    /\ Disturb
    /\ UNCHANGED <<commits, head, mixed, anchors, fold>>

(* HEAD moved, or the process died before it wrote anything. *)
GiveUp ==
    /\ rec.pc = "writing" /\ head # rec.head
    /\ rec' = NoRecord
    /\ UNCHANGED <<left, commits, head, store, mixed, anchors, body, cache, ended, scan, fold>>

-----------------------------------------------------------------------------
(* A refresh (_scan_code_drift, _apply_drift_checks, build_cache)             *)

StoreUnchanged == UNCHANGED <<commits, head, store, mixed, anchors, body, rec, fold>>

(* The anchors and, unless the index is unavailable, their statuses.  With no *)
(* anchored file the refresh leaves the cache as it is.                      *)
ScanBegin(known) ==
    /\ scan.pc = "idle" /\ ~store.closed
    /\ Spend("scans")
    /\ (IF known THEN Live ELSE Leaves) # {}
    /\ scan' = [NoScan EXCEPT !.pc = "diff", !.known = known, !.leaves = Leaves,
                              !.orphaned = IF known THEN Leaves \ Live ELSE {}]
    /\ UNCHANGED <<cache, ended>> /\ StoreUnchanged

MayFail(failed) == IF failed = "no" THEN UNCHANGED left ELSE Spend("failures")

(* git diff capture..HEAD of the anchored files.  With unknown statuses a     *)
(* deleted file does not count.                                            *)
ScanDiff(failed) ==
    /\ scan.pc = "diff"
    /\ failed \in {"no", "diff"} /\ MayFail(failed)
    /\ scan' = [scan EXCEPT
           !.pc = IF failed = "no" THEN "head" ELSE "publish",
           !.failed = failed,
           !.changed = {p \in scan.leaves \ scan.orphaned :
                           /\ Code[p] # Captured[p]
                           /\ scan.known \/ Code[p] # None}]
    /\ UNCHANGED <<cache, ended>> /\ StoreUnchanged

(* load_check_inventory: the names, then the files, then packed.shard. *)
ScanList ==
    /\ scan.pc = "head"
    /\ scan' = [scan EXCEPT !.pc = "files", !.head = head, !.names = store.files]
    /\ UNCHANGED <<left, cache, ended>> /\ StoreUnchanged

ScanFiles ==
    /\ scan.pc = "files"
    /\ scan' = [scan EXCEPT !.pc = "packed", !.found = scan.names \cap store.files]
    /\ UNCHANGED <<left, cache, ended>> /\ StoreUnchanged

(* Mutant: packed.shard is read only where there are no files. *)
PackedIfNoFiles == IF scan.found = {} THEN Lines(store) ELSE scan.found

WithPacked == scan.found \cup Lines(store)

ScanPacked(failed) ==
    /\ scan.pc = "packed"
    /\ failed \in {"no", "checks", "compare", "then"} /\ MayFail(failed)
    /\ scan' = [scan EXCEPT !.pc = "publish", !.failed = failed,
                            !.found = WithPacked]
    /\ UNCHANGED <<cache, ended>> /\ StoreUnchanged

(* Is the decision listed when the anchors are `leaves`, the files `changed`   *)
(* differ from the capture, HEAD holds `code`, and `check` decides?           *)
(* `then`: the tree the check saw can be read.                               *)

(* A leaf of unknown status that the check did not require is set aside,      *)
(* unless its file is there and is not what it was at the check.             *)
Aside(s, code, check, then) ==
    {p \in IF s.known THEN {} ELSE s.leaves \ check.required :
        then => code[p] = None \/ code[p] = check.code[p]}

(* Mutant: a changed file that the check did not name is forgotten. *)
CheckSettlesAll(s, code, check, then) ==
    LET aside == Aside(s, code, check, then) IN
    /\ check.subject = s.leaves
    /\ There(code, (s.leaves \ s.orphaned) \ aside) = check.required
    /\ \A p \in check.checked : code[p] = check.code[p]

CheckSettles(s, code, check, then) ==
    LET aside == Aside(s, code, check, then) IN
    /\ check.subject = s.leaves
    /\ There(code, (s.leaves \ s.orphaned) \ aside) = check.required
    /\ \A p \in check.checked : code[p] = check.code[p]
    /\ s.changed \subseteq check.checked \cup aside

Listed(s, code, key) ==
    IF key = 0 THEN s.changed # {} ELSE ~CheckSettles(s, code, body[key], TRUE)

(* What the scan answers: whether the decision is listed, and whether that is *)
(* only what the last answer or the capture said, for want of a comparison.   *)
Answer ==
    LET key == Latest(scan.found)
        code == commits[scan.head].code
        advisory == [listed |-> scan.changed # {}, retained |-> TRUE]
    IN  CASE scan.failed = "diff" -> [listed |-> cache # None /\ cache.listed, retained |-> FALSE]
          [] scan.failed = "checks" -> advisory
          [] /\ scan.failed = "compare"
             /\ key # 0 /\ body[key].subject = scan.leaves -> advisory
          [] /\ scan.failed = "then"
             /\ key # 0 /\ CheckSettles(scan, code, body[key], FALSE)
             /\ There(code, Aside(scan, code, body[key], FALSE)) # {} -> advisory
          [] OTHER -> [listed |-> Listed(scan, code, key), retained |-> FALSE]

Earlier(stamp) == IF stamp = "now" THEN "earlier" ELSE stamp

(* Mutant: a decision that was off the list for a while is new. *)
StampReturned(answer) ==
    IF cache.listed THEN Earlier(cache.stamp)
    ELSE IF answer.retained THEN "unknown" ELSE "now"

(* The stamp of a listed decision (stamp_cache): what it had, also when it     *)
(* was off the list for less than 30 days.                                  *)
Stamp(answer) ==
    IF cache.listed THEN Earlier(cache.stamp)
    ELSE IF cache.tomb # None /\ ~cache.tomb.old THEN cache.tomb.stamp
    ELSE IF answer.retained THEN "unknown" ELSE "now"

Tomb(answer) ==
    IF answer.listed THEN None
    ELSE IF cache.listed THEN IF cache.mark THEN None
                              ELSE [stamp |-> Earlier(cache.stamp), old |-> FALSE]
    ELSE IF cache.tomb # None /\ cache.tomb.old THEN None
    ELSE cache.tomb

Refreshed(answer) ==
    IF cache = None
    THEN [listed |-> answer.listed, stamp |-> IF answer.listed THEN "unknown" ELSE None,
          tomb |-> None, mark |-> FALSE]
    ELSE [listed |-> answer.listed, stamp |-> IF answer.listed THEN Stamp(answer) ELSE None,
          tomb |-> Tomb(answer), mark |-> FALSE]

ScanPublish ==
    /\ scan.pc = "publish" /\ ~Reserved
    /\ cache' = Refreshed(Answer)
    /\ ended' = (ended /\ ~Answer.listed)
    /\ scan' = NoScan
    /\ UNCHANGED left /\ StoreUnchanged

(* A tombstone is kept for 30 days. *)
Age ==
    /\ cache # None /\ cache.tomb # None /\ ~cache.tomb.old
    /\ cache' = [cache EXCEPT !.tomb.old = TRUE]
    /\ ended' = TRUE
    /\ UNCHANGED <<left, scan>> /\ StoreUnchanged

-----------------------------------------------------------------------------
(* A fold (publish_check_fold)                                              *)

Folded(f) == fold' = f
CodeUnchanged == UNCHANGED <<commits, head, mixed, anchors, body, cache, ended, rec, scan>>

FoldPlan ==
    LET drops == Eligible(store, Landed) \cap Dead(store, Landed) IN
    /\ ~Reserved
    /\ Spend("folds")
    /\ HasWork(store, Landed)
    /\ Folded([pc |-> "raise", head |-> head, current |-> store.packed,
               image |-> Image(store, Landed), drops |-> drops,
               packs |-> Eligible(store, Landed) \ drops])
    /\ UNCHANGED store /\ CodeUnchanged

FoldRaise ==
    /\ fold.pc = "raise"
    /\ store' = [store EXCEPT !.marker = TRUE]
    /\ Folded([fold EXCEPT !.pc = "publish"])
    /\ UNCHANGED left /\ CodeUnchanged

Witness == IF fold.current = None /\ fold.image = {} THEN None ELSE fold.image

FoldPublish ==
    /\ fold.pc = "publish"
    /\ IF head # fold.head \/ (Witness # None /\ store.packed # fold.current)
       THEN UNCHANGED store /\ Folded(NoFold)
       ELSE /\ store' = [store EXCEPT !.packed = IF Witness = None THEN @ ELSE Witness]
            /\ Folded([fold EXCEPT !.pc = "recheck"])
    /\ UNCHANGED left /\ CodeUnchanged

FoldRecheck ==
    /\ fold.pc = "recheck"
    /\ Folded(IF head = fold.head THEN [fold EXCEPT !.pc = "unlink"] ELSE NoFold)
    /\ UNCHANGED <<left, store>> /\ CodeUnchanged

(* Mutant: a dropped file is removed wherever HEAD is. *)
MayUnlinkAnywhere(k) == store.packed = Witness

(* The file is removed when the packed file is as it was written and, for a   *)
(* file whose check is dropped, HEAD has not moved.                         *)
MayUnlink(k) ==
    /\ k \in fold.drops => head = fold.head
    /\ store.packed = Witness

FoldUnlink ==
    /\ fold.pc = "unlink"
    /\ LET rest == fold.packs \cup fold.drops
           k == CHOOSE k \in rest : \A j \in rest : k <= j
       IN  IF rest = {} \/ ~MayUnlink(k) THEN UNCHANGED store /\ Folded(NoFold)
           ELSE /\ store' = [store EXCEPT !.files = @ \ {k}]
                /\ Folded([fold EXCEPT !.packs = @ \ {k}, !.drops = @ \ {k}])
    /\ UNCHANGED left /\ CodeUnchanged

FoldDies ==
    /\ fold.pc # "idle"
    /\ Spend("crashes")
    /\ Folded(NoFold)
    /\ UNCHANGED store /\ CodeUnchanged

FoldStep == FoldPlan \/ FoldRaise \/ FoldPublish \/ FoldRecheck \/ FoldUnlink \/ FoldDies

-----------------------------------------------------------------------------
(* git and the other writers                                                *)

Elsewhere == UNCHANGED <<cache, ended, rec, fold>>

NewCommit(tree, code) ==
    /\ commits' = Append(commits, [tree |-> tree, code |-> code])
    /\ head' = Len(commits) + 1

(* Code is committed, the store is not. *)
EditCode(p, content) ==
    /\ Spend("edits")
    /\ Code[p] # content
    /\ NewCommit(Landed, [Code EXCEPT ![p] = content])
    /\ Disturb
    /\ UNCHANGED <<store, mixed, anchors, body>> /\ Elsewhere

(* git commit of the whole store. *)
CommitAll ==
    /\ Spend("commits")
    /\ store # Landed
    /\ NewCommit(store, Code)
    /\ mixed' = FALSE
    /\ Disturb
    /\ UNCHANGED <<store, anchors, body>> /\ Elsewhere

(* A commit of another clone with a check that was recorded there. *)
Pull(k) ==
    /\ Spend("pulls")
    /\ body[k] = None
    /\ NewCommit([Landed EXCEPT !.files = @ \cup {k}], Code)
    /\ body' = [body EXCEPT ![k] = [code |-> Code, checked |-> There(Code, Live),
                                    required |-> There(Code, Live), subject |-> Leaves]]
    /\ store' = [store EXCEPT !.files = @ \cup {k}]
    /\ Disturb
    /\ UNCHANGED <<mixed, anchors>> /\ Elsewhere

Checkout(c) ==
    /\ Spend("checkouts")
    /\ c # head
    /\ MayCheckOut(store, Landed, commits[c].tree)
    /\ head' = c
    /\ store' = CheckedOut(store, Landed, commits[c].tree)
    /\ mixed' = (mixed \/ store # Landed \/ fold.pc # "idle")
    /\ Disturb
    /\ UNCHANGED <<commits, anchors, body>> /\ Elsewhere

(* The decision is superseded, rejected or retired. *)
Close ==
    /\ Spend("closes")
    /\ ~Reserved /\ ~store.closed
    /\ store' = [store EXCEPT !.closed = TRUE]
    /\ Disturb
    /\ UNCHANGED <<commits, head, mixed, anchors, body>> /\ Elsewhere

(* add_anchors, or sync finds a leaf gone, back, or in another file. *)
Rebind(p, anchor) ==
    /\ Spend("rebinds")
    /\ ~Reserved
    /\ anchors[p] # anchor
    /\ anchors' = [anchors EXCEPT ![p] = anchor]
    /\ Disturb
    /\ UNCHANGED <<commits, head, store, mixed, body>> /\ Elsewhere

-----------------------------------------------------------------------------

EmptyStore == [files |-> {}, packed |-> None, marker |-> FALSE, closed |-> FALSE]

Init ==
    /\ \E s \in Settings :
           /\ left = s.left
           /\ anchors \in s.anchors
           /\ \E code \in s.codes : commits = <<[tree |-> EmptyStore, code |-> code]>>
    /\ head = 1
    /\ store = EmptyStore
    /\ mixed = FALSE
    /\ body = [k \in Keys |-> None]
    /\ cache = None
    /\ ended = TRUE
    /\ rec = NoRecord
    /\ scan = NoScan
    /\ fold = NoFold

Recorder ==
    \/ \E checked \in SUBSET Paths : Begin(checked)
    \/ \E k \in Keys, dies \in BOOLEAN : Publish(k, dies)
    \/ GiveUp

Refresher ==
    \/ \E known \in BOOLEAN : ScanBegin(known)
    \/ \E failed \in {"no", "diff"} : ScanDiff(failed)
    \/ ScanList
    \/ ScanFiles
    \/ \E failed \in {"no", "checks", "compare", "then"} : ScanPacked(failed)
    \/ ScanPublish
    \/ Age

World ==
    \/ \E p \in Paths :
          \/ \E content \in Contents \cup {None} : EditCode(p, content)
          \/ \E anchor \in Anchor : Rebind(p, anchor)
    \/ CommitAll
    \/ \E k \in Keys : Pull(k)
    \/ \E c \in DOMAIN commits : Checkout(c)
    \/ Close

Next == Recorder \/ Refresher \/ FoldStep \/ World

Spec == Init /\ [][Next]_vars

-----------------------------------------------------------------------------

CheckBody == [code : [Paths -> Contents \cup {None}], checked : SUBSET Paths,
              required : SUBSET Paths, subject : SUBSET Paths]

Stamps == {None, "unknown", "earlier", "now"}
Tombs == [stamp : Stamps \ {"now"}, old : BOOLEAN]
Caches == [listed : BOOLEAN, stamp : Stamps, tomb : {None} \cup Tombs, mark : BOOLEAN]

(* "No check" and "no cached answer" are told from any. *)
ASSUME AbsenceAssumption == None \notin CheckBody \cup Tombs \cup Caches

(* The type invariant; every check that is anywhere was recorded. *)
TypeOK ==
    /\ store \in Tree
    /\ head \in DOMAIN commits
    /\ \A c \in DOMAIN commits : commits[c].tree \in Tree
    /\ anchors \in [Paths -> Anchor]
    /\ body \in [Keys -> {None} \cup CheckBody]
    /\ cache \in {None} \cup Caches
    /\ \A k \in Checks(store) : body[k] # None

(* No step of a fold, not even of one that dies or that runs while git moves   *)
(* HEAD, changes the check that decides for an open decision.               *)
FoldKeepsChecks ==
    [][FoldStep /\ ~store.closed => Latest(Checks(store')) = Latest(Checks(store))]_vars

(* Whatever a fold has left, complete or not, the commit of it passes         *)
(* `sidegraph-verify --against` the commit before, unless changes of another  *)
(* branch are in it, or the commit before has lines and no requirement.      *)
CommitsPassVerify ==
    [][CommitAll /\ ~mixed /\ PackedIsDeclared(Landed) =>
           Passes(Landed, commits'[head'].tree)]_vars

(* A reader that lists the check files while a fold moves them into            *)
(* packed.shard misses no check that decides.                              *)
ReadsLatest ==
    scan.pc = "publish" /\ scan.calm /\ scan.failed # "diff" =>
        Latest(scan.found) = Latest(Checks(store))

(* The check that decides has seen what HEAD holds of the file. *)
SeenByCheck(p) ==
    LET key == Latest(Checks(store))
    IN  /\ key # 0
        /\ Code[p] = body[key].code[p]
        /\ p \in body[key].checked \/ ~scan.known

(* A refresh during which nothing changed leaves the decision off the list     *)
(* only if the capture, or the check that decides, has seen every anchored     *)
(* file as it is now; also when comparisons fail and a fold runs.             *)
QuietMeansSeen ==
    [][ScanPublish /\ scan.calm /\ scan.failed # "diff" /\ ~cache'.listed =>
           \A p \in Live : \/ Code[p] = Captured[p]
                           \/ SeenByCheck(p)
                           \/ ~scan.known /\ Code[p] = None]_vars

(* A scan of the state as it is, that nothing disturbs. *)
ScanOfNow(known) ==
    LET orphaned == IF known THEN Leaves \ Live ELSE {} IN
    [known |-> known, leaves |-> Leaves, orphaned |-> orphaned,
     changed |-> {p \in Leaves \ orphaned : Code[p] # Captured[p] /\ (known \/ Code[p] # None)}]

WouldList == \E known \in BOOLEAN : Listed(ScanOfNow(known), Code, Latest(Checks(store)))

(* A check takes its decision off the list at once only where the next         *)
(* refresh would do so too.                                                 *)
ClearedAsScanned ==
    [][(\E k \in Keys : Publish(k, FALSE)) /\ cache # None /\ cache.listed /\ ~cache'.listed =>
           ~WouldList']_vars

(* "New in the last 7 days" counts episodes: a decision that comes back on     *)
(* the list gets a new stamp if and only if its last episode was ended, by a   *)
(* check or by 30 days off the list.                                        *)
AgesAreRight ==
    [][ScanPublish /\ cache # None /\ ~cache.listed /\ cache'.listed =>
           IF scan.failed = "no" THEN (cache'.stamp = "now") = ended
           ELSE cache'.stamp = "now" => ended]_vars

=============================================================================
