----------------------------- MODULE DocImport -----------------------------
(***************************************************************************)
(* Import of documents (doc_import.py) into the store of Capture, next to   *)
(* its agents, its human and its sync.  A record names the document it came *)
(* from, and an import looks only at the records of its own; a run over     *)
(* several files is one import after the other.  Between the two looks it   *)
(* takes at the store, and between the drop, the write, the anchors and the *)
(* verdict, anybody may act and the process may die.  A request may also    *)
(* come from a review (Bootstrap), mode "reviewed".                        *)
(*                                                                         *)
(* Left out: the parsers and filters that find the decisions of a file, the *)
(* fragments of one file, tags, a dry run, and the anchors of one record     *)
(* beyond the best one.                                                    *)
(***************************************************************************)
EXTENDS Capture

CONSTANT Texts       \* contents a document may have

VARIABLES
    doc,        \* the documents in the working tree
    text,       \* what a decision was imported with: document, content, and as which
    imp         \* the import each agent is at

dvars == <<cvars, doc, text, imp>>

ASSUME DocAssumption == None \notin Texts \cup Docs /\ Texts # {}

\* Its status line says nothing, that it is a draft, that it was rejected, or that
\* it is history; whether any of its mentions, or the file itself, is in the graph.
Doc == [text : Texts, status : {"open", "draft", "rejected", "history"}, anchored : BOOLEAN]

\* What is to be written about a document, and whether a proposal that says the
\* same is to be ratified.
Request(ref, source, as, ratifies) ==
    [ref |-> ref, text |-> source.text, as |-> as, anchored |-> source.anchored,
     ratifies |-> ratifies]
NoRequest == [ref |-> None, text |-> None, as |-> "none", anchored |-> FALSE, ratifies |-> FALSE]

Refused(way) == [action |-> way, match |-> None, pred |-> None, drop |-> None, donor |-> None]

\* calm: nothing but this import has acted since it began.
NoImport == [pc |-> "idle", req |-> NoRequest, mode |-> "plain", kind |-> "high", draft |-> FALSE,
             disp |-> Refused("none"), d |-> None, calm |-> FALSE]

Importing(a, pc) == imp[a].pc = pc
Move(a, i) == imp' = [b \in Agents |-> IF b = a THEN i ELSE [imp[b] EXCEPT !.calm = FALSE]]
Disturb == imp' = [b \in Agents |-> [imp[b] EXCEPT !.calm = FALSE]]
Others == UNCHANGED <<dupOf, missing, job, events, setting>>

\* An import is over; a review is told how.
Over(a, action) ==
    IF imp[a].mode = "reviewed"
    THEN [NoImport EXCEPT !.mode = "reviewed", !.disp = Refused(action), !.calm = imp[a].calm]
    ELSE NoImport

LandsProposed(source, mode) ==
    source.status # "rejected" /\ (mode # "plain" \/ source.status = "draft")
WrittenAs(source, mode) ==
    IF source.status = "rejected" THEN "rejected"
    ELSE IF LandsProposed(source, mode) THEN "proposed" ELSE "accepted"

-----------------------------------------------------------------------------
(* What is to be done about a document (_classify_doc_state). *)

(* Mutant: a rejected record is no record. *)
ExistingOpen(ref) ==
    {d \in Decisions : text[d].of = ref /\ rows[d].status \in {"accepted", "proposed"}}
Existing(ref) ==
    {d \in Decisions : /\ text[d].of = ref
                       /\ rows[d].status \in {"accepted", "proposed", "rejected"}}

Holding(ref, status) == {d \in Existing(ref) : rows[d].status = status}
Supersedable(ref) == Existing(ref) \ Holding(ref, "rejected")

Oldest(S) == IF S = {} THEN None ELSE CHOOSE d \in S : \A e \in S : text[d].nth <= text[e].nth

PreferredMatch(req) ==
    LET matches == {d \in Existing(req.ref) : text[d].text = req.text}
        open == matches \cap Supersedable(req.ref)
    IN  Oldest(IF open # {} THEN open ELSE matches)

Flips(req, match) ==
    match # None /\ (req.as = "rejected") # (rows[match].status = "rejected")

Bound(d) == route[d] # "none"

\* For want of an anchor, the record whose bindings the new one takes over.
Donor(req, match) ==
    LET donor == IF Flips(req, match) THEN match
                 ELSE IF req.as = "rejected" THEN Oldest(Supersedable(req.ref)) ELSE None
    IN  IF donor = None THEN None ELSE IF Bound(donor) THEN donor ELSE None

Classify(req, match, ancestor, pending, donor) ==
    IF match # None /\ ~Flips(req, match)
    THEN [Refused("existing") EXCEPT !.match = match]
    ELSE IF ~req.anchored /\ donor = None
    THEN Refused("unanchorable")
    ELSE IF IF ancestor = None
            THEN match # None /\ rows[match].status = "proposed"
            ELSE PendingSuccessors(rows, ancestor) \ {pending} # {}
    THEN Refused("pending")
    ELSE [action |-> IF Supersedable(req.ref) = {} THEN "written" ELSE "superseded",
          match |-> match, pred |-> ancestor, drop |-> pending,
          donor |-> IF req.anchored THEN None ELSE donor]

(* Mutant: does not look for the record in force. *)
ForgetTheAncestor(req) ==
    LET match == PreferredMatch(req)
    IN  Classify(req, match, None, Oldest(Holding(req.ref, "proposed")), Donor(req, match))
Disposition(req) ==
    LET match == PreferredMatch(req)
    IN  Classify(req, match, Oldest(Holding(req.ref, "accepted")),
                 Oldest(Holding(req.ref, "proposed")), Donor(req, match))

Nothing(disp) == disp.action = "existing" /\ Bound(disp.match)

-----------------------------------------------------------------------------
(* One import (_import_one_record). *)

\* The file is read and looked up; when its record is there and bound that is all,
\* and history is passed over.
ReadDoc(a, ref, mode, kind) ==
    LET req == Request(ref, doc[ref], WrittenAs(doc[ref], mode), FALSE)
    IN  /\ Importing(a, "idle") /\ At(a, "idle") /\ (Automatic(mode) \/ kind = "high")
        /\ doc[ref].status # "history"
        /\ ~Nothing(Disposition(req))
        /\ Move(a, [NoImport EXCEPT !.pc = "apply", !.req = req, !.mode = mode, !.kind = kind,
                                     !.draft = doc[ref].status = "draft", !.calm = TRUE])
        /\ UNCHANGED <<rows, route, by, doc, text>> /\ Others

ToSettle(req, match) == req.ratifies /\ rows[match].status = "proposed"

ApplyDoc(a) ==
    LET req == imp[a].req
        disp == Disposition(req)
    IN  /\ Importing(a, "apply")
        /\ Move(a, CASE disp.action = "existing" ->
                           [imp[a] EXCEPT !.pc = IF ToSettle(req, disp.match) THEN "settle" ELSE "bind",
                                          !.disp = disp, !.d = disp.match]
                     [] disp.action \in {"written", "superseded"} ->
                           [imp[a] EXCEPT !.pc = IF disp.drop = None THEN "add" ELSE "drop", !.disp = disp]
                     [] OTHER -> Over(a, disp.action))
        /\ UNCHANGED <<rows, route, by, doc, text>> /\ Others

\* A reviewed request accepts the proposal that already says so.
SettleDoc(a) ==
    LET d == imp[a].d
    IN  /\ Importing(a, "settle")
        /\ CanRatify(rows, d) /\ rows' = AfterRatify(rows, d)
        /\ Stamp({d} \cup Evidence(rows, d), "human")
        /\ Move(a, [imp[a] EXCEPT !.pc = "bind"])
        /\ UNCHANGED <<route, doc, text>> /\ Others

DropPending(a) ==
    /\ Importing(a, "drop")
    /\ CanDrop(rows, imp[a].disp.drop) /\ rows' = AfterDrop(rows, imp[a].disp.drop)
    /\ Move(a, [imp[a] EXCEPT !.pc = "add"])
    /\ UNCHANGED <<route, by, doc, text>> /\ Others

\* Ids are interchangeable.
AddDoc(a) ==
    LET left == {x \in Decisions \cap setting.ids : rows[x].status = "unwritten"}
        d == CHOOSE x \in left : TRUE
        row == [status |-> imp[a].req.as, supersedes |-> imp[a].disp.pred, supports |-> {}]
    IN  /\ Importing(a, "add") /\ left # {}
        /\ CanAdd(rows, d, row) /\ rows' = AfterAdd(rows, d, row)
        /\ text' = [text EXCEPT ![d] = [of |-> imp[a].req.ref, text |-> imp[a].req.text,
                                     nth |-> 1 + Cardinality({e \in Decisions : text[e].of # None})]]
        /\ Move(a, [imp[a] EXCEPT !.pc = "bind", !.d = d])
        /\ UNCHANGED <<route, by, doc>> /\ Others

ToJudge(i) ==
    i.disp.action = "written" /\ Automatic(i.mode) /\ i.req.as = "proposed" /\ ~i.draft

BindDoc(a, way) ==
    LET donor == imp[a].disp.donor
        given == IF donor = None THEN way ELSE Best(way, route[donor])
    IN  /\ Importing(a, "bind") /\ (imp[a].req.anchored <=> way # "none")
        /\ route' = [route EXCEPT ![imp[a].d] = Best(@, given)]
        /\ Move(a, IF ToJudge(imp[a]) THEN [imp[a] EXCEPT !.pc = "judge"]
                   ELSE Over(a, imp[a].disp.action))
        /\ UNCHANGED <<rows, by, doc, text>> /\ Others

JudgeDoc(a) ==
    LET i == imp[a]
    IN  /\ Importing(a, "judge")
        /\ Move(a, IF Eligible(i.mode, i.kind, route[i.d], rows[i.d].supersedes)
                   THEN [i EXCEPT !.pc = "ratify"] ELSE NoImport)
        /\ UNCHANGED <<rows, route, by, doc, text>> /\ Others

RatifyDoc(a) ==
    LET i == imp[a]
    IN  /\ Importing(a, "ratify")
        /\ CanRatify(rows, i.d) /\ CascadeEligible(i.mode, i.d)
        /\ rows' = AfterRatify(rows, i.d)
        /\ Stamp({i.d} \cup Evidence(rows, i.d), i.mode)
        /\ Move(a, NoImport)
        /\ UNCHANGED <<route, doc, text>> /\ Others

\* A refusal of the store, or the death of the process.
StopImport(a) ==
    /\ ~Importing(a, "idle") /\ Move(a, NoImport)
    /\ UNCHANGED <<rows, route, by, doc, text>> /\ Others

EditDoc(ref, new) ==
    /\ Called /\ new # doc[ref] /\ new.status \in setting.lines /\ doc' = [doc EXCEPT ![ref] = new] /\ Disturb
    /\ UNCHANGED <<rows, route, by, dupOf, missing, job, text>>

ImportDocs(a) ==
    \E ref \in setting.docs, mode \in setting.modes[a], kind \in Kinds : ReadDoc(a, ref, mode, kind)

ImportStep(a) ==
    \/ ApplyDoc(a) \/ SettleDoc(a) \/ DropPending(a) \/ AddDoc(a) \/ JudgeDoc(a) \/ RatifyDoc(a)
    \/ \E way \in setting.ways \cup {"none"} : BindDoc(a, way)

DInit ==
    /\ CInit
    /\ doc = [ref \in Docs |->
                 [text |-> CHOOSE t \in Texts : TRUE, status |-> "open", anchored |-> TRUE]]
    /\ text = [d \in Decisions |-> [of |-> None, text |-> None, nth |-> 0]]
    /\ imp = [a \in Agents |-> NoImport]
DNext ==
    \/ CNext /\ Disturb /\ UNCHANGED <<doc, text>>
    \/ \E ref \in setting.docs, new \in Doc : EditDoc(ref, new)
    \/ \E a \in Agents : ImportDocs(a) \/ ImportStep(a) \/ (imp[a].mode # "reviewed" /\ StopImport(a))
DSpec == DInit /\ [][DNext]_dvars

-----------------------------------------------------------------------------
(* As long as one process imports, a document has one record in force and one
   that waits, whatever its author and the reviewers do between its steps and
   wherever it dies. *)
OneRecordPerDocument ==
    \A ref \in Docs : /\ Cardinality(Holding(ref, "accepted")) <= 1
                      /\ Cardinality(Holding(ref, "proposed")) <= 1

(* An import that came to its end, with nobody else at work, leaves no
   record to write for the next one: that finds the record, with its anchors
   unless it is a rejected one, or refuses for the same reason.  This holds
   also for the import after one that died. *)
ReimportFindsItsRecord ==
    [][\A a \in Agents : \A req \in {imp[a].req} :
          (imp[a].calm /\ imp[a].pc # "idle" /\ imp'[a].pc = "idle" /\ ~StopImport(a)) =>
             LET disp == Disposition(req)
             IN  (/\ disp.action \in {"existing", "unanchorable", "pending"}
                  /\ (disp.action = "existing" /\ req.anchored) =>
                        (Bound(disp.match) \/ rows[disp.match].status = "rejected"))']_dvars

=============================================================================
