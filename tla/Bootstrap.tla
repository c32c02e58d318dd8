----------------------------- MODULE Bootstrap -----------------------------
(***************************************************************************)
(* sidegraph-bootstrap (bootstrap/): a plan of every document, a review     *)
(* item by item, a second look before anything is written, and then the    *)
(* answers one after the other through the import of one record.  A run     *)
(* that stopped half-way is run again.                                     *)
(*                                                                         *)
(* Left out: profiles and the scan, the graph's own version (a change of    *)
(* the graph changes `anchored` here), the choice of one candidate, the     *)
(* proof of activation and the reports' wording.                           *)
(***************************************************************************)
EXTENDS Review

VARIABLE boot       \* the bootstrap each agent is at

bvars == <<rvars, boot>>

ASSUME BootAssumption ==
    \A s \in Settings, a \in Agents :
        a \in s.boots => s.modes[a] = {} /\ s.policies[a] = {}

\* What the plan is made of: the documents and the catalog of records.
Inputs == [doc |-> [ref \in setting.docs |-> doc[ref]], rows |-> rows, by |-> by,
           text |-> text, dupOf |-> dupOf]
NoInputs == [doc |-> None, rows |-> None, by |-> None, text |-> None, dupOf |-> None]

Skip == [as |-> "skip", text |-> None]
Answers == {Skip} \cup [as : {"accepted", "proposed"}, text : Texts]

\* left: the answers not yet carried out; again: the plan was shown a second time.
NoBoot == [pc |-> "idle", inputs |-> NoInputs, again |-> FALSE, answers |-> [ref \in Docs |-> Skip],
           left |-> {}, ref |-> None, unanchored |-> {}, failed |-> FALSE]

Booting(a, pc) == boot[a].pc = pc
Step(a, b) == boot' = [boot EXCEPT ![a] = b]
NothingWritten == UNCHANGED rvars

\* Of two documents that say the same only one is planned.
Candidates(inputs) ==
    {ref \in setting.docs :
        ref = CHOOSE r \in setting.docs : inputs.doc[r].text = inputs.doc[ref].text}
Answered(b) == {ref \in Docs : b.answers[ref] # Skip}

-----------------------------------------------------------------------------

Plan(a) ==
    /\ Booting(a, "idle") /\ a \in setting.boots
    /\ Candidates(Inputs) # {}
    /\ Step(a, [NoBoot EXCEPT !.pc = "review", !.inputs = Inputs])
    /\ NothingWritten

\* Nothing chosen ends the run.
Answer(a, answers) ==
    LET chosen == {ref \in Docs : answers[ref] # Skip}
    IN  /\ Booting(a, "review") /\ chosen \subseteq Candidates(boot[a].inputs)
        /\ Step(a, IF chosen = {} THEN NoBoot
                   ELSE [boot[a] EXCEPT !.answers = answers,
                                        !.pc = IF boot[a].again THEN "confirm" ELSE "refresh"])
        /\ NothingWritten

\* The plan is made anew; answers to another one are discarded.
Refresh(a) ==
    /\ Booting(a, "refresh")
    /\ Step(a, IF boot[a].inputs = Inputs THEN [boot[a] EXCEPT !.pc = "confirm"]
               ELSE [NoBoot EXCEPT !.pc = "review", !.inputs = Inputs, !.again = TRUE])
    /\ NothingWritten

\* Confirmed by hand; what the answers were given to is compared a last time.
Apply(a) ==
    /\ Booting(a, "confirm")
    /\ IF boot[a].inputs = Inputs
       THEN /\ Step(a, [boot[a] EXCEPT !.pc = "apply", !.left = Answered(boot[a]),
                                       !.inputs = [NoInputs EXCEPT !.doc = Inputs.doc]])
            /\ imp' = [imp EXCEPT ![a] = [NoImport EXCEPT !.mode = "reviewed", !.calm = TRUE]]
            /\ UNCHANGED <<cvars, doc, text, review>>
       ELSE Step(a, NoBoot) /\ NothingWritten

(* Mutant: an accepted answer does not settle the proposal that says the same. *)
AskWithoutRatifying(ref, answer, source) ==
    Request(ref, [source EXCEPT !.text = answer.text], answer.as, FALSE)
AskFor(ref, answer, source) ==
    Request(ref, [source EXCEPT !.text = answer.text], answer.as, answer.as = "accepted")

\* The steps of the import itself are those of DocImport.
BeginItem(a, ref) ==
    LET b == boot[a]
    IN  /\ Booting(a, "apply") /\ ref \in b.left /\ b.ref = None
        /\ imp' = [imp EXCEPT ![a].pc = "apply", ![a].req = AskFor(ref, b.answers[ref], b.inputs.doc[ref])]
        /\ Step(a, [b EXCEPT !.ref = ref])
        /\ UNCHANGED <<cvars, doc, text, review>>

EndItem(a) ==
    LET b == boot[a]
    IN  /\ Booting(a, "apply") /\ b.ref # None /\ Importing(a, "idle")
        /\ Step(a, [b EXCEPT !.ref = None, !.left = @ \ {b.ref},
                             !.unanchored = IF imp[a].disp.action = "unanchorable"
                                            THEN @ \cup {b.ref} ELSE @])
        /\ NothingWritten

\* One error ends the loop; what is left is reported as pending.
ItemFails(a) ==
    /\ Booting(a, "apply") /\ boot[a].ref # None /\ StopImport(a)
    /\ Step(a, [boot[a] EXCEPT !.ref = None, !.left = {}, !.failed = TRUE])
    /\ review' = Interrupted

Durable(b) ==
    {ref \in Answered(b) \ b.unanchored :
        \E d \in Decisions : /\ text[d].of = ref /\ text[d].text = b.answers[ref].text
                             /\ rows[d].status = b.answers[ref].as}
Pending(b) == Answered(b) \ (Durable(b) \cup b.unanchored)

Report(a) ==
    /\ Booting(a, "apply") /\ boot[a].left = {} /\ boot[a].ref = None
    /\ Step(a, NoBoot)
    /\ imp' = [imp EXCEPT ![a] = NoImport]
    /\ UNCHANGED <<cvars, doc, text, review>>

BootDies(a) ==
    /\ ~Booting(a, "idle") /\ Step(a, NoBoot)
    /\ imp' = [imp EXCEPT ![a] = NoImport]
    /\ UNCHANGED <<cvars, doc, text, review>>

BInit == RInit /\ boot = [a \in Agents |-> NoBoot]
BNext ==
    \/ RNext /\ UNCHANGED boot
    \/ \E a \in Agents :
          \/ Plan(a) \/ Refresh(a) \/ Apply(a)
          \/ \E answers \in [Docs -> Answers] : Answer(a, answers)
          \/ \E ref \in setting.docs : BeginItem(a, ref)
          \/ EndItem(a) \/ ItemFails(a) \/ Report(a) \/ BootDies(a)
BSpec == BInit /\ [][BNext]_bvars

-----------------------------------------------------------------------------
(* What "keep proposed" cannot bring about: the record is in force already. *)
InForce(ref, answer) ==
    \E d \in Holding(ref, "accepted") : answer.as = "proposed" /\ text[d].text = answer.text

(* A run that came to its end with nobody else at work has every answer in the
   store as it was given, but for documents without an anchor and for those whose
   record in force has another successor waiting.  So a run that stopped at any
   point, or was overtaken, is finished by one that is not. *)
RunsConverge ==
    [][\A a \in Agents : (Report(a) /\ imp[a].calm /\ ~boot[a].failed) =>
          \A ref \in Pending(boot[a]) :
              \/ InForce(ref, boot[a].answers[ref])
              \/ \E d \in Holding(ref, "accepted") :
                    \E s \in PendingSuccessors(rows, d) : text[s].of # ref]_bvars

(* Both together: no batch that ended undisturbed leaves anything undone. *)
BatchesComplete == AllReviewed /\ RunsConverge

=============================================================================
