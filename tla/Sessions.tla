------------------------------- MODULE Sessions -------------------------------
(***************************************************************************)
(* The host's hooks: host/hooks.py over the meta rows of one index.  Every *)
(* hook is a short-lived process of its own.  SessionStart prints the map  *)
(* and notices for the person, PreToolUse prints the records of a file     *)
(* that is about to be read, Stop asks the session to record what it       *)
(* learned.  A hook may be registered twice, sessions run side by side,    *)
(* the host may kill a hook, and a write is refused while another process  *)
(* holds the lock (Fault).  One step is one transaction, or one print.      *)
(*                                                                         *)
(* Time is counted in ticks; a hook runs for at most Span of them, since   *)
(* the host kills it after its timeout.                                    *)
(***************************************************************************)
EXTENDS Naturals, Sequences, FiniteSets

CONSTANTS
    Hooks,      \* hook processes
    Ids,        \* sessions; a session stands for its one agent
    Paths,      \* files with records
    NoRow,      \* no row
    Cap,        \* files one agent is told about (_FILES_PER_AGENT)
    PerCall,    \* files one call tells about (_FILES_PER_CALL)
    Dedupe,     \* ticks in which a second start is a duplicate
    Repeat,     \* ticks before a notice is sent again
    Ranks,      \* how bad a problem may be (SEVERITY_RANK)
    Gap,        \* ticks before a captured session is asked again
    Retention,  \* ticks before claims and re-arm stamps are pruned
    Crews,      \* bound: what the hooks may be, [Hooks -> Kinds]
    Span,       \* bound: ticks one hook runs
    MaxNow,     \* bound: ticks in all
    MaxFaults     \* bound: refused writes and killed hooks

\* SessionStart, PreToolUse and Stop, by the name of their first step.
Kinds == {"peek", "select", "ledger"}

\* A hook runs for seconds; _REARM_GAP is half an hour, _NOTICE_REPEAT a day,
\* _PRETOOL_KEY_RETENTION_DAYS thirty days.
ASSUME SessionsAssumption ==
    /\ Crews \subseteq [Hooks -> Kinds] /\ IsFiniteSet(Paths)
    /\ {Cap, PerCall, Dedupe, Repeat, Gap, Retention, MaxNow, MaxFaults} \subseteq Nat
    /\ Ranks \subseteq Nat
    /\ Span \in Nat /\ Span < Gap /\ Span < Repeat /\ Gap <= Retention
    /\ NoRow \notin Ids /\ NoRow \notin Nat /\ NoRow \notin [id : Ids, at : Nat] \cup [rank : Nat, at : Nat]

VARIABLES
    now, faults, \* the clock, faults so far
    start,      \* row session_start: the last session and its stamp
    notice,     \* row integrity_notice: how bad it was, and the stamp
    claim,      \* rows pretool_file: claim[s][f]
    captured,   \* table capture_sessions
    rearm,      \* rows capture_rearm
    hook,       \* the hook processes
    log         \* what was stamped, printed and deleted, in order

svars == <<now, faults, start, notice, claim, captured, rearm, hook, log>>
rows == <<start, notice, claim, captured, rearm>>

Stamp == 0 .. MaxNow
Idle == [pc |-> "over", id |-> NoRow, at |-> 0, rank |-> 0, was |-> NoRow, saw |-> NoRow, todo |-> {}]

Recent(s, t) == start # NoRow /\ start.id = s /\ start.at + Dedupe > t /\ t + Dedupe > start.at
\* A day has passed since the notice on record, or the problem has got worse.
Due(n, rank, t) == IF n = NoRow THEN TRUE
                   ELSE ~(n.at < t + Repeat /\ t < n.at + Repeat) \/ rank > n.rank
Live(s) == {f \in Paths : claim[s][f] # NoRow}
Last(s) == IF rearm[s] # NoRow THEN rearm[s] ELSE captured[s]

-----------------------------------------------------------------------------
SInit ==
    /\ now = 0 /\ faults = 0
    /\ start = NoRow /\ notice = NoRow
    /\ claim = [s \in Ids |-> [f \in Paths |-> NoRow]]
    /\ captured = [s \in Ids |-> NoRow] /\ rearm = [s \in Ids |-> NoRow]
    /\ \E c \in Crews : hook = [x \in Hooks |-> [Idle EXCEPT !.pc = c[x]]]
    /\ log = <<>>

At(x, label) == hook[x].pc = label /\ hook[x].id # NoRow
Go(x, label) == hook' = [hook EXCEPT ![x].pc = label]
Finish(x) == hook' = [hook EXCEPT ![x] = Idle]
Running(x) == hook[x].id # NoRow
Note(e) == log' = Append(log, e)
\* A fault: another process holds the write lock, or the host kills a hook.
Fault == faults < MaxFaults /\ faults' = faults + 1 /\ UNCHANGED rows

\* The host runs a hook for a session.
Fire(x) ==
    /\ ~Running(x) /\ hook[x].pc # "over"
    /\ \E s \in Ids : hook' = [hook EXCEPT ![x].id = s, ![x].at = now]
    /\ UNCHANGED <<now, faults, rows, log>>

Tick ==
    /\ now < MaxNow /\ now' = now + 1
    /\ \A x \in Hooks : Running(x) => now' <= hook[x].at + Span
    /\ UNCHANGED <<faults, rows, hook, log>>
Die(x) ==
    /\ Running(x) /\ Finish(x) /\ Fault /\ UNCHANGED <<now, log>>

-----------------------------------------------------------------------------
(* SessionStart.                                                           *)

\* A read without a lock answers a duplicate at once.
StartPeek(x) ==
    /\ At(x, "peek")
    /\ IF Recent(hook[x].id, hook[x].at) THEN Finish(x) ELSE Go(x, "stamp")
    /\ UNCHANGED <<now, faults, rows, log>>

(* Mutant: the transaction does not decide again. *)
StampUnasked(x) ==
    /\ At(x, "stamp") /\ Go(x, "prune") /\ UNCHANGED now
    /\ \/ /\ start' = [id |-> hook[x].id, at |-> hook[x].at]
          /\ Note([what |-> "stamp", id |-> hook[x].id, at |-> hook[x].at])
          /\ UNCHANGED <<faults, notice, claim, captured, rearm>>
       \/ Fault /\ UNCHANGED log
\* Anything else is decided again in the transaction that stamps it.
StartStamp(x) ==
    LET s == hook[x].id t == hook[x].at IN
    /\ At(x, "stamp") /\ UNCHANGED now
    /\ \/ Recent(s, t) /\ Finish(x) /\ UNCHANGED <<faults, rows, log>>
       \/ /\ ~Recent(s, t) /\ start' = [id |-> s, at |-> t]
          /\ Go(x, "prune")
          /\ Note([what |-> "stamp", id |-> s, at |-> t])
          /\ UNCHANGED <<faults, notice, claim, captured, rearm>>
       \/ Fault /\ Go(x, "prune") /\ UNCHANGED log

Pruned(r) == IF r # NoRow /\ r + Retention < now THEN NoRow ELSE r
StartPrune(x) ==
    /\ At(x, "prune") /\ Go(x, "recorded") /\ UNCHANGED <<now, log>>
    /\ \/ /\ claim' = [s \in Ids |-> [f \in Paths |-> Pruned(claim[s][f])]]
          /\ rearm' = [s \in Ids |-> Pruned(rearm[s])]
          /\ UNCHANGED <<faults, start, notice, captured>>
       \/ Fault

\* Which notices are on record is read before the checks run.
StartRecorded(x) ==
    /\ At(x, "recorded")
    /\ hook' = [hook EXCEPT ![x].pc = "check", ![x].was = notice]
    /\ UNCHANGED <<now, faults, rows, log>>
\* What the checks find is not modelled: a problem of any rank, or none.
StartCheck(x) ==
    /\ At(x, "check")
    /\ \/ hook' = [hook EXCEPT ![x].pc = "clean", ![x].at = now]
       \/ \E rank \in Ranks :
             hook' = [hook EXCEPT ![x].pc = "notice", ![x].at = now, ![x].rank = rank]
    /\ UNCHANGED <<now, faults, rows, log>>

(* Mutant: the decision is taken on the stamp read before the checks. *)
NoticeReadBefore(x) ==
    LET t == hook[x].at rank == hook[x].rank IN
    /\ At(x, "notice") /\ Finish(x) /\ UNCHANGED now
    /\ \/ /\ Due(hook[x].was, rank, t) /\ notice' = [rank |-> rank, at |-> t]
          /\ Note([what |-> "claim", at |-> t, rank |-> rank])
          /\ UNCHANGED <<faults, start, claim, captured, rearm>>
       \/ ~Due(hook[x].was, rank, t) /\ UNCHANGED <<faults, rows, log>>
\* The decision and the stamp of a notice are one transaction; when it is
\* refused the notice is sent all the same.
StartNotice(x) ==
    LET t == hook[x].at rank == hook[x].rank IN
    /\ At(x, "notice") /\ Finish(x) /\ UNCHANGED now
    /\ \/ /\ Due(notice, rank, t) /\ notice' = [rank |-> rank, at |-> t]
          /\ Note([what |-> "claim", at |-> t, rank |-> rank])
          /\ UNCHANGED <<faults, start, claim, captured, rearm>>
       \/ ~Due(notice, rank, t) /\ UNCHANGED <<faults, rows, log>>
       \/ Fault /\ UNCHANGED log
\* A check that found nothing deletes the row it read before.
StartClean(x) ==
    /\ At(x, "clean") /\ Finish(x) /\ UNCHANGED now
    /\ \/ /\ hook[x].was # NoRow /\ notice' = NoRow
          /\ Note([what |-> "delete", at |-> now])
          /\ UNCHANGED <<faults, start, claim, captured, rearm>>
       \/ hook[x].was = NoRow /\ UNCHANGED <<faults, rows, log>>
       \/ hook[x].was # NoRow /\ Fault /\ UNCHANGED log

-----------------------------------------------------------------------------
(* PreToolUse.                                                             *)

ToolSelect(x) ==
    /\ At(x, "select")
    /\ \E F \in SUBSET Paths :
          /\ F # {} /\ Cardinality(F) <= PerCall
          /\ hook' = [hook EXCEPT ![x].pc = "claim", ![x].todo = F, ![x].at = now]
    /\ UNCHANGED <<now, faults, rows, log>>

Without(x, F) ==
    IF hook[x].todo \subseteq F THEN Finish(x)
    ELSE hook' = [hook EXCEPT ![x].todo = @ \ F]
(* Mutant: the count allows one more row than the cap. *)
ClaimOneMore(x, f) ==
    LET s == hook[x].id IN
    /\ At(x, "claim") /\ f \in hook[x].todo /\ UNCHANGED now
    /\ \/ /\ claim[s][f] = NoRow /\ Cardinality(Live(s)) <= Cap /\ Without(x, {f})
          /\ claim' = [claim EXCEPT ![s][f] = hook[x].at]
          /\ Note([what |-> "inject", id |-> s, at |-> now, file |-> f, stamp |-> hook[x].at])
          /\ UNCHANGED <<faults, start, notice, captured, rearm>>
       \/ ~(claim[s][f] = NoRow /\ Cardinality(Live(s)) <= Cap) /\ Without(x, {f}) /\ UNCHANGED <<faults, rows, log>>
       \/ Fault /\ Without(x, Paths) /\ UNCHANGED log
\* One statement counts the agent's rows and inserts one, and the showing is
\* journaled in the same transaction.  A refused claim ends the loop.
ToolClaim(x, f) ==
    LET s == hook[x].id IN
    /\ At(x, "claim") /\ f \in hook[x].todo /\ UNCHANGED now
    /\ \/ /\ claim[s][f] = NoRow /\ Cardinality(Live(s)) < Cap /\ Without(x, {f})
          /\ claim' = [claim EXCEPT ![s][f] = hook[x].at]
          /\ Note([what |-> "inject", id |-> s, at |-> now, file |-> f, stamp |-> hook[x].at])
          /\ UNCHANGED <<faults, start, notice, captured, rearm>>
       \/ ~(claim[s][f] = NoRow /\ Cardinality(Live(s)) < Cap) /\ Without(x, {f}) /\ UNCHANGED <<faults, rows, log>>
       \/ Fault /\ Without(x, Paths) /\ UNCHANGED log

-----------------------------------------------------------------------------
(* Stop.  Whether the session is substantial, or has enough commits since  *)
(* its last prompt, is not modelled: either answer is possible.            *)

StopLedger(x) ==
    LET s == hook[x].id IN
    /\ At(x, "ledger")
    /\ \/ captured[s] = NoRow /\ Go(x, "ask")
       \/ /\ captured[s] # NoRow /\ Last(s) + Gap <= now
          /\ hook' = [hook EXCEPT ![x].pc = "swap", ![x].saw = rearm[s]]
       \/ Finish(x)
    /\ UNCHANGED <<now, faults, rows, log>>
StopAsk(x) ==
    /\ At(x, "ask")
    /\ IF captured[hook[x].id] = NoRow THEN Go(x, "mark") ELSE Finish(x)
    /\ UNCHANGED <<now, faults, rows, log>>
(* Mutant: the stamp is written whatever it has become. *)
SwapAnyway(x) ==
    LET s == hook[x].id IN
    /\ At(x, "swap") /\ Go(x, "again") /\ UNCHANGED <<now, log>>
    /\ rearm' = [rearm EXCEPT ![s] = now] /\ UNCHANGED <<faults, start, notice, claim, captured>>
\* Of several Stops that read the same stamp one replaces it.
StopSwap(x) ==
    LET s == hook[x].id IN
    /\ At(x, "swap") /\ UNCHANGED <<now, log>>
    /\ \/ /\ rearm[s] = hook[x].saw /\ rearm' = [rearm EXCEPT ![s] = now]
          /\ Go(x, "again") /\ UNCHANGED <<faults, start, notice, claim, captured>>
       \/ rearm[s] # hook[x].saw /\ Finish(x) /\ UNCHANGED <<faults, rows>>
       \/ Fault /\ Finish(x)
StopMark(x) ==
    LET s == hook[x].id IN
    /\ At(x, "mark") /\ UNCHANGED <<now, log>>
    /\ \/ /\ captured' = [captured EXCEPT ![s] = IF @ = NoRow THEN now ELSE @]
          /\ Go(x, "rearm") /\ UNCHANGED <<faults, start, notice, claim, rearm>>
       \/ Fault /\ Finish(x)
StopStamp(x) ==
    LET s == hook[x].id IN
    /\ At(x, "rearm") /\ Go(x, "first") /\ UNCHANGED <<now, log>>
    /\ \/ rearm' = [rearm EXCEPT ![s] = now] /\ UNCHANGED <<faults, start, notice, claim, captured>>
       \/ Fault
StopPrint(x) ==
    /\ At(x, "first") \/ At(x, "again")
    /\ Note([what |-> hook[x].pc, id |-> hook[x].id, at |-> now]) /\ Finish(x)
    /\ UNCHANGED <<now, faults, rows>>

-----------------------------------------------------------------------------
SNext ==
    \/ Tick
    \/ \E x \in Hooks :
          \/ Fire(x) \/ Die(x)
          \/ StartPeek(x) \/ StartStamp(x) \/ StartPrune(x) \/ StartRecorded(x)
          \/ StartCheck(x) \/ StartNotice(x) \/ StartClean(x)
          \/ ToolSelect(x) \/ (\E f \in Paths : ToolClaim(x, f))
          \/ StopLedger(x) \/ StopAsk(x) \/ StopSwap(x) \/ StopMark(x) \/ StopStamp(x) \/ StopPrint(x)

SSpec == SInit /\ [][SNext]_svars

-----------------------------------------------------------------------------
Entry(w) == {i \in DOMAIN log : log[i].what = w}
Near(i, j, d) == log[i].at < log[j].at + d /\ log[j].at < log[i].at + d

(* A session gets the map twice within the window only if a lock refused a
   stamp or the start of another session was recorded between the two. *)
MapOncePerStart ==
    \A i, j \in Entry("stamp") :
        i < j /\ log[i].id = log[j].id /\ Near(i, j, Dedupe) =>
            \E k \in Entry("stamp") : i < k /\ k < j /\ log[k].id # log[i].id

(* A notice that was claimed is claimed again within the day only after a
   start that found the problem gone, or because the problem got worse from
   one claim to a later one. *)
GotWorse(i, j) ==
    \E h, k \in Entry("claim") : i <= h /\ h < k /\ k <= j /\ log[h].rank < log[k].rank
NoticeOncePerDay ==
    \A i, j \in Entry("claim") :
        i < j /\ Near(i, j, Repeat) =>
            (\E k \in Entry("delete") : i < k /\ k < j) \/ GotWorse(i, j)

(* An agent is told about a file once, until the record of it has expired,
   and never about more than Cap files at a time. *)
FileToldOnce ==
    \A i, j \in Entry("inject") :
        i < j /\ log[i].id = log[j].id =>
            \/ log[i].stamp + Retention < log[j].at
            \/ log[i].file # log[j].file
               /\ Cardinality({k \in Entry("inject") : k <= j /\ log[k].id = log[j].id
                                  /\ log[k].stamp + Retention >= log[j].at}) <= Cap

(* A captured session is asked again only when a gap has passed since every
   earlier question that was answered by a stamp. *)
AskedAgainAfterGap ==
    \A i \in Entry("first") \cup Entry("again"), j \in Entry("again") :
        i < j /\ log[i].id = log[j].id => log[i].at + Gap <= log[j].at + Span

(* docs/reference/hooks.md: the ledger "guarantees the first block-and-nudge
   fires once per session". *)
FirstNudgeOnce ==
    \A i, j \in Entry("first") : log[i].id = log[j].id => i = j
=============================================================================
