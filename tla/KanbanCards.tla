---------------------------- MODULE KanbanCards ----------------------------
(***************************************************************************)
(* The kanban's card commands (orchestrator/kanban/commands.py, with what  *)
(* kanban/read.py and kanban/view.py compute for them).  The daemon hands  *)
(* each request to handle_request, which is one transaction over two       *)
(* tables: the card, updated by compare-and-swap on its revision, and the  *)
(* append-only journal of events, whose key is the operation id.  A        *)
(* request may be handled any number of times and in any order, and the    *)
(* daemon may die after the commit and before it publishes the result.     *)
(*                                                                         *)
(* No code in the repository binds a task or a night to a card, so neither *)
(* is here.  A hash is the value it covers; a scope stands for all of      *)
(* SCOPE_FIELDS; what is on disk under the scope's paths is one content.   *)
(***************************************************************************)
EXTENDS Integers, FiniteSets

CONSTANTS
    Card, Op, Scope, Content, Closeout,
    GateScope,      \* scopes with a risk that forces the closeout gate
    Approvable,     \* contents build_approval_payload accepts
    Request,        \* the ids of the requests clients may send
    Ask,            \* request id -> [op, command, card, expected, arg]
    MaxRevision,    \* 2^63 - 1 in the code
    MaxRefused,     \* bound: commands the journal records as rejected
    MaxLost,        \* bound: results at once that a crash kept unpublished
    None,           \* SQL NULL, JSON null
    Malformed       \* an argument the command's field checks refuse

Commands == {"create", "edit", "approve", "withdraw", "return", "pause", "done",
             "archive", "report-progress", "place"}

TERMINAL_STATES == {"done", "archived"}
ManualState == {"inbox", "ready", "returned"} \cup TERMINAL_STATES
WORKER_TERMINAL_STATES == {"completed", "failed", "stopped"}

Revision == 0..MaxRevision

\* What an approval freezes.
Frozens == [card : Card, gen : Nat, scope : Scope, content : Content, gate_required : BOOLEAN]

ASSUME CardsAssumption ==
    /\ {MaxRevision, MaxRefused, MaxLost} \subseteq Nat
    /\ GateScope \subseteq Scope
    /\ Approvable \subseteq Content
    /\ None \notin Scope \cup Op \cup Frozens
    /\ \A r \in Request :
          /\ Ask[r].op \in Op
          /\ Ask[r].command \in Commands
          /\ Ask[r].card \in Card
          /\ Ask[r].expected \in Revision
          /\ /\ Ask[r].arg # Malformed
             /\ Ask[r].command = "create" \/ (Ask[r].command = "edit" /\ Ask[r].arg.scoped)
             => Ask[r].arg.scope \in Scope \cup {None}

VARIABLES
    card,       \* kanban_cards: card id -> row
    events,     \* kanban_events: operation id -> row
    disk,       \* scope -> what its paths hold
    decision,   \* closeout lifecycle -> the Dones whose binding blocks its ALLOW covers
    answers     \* results published to clients

vars == <<card, events, disk, decision, answers>>

Known(c) == c \in DOMAIN card

Put(table, key, row) ==
    [k \in DOMAIN table \cup {key} |-> IF k = key THEN row ELSE table[k]]

Asked(op) == Ask[events[op].request]

\* The journal of a card: its accepted events.
AcceptedOf(c) ==
    {op \in DOMAIN events : events[op].result = "accepted" /\ Asked(op).card = c}

AcceptedAs(c, command) == {op \in AcceptedOf(c) : Asked(op).command = command}

Latest(ops) == CHOOSE op \in ops : \A p \in ops : events[p].revision <= events[op].revision

-----------------------------------------------------------------------------
\* Progress reports and the scope they were made under.

ScopeDigest(c) == <<card[c].scope, card[c].gen, card[c].approval>>

ProgressBinding(c) == [gen |-> card[c].gen, digest |-> ScopeDigest(c)]

TouchesScope(op) == Asked(op).command = "edit" /\ Asked(op).arg.scoped

\* Mutant: the digests are compared and edits in between forgotten.
MutantScopeCurrent(c, binding, start) == binding.digest = ScopeDigest(c)

\* worker_scope_current: the digest matches, and no scope edit came between.
ScopeCurrent(c, binding, start) ==
    /\ binding.gen = card[c].gen
    /\ binding.digest = ScopeDigest(c)
    /\ \A op \in AcceptedOf(c) :
          TouchesScope(op) => events[op].revision <= start

Reports(c) == AcceptedAs(c, "report-progress")

\* progress_report: the status of the latest report if its scope is current.
CurrentReport(c) ==
    LET op == Latest(Reports(c)) IN
    IF Reports(c) # {} /\ ScopeCurrent(c, events[op].note.binding, events[op].revision)
      THEN Asked(op).arg.status
      ELSE None

-----------------------------------------------------------------------------
\* Worker observations: each names the one before it, within an attempt or
\* from the attempt it supersedes.

Observations(c) == {op \in Reports(c) : Asked(op).arg.observation # None}
ObservationOf(op) == Asked(op).arg.observation
Finished(o) == o.state \in WORKER_TERMINAL_STATES

\* Mutant: the end of an attempt may be corrected.
MutantSameAttemptObjection(c, o, op) ==
    LET before == ObservationOf(op)
        binding == events[op].note.worker IN
    IF <<o.supersedes, o.thread>> # <<before.supersedes, before.thread>> THEN "worker_identity_conflict"
    ELSE IF ~ScopeCurrent(c, binding, binding.started) /\ ~Finished(o)
      THEN "worker_scope_reconciliation_required"
    ELSE IF before.handoff = "acknowledged" /\ o.handoff # "acknowledged" THEN "worker_handoff_regression"
    ELSE IF o.state = "submitted" /\ before.state # "submitted" THEN "worker_state_regression"
    ELSE "none"

SameAttemptObjection(c, o, op) ==
    LET before == ObservationOf(op)
        binding == events[op].note.worker IN
    IF <<o.supersedes, o.thread>> # <<before.supersedes, before.thread>> THEN "worker_identity_conflict"
    ELSE IF ~ScopeCurrent(c, binding, binding.started) /\ ~Finished(o)
      THEN "worker_scope_reconciliation_required"
    ELSE IF Finished(before) /\ o.state # before.state THEN "worker_terminal_immutable"
    ELSE IF before.handoff = "acknowledged" /\ o.handoff # "acknowledged" THEN "worker_handoff_regression"
    ELSE IF o.state = "submitted" /\ before.state # "submitted" THEN "worker_state_regression"
    ELSE "none"

\* Mutant: a finished attempt may be superseded before it was handed over.
MutantNewAttemptObjection(c, o, before) ==
    IF o.supersedes # before.attempt \/ o.state # "submitted" THEN "worker_supersession_required"
    ELSE IF ~Finished(before) THEN "worker_handoff_required"
    ELSE IF \E op \in Observations(c) : ObservationOf(op).attempt = o.attempt THEN "worker_attempt_reused"
    ELSE "none"

NewAttemptObjection(c, o, before) ==
    IF o.supersedes # before.attempt \/ o.state # "submitted" THEN "worker_supersession_required"
    ELSE IF ~Finished(before) \/ before.handoff # "acknowledged" THEN "worker_handoff_required"
    ELSE IF \E op \in Observations(c) : ObservationOf(op).attempt = o.attempt THEN "worker_attempt_reused"
    ELSE "none"

WorkerObjection(c, o) ==
    LET op == Latest(Observations(c)) IN
    IF Observations(c) = {}
      THEN IF o.supersedes # None \/ o.previous # None \/ o.state # "submitted"
             THEN "worker_initial_submission_required" ELSE "none"
    ELSE IF o.previous # op THEN "worker_observation_conflict"
    ELSE IF o.attempt = ObservationOf(op).attempt THEN SameAttemptObjection(c, o, op)
    ELSE NewAttemptObjection(c, o, ObservationOf(op))

\* An attempt keeps the binding it started under.
WorkerBinding(c, o) ==
    LET op == Latest(Observations(c)) IN
    IF o = None THEN None
    ELSE IF Observations(c) # {} /\ o.attempt = ObservationOf(op).attempt THEN events[op].note.worker
    ELSE [gen |-> card[c].gen, digest |-> ScopeDigest(c), started |-> card[c].revision + 1]

-----------------------------------------------------------------------------
\* Why a command is refused; "none" when it is not.

\* Mutant: whoever writes last wins.
MutantGuard(r, allow_terminal) ==
    IF ~Known(Ask[r].card) THEN "card_not_found"
    ELSE IF card[Ask[r].card].revision = MaxRevision THEN "revision_exhausted"
    ELSE IF ~allow_terminal /\ card[Ask[r].card].state \in TERMINAL_STATES THEN "card_is_terminal"
    ELSE "none"

\* Mutant: a closed card takes every command.
MutantGuardTerminal(r, allow_terminal) ==
    IF ~Known(Ask[r].card) THEN "card_not_found"
    ELSE IF Ask[r].expected # card[Ask[r].card].revision THEN "revision_conflict"
    ELSE IF Ask[r].expected = MaxRevision THEN "revision_exhausted"
    ELSE "none"

\* Mutant: the last revision may be written over.
MutantGuardExhausted(r, allow_terminal) ==
    IF ~Known(Ask[r].card) THEN "card_not_found"
    ELSE IF Ask[r].expected # card[Ask[r].card].revision THEN "revision_conflict"
    ELSE IF ~allow_terminal /\ card[Ask[r].card].state \in TERMINAL_STATES THEN "card_is_terminal"
    ELSE "none"

Guard(r, allow_terminal) ==
    IF ~Known(Ask[r].card) THEN "card_not_found"
    ELSE IF Ask[r].expected # card[Ask[r].card].revision THEN "revision_conflict"
    ELSE IF Ask[r].expected = MaxRevision THEN "revision_exhausted"
    ELSE IF ~allow_terminal /\ card[Ask[r].card].state \in TERMINAL_STATES THEN "card_is_terminal"
    ELSE "none"

CreateObjection(r) ==
    IF Known(Ask[r].card) THEN "card_exists"
    ELSE IF Ask[r].arg = Malformed THEN "invalid_fields"
    ELSE "none"

\* build_approval_payload needs every scope field and acceptable artifacts.
ApproveObjection(c) ==
    IF card[c].state = "ready" /\ card[c].approval # None THEN "already_approved"
    ELSE IF card[c].scope = None THEN "missing_scope"
    ELSE IF disk[card[c].scope] \notin Approvable THEN "spec_not_approved"
    ELSE "none"

\* Mutant: a report whose scope has moved on is taken for none.
MutantPlaceObjection(c, r) ==
    LET report == CurrentReport(c) IN
    IF Ask[r].arg.destination = "backlog"
            /\ \/ report \in {"in_progress", "reported_done"}
               \/ card[c].reason = "manual_pause_pending"
               \/ card[c].state = "done"
      THEN "backlog_requires_effective_pending"
    ELSE "none"

\* Placement never suspends work, nor settles uncertain or stale evidence.
PlaceObjection(c, r) ==
    LET report == CurrentReport(c) IN
    IF Ask[r].arg.destination = "backlog"
            /\ \/ Reports(c) # {} /\ report = None
               \/ report \in {"in_progress", "reported_done"}
               \/ card[c].reason = "manual_pause_pending"
               \/ card[c].state = "done"
      THEN "backlog_requires_effective_pending"
    ELSE "none"

ReportObjection(c, r) ==
    IF Ask[r].arg.observation = None THEN "none" ELSE WorkerObjection(c, Ask[r].arg.observation)

-----------------------------------------------------------------------------
\* Done: the binding must name the approval the card holds, its evidence must
\* be complete, and a gated approval needs a closeout of its own.

Block(b) == [card |-> b.card, gen |-> b.gen, hash |-> b.hash]

\* Mutant: only the card's own journal is searched.
MutantCloseoutUsed(b) ==
    \E op \in AcceptedAs(b.card, "done") : Asked(op).arg.closeout = b.closeout

\* _closeout_already_used looks at every card's accepted Done.
CloseoutUsed(b) ==
    \E c \in Card : \E op \in AcceptedAs(c, "done") : Asked(op).arg.closeout = b.closeout

GateObjection(b) ==
    IF decision[b.closeout] = {} THEN "gate_not_decided"
    ELSE IF ~\E q \in decision[b.closeout] : Block(Ask[q].arg) = Block(b) THEN "gate_binding_mismatch"
    ELSE IF b.evidence = "sealed_later" THEN "gate_stale_candidate"
    ELSE IF CloseoutUsed(b) THEN "closeout_task_id_reused"
    ELSE "none"

GateRequired(c) == events[card[c].approval_event].note.gate_required

\* Mutant: any approval the card ever had will do.
MutantDoneObjection(c, b) ==
    IF b.card # c THEN "binding_mismatch"
    ELSE IF card[c].approval_event = None THEN "card_never_approved"
    ELSE IF b.evidence = "incomplete" THEN "evidence_incomplete"
    ELSE IF GateRequired(c) THEN GateObjection(b)
    ELSE "none"

DoneObjection(c, b) ==
    IF b.card # c THEN "binding_mismatch"
    ELSE IF card[c].approval_event = None THEN "card_never_approved"
    ELSE IF <<b.gen, b.hash>> # <<card[c].gen, card[c].approval>> THEN "binding_mismatch"
    ELSE IF b.evidence = "incomplete" THEN "evidence_incomplete"
    ELSE IF GateRequired(c) THEN GateObjection(b)
    ELSE "none"

Objection(r) ==
    LET guard == Guard(r, Ask[r].command \in {"report-progress", "place"}) IN
    IF Ask[r].command = "create" THEN CreateObjection(r)
    ELSE IF guard # "none" THEN guard
    ELSE IF Ask[r].command = "place" /\ card[Ask[r].card].state = "archived" THEN "card_is_archived"
    ELSE IF Ask[r].arg = Malformed THEN "invalid_fields"
    ELSE CASE Ask[r].command = "approve" -> ApproveObjection(Ask[r].card)
           [] Ask[r].command = "withdraw" -> IF card[Ask[r].card].approval = None THEN "not_approved" ELSE "none"
           [] Ask[r].command = "done" -> DoneObjection(Ask[r].card, Ask[r].arg)
           [] Ask[r].command = "report-progress" -> ReportObjection(Ask[r].card, r)
           [] Ask[r].command = "place" -> PlaceObjection(Ask[r].card, r)
           [] OTHER -> "none"

-----------------------------------------------------------------------------
\* The transaction.

Event(r, result, reason, revision, note) ==
    [request |-> r, result |-> result, reason |-> reason, revision |-> revision, note |-> note]

Outcome(r, result, reason, revision) ==
    [request |-> r, result |-> result, reason |-> reason, revision |-> revision]

Refused == {op \in DOMAIN events : events[op].result = "rejected"}
Unpublished == DOMAIN events \ {Ask[a.request].op : a \in answers}

\* The daemon may die between the commit and the result file.
Publish(outcome) ==
    \/ answers' = answers \cup {outcome}
    \/ Cardinality(Unpublished) < MaxLost /\ answers' = answers

Record(r, result, reason, revision, note) ==
    /\ events' = Put(events, Ask[r].op, Event(r, result, reason, revision, note))
    /\ Publish(Outcome(r, result, reason, revision))
    /\ UNCHANGED <<disk, decision>>

\* Mutant: the hash of the payload is not compared.
MutantReplay(r) ==
    /\ Ask[r].op \in DOMAIN events
    /\ LET e == events[Ask[r].op] IN Publish(Outcome(r, e.result, e.reason, e.revision))
    /\ UNCHANGED <<card, events, disk, decision>>

\* _replay: the recorded result, or a conflict that leaves no record.
Replay(r) ==
    /\ Ask[r].op \in DOMAIN events
    /\ LET e == events[Ask[r].op] IN
       Publish(IF Ask[e.request] = Ask[r] THEN Outcome(r, e.result, e.reason, e.revision)
                                ELSE Outcome(r, "rejected", "idempotency_conflict", None))
    /\ UNCHANGED <<card, events, disk, decision>>

Fresh(r) == Ask[r].op \notin DOMAIN events

Reject(r) ==
    /\ Fresh(r)
    /\ Objection(r) # "none"
    /\ Cardinality(Refused) < MaxRefused
    /\ Record(r, "rejected", Objection(r), None, None)
    /\ UNCHANGED card

\* One compare-and-swap of the row and one event.
Accept(r, row, note) ==
    /\ Fresh(r)
    /\ Objection(r) = "none"
    /\ card' = [card EXCEPT ![Ask[r].card] = [row EXCEPT !.revision = @ + 1]]
    /\ Record(r, "accepted", None, Ask[r].expected + 1, note)

Create(r) ==
    /\ Ask[r].command = "create"
    /\ Fresh(r)
    /\ Objection(r) = "none"
    /\ card' = Put(card, Ask[r].card,
                   [revision |-> 0, state |-> "inbox", scope |-> Ask[r].arg.scope, gen |-> 0,
                    approval |-> None, approval_event |-> None, reason |-> None, evidence |-> None])
    /\ Record(r, "accepted", None, 0, None)

NoApproval(row) == [row EXCEPT !.approval = None, !.approval_event = None]

\* Mutant: the approval outlives a change of the scope it was given for.
MutantEdit(r) ==
    /\ Ask[r].command = "edit"
    /\ LET row == card[Ask[r].card] IN
       Accept(r, IF Ask[r].arg.scoped THEN [row EXCEPT !.scope = Ask[r].arg.scope, !.reason = "scope_edited"]
                                 ELSE row, None)

\* A scope field in the edit revokes the approval, whatever its new value.
Edit(r) ==
    /\ Ask[r].command = "edit"
    /\ LET row == card[Ask[r].card]
           back == [NoApproval(row) EXCEPT
                      !.scope = Ask[r].arg.scope,
                      !.state = IF @ = "ready" THEN "inbox" ELSE @,
                      !.reason = "scope_edited"] IN
       Accept(r, IF Ask[r].arg.scoped THEN back ELSE row, None)

Frozen(c) ==
    [card |-> c, gen |-> card[c].gen + 1, scope |-> card[c].scope,
     content |-> disk[card[c].scope], gate_required |-> card[c].scope \in GateScope]

Approve(r) ==
    /\ Ask[r].command = "approve"
    /\ Accept(r, [card[Ask[r].card] EXCEPT !.state = "ready", !.gen = @ + 1, !.approval = Frozen(Ask[r].card),
                                      !.approval_event = Ask[r].op, !.reason = None],
              Frozen(Ask[r].card))

\* Mutant: the next approval starts over.
MutantInvalidate(r, state, reason) ==
    Accept(r, [NoApproval(card[Ask[r].card]) EXCEPT !.state = state, !.reason = reason, !.gen = 0], None)

Invalidate(r, state, reason) ==
    Accept(r, [NoApproval(card[Ask[r].card]) EXCEPT !.state = state, !.reason = reason], None)

Withdraw(r) == Ask[r].command = "withdraw" /\ Invalidate(r, "inbox", "approval_withdrawn")

Return(r) == Ask[r].command = "return" /\ Invalidate(r, "returned", "manually_returned")

Pause(r) ==
    /\ Ask[r].command = "pause"
    /\ Accept(r, [card[Ask[r].card] EXCEPT !.reason = "manual_pause_pending"], None)

Archive(r) ==
    /\ Ask[r].command = "archive"
    /\ Accept(r, [card[Ask[r].card] EXCEPT !.state = "archived", !.reason = "manually_archived"], None)

Done(r) ==
    /\ Ask[r].command = "done"
    /\ Accept(r, [card[Ask[r].card] EXCEPT !.state = "done", !.reason = "manually_accepted",
                                      !.evidence = Ask[r].op], None)

\* Reports and placement are events; the row only moves its revision.
ReportProgress(r) ==
    /\ Ask[r].command = "report-progress"
    /\ Accept(r, card[Ask[r].card], [binding |-> ProgressBinding(Ask[r].card),
                                worker |-> WorkerBinding(Ask[r].card, Ask[r].arg.observation)])

Place(r) == Ask[r].command = "place" /\ Accept(r, card[Ask[r].card], None)

-----------------------------------------------------------------------------
\* Outside the kanban: files change, a closeout lifecycle is decided ALLOW.

Rewrite(s, content) ==
    /\ disk' = [disk EXCEPT ![s] = content]
    /\ UNCHANGED <<card, events, decision, answers>>

Allow(x, carried) ==
    /\ decision[x] = {}
    /\ decision' = [decision EXCEPT ![x] = carried]
    /\ UNCHANGED <<card, events, disk, answers>>

\* The requests whose binding block a closeout's description may carry.
DoneRequests == {r \in Request : Ask[r].command = "done" /\ Ask[r].arg # Malformed}

Init ==
    /\ card = <<>>
    /\ events = <<>>
    /\ disk \in [Scope -> Content]
    /\ decision = [x \in Closeout |-> {}]
    /\ answers = {}

Handle(r) ==
    \/ Replay(r)
    \/ Reject(r)
    \/ Create(r)
    \/ Edit(r)
    \/ Approve(r)
    \/ Withdraw(r)
    \/ Return(r)
    \/ Pause(r)
    \/ Archive(r)
    \/ Done(r)
    \/ ReportProgress(r)
    \/ Place(r)

Next ==
    \/ \E r \in Request : Handle(r)
    \/ \E s \in Scope, content \in Content : Rewrite(s, content)
    \/ \E x \in Closeout, carried \in SUBSET DoneRequests : Allow(x, carried)

Spec == Init /\ [][Next]_vars
-----------------------------------------------------------------------------
\* Rows have the columns' types; a revision stays within 64 bits although
\* every command raises it (_guard's revision_exhausted).
KanbanTypeOK ==
    /\ DOMAIN card \subseteq Card
    /\ \A c \in DOMAIN card :
          LET row == card[c] IN
          /\ row.revision \in Revision
          /\ row.gen \in 0..row.revision
          /\ row.state \in ManualState
          /\ row.scope \in Scope \cup {None}
          /\ {row.approval_event, row.evidence} \subseteq Op \cup {None}
          /\ row.approval = None \/ row.approval.content \in Approvable
    /\ DOMAIN events \subseteq Op
    /\ \A op \in DOMAIN events :
          /\ events[op].request \in Request
          /\ Asked(op).op = op
          /\ events[op].result \in {"accepted", "rejected"}
          /\ events[op].revision \in Revision \cup {None}
    /\ disk \in [Scope -> Content]

\* The journal is the card's whole history: its accepted events carry the
\* revisions 0 up to the card's, each once, so of two commands written
\* against one revision exactly one took effect.
RevisionIsHistory ==
    \A c \in DOMAIN card :
        /\ {events[op].revision : op \in AcceptedOf(c)} = 0..card[c].revision
        /\ Cardinality(AcceptedOf(c)) = card[c].revision + 1

\* A card is ready exactly as far as an operator approved what it holds now:
\* the accepted approve event it points at froze this scope in this
\* generation, whatever was edited, withdrawn or returned in between.
ApprovalCoversScope ==
    \A c \in DOMAIN card :
        /\ card[c].state = "ready" => card[c].approval # None
        /\ card[c].approval # None =>
              /\ card[c].approval_event \in AcceptedAs(c, "approve")
              /\ events[card[c].approval_event].note = card[c].approval
              /\ card[c].approval.scope = card[c].scope
              /\ card[c].approval.gen = card[c].gen

\* Whoever asks, and however often a request is handled again after a crash:
\* an operation has one effect and one answer, and another request under the
\* same operation id only ever hears of the conflict.
OneAnswerPerOperation ==
    \A a, b \in answers :
        Ask[a.request].op = Ask[b.request].op =>
            IF Ask[a.request] = Ask[b.request]
              THEN [a EXCEPT !.request = b.request] = b
              ELSE "idempotency_conflict" \in {a.reason, b.reason}

\* No approval generation of a card is granted twice: a night, a binding or
\* a report that names one cannot mean another approval.
GenerationsDistinct ==
    \A c \in DOMAIN card : \A op, other \in AcceptedAs(c, "approve") :
        events[op].note.gen = events[other].note.gen => op = other

\* What handle_request commits it commits once: the journal, the revisions
\* and generations it hands out and the answers clients hear agree, in every
\* order of commands, replays and lost results.
JournalTellsOnce == RevisionIsHistory /\ GenerationsDistinct /\ OneAnswerPerOperation

\* A closed card was closed on the approval it still holds, and no approval
\* that came before it.
DoneOnHeldApproval ==
    \A c \in DOMAIN card :
        card[c].state = "done" =>
            /\ card[c].evidence \in AcceptedAs(c, "done")
            /\ Asked(card[c].evidence).arg.hash = card[c].approval

\* From its approval to its end a card rests on one decision of an operator:
\* no edit, withdrawal or return in between leaves it with an older one.
CardsRestOnApproval == ApprovalCoversScope /\ DoneOnHeldApproval

\* A decided closeout lifecycle closes one gated card, though its description
\* may carry the bindings of several (S8 item 6).
GatedDone ==
    {op \in DOMAIN events :
        /\ events[op].result = "accepted"
        /\ Asked(op).command = "done"
        /\ Asked(op).arg.hash.gate_required}

CloseoutClosesOneCard ==
    \A op, other \in GatedDone :
        Asked(op).arg.closeout = Asked(other).arg.closeout => op = other

\* A report shown as current was made under the very scope and approval the
\* card has: nothing touched either since, not even to set it back (A-B-A).
MovesScope(op) ==
    TouchesScope(op) \/ Asked(op).command \in {"approve", "withdraw"}

CurrentReportIsUndisturbed ==
    \A c \in DOMAIN card :
        CurrentReport(c) # None =>
            \A op \in AcceptedOf(c) :
                MovesScope(op) => events[op].revision < events[Latest(Reports(c))].revision

\* A card goes to the backlog only if the last word on it, under whatever
\* scope it was said, is not that work goes on or waits to be verified.
BacklogHidesNoWork ==
    [][\A op \in DOMAIN events' \ DOMAIN events :
          LET r == events'[op].request c == Ask[r].card IN
          /\ events'[op].result = "accepted"
          /\ Ask[r].command = "place"
          /\ Ask[r].arg.destination = "backlog"
          => /\ card[c].reason # "manual_pause_pending"
             /\ card[c].state \notin TERMINAL_STATES
             /\ Reports(c) # {} =>
                   Asked(Latest(Reports(c))).arg.status
                       \notin {"in_progress", "reported_done"}]_vars

\* What _place and progress_report conclude from a report survives whatever
\* comes between: stale is neither shown as current nor taken for pending.
ReportsStayHonest == []CurrentReportIsUndisturbed /\ BacklogHidesNoWork

\* Of all the worker attempts reported for a card only the last may be open:
\* every other one finished and was handed over, and is not heard of again.
LastAttempt(c) == ObservationOf(Latest(Observations(c))).attempt

OneOpenAttempt ==
    \A c \in DOMAIN card : \A op \in Observations(c) :
        LET mine == {p \in Observations(c) : ObservationOf(p).attempt = ObservationOf(op).attempt} IN
        ObservationOf(op).attempt # LastAttempt(c) =>
            /\ Finished(ObservationOf(Latest(mine)))
            /\ ObservationOf(Latest(mine)).handoff = "acknowledged"
            /\ \A p \in Observations(c) \ mine :
                  \/ events[p].revision > events[Latest(mine)].revision
                  \/ \A q \in mine : events[p].revision < events[q].revision

\* How an attempt ended is said once.
OutcomeStands ==
    \A c \in DOMAIN card : \A op, other \in Observations(c) :
        LET o == ObservationOf(op) p == ObservationOf(other) IN
        o.attempt = p.attempt /\ Finished(o) /\ Finished(p) => o.state = p.state

\* Worker attempts hand over one by one, with one outcome each.
WorkersHandOver == OneOpenAttempt /\ OutcomeStands

\* A done or archived card is never reopened, rescoped or reapproved; what
\* reports and placement still add is its history.
TerminalStays ==
    [][\A c \in DOMAIN card :
          card[c].state \in TERMINAL_STATES =>
              card'[c] = [card[c] EXCEPT !.revision = card'[c].revision]]_vars
=============================================================================
