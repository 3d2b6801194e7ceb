------------------------- MODULE KanbanCardsProofs -------------------------
(***************************************************************************)
(* What holds of KanbanCards for every set of cards, scopes, contents and  *)
(* requests, and for every bound: an approval covers the scope its card    *)
(* holds now, a card is closed on the approval it holds, a closeout        *)
(* lifecycle closes one gated card, the journal tells every command once,  *)
(* stale reports are not shown as current, and worker attempts hand over.  *)
(***************************************************************************)
EXTENDS KanbanCards, FiniteSetTheorems, TLAPS

Columns == {"revision", "state", "scope", "gen", "approval", "approval_event", "reason", "evidence"}

\* An accepted event of a card under a command.
Took(journal, op, c, command) ==
    /\ op \in DOMAIN journal
    /\ journal[op].result = "accepted"
    /\ Ask[journal[op].request].card = c
    /\ Ask[journal[op].request].command = command

\* ApprovalCoversScope of one row, and that the pair of approval columns is
\* set and cleared together.
Covered(journal, c, row) ==
    /\ row.state = "ready" => row.approval # None
    /\ row.approval_event # None => row.approval # None
    /\ row.approval # None =>
          /\ Took(journal, row.approval_event, c, "approve")
          /\ journal[row.approval_event].note = row.approval
          /\ row.approval.scope = row.scope
          /\ row.approval.gen = row.gen

\* DoneOnHeldApproval of one row.
Closed(journal, c, row) ==
    row.state = "done" =>
        /\ Took(journal, row.evidence, c, "done")
        /\ Ask[journal[row.evidence].request].arg.hash = row.approval

RowOK(journal, c, row) ==
    /\ row = [column \in Columns |-> row[column]]
    /\ row.gen \in Nat
    /\ row.scope \in Scope \cup {None}
    /\ Covered(journal, c, row)
    /\ Closed(journal, c, row)

RowsOK == \A c \in DOMAIN card : RowOK(events, c, card[c])

JournalOK ==
    \A op \in DOMAIN events : events[op].request \in Request /\ Asked(op).op = op

\* The inductive invariant: every row with the events its approval and its
\* evidence rest on, a journal keyed by the operation ids of its requests,
\* and the closeout lifecycles spent so far.
IInv == RowsOK /\ JournalOK /\ CloseoutClosesOneCard /\ disk \in [Scope -> Content]

-----------------------------------------------------------------------------
\* The journal only grows: what rows rest on stays.

LEMMA Recorded ==
    ASSUME NEW r, Fresh(r), NEW result, NEW reason, NEW revision, NEW note,
           Record(r, result, reason, revision, note)
    PROVE  /\ DOMAIN events' = DOMAIN events \cup {Ask[r].op}
           /\ Ask[r].op \notin DOMAIN events
           /\ events'[Ask[r].op].request = r
           /\ events'[Ask[r].op].result = result
           /\ events'[Ask[r].op].note = note
           /\ \A k \in DOMAIN events : events'[k] = events[k]
BY DEF Record, Fresh, Event, Put

LEMMA AcceptRecorded ==
    ASSUME NEW r, NEW row, NEW note, Accept(r, row, note)
    PROVE  /\ DOMAIN events' = DOMAIN events \cup {Ask[r].op}
           /\ events'[Ask[r].op].request = r
           /\ events'[Ask[r].op].result = "accepted"
           /\ events'[Ask[r].op].note = note
           /\ \A k \in DOMAIN events : events'[k] = events[k]
<1> DEFINE revision == Ask[r].expected + 1
<1> HIDE DEF revision
<1>1. Fresh(r) /\ Record(r, "accepted", None, revision, note)
  BY DEF Accept, revision
<1> QED BY <1>1, Recorded

LEMMA RowKeeps ==
    ASSUME NEW c, NEW row, RowOK(events, c, row),
           DOMAIN events \subseteq DOMAIN events',
           \A k \in DOMAIN events : events'[k] = events[k]
    PROVE  RowOK(events', c, row)
BY DEF RowOK, Covered, Closed, Took

LEMMA JournalKeeps ==
    ASSUME JournalOK, NEW r \in Request, Fresh(r), NEW result, NEW reason, NEW revision, NEW note,
           Record(r, result, reason, revision, note)
    PROVE  JournalOK'
<1>1. /\ DOMAIN events' = DOMAIN events \cup {Ask[r].op}
      /\ events'[Ask[r].op].request = r
      /\ \A k \in DOMAIN events : events'[k] = events[k]
  BY Recorded
<1> QED BY <1>1 DEF JournalOK, Asked

\* What is recorded is a Done under a gated approval only if it says so.
LEMMA GatedKeeps ==
    ASSUME CloseoutClosesOneCard, NEW r, Fresh(r), NEW result, NEW reason, NEW revision, NEW note,
           Record(r, result, reason, revision, note),
           result = "rejected" \/ Ask[r].command # "done"
    PROVE  CloseoutClosesOneCard'
<1>1. /\ DOMAIN events' = DOMAIN events \cup {Ask[r].op}
      /\ events'[Ask[r].op].request = r
      /\ events'[Ask[r].op].result = result
      /\ \A k \in DOMAIN events : events'[k] = events[k]
  BY Recorded
<1>2. ASSUME NEW op \in GatedDone' PROVE op \in GatedDone /\ events'[op] = events[op]
  <2>1. op # Ask[r].op
    BY <1>1, <1>2 DEF GatedDone, Asked
  <2> QED BY <1>1, <1>2, <2>1 DEF GatedDone, Asked
<1> QED BY <1>2 DEF CloseoutClosesOneCard, Asked

\* An accepted command that leaves a good row leaves good rows.
LEMMA AcceptKeeps ==
    ASSUME RowsOK, NEW r, NEW row, NEW note, Accept(r, row, note), Ask[r].command # "create",
           RowOK(events', Ask[r].card, row)
    PROVE  RowsOK'
<1> DEFINE c == Ask[r].card
           new == [row EXCEPT !.revision = @ + 1]
<1>1. c \in DOMAIN card
  BY DEF Accept, Objection, Guard, Known
<1>2. DOMAIN events \subseteq DOMAIN events' /\ \A k \in DOMAIN events : events'[k] = events[k]
  BY Recorded DEF Accept
<1>3. DOMAIN card' = DOMAIN card /\ card'[c] = new /\ \A d \in DOMAIN card \ {c} : card'[d] = card[d]
  BY <1>1 DEF Accept
<1>4. RowOK(events', c, new)
  BY DEF RowOK, Covered, Closed, Columns
<1>5. ASSUME NEW d \in DOMAIN card, d # c PROVE RowOK(events', d, card'[d])
  BY <1>2, <1>3, <1>5, RowKeeps DEF RowsOK
<1> QED BY <1>3, <1>4, <1>5 DEF RowsOK

LEMMA AcceptInv ==
    ASSUME IInv, NEW r \in Request, NEW row, NEW note, Accept(r, row, note),
           Ask[r].command \notin {"create", "done"}, RowOK(events', Ask[r].card, row)
    PROVE  IInv'
<1>1. RowsOK'
  BY AcceptKeeps DEF IInv
<1>2. JournalOK'
  BY JournalKeeps DEF IInv, Accept
<1>3. CloseoutClosesOneCard'
  BY GatedKeeps DEF IInv, Accept
<1>4. (disk \in [Scope -> Content])'
  BY DEF IInv, Accept, Record
<1> QED BY <1>1, <1>2, <1>3, <1>4 DEF IInv

\* An accepted command finds its card, as the invariant describes it.
LEMMA Accepted ==
    ASSUME IInv, NEW r, NEW row, NEW note, Accept(r, row, note), Ask[r].command # "create"
    PROVE  /\ Ask[r].card \in DOMAIN card
           /\ RowOK(events, Ask[r].card, card[Ask[r].card])
           /\ RowOK(events', Ask[r].card, card[Ask[r].card])
<1>1. Ask[r].card \in DOMAIN card
  BY DEF Accept, Objection, Guard, Known
<1>2. RowOK(events, Ask[r].card, card[Ask[r].card])
  BY <1>1 DEF IInv, RowsOK
<1>3. DOMAIN events \subseteq DOMAIN events' /\ \A k \in DOMAIN events : events'[k] = events[k]
  BY Recorded DEF Accept
<1> QED BY <1>1, <1>2, <1>3, RowKeeps

-----------------------------------------------------------------------------
\* One lemma per kind of command.

LEMMA UnscopedKeeps ==
    ASSUME IInv, NEW r \in Request, Pause(r) \/ Archive(r) \/ ReportProgress(r) \/ Place(r)
    PROVE  IInv'
<1> DEFINE row == card[Ask[r].card]
<1>1. CASE Pause(r)
  <2> DEFINE new == [row EXCEPT !.reason = "manual_pause_pending"]
  <2>1. Accept(r, new, None) /\ Ask[r].command = "pause"
    BY <1>1 DEF Pause
  <2>2. RowOK(events', Ask[r].card, row)
    BY <2>1, Accepted
  <2>3. RowOK(events', Ask[r].card, new)
    BY <2>2 DEF RowOK, Covered, Closed, Columns
  <2> QED BY <2>1, <2>3, AcceptInv
<1>2. CASE Archive(r)
  <2> DEFINE new == [row EXCEPT !.state = "archived", !.reason = "manually_archived"]
  <2>1. Accept(r, new, None) /\ Ask[r].command = "archive"
    BY <1>2 DEF Archive
  <2>2. RowOK(events', Ask[r].card, row)
    BY <2>1, Accepted
  <2>3. RowOK(events', Ask[r].card, new)
    BY <2>2 DEF RowOK, Covered, Closed, Columns
  <2> QED BY <2>1, <2>3, AcceptInv
<1>3. CASE ReportProgress(r)
  BY <1>3, Accepted, AcceptInv DEF ReportProgress
<1>4. CASE Place(r)
  BY <1>4, Accepted, AcceptInv DEF Place
<1> QED BY <1>1, <1>2, <1>3, <1>4

LEMMA InvalidateKeeps ==
    ASSUME IInv, NEW r \in Request, Withdraw(r) \/ Return(r)
    PROVE  IInv'
<1> DEFINE row == card[Ask[r].card]
<1>1. ASSUME NEW state \in {"inbox", "returned"}, NEW reason,
             Ask[r].command \in {"withdraw", "return"}, Invalidate(r, state, reason)
      PROVE  IInv'
  <2> DEFINE new == [NoApproval(row) EXCEPT !.state = state, !.reason = reason]
  <2>1. Accept(r, new, None)
    BY <1>1 DEF Invalidate
  <2>2. RowOK(events', Ask[r].card, row)
    BY <2>1, <1>1, Accepted
  <2>3. RowOK(events', Ask[r].card, new)
    BY <2>2, <1>1 DEF RowOK, Covered, Closed, Columns, NoApproval
  <2> QED BY <1>1, <2>1, <2>3, AcceptInv
<1> QED BY <1>1 DEF Withdraw, Return

LEMMA EditKeeps ==
    ASSUME IInv, NEW r \in Request, Edit(r)
    PROVE  IInv'
<1> DEFINE row == card[Ask[r].card]
           back == [NoApproval(row) EXCEPT
                      !.scope = Ask[r].arg.scope,
                      !.state = IF @ = "ready" THEN "inbox" ELSE @,
                      !.reason = "scope_edited"]
           new == IF Ask[r].arg.scoped THEN back ELSE row
<1>1. Accept(r, new, None) /\ Ask[r].command = "edit"
  BY DEF Edit
<1>2. RowOK(events', Ask[r].card, row) /\ Ask[r].card \in DOMAIN card
  BY <1>1, Accepted
<1>3. row.state # "done" /\ Ask[r].arg # Malformed
  BY <1>1, <1>2 DEF Accept, Objection, Guard, Known, TERMINAL_STATES
<1>4. Ask[r].arg.scoped => Ask[r].arg.scope \in Scope \cup {None}
  BY <1>1, <1>3, CardsAssumption
<1>5. RowOK(events', Ask[r].card, back) \/ ~Ask[r].arg.scoped
  BY <1>2, <1>3, <1>4 DEF RowOK, Covered, Closed, Columns, NoApproval
<1> QED BY <1>1, <1>2, <1>5, AcceptInv

LEMMA ApproveKeeps ==
    ASSUME IInv, NEW r \in Request, Approve(r)
    PROVE  IInv'
<1> DEFINE c == Ask[r].card
           row == card[c]
           new == [row EXCEPT !.state = "ready", !.gen = @ + 1, !.approval = Frozen(c),
                              !.approval_event = Ask[r].op, !.reason = None]
<1>1. Accept(r, new, Frozen(c)) /\ Ask[r].command = "approve"
  BY DEF Approve
<1>2. RowOK(events', c, row)
  BY <1>1, Accepted
<1>3. row.scope \in Scope
  BY <1>1, <1>2 DEF Accept, Objection, ApproveObjection, RowOK
<1>4. Frozen(c) # None
  <2>1. row.gen + 1 \in Nat
    BY <1>2 DEF RowOK
  <2>2. c \in Card /\ disk[row.scope] \in Content /\ (row.scope \in GateScope) \in BOOLEAN
    BY <1>3, CardsAssumption DEF IInv
  <2>3. Frozen(c) \in Frozens
    BY <1>3, <2>1, <2>2 DEF Frozen, Frozens
  <2> QED BY <2>3, CardsAssumption
<1>5. Frozen(c).scope = row.scope /\ Frozen(c).gen = row.gen + 1
  BY DEF Frozen
<1> DEFINE frozen == Frozen(c)
<1> HIDE DEF frozen
<1>6. Took(events', Ask[r].op, c, "approve") /\ events'[Ask[r].op].note = frozen
  <2>1. Accept(r, new, frozen)
    BY <1>1 DEF frozen
  <2>2. /\ Ask[r].op \in DOMAIN events'
        /\ events'[Ask[r].op].request = r
        /\ events'[Ask[r].op].result = "accepted"
        /\ events'[Ask[r].op].note = frozen
    <3> HIDE DEF new
    <3> QED BY ZenonT(30), <2>1, AcceptRecorded
  <2> QED BY <1>1, <2>2 DEF Took
<1>7. RowOK(events', c, new)
  <2> DEFINE next == [row EXCEPT !.state = "ready", !.gen = @ + 1, !.approval = frozen,
                                 !.approval_event = Ask[r].op, !.reason = None]
  <2>1. frozen # None /\ frozen.scope = row.scope /\ frozen.gen = row.gen + 1
    BY <1>4, <1>5 DEF frozen
  <2>2. RowOK(events', c, next)
    <3>1. row = [column \in Columns |-> row[column]] /\ row.gen \in Nat /\ row.scope \in Scope \cup {None}
      BY <1>2 DEF RowOK
    <3>2. next = [column \in Columns |-> next[column]]
      BY <3>1 DEF Columns
    <3>3. /\ next.state = "ready" /\ next.gen = row.gen + 1 /\ next.scope = row.scope
          /\ next.approval = frozen /\ next.approval_event = Ask[r].op
      BY <3>1 DEF Columns
    <3> HIDE DEF next
    <3> QED BY <1>6, <2>1, <3>1, <3>2, <3>3 DEF RowOK, Covered, Closed
  <2>3. next = new
    BY DEF frozen
  <2> HIDE DEF next, new
  <2> QED BY <2>2, <2>3
<1> QED BY <1>1, <1>7, AcceptInv

\* A gated Done found no Done of any card under its closeout.
LEMMA DoneKeeps ==
    ASSUME IInv, NEW r \in Request, Done(r)
    PROVE  IInv'
<1> DEFINE c == Ask[r].card
           b == Ask[r].arg
           row == card[c]
           new == [row EXCEPT !.state = "done", !.reason = "manually_accepted", !.evidence = Ask[r].op]
<1>1. Accept(r, new, None) /\ Ask[r].command = "done"
  BY DEF Done
<1>2. RowOK(events, c, row) /\ RowOK(events', c, row) /\ c \in DOMAIN card
  BY <1>1, Accepted
<1>3. /\ DOMAIN events' = DOMAIN events \cup {Ask[r].op}
      /\ events'[Ask[r].op].request = r
      /\ events'[Ask[r].op].result = "accepted"
      /\ \A k \in DOMAIN events : events'[k] = events[k]
  BY <1>1, AcceptRecorded
<1>4. DoneObjection(c, b) = "none"
  BY <1>1 DEF Accept, Objection
<1>5. card[c].approval_event # None /\ b.hash = row.approval
  BY <1>4 DEF DoneObjection
<1>6. RowOK(events', c, new)
  BY <1>1, <1>2, <1>3, <1>5 DEF RowOK, Covered, Closed, Columns, Took
<1>7. RowsOK' /\ JournalOK' /\ (disk \in [Scope -> Content])'
  BY <1>1, <1>6, AcceptKeeps, JournalKeeps DEF IInv, Accept, Record
<1>8. ASSUME NEW op \in GatedDone', op # Ask[r].op PROVE op \in GatedDone /\ events'[op] = events[op]
  BY <1>3, <1>8 DEF GatedDone, Asked
<1>9. ASSUME NEW op \in GatedDone, Ask[r].op \in GatedDone' PROVE Asked(op).arg.closeout # b.closeout
  <2>1. b.hash.gate_required
    BY <1>3, <1>9 DEF GatedDone, Asked
  <2>2. GateRequired(c)
    BY <1>2, <1>5, <2>1 DEF GateRequired, RowOK, Covered
  <2>3. ~CloseoutUsed(b)
    BY <1>4, <2>2 DEF DoneObjection, GateObjection
  <2>4. op \in AcceptedAs(Asked(op).card, "done") /\ Asked(op).card \in Card
    BY CardsAssumption DEF GatedDone, AcceptedAs, AcceptedOf, IInv, JournalOK, Asked
  <2> QED BY <2>3, <2>4 DEF CloseoutUsed
<1>10. CloseoutClosesOneCard'
  <2> SUFFICES ASSUME NEW op \in GatedDone', NEW other \in GatedDone',
                      (Asked(op).arg.closeout = Asked(other).arg.closeout)'
               PROVE  op = other
    BY DEF CloseoutClosesOneCard
  <2>1. CASE op = Ask[r].op \/ other = Ask[r].op
    BY <1>3, <1>8, <1>9, <2>1 DEF Asked
  <2>2. CASE op # Ask[r].op /\ other # Ask[r].op
    BY <1>8, <2>2 DEF IInv, CloseoutClosesOneCard, Asked
  <2> QED BY <2>1, <2>2
<1> QED BY <1>7, <1>10 DEF IInv

LEMMA CreateKeeps ==
    ASSUME IInv, NEW r \in Request, Create(r)
    PROVE  IInv'
<1> DEFINE new == [revision |-> 0, state |-> "inbox", scope |-> Ask[r].arg.scope, gen |-> 0,
                   approval |-> None, approval_event |-> None, reason |-> None, evidence |-> None]
<1>1. Fresh(r) /\ Record(r, "accepted", None, 0, None) /\ Ask[r].command = "create"
  BY DEF Create
<1>2. DOMAIN events \subseteq DOMAIN events' /\ \A k \in DOMAIN events : events'[k] = events[k]
  BY <1>1, Recorded
<1>3. Ask[r].arg # Malformed /\ Ask[r].card \notin DOMAIN card
  BY <1>1 DEF Create, Objection, CreateObjection, Known
<1>4. /\ DOMAIN card' = DOMAIN card \cup {Ask[r].card}
      /\ card'[Ask[r].card] = new
      /\ \A d \in DOMAIN card : card'[d] = card[d]
  BY <1>3 DEF Create, Put
<1>5. RowOK(events', Ask[r].card, new)
  BY <1>1, <1>3, CardsAssumption DEF RowOK, Covered, Closed, Columns
<1>6. ASSUME NEW d \in DOMAIN card PROVE RowOK(events', d, card'[d])
  BY <1>2, <1>4, RowKeeps DEF IInv, RowsOK
<1>7. RowsOK'
  BY <1>4, <1>5, <1>6 DEF RowsOK
<1>8. JournalOK' /\ CloseoutClosesOneCard'
  BY <1>1, JournalKeeps, GatedKeeps DEF IInv
<1> QED BY <1>1, <1>7, <1>8 DEF IInv, Record

LEMMA RejectKeeps ==
    ASSUME IInv, NEW r \in Request, Reject(r)
    PROVE  IInv'
<1> DEFINE objection == Objection(r)
<1> HIDE DEF objection
<1>1. Fresh(r) /\ Record(r, "rejected", objection, None, None) /\ card' = card
  BY DEF Reject, objection
<1>2. DOMAIN events \subseteq DOMAIN events' /\ \A k \in DOMAIN events : events'[k] = events[k]
  BY <1>1, Recorded
<1>3. RowsOK'
  BY <1>1, <1>2, RowKeeps DEF IInv, RowsOK
<1>4. JournalOK' /\ CloseoutClosesOneCard'
  BY <1>1, JournalKeeps, GatedKeeps DEF IInv
<1> QED BY <1>1, <1>3, <1>4 DEF IInv, Record

\* Replays and the world outside touch neither a row nor the journal.
LEMMA OutsideKeeps ==
    ASSUME IInv, UNCHANGED <<card, events>>, (disk \in [Scope -> Content])'
    PROVE  IInv'
BY DEF IInv, RowsOK, RowOK, Covered, Closed, Took, JournalOK, CloseoutClosesOneCard, GatedDone, Asked
-----------------------------------------------------------------------------

\* The daemon's handling of requests, in any order and any number of times,
\* keeps the invariant.
THEOREM CardsInvariant == Spec => []IInv
<1>1. Init => IInv
  BY DEF Init, IInv, RowsOK, JournalOK, CloseoutClosesOneCard, GatedDone
<1>2. IInv /\ [Next]_vars => IInv'
  <2> SUFFICES ASSUME IInv, [Next]_vars PROVE IInv'
    OBVIOUS
  <2>1. ASSUME NEW r \in Request, Handle(r) PROVE IInv'
    <3>1. CASE Replay(r)
      BY <3>1, OutsideKeeps DEF Replay, IInv
    <3>2. CASE Reject(r)
      BY <3>2, RejectKeeps
    <3>3. CASE Create(r)
      BY <3>3, CreateKeeps
    <3>4. CASE Edit(r)
      BY <3>4, EditKeeps
    <3>5. CASE Approve(r)
      BY <3>5, ApproveKeeps
    <3>6. CASE Withdraw(r) \/ Return(r)
      BY <3>6, InvalidateKeeps
    <3>7. CASE Done(r)
      BY <3>7, DoneKeeps
    <3>8. CASE Pause(r) \/ Archive(r) \/ ReportProgress(r) \/ Place(r)
      BY <3>8, UnscopedKeeps
    <3> QED BY <2>1, <3>1, <3>2, <3>3, <3>4, <3>5, <3>6, <3>7, <3>8 DEF Handle
  <2>2. ASSUME NEW s \in Scope, NEW content \in Content, Rewrite(s, content) PROVE IInv'
    BY <2>2, OutsideKeeps DEF Rewrite, IInv
  <2>3. ASSUME NEW x \in Closeout, NEW carried, Allow(x, carried) PROVE IInv'
    BY <2>3, OutsideKeeps DEF Allow, IInv
  <2>4. CASE UNCHANGED vars
    BY <2>4, OutsideKeeps DEF vars, IInv
  <2> QED BY <2>1, <2>2, <2>3, <2>4 DEF Next
<1> QED BY <1>1, <1>2, PTL DEF Spec

\* An approval covers the scope the card holds now (_edit, _withdraw and
\* _return revoke it, _approve freezes it), and a closed card was closed on
\* the approval it still holds (_validate_done, and _guard's refusal of every
\* later change).
THEOREM ApprovalsHold == Spec => []CardsRestOnApproval
<1>1. IInv => ApprovalCoversScope
  BY DEF IInv, RowsOK, RowOK, Covered, Took, ApprovalCoversScope, AcceptedAs, AcceptedOf, Asked
<1>2. IInv => DoneOnHeldApproval
  BY DEF IInv, RowsOK, RowOK, Closed, Took, DoneOnHeldApproval, AcceptedAs, AcceptedOf, Asked
<1>3. IInv => CardsRestOnApproval
  BY <1>1, <1>2 DEF CardsRestOnApproval
<1> QED BY <1>3, CardsInvariant, PTL

\* A decided closeout lifecycle closes one gated card
\* (_closeout_already_used inside the transaction of the Done).
THEOREM OneCardPerCloseout == Spec => []CloseoutClosesOneCard
<1>1. IInv => CloseoutClosesOneCard
  BY DEF IInv
<1> QED BY <1>1, CardsInvariant, PTL

\* A done or archived card is never reopened, rescoped or reapproved
\* (_guard's card_is_terminal; only reports and placement pass it).
THEOREM TerminalIsFinal == Spec => TerminalStays
<1>1. ASSUME IInv, [Next]_vars, NEW c \in DOMAIN card, card[c].state \in TERMINAL_STATES
      PROVE  card'[c] = [card[c] EXCEPT !.revision = card'[c].revision]
  <2>1. card[c] = [column \in Columns |-> card[c][column]]
    BY <1>1 DEF IInv, RowsOK, RowOK
  <2>2. CASE card'[c] = card[c]
    BY <2>1, <2>2 DEF Columns
  <2>3. ASSUME NEW r \in Request, Handle(r), card'[c] # card[c]
        PROVE  Accept(r, card[Ask[r].card], None) \/ ReportProgress(r)
    <3>1. ~Replay(r) /\ ~Reject(r)
      BY <2>3 DEF Replay, Reject
    <3>2. ~Create(r)
      BY <1>1, <2>3 DEF Create, Objection, CreateObjection, Known, Put
    <3>3. ASSUME NEW row, NEW note, Accept(r, row, note),
                 Ask[r].command \notin {"create", "report-progress", "place"}
          PROVE  FALSE
      <4>1. Ask[r].card \in DOMAIN card /\ card[Ask[r].card].state \notin TERMINAL_STATES
        BY <3>3 DEF Accept, Objection, Guard, Known
      <4>2. card'[c] = card[c]
        BY <1>1, <3>3, <4>1 DEF Accept
      <4> QED BY <2>3, <4>2
    <3>4. ~Edit(r) /\ ~Approve(r) /\ ~Withdraw(r) /\ ~Return(r) /\ ~Pause(r) /\ ~Archive(r) /\ ~Done(r)
      BY <3>3 DEF Edit, Approve, Withdraw, Return, Invalidate, Pause, Archive, Done
    <3> QED BY <2>3, <3>1, <3>2, <3>4 DEF Handle, Place
  <2>4. ASSUME NEW r \in Request, NEW note, Accept(r, card[Ask[r].card], note), card'[c] # card[c]
        PROVE  card'[c] = [card[c] EXCEPT !.revision = card'[c].revision]
    <3>1. Ask[r].card = c /\ card'[c] = [card[c] EXCEPT !.revision = @ + 1]
      BY <1>1, <2>4 DEF Accept
    <3> QED BY <2>1, <3>1 DEF Columns
  <2>5. ASSUME NEW r \in Request, Handle(r)
        PROVE  card'[c] = [card[c] EXCEPT !.revision = card'[c].revision]
    BY <2>2, <2>3, <2>4, <2>5 DEF ReportProgress
  <2> QED BY <1>1, <2>2, <2>5 DEF Next, Rewrite, Allow, vars
<1>2. IInv /\ [Next]_vars =>
          [\A c \in DOMAIN card :
              card[c].state \in TERMINAL_STATES =>
                  card'[c] = [card[c] EXCEPT !.revision = card'[c].revision]]_vars
  BY <1>1
<1> QED BY <1>2, CardsInvariant, PTL DEF Spec, TerminalStays

-----------------------------------------------------------------------------
\* What a step does to the journal, whatever the command.

\* One event is added under the request's operation id.
Grows(r, result, reason, revision, note) ==
    LET op == Ask[r].op IN
    /\ op \notin DOMAIN events
    /\ DOMAIN events' = DOMAIN events \cup {op}
    /\ events'[op].request = r /\ events'[op].result = result /\ events'[op].reason = reason
    /\ events'[op].revision = revision /\ events'[op].note = note
    /\ \A k \in DOMAIN events : events'[k] = events[k]

\* A command of a known card took effect.
Revises(r) ==
    LET c == Ask[r].card
        old == card[c]
        new == card'[c] IN
    /\ Ask[r].command # "create" /\ Objection(r) = "none"
    /\ c \in DOMAIN card /\ DOMAIN card' = DOMAIN card
    /\ \A d \in DOMAIN card \ {c} : card'[d] = card[d]
    /\ Ask[r].expected = old.revision /\ old.revision # MaxRevision
    /\ new.revision = old.revision + 1
    /\ new.state \in ManualState \cup {old.state}
    /\ new.approval_event \in {old.approval_event, None, Ask[r].op}
    /\ new.evidence \in {old.evidence, Ask[r].op}
    /\ IF Ask[r].command = "approve"
       THEN new.gen = old.gen + 1 /\ new.approval = Frozen(c)
       ELSE new.gen = old.gen /\ new.approval \in {old.approval, None}
    /\ Ask[r].command = "withdraw" => new.approval = None
    /\ \E note :
          /\ Grows(r, "accepted", None, old.revision + 1, note)
          /\ Ask[r].command = "approve" => note = Frozen(c)
          /\ Ask[r].command = "report-progress" => note.binding = ProgressBinding(c)

Creates(r) ==
    LET c == Ask[r].card
        new == card'[c] IN
    /\ Ask[r].command = "create"
    /\ c \notin DOMAIN card /\ DOMAIN card' = DOMAIN card \cup {c}
    /\ \A d \in DOMAIN card : card'[d] = card[d]
    /\ new.revision = 0 /\ new.gen = 0 /\ new.state = "inbox" /\ new.approval = None
    /\ new.approval_event = None /\ new.evidence = None
    /\ Grows(r, "accepted", None, 0, None)

Rejects(r) ==
    /\ card' = card
    /\ Grows(r, "rejected", Objection(r), None, None)

Records(r) == Revises(r) \/ Creates(r) \/ Rejects(r)

LEMMA RecordGrows ==
    ASSUME NEW r, Fresh(r), NEW result, NEW reason, NEW revision, NEW note,
           Record(r, result, reason, revision, note)
    PROVE  Grows(r, result, reason, revision, note)
BY DEF Record, Fresh, Event, Put, Grows

\* The parts of an accepted command that do not depend on it.
LEMMA AcceptRevises ==
    ASSUME IInv, NEW r, NEW row, NEW note, Accept(r, row, note), Ask[r].command # "create",
           row = [column \in Columns |-> row[column]],
           row.revision = card[Ask[r].card].revision
    PROVE  LET c == Ask[r].card IN
           /\ Objection(r) = "none"
           /\ c \in DOMAIN card /\ DOMAIN card' = DOMAIN card
           /\ \A d \in DOMAIN card \ {c} : card'[d] = card[d]
           /\ Ask[r].expected = card[c].revision /\ card[c].revision # MaxRevision
           /\ card'[c].revision = card[c].revision + 1
           /\ \A column \in Columns \ {"revision"} : card'[c][column] = row[column]
           /\ Grows(r, "accepted", None, card[c].revision + 1, note)
<1> DEFINE c == Ask[r].card
           new == [row EXCEPT !.revision = @ + 1]
<1>1. /\ Objection(r) = "none" /\ c \in DOMAIN card
      /\ Ask[r].expected = card[c].revision /\ card[c].revision # MaxRevision
  BY DEF Accept, Objection, Guard, Known
<1>2. /\ DOMAIN card' = DOMAIN card /\ card'[c] = new
      /\ \A d \in DOMAIN card \ {c} : card'[d] = card[d]
  BY <1>1 DEF Accept
<1>3. new.revision = card[c].revision + 1 /\ \A column \in Columns \ {"revision"} : new[column] = row[column]
  BY DEF Columns
<1>4. Grows(r, "accepted", None, card[c].revision + 1, note)
  <2> DEFINE revision == Ask[r].expected + 1
  <2>1. Fresh(r) /\ Record(r, "accepted", None, revision, note)
    BY DEF Accept
  <2> HIDE DEF revision
  <2>2. Grows(r, "accepted", None, revision, note)
    BY <2>1, RecordGrows
  <2> QED BY <1>1, <2>2 DEF revision
<1> HIDE DEF new
<1> QED BY <1>1, <1>2, <1>3, <1>4

\* Every command of a known card revises it.
LEMMA CommandRevises ==
    ASSUME IInv, NEW r \in Request,
           \/ Edit(r) \/ Approve(r) \/ Withdraw(r) \/ Return(r) \/ Pause(r) \/ Archive(r)
           \/ Done(r) \/ ReportProgress(r) \/ Place(r)
    PROVE  Revises(r)
<1> DEFINE c == Ask[r].card
           old == card[c]
<1>1. ASSUME NEW row, NEW note, Accept(r, row, note), Ask[r].command # "create",
             row = [column \in Columns |-> row[column]], row.revision = old.revision,
             row.state \in ManualState \cup {old.state},
             row.approval_event \in {old.approval_event, None, Ask[r].op},
             row.evidence \in {old.evidence, Ask[r].op},
             IF Ask[r].command = "approve"
               THEN row.gen = old.gen + 1 /\ row.approval = Frozen(c) /\ note = Frozen(c)
               ELSE row.gen = old.gen /\ row.approval \in {old.approval, None},
             Ask[r].command = "withdraw" => row.approval = None,
             Ask[r].command = "report-progress" => note.binding = ProgressBinding(c)
      PROVE  Revises(r)
  <2> DEFINE new == card'[c]
  <2>1. /\ Objection(r) = "none" /\ c \in DOMAIN card /\ DOMAIN card' = DOMAIN card
        /\ \A d \in DOMAIN card \ {c} : card'[d] = card[d]
        /\ Ask[r].expected = old.revision /\ old.revision # MaxRevision
        /\ new.revision = old.revision + 1
        /\ \A column \in Columns \ {"revision"} : new[column] = row[column]
        /\ Grows(r, "accepted", None, old.revision + 1, note)
    BY <1>1, AcceptRevises
  <2>2. /\ new.state = row.state /\ new.approval_event = row.approval_event
        /\ new.evidence = row.evidence /\ new.gen = row.gen /\ new.approval = row.approval
    BY <2>1 DEF Columns
  <2> QED BY <1>1, <2>1, <2>2 DEF Revises
<1>2. ASSUME NEW row, NEW note, Accept(r, row, note), Ask[r].command # "create"
      PROVE  old = [column \in Columns |-> old[column]]
  <2>1. RowOK(events, c, old)
    BY <1>2, Accepted
  <2> QED BY <2>1 DEF RowOK
<1>3. CASE Edit(r)
  <2> DEFINE back == [NoApproval(old) EXCEPT
                        !.scope = Ask[r].arg.scope,
                        !.state = IF @ = "ready" THEN "inbox" ELSE @,
                        !.reason = "scope_edited"]
             row == IF Ask[r].arg.scoped THEN back ELSE old
  <2>1. Accept(r, row, None) /\ Ask[r].command = "edit"
    BY <1>3 DEF Edit
  <2>2. old = [column \in Columns |-> old[column]]
    BY <1>2, <2>1
  <2>3. /\ row = [column \in Columns |-> row[column]] /\ row.revision = old.revision
        /\ row.state \in ManualState \cup {old.state} /\ row.approval_event \in {old.approval_event, None}
        /\ row.evidence = old.evidence /\ row.gen = old.gen /\ row.approval \in {old.approval, None}
    BY <2>2 DEF NoApproval, Columns, ManualState
  <2> HIDE DEF row
  <2> QED BY <1>1, <2>1, <2>3
<1>4. CASE Approve(r)
  <2> DEFINE frozen == Frozen(c)
  <2>1. Accept(r, [old EXCEPT !.state = "ready", !.gen = @ + 1, !.approval = Frozen(c),
                              !.approval_event = Ask[r].op, !.reason = None], Frozen(c))
        /\ Ask[r].command = "approve"
    BY <1>4 DEF Approve
  <2> HIDE DEF frozen
  <2> DEFINE row == [old EXCEPT !.state = "ready", !.gen = @ + 1, !.approval = frozen,
                                !.approval_event = Ask[r].op, !.reason = None]
  <2>2. old = [column \in Columns |-> old[column]]
    BY <1>2, <2>1
  <2>3. /\ row = [column \in Columns |-> row[column]] /\ row.revision = old.revision
        /\ row.state = "ready" /\ row.approval_event = Ask[r].op
        /\ row.evidence = old.evidence /\ row.gen = old.gen + 1 /\ row.approval = frozen
    BY <2>2 DEF Columns
  <2>4. Accept(r, row, frozen) /\ frozen = Frozen(c)
    BY <2>1 DEF frozen
  <2> HIDE DEF row
  <2> QED BY <1>1, <2>1, <2>3, <2>4 DEF ManualState
<1>5. CASE Withdraw(r) \/ Return(r)
  <2>0. \E state, reason : state \in {"inbox", "returned"} /\ Invalidate(r, state, reason)
    BY <1>5 DEF Withdraw, Return
  <2>1. PICK state, reason : state \in {"inbox", "returned"} /\ Invalidate(r, state, reason)
    BY <2>0
  <2> DEFINE row == [NoApproval(old) EXCEPT !.state = state, !.reason = reason]
  <2>2. Accept(r, row, None) /\ Ask[r].command \in {"withdraw", "return"}
    BY <1>5, <2>1 DEF Withdraw, Return, Invalidate
  <2>3. old = [column \in Columns |-> old[column]]
    BY <1>2, <2>2
  <2>4. /\ row = [column \in Columns |-> row[column]] /\ row.revision = old.revision
        /\ row.state = state /\ row.approval_event = None
        /\ row.evidence = old.evidence /\ row.gen = old.gen /\ row.approval = None
    BY <2>3 DEF NoApproval, Columns
  <2> HIDE DEF row
  <2> QED BY <1>1, <2>1, <2>2, <2>4 DEF ManualState
<1>6. CASE Pause(r) \/ Archive(r) \/ Done(r)
  <2> DEFINE paused == [old EXCEPT !.reason = "manual_pause_pending"]
             archived == [old EXCEPT !.state = "archived", !.reason = "manually_archived"]
             done == [old EXCEPT !.state = "done", !.reason = "manually_accepted", !.evidence = Ask[r].op]
  <2>1. PICK row \in {paused, archived, done} : Accept(r, row, None)
    BY <1>6 DEF Pause, Archive, Done
  <2>2. Ask[r].command \in {"pause", "archive", "done"}
    BY <1>6 DEF Pause, Archive, Done
  <2>3. old = [column \in Columns |-> old[column]]
    BY <1>2, <2>1, <2>2
  <2>4. /\ row = [column \in Columns |-> row[column]] /\ row.revision = old.revision
        /\ row.state \in ManualState \cup {old.state} /\ row.approval_event = old.approval_event
        /\ row.evidence \in {old.evidence, Ask[r].op} /\ row.gen = old.gen /\ row.approval = old.approval
    BY <2>1, <2>3 DEF Columns, ManualState, TERMINAL_STATES
  <2> QED BY <1>1, <2>1, <2>2, <2>4
<1>7. CASE ReportProgress(r) \/ Place(r)
  <2>1. PICK note : /\ Accept(r, old, note) /\ Ask[r].command \in {"report-progress", "place"}
                    /\ Ask[r].command = "report-progress" => note.binding = ProgressBinding(c)
    BY <1>7 DEF ReportProgress, Place
  <2>2. old = [column \in Columns |-> old[column]]
    BY <1>2, <2>1
  <2> QED BY <1>1, <2>1, <2>2
<1> QED BY <1>3, <1>4, <1>5, <1>6, <1>7

\* What the client of a request hears of the journal's row for its operation.
Heard(r) ==
    LET e == events[Ask[r].op] IN
    IF Ask[e.request] = Ask[r] THEN Outcome(r, e.result, e.reason, e.revision)
                               ELSE Outcome(r, "rejected", "idempotency_conflict", None)

Hears(r) ==
    /\ Ask[r].op \in DOMAIN events'
    /\ answers' \subseteq answers \cup {Heard(r)'}

RowsStand == UNCHANGED <<card, events>>

\* Every step either leaves rows and journal alone or records one request,
\* and what it publishes is the recorded row.
LEMMA CardSteps ==
    ASSUME IInv, [Next]_vars
    PROVE  \/ RowsStand /\ (answers' = answers \/ \E r \in Request : Hears(r))
           \/ \E r \in Request : Records(r) /\ Hears(r)
<1>1. ASSUME NEW r \in Request, NEW result, NEW reason, NEW revision, NEW note,
             Fresh(r), Record(r, result, reason, revision, note)
      PROVE  Hears(r)
  <2>1. Grows(r, result, reason, revision, note)
    BY <1>1, RecordGrows
  <2>2. Heard(r)' = Outcome(r, result, reason, revision)
    BY <2>1 DEF Heard, Grows
  <2>3. answers' \subseteq answers \cup {Outcome(r, result, reason, revision)}
    BY <1>1 DEF Record, Publish
  <2> QED BY <2>1, <2>2, <2>3 DEF Hears, Grows
<1>2. ASSUME NEW r \in Request, Replay(r) PROVE RowsStand /\ Hears(r)
  <2>1. RowsStand /\ Ask[r].op \in DOMAIN events'
    BY <1>2 DEF Replay, RowsStand
  <2>2. Heard(r)' = Heard(r)
    BY <2>1 DEF Heard, RowsStand
  <2>3. answers' \subseteq answers \cup {Heard(r)}
    BY <1>2 DEF Replay, Publish, Heard
  <2> QED BY <2>1, <2>2, <2>3 DEF Hears
<1>3. ASSUME NEW r \in Request, Reject(r) PROVE Rejects(r) /\ Hears(r)
  <2> DEFINE objection == Objection(r)
  <2> HIDE DEF objection
  <2>1. Fresh(r) /\ Record(r, "rejected", objection, None, None) /\ card' = card
    BY <1>3 DEF Reject, objection
  <2> QED BY <1>1, <2>1, RecordGrows DEF Rejects, objection
<1>4. ASSUME NEW r \in Request, Create(r) PROVE Creates(r) /\ Hears(r)
  <2>1. Fresh(r) /\ Record(r, "accepted", None, 0, None) /\ Ask[r].command = "create"
    BY <1>4 DEF Create
  <2>2. Ask[r].card \notin DOMAIN card
    BY <1>4 DEF Create, Objection, CreateObjection, Known
  <2>3. Grows(r, "accepted", None, 0, None) /\ Hears(r)
    BY <1>1, <2>1, RecordGrows
  <2> QED BY <1>4, <2>1, <2>2, <2>3 DEF Create, Creates, Put
<1>5. ASSUME NEW r \in Request, NEW row, NEW note, Accept(r, row, note) PROVE Hears(r)
  <2> DEFINE revision == Ask[r].expected + 1
  <2>1. Fresh(r) /\ Record(r, "accepted", None, revision, note)
    BY <1>5 DEF Accept
  <2> HIDE DEF revision
  <2> QED BY <1>1, <2>1
<1>6. ASSUME NEW r \in Request,
             \/ Edit(r) \/ Approve(r) \/ Withdraw(r) \/ Return(r) \/ Pause(r) \/ Archive(r)
             \/ Done(r) \/ ReportProgress(r) \/ Place(r)
      PROVE  Revises(r) /\ Hears(r)
  <2>1. Revises(r)
    BY <1>6, CommandRevises
  <2>2. \E row, note : Accept(r, row, note)
    BY <1>6 DEF Edit, Approve, Withdraw, Return, Invalidate, Pause, Archive, Done, ReportProgress, Place
  <2> QED BY <1>5, <2>1, <2>2
<1>7. ASSUME NEW r \in Request, Handle(r)
      PROVE  (RowsStand /\ Hears(r)) \/ (Records(r) /\ Hears(r))
  BY <1>2, <1>3, <1>4, <1>6, <1>7 DEF Handle, Records
<1>8. CASE \/ \E s \in Scope, content \in Content : Rewrite(s, content)
           \/ \E x \in Closeout, carried \in SUBSET DoneRequests : Allow(x, carried)
           \/ UNCHANGED vars
  BY <1>8 DEF Rewrite, Allow, RowsStand, vars
<1> QED BY <1>7, <1>8 DEF Next

-----------------------------------------------------------------------------
\* The journal tells once what happened.

\* The accepted events of a card in a journal.
LEMMA AcceptedGrows ==
    ASSUME NEW r, NEW result, NEW reason, NEW revision, NEW note,
           Grows(r, result, reason, revision, note), NEW c
    PROVE  /\ AcceptedOf(c)' = AcceptedOf(c) \cup
                 (IF result = "accepted" /\ Ask[r].card = c THEN {Ask[r].op} ELSE {})
           /\ \A op \in AcceptedOf(c) : events'[op] = events[op] /\ op # Ask[r].op
BY DEF Grows, AcceptedOf, Asked

\* The revisions of a card are the numbers of its accepted events.
History(c) ==
    LET ops == AcceptedOf(c) IN
    /\ card[c].revision \in Revision
    /\ IsFiniteSet(ops) /\ Cardinality(ops) = card[c].revision + 1
    /\ {events[op].revision : op \in ops} = 0..card[c].revision
    /\ \A op, other \in ops : events[op].revision = events[other].revision => op = other

\* No generation was granted twice, and none is ahead of the card's.
Generations(c) ==
    \A op \in AcceptedAs(c, "approve") :
        /\ events[op].note.gen \in Nat /\ events[op].note.gen <= card[c].gen
        /\ \A other \in AcceptedAs(c, "approve") :
              events[op].note.gen = events[other].note.gen => op = other

AnswersTrue ==
    \A a \in answers :
        /\ a.request \in Request /\ Ask[a.request].op \in DOMAIN events
        /\ a = Heard(a.request)

\* The columns KanbanTypeOK names, and who may have them.
Typed(c) ==
    LET row == card[c] IN
    /\ c \in Card
    /\ row.gen \in 0..row.revision
    /\ row.state \in ManualState
    /\ {row.approval_event, row.evidence} \subseteq Op \cup {None}
    /\ row.approval = None \/ row.approval.content \in Approvable

EventsTyped ==
    \A op \in DOMAIN events :
        /\ op \in Op
        /\ events[op].result \in {"accepted", "rejected"}
        /\ events[op].revision \in Revision \cup {None}
        /\ events[op].result = "accepted" => Asked(op).card \in DOMAIN card

JInv ==
    /\ \A c \in DOMAIN card : History(c) /\ Generations(c) /\ Typed(c)
    /\ EventsTyped
    /\ AnswersTrue

LEMMA InitJInv == Init => JInv
BY DEF Init, JInv, EventsTyped, AnswersTrue

\* A card whose accepted events and row stay keeps its history.
LEMMA HistorySame ==
    ASSUME NEW c, History(c), Generations(c), Typed(c), card'[c] = card[c], AcceptedOf(c)' = AcceptedOf(c),
           \A op \in AcceptedOf(c) : events'[op] = events[op]
    PROVE  History(c)' /\ Generations(c)' /\ Typed(c)'
<1>1. AcceptedAs(c, "approve")' = AcceptedAs(c, "approve")
  BY DEF AcceptedAs, Asked
<1>2. Generations(c)'
  BY <1>1 DEF Generations, AcceptedAs
<1>3. {events'[op].revision : op \in AcceptedOf(c)} = {events[op].revision : op \in AcceptedOf(c)}
  OBVIOUS
<1>4. History(c)'
  BY <1>3 DEF History
<1>5. Typed(c)'
  BY DEF Typed
<1> QED BY <1>2, <1>4, <1>5

\* One more event, with the next number.
LEMMA HistoryGrows ==
    ASSUME NEW c, History(c), NEW op, op \notin AcceptedOf(c),
           AcceptedOf(c)' = AcceptedOf(c) \cup {op},
           \A p \in AcceptedOf(c) : events'[p] = events[p],
           events'[op].revision = card[c].revision + 1,
           card'[c].revision = card[c].revision + 1, card[c].revision # MaxRevision
    PROVE  History(c)'
<1> DEFINE ops == AcceptedOf(c)
           n == card[c].revision
<1>1. /\ n \in Nat /\ n + 1 \in Revision /\ MaxRevision \in Nat
      /\ IsFiniteSet(ops) /\ Cardinality(ops) = n + 1
      /\ {events[p].revision : p \in ops} = 0..n
      /\ \A p, other \in ops : events[p].revision = events[other].revision => p = other
  BY CardsAssumption DEF History, Revision
<1>2. \A p \in ops : events[p].revision \in 0..n
  BY <1>1
<1>3. IsFiniteSet(ops \cup {op}) /\ Cardinality(ops \cup {op}) = n + 1 + 1
  <2> HIDE DEF ops, n
  <2>1. op \notin ops
    BY DEF ops
  <2> QED BY ZenonT(30), <1>1, <2>1, FS_AddElement
<1>4. {events'[p].revision : p \in ops \cup {op}} = 0..(n + 1)
  <2>1. {events'[p].revision : p \in ops \cup {op}} = {events[p].revision : p \in ops} \cup {n + 1}
    OBVIOUS
  <2>2. (0..n) \cup {n + 1} = 0..(n + 1)
    BY <1>1
  <2> QED BY <1>1, <2>1, <2>2
<1>5. \A p, other \in ops \cup {op} : events'[p].revision = events'[other].revision => p = other
  <2>1. \A p \in ops : events'[p].revision \in 0..n
    BY <1>2
  <2>2. \A p, other \in ops : events'[p].revision = events'[other].revision => p = other
    BY <1>1
  <2>3. events'[op].revision \notin 0..n
    BY <1>1
  <2> QED BY <2>1, <2>2, <2>3
<1>6. AcceptedOf(c)' = ops \cup {op} /\ card'[c].revision = n + 1
  OBVIOUS
<1> HIDE DEF ops, n
<1> QED BY <1>1, <1>3, <1>4, <1>5, <1>6 DEF History

LEMMA AnswersKeep ==
    ASSUME AnswersTrue, NEW r \in Request, Hears(r),
           DOMAIN events \subseteq DOMAIN events', \A k \in DOMAIN events : events'[k] = events[k]
    PROVE  AnswersTrue'
<1>1. ASSUME NEW a \in answers'
      PROVE  a.request \in Request /\ Ask[a.request].op \in DOMAIN events' /\ a = Heard(a.request)'
  <2>1. CASE a \in answers
    <3>1. a.request \in Request /\ Ask[a.request].op \in DOMAIN events /\ a = Heard(a.request)
      BY <2>1 DEF AnswersTrue
    <3> QED BY <3>1 DEF Heard
  <2>2. CASE a = Heard(r)'
    <3>1. a.request = r
      BY <2>2 DEF Heard, Outcome
    <3> QED BY <2>2, <3>1 DEF Hears
  <2> QED BY <1>1, <2>1, <2>2 DEF Hears
<1> QED BY <1>1 DEF AnswersTrue

LEMMA EventsKeep ==
    ASSUME EventsTyped, NEW r \in Request, NEW result \in {"accepted", "rejected"}, NEW reason,
           NEW revision \in Revision \cup {None}, NEW note,
           Grows(r, result, reason, revision, note),
           DOMAIN card \subseteq DOMAIN card',
           result = "accepted" => Ask[r].card \in DOMAIN card'
    PROVE  EventsTyped'
BY CardsAssumption DEF EventsTyped, Grows, Asked

\* An approval's generation is the card's next.
LEMMA GenerationsGrow ==
    ASSUME IInv, JInv, NEW r \in Request, Revises(r) PROVE Generations(Ask[r].card)'
<1> DEFINE c == Ask[r].card
           op == Ask[r].op
           before == AcceptedAs(c, "approve")
<1>1. c \in DOMAIN card /\ card[c].gen \in Nat
  BY DEF Revises, IInv, RowsOK, RowOK
<1>2. PICK note : /\ Grows(r, "accepted", None, card[c].revision + 1, note)
                  /\ Ask[r].command = "approve" => note = Frozen(c)
  BY DEF Revises
<1>3. \A p \in before : events'[p] = events[p] /\ p # op
  BY <1>2, AcceptedGrows DEF AcceptedAs
<1>4. \A p \in before : events[p].note.gen \in Nat /\ events[p].note.gen <= card[c].gen
  BY <1>1 DEF JInv, Generations
<1>5. \A p, other \in before : events[p].note.gen = events[other].note.gen => p = other
  BY <1>1 DEF JInv, Generations
<1>6. CASE Ask[r].command # "approve"
  <2>1. AcceptedAs(c, "approve")' = before
    BY <1>2, <1>6, AcceptedGrows DEF AcceptedAs, Asked, Grows
  <2>2. card'[c].gen = card[c].gen
    BY <1>6 DEF Revises
  <2> QED BY <1>3, <1>4, <1>5, <2>1, <2>2 DEF Generations
<1>7. CASE Ask[r].command = "approve"
  <2>1. \A p \in AcceptedAs(c, "approve")' : p \in before \/ p = op
    BY <1>2, AcceptedGrows DEF AcceptedAs, Asked, Grows
  <2>2. card'[c].gen = card[c].gen + 1 /\ events'[op].note.gen = card[c].gen + 1
    BY <1>2, <1>7 DEF Revises, Grows, Frozen
  <2>3. ASSUME NEW p \in AcceptedAs(c, "approve")'
        PROVE  /\ events'[p].note.gen \in Nat /\ events'[p].note.gen <= card[c].gen + 1
               /\ events'[p].note.gen <= card[c].gen <=> p # op
    <3> HIDE DEF before, op
    <3>1. CASE p = op
      BY <1>1, <2>2, <3>1
    <3>2. CASE p \in before
      BY <1>1, <1>3, <1>4, <3>2
    <3> QED BY <2>1, <2>3, <3>1, <3>2
  <2>4. ASSUME NEW p \in AcceptedAs(c, "approve")', NEW other \in AcceptedAs(c, "approve")',
               events'[p].note.gen = events'[other].note.gen
        PROVE  p = other
    <3> HIDE DEF before, op
    <3> QED BY <1>3, <1>5, <2>1, <2>3, <2>4
  <2> QED BY <2>2, <2>3, <2>4 DEF Generations
<1> QED BY <1>6, <1>7

LEMMA TypedRevises ==
    ASSUME IInv, JInv, NEW r \in Request, Revises(r) PROVE Typed(Ask[r].card)'
<1> DEFINE c == Ask[r].card
           old == card[c]
           new == card'[c]
<1>1. c \in DOMAIN card /\ old.revision \in Nat /\ Typed(c)
  BY CardsAssumption DEF Revises, JInv, History, Revision
<1>2. c \in Card /\ Ask[r].op \in Op
  BY CardsAssumption
<1>3. new.gen \in 0..new.revision
  BY <1>1 DEF Revises, Typed
<1>4. new.state \in ManualState /\ {new.approval_event, new.evidence} \subseteq Op \cup {None}
  BY <1>1, <1>2 DEF Revises, Typed
<1>5. new.approval = None \/ new.approval.content \in Approvable
  <2>1. CASE Ask[r].command = "approve"
    <3>1. ApproveObjection(c) = "none"
      BY <2>1 DEF Revises, Objection
    <3>2. disk[old.scope] \in Approvable
      BY <3>1 DEF ApproveObjection
    <3> QED BY <2>1, <3>2 DEF Revises, Frozen
  <2>2. CASE Ask[r].command # "approve"
    BY <1>1, <2>2 DEF Revises, Typed
  <2> QED BY <2>1, <2>2
<1> QED BY <1>2, <1>3, <1>4, <1>5 DEF Typed

LEMMA RevisesKeeps ==
    ASSUME IInv, JInv, NEW r \in Request, Revises(r), Hears(r) PROVE JInv'
<1> DEFINE c == Ask[r].card
<1>1. PICK note : Grows(r, "accepted", None, card[c].revision + 1, note)
  BY DEF Revises
<1>2. /\ c \in DOMAIN card /\ DOMAIN card' = DOMAIN card
      /\ \A d \in DOMAIN card \ {c} : card'[d] = card[d]
      /\ card[c].revision # MaxRevision /\ card'[c].revision = card[c].revision + 1
  BY DEF Revises
<1>3. ASSUME NEW d \in DOMAIN card, d # c PROVE History(d)' /\ Generations(d)' /\ Typed(d)'
  <2>1. History(d) /\ Generations(d) /\ Typed(d)
    BY <1>3 DEF JInv
  <2>2. AcceptedOf(d)' = AcceptedOf(d) /\ \A op \in AcceptedOf(d) : events'[op] = events[op]
    BY <1>1, <1>3, AcceptedGrows
  <2> QED BY <1>2, <1>3, <2>1, <2>2, HistorySame
<1>4. History(c)'
  <2>1. History(c)
    BY <1>2 DEF JInv
  <2>2. /\ AcceptedOf(c)' = AcceptedOf(c) \cup {Ask[r].op} /\ Ask[r].op \notin AcceptedOf(c)
        /\ \A p \in AcceptedOf(c) : events'[p] = events[p]
    BY <1>1, AcceptedGrows
  <2>3. events'[Ask[r].op].revision = card[c].revision + 1
    BY <1>1 DEF Grows
  <2> QED BY <1>2, <2>1, <2>2, <2>3, HistoryGrows
<1>5. Generations(c)' /\ Typed(c)'
  BY GenerationsGrow, TypedRevises
<1>6. card[c].revision + 1 \in Revision
  BY <1>2, CardsAssumption DEF JInv, History, Revision
<1>7. EventsTyped'
  BY <1>1, <1>2, <1>6, EventsKeep DEF JInv
<1>8. AnswersTrue'
  BY <1>1, AnswersKeep DEF JInv, Grows
<1> QED BY <1>2, <1>3, <1>4, <1>5, <1>7, <1>8 DEF JInv

LEMMA CreatesKeeps ==
    ASSUME IInv, JInv, NEW r \in Request, Creates(r), Hears(r) PROVE JInv'
<1> DEFINE c == Ask[r].card
           op == Ask[r].op
<1>1. /\ c \notin DOMAIN card /\ DOMAIN card' = DOMAIN card \cup {c}
      /\ \A d \in DOMAIN card : card'[d] = card[d]
      /\ Grows(r, "accepted", None, 0, None) /\ Ask[r].command = "create"
  BY DEF Creates
<1>2. ASSUME NEW d \in DOMAIN card PROVE History(d)' /\ Generations(d)' /\ Typed(d)'
  <2>1. History(d) /\ Generations(d) /\ Typed(d) /\ d # c
    BY <1>1 DEF JInv
  <2>2. AcceptedOf(d)' = AcceptedOf(d) /\ \A p \in AcceptedOf(d) : events'[p] = events[p]
    <3>1. Grows(r, "accepted", None, 0, None) /\ Ask[r].card # d
      BY <1>1, <2>1
    <3> QED BY <3>1, AcceptedGrows
  <2> QED BY <1>1, <2>1, <2>2, HistorySame
<1>3. AcceptedOf(c)' = {op}
  <2>1. AcceptedOf(c) = {}
    BY <1>1 DEF JInv, EventsTyped, AcceptedOf
  <2> QED BY <1>1, <2>1, AcceptedGrows
<1>4. card'[c].revision = 0 /\ events'[op].revision = 0 /\ 0 \in Revision
  BY <1>1, CardsAssumption DEF Creates, Grows, Revision
<1>5. History(c)'
  <2>1. IsFiniteSet({op}) /\ Cardinality({op}) = 1
    BY FS_Singleton
  <2>2. {events'[p].revision : p \in {op}} = 0..0
    BY <1>4
  <2> HIDE DEF op, c
  <2> QED BY <1>3, <1>4, <2>1, <2>2 DEF History
<1>6. Generations(c)'
  <2>1. AcceptedAs(c, "approve")' = {}
    <3>1. Asked(op)'.command = "create"
      BY <1>1 DEF Grows, Asked
    <3> QED BY <1>3, <3>1 DEF AcceptedAs, Asked
  <2> QED BY <2>1 DEF Generations
<1>7. Typed(c)'
  BY CardsAssumption DEF Creates, Typed, ManualState
<1>8. EventsTyped'
  BY <1>1, <1>4, EventsKeep DEF JInv
<1>9. AnswersTrue'
  BY <1>1, AnswersKeep DEF JInv, Grows
<1> QED BY <1>1, <1>2, <1>5, <1>6, <1>7, <1>8, <1>9 DEF JInv

LEMMA RejectsKeeps ==
    ASSUME IInv, JInv, NEW r \in Request, Rejects(r), Hears(r) PROVE JInv'
<1> DEFINE objection == Objection(r)
<1> HIDE DEF objection
<1>1. Grows(r, "rejected", objection, None, None) /\ card' = card
  BY DEF Rejects, objection
<1>2. ASSUME NEW d \in DOMAIN card PROVE History(d)' /\ Generations(d)' /\ Typed(d)'
  <2>1. History(d) /\ Generations(d) /\ Typed(d)
    BY DEF JInv
  <2>2. AcceptedOf(d)' = AcceptedOf(d) /\ \A p \in AcceptedOf(d) : events'[p] = events[p]
    BY <1>1, AcceptedGrows
  <2> QED BY <1>1, <2>1, <2>2, HistorySame
<1>3. EventsTyped'
  BY <1>1, EventsKeep DEF JInv
<1>4. AnswersTrue'
  BY <1>1, AnswersKeep DEF JInv, Grows
<1> QED BY <1>1, <1>2, <1>3, <1>4 DEF JInv

LEMMA StandsKeeps ==
    ASSUME JInv, RowsStand, answers' = answers \/ \E r \in Request : Hears(r) PROVE JInv'
<1>1. card' = card /\ events' = events
  BY DEF RowsStand
<1>2. ASSUME NEW d \in DOMAIN card PROVE History(d)' /\ Generations(d)' /\ Typed(d)'
  <2>1. History(d) /\ Generations(d) /\ Typed(d)
    BY DEF JInv
  <2>2. AcceptedOf(d)' = AcceptedOf(d)
    BY <1>1 DEF AcceptedOf, Asked
  <2> QED BY <1>1, <2>1, <2>2, HistorySame
<1>3. EventsTyped'
  BY <1>1 DEF JInv, EventsTyped, Asked
<1>4. AnswersTrue'
  <2>1. CASE answers' = answers
    BY <1>1, <2>1 DEF JInv, AnswersTrue, Heard
  <2> QED BY <1>1, <2>1, AnswersKeep DEF JInv
<1> QED BY <1>1, <1>2, <1>3, <1>4 DEF JInv

LEMMA NextJInv == IInv /\ JInv /\ [Next]_vars => JInv'
BY CardSteps, RevisesKeeps, CreatesKeeps, RejectsKeeps, StandsKeeps DEF Records

LEMMA JournalInvariant == Spec => [](IInv /\ JInv)
<1>1. IInv /\ JInv /\ [Next]_vars => JInv'
  BY NextJInv
<1> QED BY <1>1, InitJInv, CardsInvariant, PTL DEF Spec

\* Rows and events have the columns' types and no revision leaves 64 bits.
THEOREM CardsTyped == Spec => []KanbanTypeOK
<1>1. IInv /\ JInv => KanbanTypeOK
  <2> SUFFICES ASSUME IInv, JInv PROVE KanbanTypeOK
    OBVIOUS
  <2>1. DOMAIN card \subseteq Card
    BY DEF JInv, Typed
  <2>2. ASSUME NEW c \in DOMAIN card
        PROVE  /\ card[c].revision \in Revision /\ card[c].gen \in 0..card[c].revision
               /\ card[c].state \in ManualState /\ card[c].scope \in Scope \cup {None}
               /\ {card[c].approval_event, card[c].evidence} \subseteq Op \cup {None}
               /\ (card[c].approval = None \/ card[c].approval.content \in Approvable)
    <3>1. History(c) /\ Typed(c) /\ RowOK(events, c, card[c])
      BY DEF JInv, IInv, RowsOK
    <3> QED BY <3>1 DEF History, Typed, RowOK
  <2>3. DOMAIN events \subseteq Op /\ \A op \in DOMAIN events :
          /\ events[op].request \in Request /\ Asked(op).op = op
          /\ events[op].result \in {"accepted", "rejected"}
          /\ events[op].revision \in Revision \cup {None}
    BY DEF JInv, EventsTyped, IInv, JournalOK
  <2> QED BY <2>1, <2>2, <2>3 DEF KanbanTypeOK, IInv
<1> QED BY <1>1, JournalInvariant, PTL

\* What handle_request commits it commits once: the journal is the card's
\* whole history, no generation is granted twice, and every answer a client
\* hears is the recorded one, however often and in whatever order requests
\* are handled.
THEOREM JournalTellsTruth == Spec => []JournalTellsOnce
<1>1. IInv /\ JInv => JournalTellsOnce
  <2> SUFFICES ASSUME IInv, JInv PROVE JournalTellsOnce
    OBVIOUS
  <2>1. RevisionIsHistory
    BY DEF JInv, History, RevisionIsHistory
  <2>2. GenerationsDistinct
    BY DEF JInv, Generations, GenerationsDistinct
  <2>3. ASSUME NEW a \in answers, NEW b \in answers, Ask[a.request].op = Ask[b.request].op
        PROVE  IF Ask[a.request] = Ask[b.request]
                 THEN [a EXCEPT !.request = b.request] = b
                 ELSE "idempotency_conflict" \in {a.reason, b.reason}
    <3>1. a = Heard(a.request) /\ b = Heard(b.request)
      BY DEF JInv, AnswersTrue
    <3> DEFINE e == events[Ask[a.request].op]
    <3>2. /\ a = IF Ask[e.request] = Ask[a.request] THEN Outcome(a.request, e.result, e.reason, e.revision)
                 ELSE Outcome(a.request, "rejected", "idempotency_conflict", None)
          /\ b = IF Ask[e.request] = Ask[b.request] THEN Outcome(b.request, e.result, e.reason, e.revision)
                 ELSE Outcome(b.request, "rejected", "idempotency_conflict", None)
      BY <2>3, <3>1 DEF Heard
    <3> HIDE DEF e
    <3>3. CASE Ask[a.request] = Ask[b.request]
      BY <3>2, <3>3 DEF Outcome
    <3>4. CASE Ask[a.request] # Ask[b.request]
      BY <3>2, <3>4 DEF Outcome
    <3> QED BY <3>3, <3>4
  <2> QED BY <2>1, <2>2, <2>3 DEF JournalTellsOnce, OneAnswerPerOperation
<1> QED BY <1>1, JournalInvariant, PTL

-----------------------------------------------------------------------------
\* Reports are honest about the scope they were made under.

HasLatest(ops) == ops # {} => \E op \in ops : \A p \in ops : events[p].revision <= events[op].revision

LEMMA LatestIs ==
    ASSUME NEW ops, ops # {}, HasLatest(ops)
    PROVE  Latest(ops) \in ops /\ \A p \in ops : events[p].revision <= events[Latest(ops)].revision
BY DEF HasLatest, Latest

\* Accepted events have distinct natural revisions, up to the card's.
LEMMA Numbered ==
    ASSUME NEW c, History(c)
    PROVE  /\ card[c].revision \in Nat
           /\ \A op \in AcceptedOf(c) :
                 events[op].revision \in Nat /\ events[op].revision <= card[c].revision
           /\ \A op, p \in AcceptedOf(c) :
                 op # p => events[op].revision < events[p].revision
                             \/ events[p].revision < events[op].revision
<1>1. card[c].revision \in Nat
  BY CardsAssumption DEF History, Revision
<1>2. \A op \in AcceptedOf(c) : events[op].revision \in 0..card[c].revision
  BY DEF History
<1> QED BY <1>1, <1>2 DEF History

\* What came of the approval a report was made under.
Since(c, op) ==
    LET binding == events[op].note.binding
        gen == card[c].gen
        approval == card[c].approval
        after(p) == events[p].revision > events[op].revision IN
    /\ binding.gen \in Nat /\ binding.gen <= gen
    /\ gen = binding.gen => approval \in {binding.digest[3], None}
    /\ \A p \in AcceptedAs(c, "approve") : after(p) => binding.gen < gen
    /\ \A p \in AcceptedAs(c, "withdraw") :
          after(p) => binding.gen < gen \/ (approval = None /\ binding.digest[3] # None)

Honest(c) == HasLatest(Reports(c)) /\ \A op \in Reports(c) : Since(c, op)

LEMMA AcceptedAsGrows ==
    ASSUME NEW r, NEW result, NEW reason, NEW revision, NEW note,
           Grows(r, result, reason, revision, note), NEW c, NEW command
    PROVE  /\ AcceptedAs(c, command)' = AcceptedAs(c, command) \cup
                 (IF result = "accepted" /\ Ask[r].card = c /\ Ask[r].command = command
                    THEN {Ask[r].op} ELSE {})
           /\ \A op \in AcceptedAs(c, command) : events'[op] = events[op]
BY AcceptedGrows DEF AcceptedAs, Asked, Grows

LEMMA HonestSame ==
    ASSUME NEW c, Honest(c), card'[c] = card[c],
           \A command : AcceptedAs(c, command)' = AcceptedAs(c, command),
           \A command : \A op \in AcceptedAs(c, command) : events'[op] = events[op]
    PROVE  Honest(c)'
<1>1. Reports(c)' = Reports(c) /\ \A op \in Reports(c) : events'[op] = events[op]
  BY DEF Reports
<1>2. HasLatest(Reports(c))'
  BY <1>1 DEF Honest, HasLatest
<1>3. ASSUME NEW op \in Reports(c) PROVE Since(c, op)'
  BY <1>1 DEF Honest, Since
<1> QED BY <1>1, <1>2, <1>3 DEF Honest

LEMMA HonestRevises ==
    ASSUME IInv, JInv, NEW r \in Request, Revises(r), Honest(Ask[r].card)
    PROVE  Honest(Ask[r].card)'
<1> DEFINE c == Ask[r].card
           op == Ask[r].op
           n == card[c].revision + 1
<1>1. c \in DOMAIN card /\ History(c) /\ card[c].gen \in Nat
  BY DEF Revises, JInv, IInv, RowsOK, RowOK
<1>2. PICK note :
        /\ Grows(r, "accepted", None, n, note)
        /\ Ask[r].command = "report-progress" => note.binding = ProgressBinding(c)
  BY DEF Revises
<1>3. /\ \A command : \A p \in AcceptedAs(c, command) :
            /\ events'[p] = events[p] /\ events[p].revision \in Nat /\ events[p].revision < n
      /\ events'[op].revision = n /\ events'[op].note = note /\ n \in Nat
  <2>1. \A p \in AcceptedOf(c) : events[p].revision \in Nat /\ events[p].revision < n
    BY <1>1, Numbered
  <2> QED BY <1>1, <1>2, <2>1, AcceptedGrows, Numbered DEF AcceptedAs, Grows
<1>4. \A command : AcceptedAs(c, command)' = AcceptedAs(c, command) \cup
                     (IF Ask[r].command = command THEN {op} ELSE {})
  BY <1>2, AcceptedAsGrows
<1>5. /\ IF Ask[r].command = "approve" THEN card'[c].gen = card[c].gen + 1
         ELSE card'[c].gen = card[c].gen /\ card'[c].approval \in {card[c].approval, None}
      /\ Ask[r].command = "withdraw" => card'[c].approval = None /\ card[c].approval # None
  BY DEF Revises, Objection
<1>6. Reports(c)' = Reports(c) \cup (IF Ask[r].command = "report-progress" THEN {op} ELSE {})
  BY <1>4 DEF Reports
<1> HIDE DEF op, n
<1>7. HasLatest(Reports(c))'
  <2>1. CASE Ask[r].command = "report-progress"
    <3>1. op \in Reports(c)' /\ \A p \in Reports(c)' : events'[p].revision <= events'[op].revision
      BY <1>3, <1>6, <2>1 DEF Reports
    <3> QED BY <3>1 DEF HasLatest
  <2>2. CASE Ask[r].command # "report-progress"
    <3>1. Reports(c)' = Reports(c) /\ \A p \in Reports(c) : events'[p] = events[p]
      BY <1>3, <1>6, <2>2 DEF Reports
    <3> QED BY <3>1 DEF Honest, HasLatest
  <2> QED BY <2>1, <2>2
<1>8. ASSUME NEW p \in Reports(c) PROVE Since(c, p)'
  <2> DEFINE b == events[p].note.binding
  <2>1. /\ b.gen \in Nat /\ b.gen <= card[c].gen
        /\ card[c].gen = b.gen => card[c].approval \in {b.digest[3], None}
        /\ \A q \in AcceptedAs(c, "approve") :
              events[q].revision > events[p].revision => b.gen < card[c].gen
        /\ \A q \in AcceptedAs(c, "withdraw") :
              events[q].revision > events[p].revision =>
                  b.gen < card[c].gen \/ (card[c].approval = None /\ b.digest[3] # None)
    BY <1>8 DEF Honest, Since
  <2>2. events'[p] = events[p]
    BY <1>3 DEF Reports
  <2>3. CASE Ask[r].command = "approve"
    <3>1. b.gen < card'[c].gen /\ b.gen # card'[c].gen /\ b.gen <= card'[c].gen
      BY <1>1, <1>5, <2>1, <2>3
    <3> HIDE DEF b
    <3> QED BY <2>1, <2>2, <3>1 DEF Since, b
  <2>4. CASE Ask[r].command # "approve"
    <3>1. card'[c].gen = card[c].gen /\ card'[c].approval \in {card[c].approval, None}
      BY <1>5, <2>4
    <3>2. \A q \in AcceptedAs(c, "approve")' : q \in AcceptedAs(c, "approve") /\ events'[q] = events[q]
      BY <1>3, <1>4, <2>4
    <3>3. \A q \in AcceptedAs(c, "approve")' :
             events'[q].revision > events'[p].revision => b.gen < card'[c].gen
      BY <2>1, <2>2, <3>1, <3>2
    <3>4. ASSUME NEW q \in AcceptedAs(c, "withdraw")', events'[q].revision > events'[p].revision
          PROVE  b.gen < card'[c].gen \/ (card'[c].approval = None /\ b.digest[3] # None)
      <4>1. CASE q \in AcceptedAs(c, "withdraw")
        BY <1>3, <2>1, <2>2, <3>1, <3>4, <4>1
      <4>2. CASE Ask[r].command = "withdraw"
        BY <1>1, <1>5, <2>1, <3>1, <4>2
      <4> QED BY <1>4, <3>4, <4>1, <4>2
    <3>5. /\ b.gen \in Nat /\ b.gen <= card'[c].gen
          /\ card'[c].gen = b.gen => card'[c].approval \in {b.digest[3], None}
      BY <2>1, <3>1
    <3> QED BY <2>2, <3>3, <3>4, <3>5 DEF Since
  <2> QED BY <2>3, <2>4
<1>9. CASE Ask[r].command = "report-progress"
  <2>1. /\ events'[op].note.binding.gen = card[c].gen
        /\ events'[op].note.binding.digest[3] = card[c].approval
    BY <1>2, <1>3, <1>9 DEF ProgressBinding, ScopeDigest
  <2>2. card'[c].gen = card[c].gen /\ card'[c].approval \in {card[c].approval, None}
    BY <1>5, <1>9
  <2>3. \A command \in {"approve", "withdraw"} : \A q \in AcceptedAs(c, command)' :
           ~(events'[q].revision > events'[op].revision)
    BY <1>3, <1>4, <1>9
  <2>4. Since(c, op)'
    BY <1>1, <1>3, <2>1, <2>2, <2>3 DEF Since, op
  <2> QED BY <1>6, <1>7, <1>8, <1>9, <2>4 DEF Honest
<1> QED BY <1>6, <1>7, <1>8, <1>9 DEF Honest

\* A card the recorded request does not ask for, or that it is refused.
LEMMA OtherJournals ==
    ASSUME NEW r, NEW result, NEW reason, NEW revision, NEW note,
           Grows(r, result, reason, revision, note), NEW c, result # "accepted" \/ Ask[r].card # c
    PROVE  /\ AcceptedOf(c)' = AcceptedOf(c)
           /\ \A command : AcceptedAs(c, command)' = AcceptedAs(c, command)
           /\ \A command : \A op \in AcceptedAs(c, command) : events'[op] = events[op]
BY AcceptedGrows, AcceptedAsGrows

\* The steps of a card, as its journal sees them.
LEMMA CardStep ==
    ASSUME IInv, JInv, [Next]_vars, NEW c \in DOMAIN card'
    PROVE  \/ /\ c \in DOMAIN card /\ card'[c] = card[c] /\ AcceptedOf(c)' = AcceptedOf(c)
              /\ \A command : AcceptedAs(c, command)' = AcceptedAs(c, command)
              /\ \A command : \A op \in AcceptedAs(c, command) : events'[op] = events[op]
           \/ \E r \in Request : Ask[r].card = c /\ Revises(r)
           \/ \E r \in Request : Ask[r].card = c /\ Creates(r) /\ AcceptedOf(c)' = {Ask[r].op}
<1>1. CASE RowsStand
  BY <1>1 DEF RowsStand, AcceptedAs, AcceptedOf, Asked
<1>2. ASSUME NEW r \in Request, Rejects(r)
      PROVE  /\ c \in DOMAIN card /\ card'[c] = card[c] /\ AcceptedOf(c)' = AcceptedOf(c)
             /\ \A command : AcceptedAs(c, command)' = AcceptedAs(c, command)
             /\ \A command : \A op \in AcceptedAs(c, command) : events'[op] = events[op]
  <2> DEFINE objection == Objection(r)
  <2> HIDE DEF objection
  <2>1. Grows(r, "rejected", objection, None, None) /\ card' = card
    BY <1>2 DEF Rejects, objection
  <2> QED BY <2>1, OtherJournals
<1>3. ASSUME NEW r \in Request, Revises(r), Ask[r].card # c
      PROVE  /\ c \in DOMAIN card /\ card'[c] = card[c] /\ AcceptedOf(c)' = AcceptedOf(c)
             /\ \A command : AcceptedAs(c, command)' = AcceptedAs(c, command)
             /\ \A command : \A op \in AcceptedAs(c, command) : events'[op] = events[op]
  <2> DEFINE n == card[Ask[r].card].revision + 1
  <2>1. PICK note : Grows(r, "accepted", None, n, note)
    BY <1>3 DEF Revises
  <2>2. c \in DOMAIN card /\ card'[c] = card[c]
    BY <1>3 DEF Revises
  <2> HIDE DEF n
  <2> QED BY <1>3, <2>1, <2>2, OtherJournals
<1>4. ASSUME NEW r \in Request, Creates(r)
      PROVE  /\ Grows(r, "accepted", None, 0, None)
             /\ c \in DOMAIN card => card'[c] = card[c] /\ Ask[r].card # c
             /\ c \notin DOMAIN card => Ask[r].card = c
  BY <1>4 DEF Creates
<1>5. ASSUME NEW r \in Request, Creates(r), c \in DOMAIN card
      PROVE  /\ c \in DOMAIN card /\ card'[c] = card[c] /\ AcceptedOf(c)' = AcceptedOf(c)
             /\ \A command : AcceptedAs(c, command)' = AcceptedAs(c, command)
             /\ \A command : \A op \in AcceptedAs(c, command) : events'[op] = events[op]
  BY <1>4, <1>5, OtherJournals
<1>6. ASSUME NEW r \in Request, Creates(r), c \notin DOMAIN card
      PROVE  Ask[r].card = c /\ AcceptedOf(c)' = {Ask[r].op}
  <2>1. AcceptedOf(c) = {}
    BY <1>6 DEF JInv, EventsTyped, AcceptedOf
  <2>2. Grows(r, "accepted", None, 0, None) /\ Ask[r].card = c
    BY <1>4, <1>6
  <2> QED BY <2>1, <2>2, AcceptedGrows
<1> QED BY <1>1, <1>2, <1>3, <1>5, <1>6, CardSteps DEF Records

AllHonest == \A c \in DOMAIN card : Honest(c)

LEMMA NextHonest == IInv /\ JInv /\ AllHonest /\ [Next]_vars => AllHonest'
<1> SUFFICES ASSUME IInv, JInv, AllHonest, [Next]_vars, NEW c \in DOMAIN card' PROVE Honest(c)'
  BY DEF AllHonest
<1>1. CASE /\ c \in DOMAIN card /\ card'[c] = card[c]
           /\ \A command : AcceptedAs(c, command)' = AcceptedAs(c, command)
           /\ \A command : \A op \in AcceptedAs(c, command) : events'[op] = events[op]
  BY <1>1, HonestSame DEF AllHonest
<1>2. ASSUME NEW r \in Request, Ask[r].card = c, Revises(r) PROVE Honest(c)'
  <2>1. Honest(Ask[r].card)
    BY <1>2 DEF AllHonest, Revises
  <2> QED BY <1>2, <2>1, HonestRevises
<1>3. ASSUME NEW r \in Request, Ask[r].card = c, Creates(r), AcceptedOf(c)' = {Ask[r].op}
      PROVE  Honest(c)'
  <2>1. Reports(c)' = {}
    BY <1>3 DEF Creates, Grows, Reports, AcceptedAs, Asked
  <2> QED BY <2>1 DEF Honest, HasLatest
<1> QED BY <1>1, <1>2, <1>3, CardStep

\* A report shown as current was made under the very scope and approval the
\* card has, and placement never hides work that goes on: what _place and
\* progress_report conclude from a report survives whatever comes between.
THEOREM ReportsHonest == Spec => ReportsStayHonest
<1>1. Init => AllHonest
  BY DEF Init, AllHonest
<1>2. IInv /\ JInv /\ AllHonest => CurrentReportIsUndisturbed
  <2> SUFFICES ASSUME IInv, JInv, AllHonest, NEW c \in DOMAIN card, CurrentReport(c) # None,
                      NEW p \in AcceptedOf(c), MovesScope(p)
               PROVE  events[p].revision < events[Latest(Reports(c))].revision
    BY DEF CurrentReportIsUndisturbed
  <2> DEFINE op == Latest(Reports(c))
             b == events[op].note.binding
  <2>1. Reports(c) # {} /\ ScopeCurrent(c, b, events[op].revision)
    BY DEF CurrentReport
  <2>2. op \in Reports(c) /\ Since(c, op)
    BY <2>1, LatestIs DEF AllHonest, Honest
  <2>3. op \in AcceptedOf(c) /\ Asked(op).command = "report-progress"
    BY <2>2 DEF Reports, AcceptedAs
  <2>4. b.gen = card[c].gen /\ b.digest[3] = card[c].approval
    BY <2>1 DEF ScopeCurrent, ScopeDigest
  <2>5. p # op
    BY <2>3 DEF MovesScope, TouchesScope
  <2>6. ~(events[op].revision < events[p].revision)
    <3> SUFFICES ASSUME events[op].revision < events[p].revision PROVE FALSE
      OBVIOUS
    <3>1. /\ events[p].revision \in Nat /\ events[op].revision \in Nat
          /\ card[c].gen \in Nat /\ ~(card[c].gen < card[c].gen)
      BY <2>3, Numbered DEF JInv, IInv, RowsOK, RowOK
    <3>2. ~TouchesScope(p)
      BY <2>1, <3>1 DEF ScopeCurrent
    <3>3. Asked(p).command # "approve"
      BY <2>2, <2>4, <3>1 DEF Since, AcceptedAs
    <3>4. Asked(p).command # "withdraw"
      BY <2>2, <2>4, <3>1 DEF Since, AcceptedAs
    <3> QED BY <3>2, <3>3, <3>4 DEF MovesScope
  <2> QED BY <2>3, <2>5, <2>6, Numbered DEF JInv
<1>3. ASSUME IInv, [Next]_vars, NEW op \in DOMAIN events' \ DOMAIN events,
             events'[op].result = "accepted", Ask[events'[op].request].command = "place",
             Ask[events'[op].request].arg.destination = "backlog"
      PROVE  LET c == Ask[events'[op].request].card IN
             /\ card[c].reason # "manual_pause_pending"
             /\ card[c].state \notin TERMINAL_STATES
             /\ Reports(c) # {} =>
                   Asked(Latest(Reports(c))).arg.status \notin {"in_progress", "reported_done"}
  <2>1. PICK r \in Request : Records(r) /\ events'[op].request = r
    BY ZenonT(30), <1>3, CardSteps DEF RowsStand, Records, Revises, Creates, Rejects, Grows
  <2>2. Revises(r)
    <3>1. ~Creates(r)
      BY <1>3, <2>1 DEF Creates
    <3>2. ~Rejects(r)
      <4> DEFINE objection == Objection(r)
      <4> HIDE DEF objection
      <4>1. Rejects(r) => Grows(r, "rejected", objection, None, None)
        BY DEF Rejects, objection
      <4> QED BY <1>3, <4>1 DEF Grows
    <3> QED BY <2>1, <3>1, <3>2 DEF Records
  <2>3. Objection(r) = "none" /\ Ask[r].command = "place"
    BY <1>3, <2>1, <2>2 DEF Revises
  <2>4. card[Ask[r].card].state # "archived" /\ PlaceObjection(Ask[r].card, r) = "none"
    BY <2>3 DEF Objection
  <2> QED BY <1>3, <2>1, <2>4 DEF PlaceObjection, CurrentReport, TERMINAL_STATES
<1>4. IInv /\ [Next]_vars =>
        [\A op \in DOMAIN events' \ DOMAIN events :
          LET r == events'[op].request c == Ask[r].card IN
          /\ events'[op].result = "accepted"
          /\ Ask[r].command = "place"
          /\ Ask[r].arg.destination = "backlog"
          => /\ card[c].reason # "manual_pause_pending"
             /\ card[c].state \notin TERMINAL_STATES
             /\ Reports(c) # {} =>
                   Asked(Latest(Reports(c))).arg.status
                       \notin {"in_progress", "reported_done"}]_vars
  BY <1>3
<1>5. IInv /\ JInv /\ AllHonest /\ [Next]_vars => AllHonest'
  BY NextHonest
<1> QED
  BY <1>1, <1>2, <1>4, <1>5, JournalInvariant, PTL DEF Spec, ReportsStayHonest, BacklogHidesNoWork

-----------------------------------------------------------------------------
\* Worker attempts hand over one by one.

Observed(journal, op) == Ask[journal[op].request].arg.observation

Earlier(journal, p, q) == journal[p].revision <= journal[q].revision

Mates(journal, p, q) == Observed(journal, p).attempt = Observed(journal, q).attempt

HandedOver(journal, op) ==
    Finished(Observed(journal, op)) /\ Observed(journal, op).handoff = "acknowledged"

\* An attempt's observations follow one another, an attempt that finished
\* stays as it ended, and one that another followed was handed over at last.
AttemptsFit(journal, ops) ==
    /\ ops # {} => \E last \in ops : \A p \in ops : Earlier(journal, p, last)
    /\ \A p, q, s \in ops :
          Mates(journal, p, s) /\ Earlier(journal, p, q) /\ Earlier(journal, q, s) => Mates(journal, p, q)
    /\ \A p, q \in ops :
          Mates(journal, p, q) /\ Earlier(journal, p, q) /\ Finished(Observed(journal, p)) =>
              Observed(journal, q).state = Observed(journal, p).state
    /\ \A p, q \in ops :
          Earlier(journal, p, q) /\ ~Mates(journal, p, q) =>
              \E s \in ops : /\ Mates(journal, p, s) /\ HandedOver(journal, s)
                             /\ \A m \in ops : Mates(journal, p, m) => Earlier(journal, m, s)

LEMMA AttemptsSame ==
    ASSUME NEW ops, AttemptsFit(events, ops), \A p \in ops : events'[p] = events[p]
    PROVE  AttemptsFit(events', ops)
<1>1. \A p \in ops : Observed(events', p) = Observed(events, p)
  BY DEF Observed
<1>2. \A p, q \in ops :
        /\ Earlier(events', p, q) <=> Earlier(events, p, q)
        /\ Mates(events', p, q) <=> Mates(events, p, q)
        /\ HandedOver(events', p) <=> HandedOver(events, p)
  BY <1>1 DEF Earlier, Mates, HandedOver
<1>3. ops # {} => \E last \in ops : \A p \in ops : Earlier(events', p, last)
  BY <1>2 DEF AttemptsFit
<1>4. \A p, q, s \in ops :
        Mates(events', p, s) /\ Earlier(events', p, q) /\ Earlier(events', q, s) => Mates(events', p, q)
  BY <1>2 DEF AttemptsFit
<1>5. \A p, q \in ops :
        Mates(events', p, q) /\ Earlier(events', p, q) /\ Finished(Observed(events', p)) =>
            Observed(events', q).state = Observed(events', p).state
  BY <1>1, <1>2 DEF AttemptsFit
<1>6. ASSUME NEW p \in ops, NEW q \in ops, Earlier(events', p, q), ~Mates(events', p, q)
      PROVE  \E s \in ops : /\ Mates(events', p, s) /\ HandedOver(events', s)
                            /\ \A m \in ops : Mates(events', p, m) => Earlier(events', m, s)
  <2>1. PICK s \in ops : /\ Mates(events, p, s) /\ HandedOver(events, s)
                        /\ \A m \in ops : Mates(events, p, m) => Earlier(events, m, s)
    BY <1>2, <1>6 DEF AttemptsFit
  <2> QED BY <1>2, <2>1
<1> QED BY <1>3, <1>4, <1>5, <1>6 DEF AttemptsFit

\* The first observation, one more of the last attempt, one of the next.
LEMMA AttemptsGrow ==
    ASSUME NEW journal, NEW ops, AttemptsFit(journal, ops), NEW op, op \notin ops,
           \A p \in ops : Earlier(journal, p, op) /\ ~Earlier(journal, op, p),
           Earlier(journal, op, op),
           \/ ops = {}
           \/ \E last \in ops :
                 /\ \A p \in ops : Earlier(journal, p, last)
                 /\ \/ /\ Mates(journal, op, last)
                       /\ Finished(Observed(journal, last)) =>
                             Observed(journal, op).state = Observed(journal, last).state
                    \/ /\ HandedOver(journal, last)
                       /\ \A p \in ops : ~Mates(journal, op, p)
    PROVE  AttemptsFit(journal, ops \cup {op})
<1> DEFINE all == ops \cup {op}
           A(p) == Observed(journal, p).attempt
           Before(p, q) == Earlier(journal, p, q)
<1>1. /\ \A p, q, s \in ops : A(p) = A(s) /\ Before(p, q) /\ Before(q, s) => A(p) = A(q)
      /\ \A p, q \in ops : A(p) = A(q) /\ Before(p, q) /\ Finished(Observed(journal, p)) =>
            Observed(journal, q).state = Observed(journal, p).state
      /\ \A p, q \in ops : Before(p, q) /\ A(p) # A(q) =>
            \E s \in ops : A(p) = A(s) /\ HandedOver(journal, s)
                           /\ \A m \in ops : A(p) = A(m) => Before(m, s)
  BY DEF AttemptsFit, Mates
<1>2. \A p \in ops : Before(p, op) /\ ~Before(op, p)
  OBVIOUS
<1>3. \E last \in all : \A p \in all : Before(p, last)
  OBVIOUS
<1>4. CASE ops = {}
  BY <1>3, <1>4 DEF AttemptsFit, Mates
<1>5. ASSUME NEW last \in ops, \A p \in ops : Before(p, last)
      PROVE  /\ A(op) = A(last) /\ (Finished(Observed(journal, last)) =>
                   Observed(journal, op).state = Observed(journal, last).state) =>
                AttemptsFit(journal, all)
             /\ HandedOver(journal, last) /\ (\A p \in ops : A(op) # A(p)) =>
                AttemptsFit(journal, all)
  <2>1. ASSUME NEW p \in ops, A(p) # A(last)
        PROVE  \E s \in ops : A(p) = A(s) /\ HandedOver(journal, s)
                           /\ \A m \in ops : A(p) = A(m) => Before(m, s)
    BY <1>1, <1>5, <2>1
  <2>2. ASSUME A(op) = A(last), Finished(Observed(journal, last)) =>
                   Observed(journal, op).state = Observed(journal, last).state
        PROVE  AttemptsFit(journal, all)
    <3>1. ASSUME NEW p \in all, NEW q \in all, NEW s \in all,
                 A(p) = A(s), Before(p, q), Before(q, s)
          PROVE  A(p) = A(q)
      <4>1. CASE s \in ops
        <5>1. q \in ops /\ p \in ops
          BY <1>2, <3>1, <4>1
        <5> QED BY <1>1, <3>1, <4>1, <5>1
      <4>2. CASE s = op /\ q \in ops
        <5>1. p \in ops /\ A(p) = A(last)
          BY <1>2, <2>2, <3>1, <4>2
        <5> QED BY <1>1, <1>5, <3>1, <4>2, <5>1
      <4>3. CASE s = op /\ q = op
        BY <3>1, <4>3
      <4> QED BY <4>1, <4>2, <4>3
    <3>2. ASSUME NEW p \in all, NEW q \in all, A(p) = A(q), Before(p, q), Finished(Observed(journal, p))
          PROVE  Observed(journal, q).state = Observed(journal, p).state
      <4>1. CASE q \in ops
        BY <1>1, <1>2, <3>2, <4>1
      <4>2. CASE q = op /\ p \in ops
        <5>1. A(p) = A(last) /\ Before(p, last)
          BY <1>5, <2>2, <3>2, <4>2
        <5>2. Observed(journal, last).state = Observed(journal, p).state
          BY <1>1, <3>2, <4>2, <5>1
        <5>3. Finished(Observed(journal, last))
          BY <3>2, <5>2 DEF Finished
        <5> QED BY <2>2, <4>2, <5>2, <5>3
      <4>3. CASE q = op /\ p = op
        BY <4>3
      <4> QED BY <4>1, <4>2, <4>3
    <3>3. ASSUME NEW p \in all, NEW q \in all, Before(p, q), A(p) # A(q)
          PROVE  \E s \in all : A(p) = A(s) /\ HandedOver(journal, s)
                           /\ \A m \in all : A(p) = A(m) => Before(m, s)
      <4>1. p \in ops
        BY <1>2, <3>3
      <4>2. A(p) # A(last)
        BY <1>1, <1>2, <1>5, <2>2, <3>3, <4>1
      <4>3. PICK s \in ops : A(p) = A(s) /\ HandedOver(journal, s)
                           /\ \A m \in ops : A(p) = A(m) => Before(m, s)
        BY <2>1, <4>1, <4>2
      <4> QED BY <2>2, <4>2, <4>3
    <3> QED BY <1>3, <3>1, <3>2, <3>3 DEF AttemptsFit, Mates
  <2>3. ASSUME HandedOver(journal, last), \A p \in ops : A(op) # A(p)
        PROVE  AttemptsFit(journal, all)
    <3>1. ASSUME NEW p \in all, NEW q \in all, NEW s \in all,
                 A(p) = A(s), Before(p, q), Before(q, s)
          PROVE  A(p) = A(q)
      BY <1>1, <1>2, <2>3, <3>1
    <3>2. ASSUME NEW p \in all, NEW q \in all, A(p) = A(q), Before(p, q), Finished(Observed(journal, p))
          PROVE  Observed(journal, q).state = Observed(journal, p).state
      BY <1>1, <2>3, <3>2
    <3>3. ASSUME NEW p \in all, NEW q \in all, Before(p, q), A(p) # A(q)
          PROVE  \E s \in all : A(p) = A(s) /\ HandedOver(journal, s)
                           /\ \A m \in all : A(p) = A(m) => Before(m, s)
      <4>1. p \in ops
        BY <1>2, <3>3
      <4>2. CASE A(p) = A(last)
        <5>1. \A m \in all : A(p) = A(m) => Before(m, last)
          BY <1>5, <2>3, <4>1
        <5> QED BY <2>3, <4>2, <5>1
      <4>3. CASE A(p) # A(last)
        <5>1. PICK s \in ops : A(p) = A(s) /\ HandedOver(journal, s)
                           /\ \A m \in ops : A(p) = A(m) => Before(m, s)
          BY <2>1, <4>1, <4>3
        <5> QED BY <2>3, <4>1, <5>1
      <4> QED BY <4>2, <4>3
    <3> QED BY <1>3, <3>1, <3>2, <3>3 DEF AttemptsFit, Mates
  <2> QED BY <2>2, <2>3
<1>6. CASE ops # {}
  <2>1. PICK last \in ops :
          /\ \A p \in ops : Before(p, last)
          /\ \/ /\ A(op) = A(last)
                /\ Finished(Observed(journal, last)) =>
                      Observed(journal, op).state = Observed(journal, last).state
             \/ /\ HandedOver(journal, last)
                /\ \A p \in ops : A(op) # A(p)
    BY <1>6 DEF Mates
  <2> HIDE DEF all, A, Before
  <2> QED BY <1>5, <2>1 DEF all
<1> QED BY <1>4, <1>6

WorkersFit(c) == AttemptsFit(events, Observations(c))

AllWorkersFit == \A c \in DOMAIN card : WorkersFit(c)

\* What _worker_observation accepts, after the last observation.
LEMMA ObservationAccepted ==
    ASSUME NEW c, NEW o, WorkerObjection(c, o) = "none", Observations(c) # {}, WorkersFit(c)
    PROVE  LET last == Latest(Observations(c)) IN
           /\ last \in Observations(c)
           /\ \A p \in Observations(c) : Earlier(events, p, last)
           /\ \/ /\ o.attempt = ObservationOf(last).attempt
                 /\ Finished(ObservationOf(last)) => o.state = ObservationOf(last).state
              \/ /\ HandedOver(events, last)
                 /\ \A p \in Observations(c) : ObservationOf(p).attempt # o.attempt
<1> DEFINE last == Latest(Observations(c))
<1>1. last \in Observations(c) /\ \A p \in Observations(c) : Earlier(events, p, last)
  <2>1. HasLatest(Observations(c))
    BY DEF WorkersFit, AttemptsFit, HasLatest, Earlier
  <2> QED BY <2>1, LatestIs DEF Earlier
<1>2. CASE o.attempt = ObservationOf(last).attempt
  <2>1. SameAttemptObjection(c, o, last) = "none"
    BY <1>2 DEF WorkerObjection
  <2>2. ~(Finished(ObservationOf(last)) /\ o.state # ObservationOf(last).state)
    BY <2>1 DEF SameAttemptObjection
  <2> QED BY <1>1, <1>2, <2>2
<1>3. CASE o.attempt # ObservationOf(last).attempt
  <2>1. NewAttemptObjection(c, o, ObservationOf(last)) = "none"
    BY <1>3 DEF WorkerObjection
  <2>2. /\ ~(~Finished(ObservationOf(last)) \/ ObservationOf(last).handoff # "acknowledged")
        /\ ~\E p \in Observations(c) : ObservationOf(p).attempt = o.attempt
    BY <2>1 DEF NewAttemptObjection
  <2>3. HandedOver(events, last)
    BY <2>2 DEF HandedOver, Observed, ObservationOf, Asked
  <2> QED BY <1>1, <2>2, <2>3
<1> QED BY <1>2, <1>3

LEMMA WorkersRevise ==
    ASSUME IInv, JInv, NEW r \in Request, Revises(r), WorkersFit(Ask[r].card)
    PROVE  WorkersFit(Ask[r].card)'
<1> DEFINE c == Ask[r].card
           op == Ask[r].op
           o == Ask[r].arg.observation
           ops == Observations(c)
           n == card[c].revision + 1
<1>1. c \in DOMAIN card /\ History(c)
  BY DEF Revises, JInv
<1>2. PICK note : Grows(r, "accepted", None, n, note)
  BY DEF Revises
<1>3. /\ \A p \in ops : /\ events'[p] = events[p] /\ p # op
                        /\ events[p].revision \in Nat /\ events[p].revision < n
      /\ events'[op].revision = n /\ events'[op].request = r /\ n \in Nat
  <2>1. \A p \in AcceptedOf(c) : events[p].revision \in Nat /\ events[p].revision < n
    BY <1>1, Numbered
  <2> QED BY <1>1, <1>2, <2>1, AcceptedGrows, Numbered DEF Observations, Reports, AcceptedAs, Grows
<1>4. Observations(c)' = ops \cup
        (IF Ask[r].command = "report-progress" /\ o # None THEN {op} ELSE {})
  <2>1. Reports(c)' = Reports(c) \cup (IF Ask[r].command = "report-progress" THEN {op} ELSE {})
    BY <1>2, AcceptedAsGrows DEF Reports
  <2>2. \A p \in Reports(c) : events'[p] = events[p]
    BY <1>2, AcceptedAsGrows DEF Reports
  <2> QED BY <1>3, <2>1, <2>2 DEF Observations, Asked
<1>5. AttemptsFit(events', ops)
  BY <1>3, AttemptsSame DEF WorkersFit
<1>6. CASE ~(Ask[r].command = "report-progress" /\ o # None)
  BY <1>4, <1>5, <1>6 DEF WorkersFit
<1>7. CASE Ask[r].command = "report-progress" /\ o # None
  <2>1. WorkerObjection(c, o) = "none"
    BY <1>7 DEF Revises, Objection, ReportObjection
  <2>2. /\ op \notin ops /\ Observed(events', op) = o
        /\ \A p \in ops : Earlier(events', p, op) /\ ~Earlier(events', op, p)
        /\ Earlier(events', op, op)
    BY <1>3 DEF Observed, Earlier
  <2>3. \A p, q \in ops : /\ Observed(events', p) = ObservationOf(p)
                          /\ Earlier(events', p, q) <=> Earlier(events, p, q)
                          /\ HandedOver(events', p) <=> HandedOver(events, p)
    BY <1>3 DEF Observed, ObservationOf, Asked, Earlier, HandedOver
  <2>4. ASSUME ops # {}
        PROVE  \E last \in ops :
                 /\ \A p \in ops : Earlier(events', p, last)
                 /\ \/ /\ Mates(events', op, last)
                       /\ Finished(Observed(events', last)) =>
                             Observed(events', op).state = Observed(events', last).state
                    \/ /\ HandedOver(events', last)
                       /\ \A p \in ops : ~Mates(events', op, p)
    <3> DEFINE last == Latest(ops)
    <3>1. /\ last \in ops /\ \A p \in ops : Earlier(events, p, last)
          /\ \/ /\ o.attempt = ObservationOf(last).attempt
                /\ Finished(ObservationOf(last)) => o.state = ObservationOf(last).state
             \/ /\ HandedOver(events, last)
                /\ \A p \in ops : ObservationOf(p).attempt # o.attempt
      BY <2>1, <2>4, ObservationAccepted
    <3> HIDE DEF last, ops, op, o
    <3> QED BY <2>2, <2>3, <3>1 DEF Mates
  <2>5. AttemptsFit(events', ops \cup {op})
    <3> HIDE DEF ops, op, o
    <3> QED BY <1>5, <2>2, <2>4, AttemptsGrow
  <2> QED BY <1>4, <1>7, <2>5 DEF WorkersFit
<1> QED BY <1>6, <1>7

LEMMA NextWorkersFit == IInv /\ JInv /\ AllWorkersFit /\ [Next]_vars => AllWorkersFit'
<1> SUFFICES ASSUME IInv, JInv, AllWorkersFit, [Next]_vars, NEW c \in DOMAIN card'
             PROVE  WorkersFit(c)'
  BY DEF AllWorkersFit
<1>1. CASE /\ c \in DOMAIN card
           /\ \A command : AcceptedAs(c, command)' = AcceptedAs(c, command)
           /\ \A command : \A op \in AcceptedAs(c, command) : events'[op] = events[op]
  <2>1. Observations(c)' = Observations(c) /\ \A op \in Observations(c) : events'[op] = events[op]
    BY <1>1 DEF Observations, Reports, Asked
  <2> QED BY <1>1, <2>1, AttemptsSame DEF WorkersFit, AllWorkersFit
<1>2. ASSUME NEW r \in Request, Ask[r].card = c, Revises(r) PROVE WorkersFit(c)'
  <2>1. WorkersFit(Ask[r].card)
    BY <1>2 DEF AllWorkersFit, Revises
  <2> QED BY <1>2, <2>1, WorkersRevise
<1>3. ASSUME NEW r \in Request, Ask[r].card = c, Creates(r), AcceptedOf(c)' = {Ask[r].op}
      PROVE  WorkersFit(c)'
  <2>1. Observations(c)' = {}
    BY <1>3 DEF Creates, Grows, Observations, Reports, AcceptedAs, Asked
  <2> QED BY <2>1 DEF WorkersFit, AttemptsFit
<1> QED BY <1>1, <1>2, <1>3, CardStep

\* Of the worker attempts reported for a card only the last may be open: each
\* other one finished, was handed over and is not heard of again, and how an
\* attempt ended is said once.
THEOREM AttemptsHandOver == Spec => []WorkersHandOver
<1>1. Init => AllWorkersFit
  BY DEF Init, AllWorkersFit
<1>2. IInv /\ JInv /\ AllWorkersFit => WorkersHandOver
  <2> SUFFICES ASSUME JInv, AllWorkersFit, NEW c \in DOMAIN card PROVE
          /\ \A op \in Observations(c) :
                LET mine == {p \in Observations(c) : ObservationOf(p).attempt = ObservationOf(op).attempt} IN
                ObservationOf(op).attempt # LastAttempt(c) =>
                    /\ Finished(ObservationOf(Latest(mine)))
                    /\ ObservationOf(Latest(mine)).handoff = "acknowledged"
                    /\ \A p \in Observations(c) \ mine :
                          \/ events[p].revision > events[Latest(mine)].revision
                          \/ \A q \in mine : events[p].revision < events[q].revision
          /\ \A op, other \in Observations(c) :
                LET o == ObservationOf(op) p == ObservationOf(other) IN
                o.attempt = p.attempt /\ Finished(o) /\ Finished(p) => o.state = p.state
    BY DEF WorkersHandOver, OneOpenAttempt, OutcomeStands
  <2> DEFINE ops == Observations(c)
             A(p) == ObservationOf(p).attempt
             rev(p) == events[p].revision
             last == Latest(ops)
  <2>1. /\ \A p \in ops : rev(p) \in Nat
        /\ \A p, q \in ops : p # q => rev(p) < rev(q) \/ rev(q) < rev(p)
    BY Numbered DEF JInv, Observations, Reports, AcceptedAs
  <2>2. /\ ops # {} => last \in ops /\ \A p \in ops : rev(p) <= rev(last)
        /\ \A p, q, s \in ops : A(p) = A(s) /\ rev(p) <= rev(q) /\ rev(q) <= rev(s) => A(p) = A(q)
        /\ \A p, q \in ops : A(p) = A(q) /\ rev(p) <= rev(q) /\ Finished(ObservationOf(p)) =>
              ObservationOf(q).state = ObservationOf(p).state
        /\ \A p, q \in ops : rev(p) <= rev(q) /\ A(p) # A(q) =>
              \E s \in ops : /\ A(p) = A(s) /\ Finished(ObservationOf(s))
                             /\ ObservationOf(s).handoff = "acknowledged"
                             /\ \A m \in ops : A(p) = A(m) => rev(m) <= rev(s)
    <3>1. AttemptsFit(events, ops)
      BY DEF AllWorkersFit, WorkersFit
    <3>2. ops # {} => last \in ops /\ \A p \in ops : rev(p) <= rev(last)
      <4>1. HasLatest(ops)
        BY <3>1 DEF AttemptsFit, HasLatest, Earlier
      <4> QED BY <4>1, LatestIs
    <3> HIDE DEF ops, last
    <3> QED BY <3>1, <3>2 DEF AttemptsFit, Mates, Earlier, HandedOver, Observed, ObservationOf, Asked
  <2>3. ASSUME NEW op \in ops, A(op) # A(last)
        PROVE  LET mine == {p \in ops : A(p) = A(op)} IN
               /\ Finished(ObservationOf(Latest(mine)))
               /\ ObservationOf(Latest(mine)).handoff = "acknowledged"
               /\ \A p \in ops \ mine :
                     \/ rev(p) > rev(Latest(mine))
                     \/ \A q \in mine : rev(p) < rev(q)
    <3> DEFINE mine == {p \in ops : A(p) = A(op)}
    <3>1. PICK s \in ops : /\ A(op) = A(s) /\ Finished(ObservationOf(s))
                           /\ ObservationOf(s).handoff = "acknowledged"
                           /\ \A m \in ops : A(op) = A(m) => rev(m) <= rev(s)
      BY <2>2, <2>3
    <3>2. Latest(mine) = s
      <4>1. HasLatest(mine) /\ mine # {}
        BY <3>1 DEF HasLatest
      <4>2. Latest(mine) \in mine /\ \A p \in mine : rev(p) <= rev(Latest(mine))
        BY <4>1, LatestIs
      <4> DEFINE k == Latest(mine)
      <4>3. k \in ops /\ s \in mine /\ rev(s) <= rev(k) /\ rev(k) <= rev(s)
        BY <3>1, <4>2
      <4> HIDE DEF k
      <4>4. k = s
        BY <2>1, <4>3
      <4> QED BY <4>4 DEF k
    <3>3. ASSUME NEW p \in ops \ mine, NEW q \in mine, ~(rev(p) > rev(s)), ~(rev(p) < rev(q)) PROVE FALSE
      <4>1. rev(q) <= rev(p) /\ rev(p) <= rev(s) /\ A(q) = A(s)
        BY <2>1, <3>1, <3>3
      <4>2. A(q) = A(p)
        BY <2>2, <3>3, <4>1
      <4> QED BY <3>3, <4>2
    <3> HIDE DEF mine
    <3>4. \A p \in ops \ mine : rev(p) > rev(Latest(mine)) \/ \A q \in mine : rev(p) < rev(q)
      BY <3>2, <3>3
    <3> QED BY <3>1, <3>2, <3>4 DEF mine
  <2>4. ASSUME NEW op \in ops, NEW other \in ops, A(op) = A(other),
               Finished(ObservationOf(op)), Finished(ObservationOf(other))
        PROVE  ObservationOf(op).state = ObservationOf(other).state
    <3>1. rev(op) <= rev(other) \/ rev(other) <= rev(op)
      BY <2>1
    <3> QED BY <2>2, <2>4, <3>1
  <2> QED BY <2>3, <2>4 DEF LastAttempt
<1>3. IInv /\ JInv /\ AllWorkersFit /\ [Next]_vars => AllWorkersFit'
  BY NextWorkersFit
<1> QED BY <1>1, <1>2, <1>3, JournalInvariant, PTL DEF Spec
=============================================================================
