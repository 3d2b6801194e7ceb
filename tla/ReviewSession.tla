---------------------------- MODULE ReviewSession ----------------------------
(***************************************************************************)
(* The fixed reviewer: provider sessions bound to a specification series   *)
(* (review_session.py), the configured runner that calls them              *)
(* (execution_runner.py), the review contract its answers must keep        *)
(* (review_contract.py) and the part of the controller between the         *)
(* preflight of a review stage and the hand-over of its sealed result.     *)
(*                                                                         *)
(* Several processes work on one home: workers that drive tasks, and the   *)
(* operator's register, rehydrate and reconcile commands.  A lock is never *)
(* waited for; whoever finds it taken fails with review_session_busy.      *)
(***************************************************************************)
EXTENDS Integers, Sequences, FiniteSets

CONSTANTS
    Series,         \* specification series
    Task,           \* reviewing tasks
    SeriesOf,       \* the series each task reviews
    KindOf,         \* "spec" or "implementation"
    Imported,       \* provider sessions with a success receipt from elsewhere
    Answer,         \* what a reviewer may answer, by name
    Says,           \* ... the record and the typed outcome of each
    MaxSessions,    \* bound on the sessions registered or rehydrated afresh
    MaxRuns,        \* bound on claimed review runs
    MaxEdits,       \* bound on changes of the candidate
    None

ASSUME SessionAssumption ==
    /\ MaxSessions \in Nat /\ MaxRuns \in Nat /\ MaxEdits \in Nat
    /\ SeriesOf \in [Task -> Series]
    /\ KindOf \in [Task -> {"spec", "implementation"}]

\* The values one record of a series takes.
SessionRecord ==
    [session : Imported \cup 1..MaxSessions, state : {"new", "ready"},
     pending : {None} \cup 1..MaxRuns, rehydrated : BOOLEAN]

\* A session made up here is nobody's yet (uuid4), and None is no value.
ASSUME FreshAssumption ==
    /\ Imported \cap 1..MaxSessions = {}
    /\ None \notin Nat /\ None \notin Answer /\ None \notin SessionRecord
    /\ None \notin Imported /\ None \notin {"new", "ready"}

VARIABLES
    record,     \* review-sessions/<series>.json, or None
    lock,       \* the run whose worker holds the lock of a series, or None
    sessions,   \* provider sessions made up so far
    task,       \* where each task stands, and what its worker knows
    candidate,  \* how often the reviewed candidate was changed
    runs        \* stage runs of reviewers, in the order of their claims

vars == <<record, lock, sessions, task, candidate, runs>>

-----------------------------------------------------------------------------
(* The review contract (validate_review).                                   *)

Axis == {"product_spec", "constraints", "verification"}

VerificationValues(kind) ==
    {"PASS", "FAIL", "UNKNOWN"} \cup (IF kind = "implementation" THEN {"DEFERRED"} ELSE {})

ReadyAxes(r, kind) ==
    /\ r.axes["product_spec"] = "PASS" /\ r.axes["constraints"] = "PASS"
    /\ r.axes["verification"] \in {"PASS"} \cup (VerificationValues(kind) \cap {"DEFERRED"})

\* An axis that is not settled names who settles it, and only such an axis does.
EvidenceOwned(r) ==
    /\ (\E a \in Axis : r.axes[a] = "UNKNOWN") => r.remaining
    /\ r.axes["verification"] = "DEFERRED" => r.remaining
    /\ r.remaining => \E a \in Axis : r.axes[a] \in {"UNKNOWN", "DEFERRED"}

ContractKept(answer, kind) ==
    LET r == Says[answer]
    IN
    /\ r.wellformed /\ r.sha = "packet"
    /\ \A a \in Axis : r.axes[a] \in
          IF a = "verification" THEN VerificationValues(kind) ELSE {"PASS", "FAIL", "UNKNOWN"}
    /\ EvidenceOwned(r)
    /\ r.outcome = "ready" => ReadyAxes(r, kind) /\ ~r.blocking

-----------------------------------------------------------------------------
(* The operator: registration and rehydration.                              *)

Record(session, state, rehydrated) ==
    [session |-> session, state |-> state, pending |-> None, rehydrated |-> rehydrated]

\* Sessions some provider receipt vouches for: an answer that was printed stays
\* one although the worker died before the run was sealed.
Receipted == Imported \cup {runs[r].session : r \in {r \in DOMAIN runs : runs[r].answer # None}}

BelongsElsewhere(session) == \E s \in Series : record[s] # None /\ record[s].session = session

RegisterNew(s) ==
    /\ record[s] = None
    /\ sessions < MaxSessions
    /\ sessions' = sessions + 1
    /\ record' = [record EXCEPT ![s] = Record(sessions + 1, "new", FALSE)]
    /\ UNCHANGED <<lock, task, candidate, runs>>

RegisterImport(s, session) ==
    /\ record[s] = None
    /\ session \in Receipted
    /\ ~BelongsElsewhere(session)
    /\ record' = [record EXCEPT ![s] = Record(session, "ready", FALSE)]
    /\ UNCHANGED <<lock, sessions, task, candidate, runs>>

\* Explicit recovery: whatever the old session still had pending is left behind.
Rehydrate(s) ==
    /\ record[s] # None
    /\ lock[s] = None
    /\ sessions < MaxSessions
    /\ sessions' = sessions + 1
    /\ record' = [record EXCEPT ![s] = Record(sessions + 1, "new", TRUE)]
    /\ UNCHANGED <<lock, task, candidate, runs>>

-----------------------------------------------------------------------------
(* inspect, and the binding a task carries from its intake.                 *)

Usable(s) == record[s] # None /\ record[s].pending = None
Bound(t) == Usable(SeriesOf[t]) /\ record[SeriesOf[t]].session = task[t].session

NoTask == [at |-> "intake", session |-> None, state |-> None, packet |-> None, run |-> None]

Intake(t) ==
    /\ task[t].at = "intake"
    /\ Usable(SeriesOf[t])
    /\ task' = [task EXCEPT ![t].at = "queued", ![t].session = record[SeriesOf[t]].session]
    /\ UNCHANGED <<record, lock, sessions, candidate, runs>>

\* Before the claim: the packet is built from the candidate as it is, and the
\* session's state decides between --session-id and --resume.
BindSession(t) ==
    /\ task[t].at = "queued"
    /\ Bound(t)
    /\ task' = [task EXCEPT ![t].at = "bound", ![t].state = record[SeriesOf[t]].state,
                            ![t].packet = candidate[t]]
    /\ UNCHANGED <<record, lock, sessions, candidate, runs>>

-----------------------------------------------------------------------------
(* The call.                                                                *)

\* Mutant: nobody looks whether the session was opened since the preflight.
MutantMayCall(t) == lock[SeriesOf[t]] = None /\ Bound(t)
MayCall(t) ==
    /\ lock[SeriesOf[t]] = None
    /\ Bound(t)
    /\ record[SeriesOf[t]].state = task[t].state

Claimed(t, spawned) ==
    [task |-> t, session |-> task[t].session, state |-> task[t].state, packet |-> task[t].packet,
     spawned |-> spawned, bound |-> FALSE, confirmed |-> FALSE, sealed |-> FALSE,
     outcome |-> IF spawned THEN None ELSE "blocked", answer |-> None, handed |-> FALSE]

\* claim_stage, then review_session.call: the pending marker is on disk before
\* the provider is spawned.
Call(t) ==
    /\ task[t].at = "bound"
    /\ Len(runs) < MaxRuns
    /\ task' = [task EXCEPT ![t].at = IF MayCall(t) THEN "calling" ELSE "returned",
                            ![t].run = Len(runs) + 1]
    /\ runs' = Append(runs, Claimed(t, MayCall(t)))
    /\ IF MayCall(t)
       THEN /\ lock' = [lock EXCEPT ![SeriesOf[t]] = Len(runs) + 1]
            /\ record' = [record EXCEPT ![SeriesOf[t]].pending = Len(runs) + 1]
       ELSE UNCHANGED <<lock, record>>
    /\ UNCHANGED <<sessions, candidate>>

\* Mutant: the marker goes with the lock.
MutantReleased(s) == [record EXCEPT ![s].pending = None]
\* "Do not clear here."
Released(s) == record

\* A worktree review is refused when its candidate is not the reviewed one.
\* Mutant: it is not compared again.
MutantCandidateHeld(t) == TRUE
CandidateHeld(t) == KindOf[t] = "spec" \/ candidate[t] = task[t].packet

Classified(t, answer) ==
    CASE ~CandidateHeld(t) -> "blocked"
      [] CandidateHeld(t) /\ ~ContractKept(answer, KindOf[t]) -> "blocked"
      [] OTHER -> IF Says[answer].outcome = "ready" THEN "ready" ELSE "waiting_user"

\* The provider answered, and named its session and its model.
ReturnWith(t, answer) ==
    /\ runs' = [runs EXCEPT ![task[t].run] =
                  [@ EXCEPT !.bound = TRUE, !.confirmed = TRUE, !.answer = answer,
                            !.outcome = Classified(t, answer)]]
    /\ record' = Released(SeriesOf[t])

\* No single successful result, or one of another session or model.
ReturnUnconfirmed(t) ==
    /\ runs' = [runs EXCEPT ![task[t].run] = [@ EXCEPT !.bound = TRUE, !.outcome = "blocked"]]
    /\ record' = Released(SeriesOf[t])

\* An exception left the call: the result carries no receipt.
ReturnRaised(t) ==
    /\ runs' = [runs EXCEPT ![task[t].run].outcome = "blocked"]
    /\ record' = Released(SeriesOf[t])

Returned(t) ==
    /\ lock' = [lock EXCEPT ![SeriesOf[t]] = None]
    /\ task' = [task EXCEPT ![t].at = "returned"]
    /\ UNCHANGED <<sessions, candidate>>

Return(t, answers) ==
    /\ task[t].at = "calling"
    /\ \/ \E a \in answers : ReturnWith(t, a)
       \/ ReturnUnconfirmed(t)
       \/ ReturnRaised(t)
    /\ Returned(t)

\* commit_run
Seal(t) ==
    /\ task[t].at = "returned"
    /\ runs' = [runs EXCEPT ![task[t].run].sealed = TRUE]
    /\ task' = [task EXCEPT ![t].at = "sealed"]
    /\ UNCHANGED <<record, lock, sessions, candidate>>

-----------------------------------------------------------------------------
(* The hand-over: finish, by the worker or by reconcile.                    *)

Completes(s, r) ==
    /\ record[s] # None /\ lock[s] = None
    /\ record[s].pending = r
    /\ runs[r].sealed /\ runs[r].confirmed
    /\ runs[r].session = record[s].session

HandOver(s, r) ==
    /\ record' = [record EXCEPT ![s].pending = None, ![s].state = "ready"]
    /\ runs' = [runs EXCEPT ![r].handed = TRUE]

\* A refused hand-over is only warned of; the task goes on.
Finish(t) ==
    /\ task[t].at = "sealed"
    /\ IF Completes(SeriesOf[t], task[t].run) THEN HandOver(SeriesOf[t], task[t].run)
       ELSE UNCHANGED <<record, runs>>
    /\ task' = [task EXCEPT ![t].at = "queued"]
    /\ UNCHANGED <<lock, sessions, candidate>>

\* The newest sealed run of the task with a session binding.
Reconcile(t) ==
    LET bound == {r \in DOMAIN runs : runs[r].task = t /\ runs[r].sealed /\ runs[r].bound} IN
    /\ \E r \in bound :
          /\ \A older \in bound : older <= r
          /\ Completes(SeriesOf[t], r)
          /\ HandOver(SeriesOf[t], r)
    /\ UNCHANGED <<lock, sessions, task, candidate>>

\* The worker dies; its lock goes with it.
Crash(t) ==
    /\ task[t].at \in {"calling", "returned", "sealed"}
    /\ lock' = [s \in Series |-> IF lock[s] = task[t].run THEN None ELSE lock[s]]
    /\ task' = [task EXCEPT ![t].at = IF @ = "sealed" THEN "queued" ELSE "orphaned"]
    /\ UNCHANGED <<record, sessions, candidate, runs>>

\* Driven again, an orphaned run is sealed as blocked, with no receipt.
BlockOrphan(t) ==
    /\ task[t].at = "orphaned"
    /\ runs' = [runs EXCEPT ![task[t].run] =
                  [@ EXCEPT !.sealed = TRUE, !.bound = FALSE, !.confirmed = FALSE,
                            !.outcome = "blocked"]]
    /\ task' = [task EXCEPT ![t].at = "queued"]
    /\ UNCHANGED <<record, lock, sessions, candidate>>

\* The worktree is edited by whoever has it open.
EditCandidate(t) ==
    /\ KindOf[t] = "implementation"
    /\ candidate[t] < MaxEdits
    /\ candidate' = [candidate EXCEPT ![t] = @ + 1]
    /\ UNCHANGED <<record, lock, sessions, task, runs>>

-----------------------------------------------------------------------------
Init ==
    /\ record = [s \in Series |-> None]
    /\ lock = [s \in Series |-> None]
    /\ sessions = 0
    /\ task = [t \in Task |-> NoTask]
    /\ candidate = [t \in Task |-> 0]
    /\ runs = <<>>

Next ==
    \/ \E s \in Series : RegisterNew(s) \/ Rehydrate(s)
    \/ \E s \in Series, x \in Receipted : RegisterImport(s, x)
    \/ \E t \in Task :
          \/ Intake(t) \/ BindSession(t) \/ Call(t) \/ Return(t, Answer) \/ Seal(t)
          \/ Finish(t) \/ Reconcile(t) \/ Crash(t) \/ BlockOrphan(t) \/ EditCandidate(t)

Spec == Init /\ [][Next]_vars

-----------------------------------------------------------------------------
(* Properties                                                               *)

Unaccounted(r) == runs[r].spawned /\ ~runs[r].handed

\* "A pending call is not replayed automatically, even after the OS releases
\* its advisory lock": within a series a provider session is called again only
\* when every earlier call on it was handed over by its sealed result, through
\* crashes, busy locks, late hand-overs and rehydrations.
OneCallOutstanding ==
    \A r1, r2 \in DOMAIN runs :
        /\ r1 < r2 /\ runs[r2].spawned
        /\ runs[r1].session = runs[r2].session
        /\ SeriesOf[runs[r1].task] = SeriesOf[runs[r2].task]
        => ~Unaccounted(r1)

\* The provider is told to open a session once, and to resume only one that
\* was opened: state read before the claim is used after it, under the lock.
OpenedOnceThenResumed ==
    \A r \in DOMAIN runs :
        LET before == {q \in 1..(r - 1) : runs[q].spawned /\ runs[q].session = runs[r].session} IN
        runs[r].spawned =>
            IF runs[r].state = "new" THEN before = {}
            ELSE \/ runs[r].session \in Imported
                 \/ \E q \in before : runs[q].answer # None

\* The candidate of a worktree that a run reviewed as ready is the one at its end,
\* whoever edited it between the packet and the answer.
ReadyOnUnchanged ==
    [][\A r \in DOMAIN runs :
          runs'[r].outcome = "ready" /\ runs[r].outcome # "ready" =>
              KindOf[runs[r].task] = "spec" \/ candidate[runs[r].task] = runs[r].packet]_vars
=============================================================================
