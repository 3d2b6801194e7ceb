----------------------------- MODULE Trajectory -----------------------------
(***************************************************************************)
(* The trajectory of one task: the event chain TrajectoryWriter appends in *)
(* the controller's transactions, behind a rollout gate each process reads *)
(* once (trajectory.py, the emit points of controller.py), and what        *)
(* reduce_snapshot makes of it next to the canonical rows                  *)
(* (trajectory_replay.py).                                                 *)
(*                                                                         *)
(* Every transaction is BEGIN IMMEDIATE, so sequence numbers, hashes and   *)
(* parents, all taken from the last event inside it, are positions in      *)
(* events here, and freeze_snapshot, one read transaction, sees a state.   *)
(* A process that dies is one that takes no further step.                  *)
(***************************************************************************)
EXTENDS Integers, Sequences, FiniteSets

CONSTANTS
    Sessions,           \* what a runner may be bound to
    MaxRuns, MaxTransitions,    \* bounds on the task's history
    MaxFlips,           \* bound on changes of ORCH_TRAJECTORY_V1
    MaxDamage,          \* bound on artifacts removed or altered
    None

ASSUME BoundsAssumption == {MaxRuns, MaxTransitions, MaxFlips, MaxDamage} \subseteq Nat

\* The statuses a task or its runs may have; a task not submitted has none.
TASK_STATUSES == {"queued", "running", "waiting_user", "paused", "blocked", "done", "failed"}

ASSUME NoneAssumption == None \notin TASK_STATUSES

VARIABLES
    gate,           \* whether a process started now writes events
    flips,
    task,           \* the task's row
    transitions,    \* the statuses moved to, by transition seq
    runs,           \* the stage runs, by start
    events,         \* trajectory_events
    gap,            \* stretches of commits without events: their number, and
                    \* whether the last commit belongs to one
    refused,        \* the transactions the store or the parity check undid: the
                    \* operation, the runner's call, and the number of runs
    evidence        \* the runs whose sealed artifacts are gone or altered

canonical == <<task, transitions, runs>>
vars == <<gate, flips, task, transitions, runs, events, gap, refused, evidence>>

RESUMABLE == {"waiting_user", "paused", "blocked"}
Provider == {"provider.dispatch_intent", "provider.dispatched", "provider.settled"}
SessionKinds == {"session.bound", "session.rebound"}

-----------------------------------------------------------------------------
(* Events, and the store's conditions on the next one.                      *)

Event(kind, rev) ==
    [kind |-> kind, rev |-> rev, run |-> 0, seq |-> 0, says |-> None,
     session |-> None, sealed |-> FALSE, pred |-> 0]

Of(log, kinds) == {log[i] : i \in {j \in DOMAIN log : log[j].kind \in kinds}}
OfRun(log, r, kinds) == {e \in Of(log, kinds) : e.run = r}

\* Mutant: the sessions of all runs, not those of the invocation.
MutantKnownSessions(log, r) == {e.session : e \in Of(log, Provider)} \ {None}
KnownSessions(log, r) == {e.session : e \in OfRun(log, r, Provider)} \ {None}

Appendable(log, e) ==
    CASE e.kind = "provider.dispatch_intent" -> OfRun(log, e.run, Provider) = {}
      [] e.kind \in {"provider.dispatched", "provider.settled"} ->
            /\ OfRun(log, e.run, {"provider.dispatch_intent"}) # {}
            /\ OfRun(log, e.run, {"provider.settled", e.kind}) = {}
            /\ KnownSessions(log, e.run) # {} => e.session \in KnownSessions(log, e.run)
      [] e.kind = "session.rebound" ->
            /\ e.pred \in DOMAIN log /\ log[e.pred].kind \in SessionKinds
            /\ log[e.pred].session # e.session
      [] OTHER -> TRUE

AllAppendable(es) == \A i \in DOMAIN es : Appendable(events \o SubSeq(es, 1, i - 1), es[i])

\* parity_diagnostics: a new event against the rows it mirrors.
Parity(es, t, ts, rs) ==
    \A i \in DOMAIN es :
        /\ es[i].rev <= t.revision
        /\ es[i].kind = "task.transition.committed" =>
              es[i].seq \in DOMAIN ts /\ ts[es[i].seq] = es[i].says
        /\ es[i].run \in {0} \cup DOMAIN rs

\* ensure_legacy_baseline: once, unless the live events tell all of it.
Live(log) == {e.seq : e \in Of(log, {"task.transition.committed"})}

\* Mutant: a task with a created event never needs one.
MutantNeedsBaseline ==
    Of(events, {"migration.baseline", "task.created"}) = {}
NeedsBaseline ==
    /\ Of(events, {"migration.baseline"}) = {}
    /\ Of(events, {"task.created"}) = {} \/ ~(DOMAIN transitions \subseteq Live(events))

Baseline ==
    IF NeedsBaseline
    THEN <<[Event("migration.baseline", task.revision) EXCEPT !.seq = Len(transitions)]>>
    ELSE <<>>

-----------------------------------------------------------------------------
(* The controller's transactions, by what they change and what they emit.   *)

Moved(status) == [status |-> status, revision |-> task.revision + 1]

Transition(status) ==
    <<[Event("task.transition.committed", task.revision + 1)
         EXCEPT !.seq = Len(transitions) + 1, !.says = status]>>

\* One transaction of a process that writes events, or does not: all of it or,
\* when an event is refused, nothing.
Transact(writes, es, t, ts, rs, what) ==
    /\ IF writes /\ ~(AllAppendable(es) /\ Parity(es, t, ts, rs))
       THEN refused' = refused \cup {Append(what, Len(runs))} /\ UNCHANGED <<canonical, events, gap>>
       ELSE /\ task' = t /\ transitions' = ts /\ runs' = rs
            /\ events' = IF writes THEN events \o es ELSE events
            /\ gap' = [open |-> ~writes,
                       count |-> gap.count + (IF writes \/ gap.open THEN 0 ELSE 1)]
            /\ UNCHANGED refused
    /\ UNCHANGED <<gate, flips, evidence>>

Submit ==
    /\ task.status = None
    /\ Transact(gate,
         <<Event("task.created", 0),
           [Event("task.transition.committed", 0) EXCEPT !.seq = 1, !.says = "queued"]>>,
         [status |-> "queued", revision |-> 0], <<"queued">>, <<>>, <<"submit", None>>)

Run(status, session) == [status |-> status, sealed |-> FALSE, session |-> session, writes |-> gate]

Claim(session) ==
    /\ task.status = "queued" /\ Len(runs) < MaxRuns
    /\ LET r == Len(runs) + 1  rev == task.revision + 1 IN
       Transact(gate,
         Baseline \o <<[Event("stage.claimed", rev) EXCEPT !.run = r],
                       [Event("provider.dispatch_intent", rev) EXCEPT !.run = r, !.session = session]>>,
         Moved("running"), transitions, Append(runs, Run("running", session)), <<"claim", None>>)

Room == Len(transitions) < MaxTransitions

StopForCap ==
    /\ task.status = "queued" /\ Room
    /\ Transact(gate, Baseline \o Transition("waiting_user"), Moved("waiting_user"),
                Append(transitions, "waiting_user"), runs, <<"cap", None>>)

\* stage.settled of a run without a sealed manifest.
Unsealed(r, status) ==
    <<[Event("stage.settled", task.revision + 1) EXCEPT !.run = r, !.says = status]>>

PreflightStop(status) ==
    /\ task.status = "queued" /\ Len(runs) < MaxRuns /\ Room
    /\ Transact(gate, Baseline \o Unsealed(Len(runs) + 1, status) \o Transition(status),
                Moved(status), Append(transitions, status), Append(runs, Run(status, None)), <<"preflight", None>>)

\* What a call of the runner comes to: an answer, a stop by containment, with a
\* receipt of either, or an exception, of which no receipt and no start is left.
Calls == {"answered", "contained", "raised"}

\* Mutant: a review hold is projected as an unknown result.
MutantResultClass(class) == IF class \in {"success", "blocked", "paused", "failed"} THEN class ELSE "unknown"
ResultClass(class) == IF class = "waiting_user" THEN "success" ELSE class

LatestBinding ==
    LET bound == {i \in DOMAIN events : events[i].kind \in SessionKinds}
    IN IF bound = {} THEN 0 ELSE CHOOSE i \in bound : \A j \in bound : j <= i

SessionEvent(session) ==
    CASE session = None -> <<>>
      [] LatestBinding = 0 -> <<[Event("session.bound", task.revision + 1) EXCEPT !.session = session]>>
      [] events[LatestBinding].session = session -> <<>>
      [] OTHER -> <<[Event("session.rebound", task.revision + 1)
                       EXCEPT !.session = session, !.pred = LatestBinding]>>

RunSettled(r, call, class) ==
    LET rev == task.revision + 1
        session == IF call = "raised" THEN None ELSE runs[r].session
    IN (IF call = "answered"
        THEN <<[Event("provider.dispatched", rev) EXCEPT !.run = r, !.session = session]>> ELSE <<>>)
       \o <<[Event("provider.settled", rev) EXCEPT !.run = r, !.session = session, !.says = ResultClass(class)]>>
       \o SessionEvent(session)
       \o <<[Event("evidence.sealed", rev) EXCEPT !.run = r],
            [Event("stage.settled", rev) EXCEPT !.run = r, !.says = class, !.sealed = TRUE]>>

Committed(class) == IF class \in {"success", "waiting_user"} THEN "committed" ELSE class

\* commit_run, by the process that claimed; a refusal ends that process.
CommitRun(call, class, status) ==
    LET r == Len(runs) IN
    /\ task.status = "running" /\ Room
    /\ \A x \in refused : x[1] = "commit" => x[3] # r
    /\ call # "answered" => class = "blocked"
    /\ class # "success" => status = class
    /\ Transact(runs[r].writes, RunSettled(r, call, class) \o Transition(status),
                Moved(status), Append(transitions, status),
                [runs EXCEPT ![r].status = Committed(class), ![r].sealed = TRUE],
                <<"commit", call>>)

BlockOrphanedRunning ==
    LET r == Len(runs) IN
    /\ task.status = "running" /\ Room
    /\ Transact(gate, Baseline \o Unsealed(r, "blocked") \o Transition("blocked"),
                Moved("blocked"), Append(transitions, "blocked"),
                [runs EXCEPT ![r].status = "blocked"], <<"orphan", None>>)

Resume ==
    /\ task.status \in RESUMABLE /\ Room
    /\ Transact(gate, Baseline \o Transition("queued"), Moved("queued"),
                Append(transitions, "queued"), runs, <<"resume", None>>)

\* The operator changes ORCH_TRAJECTORY_V1 for the processes to come.
Flip ==
    /\ flips < MaxFlips
    /\ flips' = flips + 1 /\ gate' = ~gate
    /\ UNCHANGED <<canonical, events, gap, refused, evidence>>

\* Retention, or someone, removes or alters what a run sealed.
Decay(r, how) ==
    /\ runs[r].sealed /\ evidence[r] = "present"
    /\ Cardinality({q \in DOMAIN runs : evidence[q] # "present"}) < MaxDamage
    /\ evidence' = [evidence EXCEPT ![r] = how]
    /\ UNCHANGED <<gate, flips, canonical, events, gap, refused>>

Init ==
    /\ gate \in BOOLEAN /\ flips = 0
    /\ task = [status |-> None, revision |-> 0]
    /\ transitions = <<>> /\ runs = <<>> /\ events = <<>>
    /\ gap = [open |-> FALSE, count |-> 0]
    /\ refused = {}
    /\ evidence = [r \in 1..MaxRuns |-> "present"]

Next ==
    \/ Submit \/ StopForCap \/ BlockOrphanedRunning \/ Resume \/ Flip
    \/ \E session \in Sessions \cup {None} : Claim(session)
    \/ \E status \in {"paused", "blocked"} : PreflightStop(status)
    \/ \E call \in Calls, class \in {"success", "waiting_user", "blocked", "paused"},
          status \in {"queued", "waiting_user", "done", "failed", "blocked", "paused"} :
          CommitRun(call, class, status)
    \/ \E r \in DOMAIN runs, how \in {"unavailable", "corrupt"} : Decay(r, how)

Spec == Init /\ [][Next]_vars

-----------------------------------------------------------------------------
(* reduce_snapshot: the fold, and its comparison with the canonical rows.   *)

LatestOf(kinds) ==
    LET is == {i \in DOMAIN events : events[i].kind \in kinds}
    IN IF is = {} THEN Event(None, -1) ELSE events[CHOOSE i \in is : \A j \in is : j <= i]

Lifecycle == {"task.created", "task.transition.committed", "stage.claimed"}
ProjectedRevision == LatestOf(Lifecycle \cup {"migration.baseline"}).rev
ProjectedStatus ==
    LET e == LatestOf(Lifecycle)
    IN CASE e.kind = "task.created" -> "queued"
         [] e.kind = "stage.claimed" -> "running"
         [] OTHER -> e.says

Attempts == {e.run : e \in Of(events, {"stage.claimed", "stage.settled"})}
AttemptAgrees(r) ==
    LET settled == OfRun(events, r, {"stage.settled"})
    IN IF settled = {} THEN runs[r].status = "running"
       ELSE \A e \in settled : Committed(e.says) = runs[r].status /\ e.sealed = runs[r].sealed

Coverage == IF Of(events, {"migration.baseline"}) = {} THEN 0 ELSE LatestOf({"migration.baseline"}).seq

TaskAgrees ==
    /\ events # <<>>
    /\ ProjectedStatus # None => ProjectedStatus = task.status /\ ProjectedRevision = task.revision
    /\ {q \in DOMAIN transitions : q > Coverage} \subseteq Live(events)

Invocations == {e.run : e \in Of(events, {"provider.dispatch_intent"})}
ResultState(r) ==
    LET settled == OfRun(events, r, {"provider.settled"})
    IN IF settled = {} THEN "unknown" ELSE (CHOOSE e \in settled : TRUE).says
HandoffKnown(r) == OfRun(events, r, {"provider.dispatched"}) # {}

\* The runs the sealed evidence of which is referred to by an event.
Inventory == {e.run : e \in Of(events, {"evidence.sealed"})}

\* A duplicate or unpaired provider event, a rebinding of nothing or to itself.
Misplaced(i) ==
    LET e == events[i]  earlier == SubSeq(events, 1, i - 1)
    IN \/ /\ e.kind \in Provider
          /\ \/ OfRun(earlier, e.run, {e.kind}) # {}
             \/ OfRun(earlier, e.run, {"provider.dispatch_intent"}) = {} /\ e.kind # "provider.dispatch_intent"
       \/ e.kind = "session.rebound" /\ ~Appendable(earlier, e)

Broken ==
    \/ \E i \in DOMAIN events : Misplaced(i) \/ (i > 1 /\ events[i].rev < events[i - 1].rev)
    \/ \E r \in Inventory : evidence[r] = "corrupt"

Unknowns ==
    \/ \E r \in Invocations : ResultState(r) = "unknown" \/ ~HandoffKnown(r)
    \/ \E r \in Inventory : evidence[r] = "unavailable"

IntegrityStatus ==
    IF Broken THEN "corrupt"
    ELSE IF ~(TaskAgrees /\ \A r \in Attempts : AttemptAgrees(r)) THEN "mismatch"
    ELSE IF Unknowns THEN "incomplete" ELSE "ok"

-----------------------------------------------------------------------------
(* Properties                                                               *)

\* What the replay says of the task is what the rows say, at every commit of a
\* process that writes events, though one stretch of commits had none: the
\* baseline covers it. The attempts agree too where there was no such stretch (a
\* run settled in one stays running in the replay), and only altered evidence
\* makes a trajectory corrupt.
ReplayAgrees ==
    /\ task.status # None /\ ~gap.open /\ gap.count <= 1 => TaskAgrees
    /\ gap.count = 0 => \A r \in Attempts : AttemptAgrees(r)
    /\ IntegrityStatus = "corrupt" => \E r \in DOMAIN runs : evidence[r] = "corrupt"

\* An invocation the process died in, or whose commit was undone, stays unknown
\* for ever, and one with a sealed run, a review hold included, never is.
CrashStaysUnknown ==
    \A r \in Invocations :
        /\ ResultState(r) = "unknown" <=> ~runs[r].sealed
        /\ ResultState(r) = "success" => runs[r].status = "committed"

\* The audit surface undoes no transaction of the lifecycle, except where the
\* call of a runner bound to a session raised.
OnlyRaisedBoundCallRefused ==
    \A x \in refused : x[1] = "commit" /\ x[2] = "raised" /\ runs[x[3]].session # None

\* The expectation of docs/trajectory-r0-v1.md:23-24, "Canonical tasks,
\* stage_runs and transitions remain authoritative": no event may keep a
\* transaction of the lifecycle from being committed.
NothingRefused == refused = {}
=============================================================================
