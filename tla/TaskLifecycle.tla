--------------------------- MODULE TaskLifecycle ---------------------------
(***************************************************************************)
(* The life of the tasks one Controller drives (orchestrator/controller.py)*)
(* over the SQLite tables tasks, stage_runs, edge_counts and transitions   *)
(* (orchestrator/db.py).                                                   *)
(*                                                                         *)
(* The controller is one process and the only writer.  It serves one call  *)
(* at a time (submit, run_until_stop, resume); each database transaction   *)
(* is one action, and the process may be killed between any two of them,   *)
(* lose a transaction (rollback) or raise after committing one (the        *)
(* trajectory parity check after COMMIT).  The provider that executes a    *)
(* stage is outside: it answers, whenever it likes, with any result that   *)
(* classify_result can produce.                                            *)
(***************************************************************************)
EXTENDS ProfileGraph, Sequences

CONSTANTS
    Task,          \* task ids
    Op,            \* operation ids: each names one submit or resume request
    Profile,       \* the profile the tasks were frozen with
    Framing,       \* task -> "legacy", "envelope" or "malformed" input framing
    Reviewers,     \* stages an execution plan gave the reviewer role
    MaxRuns,       \* bound: stage runs per task
    MaxCrashes,    \* bound: process deaths
    MaxFaults      \* bound: transactions that fail or raise after commit

ASSUME ProfileAssumption == ValidProfile(Profile)
ASSUME FramingAssumption == Framing \in [Task -> {"legacy", "envelope", "malformed"}]
ASSUME ReviewersAssumption == Reviewers \subseteq StageNames(Profile)
ASSUME BoundAssumption == MaxRuns \in Nat /\ MaxCrashes \in Nat /\ MaxFaults \in Nat

VARIABLES
    task,      \* tasks: task -> row (status "absent" when there is no row)
    runs,      \* stage_runs: task -> sequence of rows, in start order
    edges,     \* edge_counts: task -> edge -> count
    log,       \* transitions: task -> sequence of rows
    dir,       \* tasks whose artifact directory with its snapshots exists
    driver,    \* the call the controller process is executing
    crashes,   \* process deaths so far
    faults     \* failed transactions so far

vars == <<task, runs, edges, log, dir, driver, crashes, faults>>

-----------------------------------------------------------------------------
\* Rows and constants.

ACTIVE_STATUSES == {"queued", "running"}
MutantResumable == {"waiting_user", "paused", "blocked", "done"}   \* finished tasks too
RESUMABLE_STATUSES == {"waiting_user", "paused", "blocked"}
Status == ACTIVE_STATUSES \cup RESUMABLE_STATUSES \cup TERMINAL_STATUSES
RunStatus == {"running", "committed", "paused", "blocked"}

\* A reason that names a containment stop, and one that stands for the rest.
BlockReasons == {"runner_nonzero", "protected_root_drift"}
StopReasons == BlockReasons \cup
    {"rate_limited", "preflight_failed", "review_requires_astra_decision",
     "user_decision_required", "edge_cap", "transition_cap", "attempt_cap",
     "orphaned_running"}
Reasons == StopReasons \cup
    {"submitted", "stage_completed", "manual_resume", "manual_rerun_stage"}

NoEdge == <<"none", "none">>
NoOp == "generated"          \* the uuid4 of a transition no request names
EdgeSet == Edges(Profile)
ASSUME NoEdgeAssumption == NoEdge \notin EdgeSet
NoRow == [status |-> "absent", stage |-> Profile.initial, transitions |-> 0,
          allowance |-> 0, lease |-> 0, stop |-> "none"]

Idle == [pc |-> "idle", task |-> "none", op |-> NoOp, error |-> "none"]
Returned(t) == [pc |-> "idle", task |-> t, op |-> NoOp, error |-> "none"]
Raised(t) == [pc |-> "idle", task |-> t, op |-> NoOp, error |-> "raised"]
At(pc, t) == [pc |-> pc, task |-> t, op |-> NoOp, error |-> "none"]
Inserting(t, op) == [pc |-> "insert", task |-> t, op |-> op, error |-> "none"]
Down == [pc |-> "down", task |-> "none", op |-> NoOp, error |-> "none"]
Booting == [pc |-> "reconcile", task |-> "none", op |-> NoOp, error |-> "none"]

Exists(t) == task[t].status # "absent"
UsedOps == (UNION {{log[t][i].op : i \in DOMAIN log[t]} : t \in Task}) \ {NoOp}
RunsOf(t, s) == {k \in DOMAIN runs[t] : runs[t][k].stage = s}
Entry(op, run, edge, from, to, reason) ==
    [op |-> op, run |-> run, edge |-> edge, from |-> from, to |-> to, reason |-> reason]

\* A row that leaves "running" or "queued", and why.
Stopped(row, status, stop) == [row EXCEPT !.status = status, !.lease = 0, !.stop = stop]

\* A transaction that committed: its caller goes on at next, or the parity
\* check after COMMIT raises and the call ends with the rows in place.
CommitThen(next) ==
    \/ driver' = next /\ UNCHANGED faults
    \/ /\ faults < MaxFaults
       /\ driver' = Raised(driver.task)
       /\ faults' = faults + 1

\* Legacy tasks are gated by the caps; an envelope task whose graph lets
\* convergence score every loop is not.
Uncapped(t) == Framing[t] = "envelope" /\ GateReachable(Profile)

-----------------------------------------------------------------------------
\* submit

\* The artifact directory and its snapshots, before any row exists.  What a
\* previous attempt left in the way is removed first.
SubmitPrepare(t, op) ==
    /\ driver.pc = "idle"
    /\ ~Exists(t)
    /\ op \notin UsedOps
    /\ dir' = dir \cup {t}
    /\ driver' = Inserting(t, op)
    /\ UNCHANGED <<task, runs, edges, log, crashes, faults>>

\* One transaction: the queued row, the seeded edge counters and the
\* transition that binds the operation id.
InsertRow(t) ==
    /\ task' = [task EXCEPT ![t] = [NoRow EXCEPT !.status = "queued"]]
    /\ edges' = [edges EXCEPT ![t] = [e \in EdgeSet |-> 0]]
    /\ log' = [log EXCEPT ![t] =
                  Append(@, Entry(driver.op, 0, NoEdge, "none", "queued", "submitted"))]

\* Mutant: every exception removes the directory, one after COMMIT too.
MutantSubmitInsert ==
    /\ driver.pc = "insert"
    /\ InsertRow(driver.task)
    /\ CommitThen(At("loop", driver.task))
    /\ dir' = IF driver'.error = "raised" THEN dir \ {driver.task} ELSE dir
    /\ UNCHANGED <<runs, crashes>>

SubmitInsert ==
    /\ driver.pc = "insert"
    /\ InsertRow(driver.task)
    /\ CommitThen(At("loop", driver.task))
    /\ UNCHANGED <<runs, dir, crashes>>

\* The same request again: its row is found and execution carries on.
SubmitAgain(t) ==
    /\ driver.pc = "idle"
    /\ Exists(t)
    /\ driver' = At("loop", t)
    /\ UNCHANGED <<task, runs, edges, log, dir, crashes, faults>>

-----------------------------------------------------------------------------
\* run_until_stop: one iteration starts at pc "loop".

\* The latest run of the stage decides: a paused run is retried in the same
\* cycle, anything else opens a new cycle.
\* Mutant: a paused run is retried under the same attempt number.
MutantNextAttempt(t, s) ==
    LET ks == RunsOf(t, s)
        last == runs[t][CHOOSE k \in ks : \A j \in ks : j <= k]
    IN  IF ks = {} THEN [cycle |-> 1, attempt |-> 1]
        ELSE IF last.status = "paused"
             THEN [cycle |-> last.cycle, attempt |-> last.attempt]
             ELSE [cycle |-> last.cycle + 1, attempt |-> 1]

NextAttempt(t, s) ==
    LET ks == RunsOf(t, s)
        last == runs[t][CHOOSE k \in ks : \A j \in ks : j <= k]
    IN  IF ks = {} THEN [cycle |-> 1, attempt |-> 1]
        ELSE IF last.status = "paused"
             THEN [cycle |-> last.cycle, attempt |-> last.attempt + 1]
             ELSE [cycle |-> last.cycle + 1, attempt |-> 1]

NewRun(t, status, lease) ==
    LET s == task[t].stage
        next == NextAttempt(t, s)
    IN  [stage |-> s, cycle |-> next.cycle, attempt |-> next.attempt,
         status |-> status, lease |-> lease, sealed |-> FALSE]

\* A task that is not active any more ends the call.
RunReturns ==
    /\ driver.pc = "loop"
    /\ task[driver.task].status \notin ACTIVE_STATUSES
    /\ driver' = Returned(driver.task)
    /\ UNCHANGED <<task, runs, edges, log, dir, crashes, faults>>

\* A running row nobody holds is an interrupted run: it is blocked, never
\* executed again.  Used by the loop and by the startup barrier.
\* Mutant: the task is stopped but the run row stays open.
MutantLeaveRunOpen(t) ==
    /\ runs' = runs
    /\ log' = [log EXCEPT ![t] =
          Append(@, Entry(NoOp, task[t].lease, NoEdge, "running", "blocked", "orphaned_running"))]
    /\ task' = [task EXCEPT ![t] = Stopped(@, "blocked", "orphaned_running")]

\* Mutant: the interrupted run is queued again by the startup barrier.
MutantRequeue(t) ==
    LET k == task[t].lease
    IN  /\ runs' = [runs EXCEPT ![t][k].status = "blocked"]
        /\ log' = [log EXCEPT ![t] =
              Append(@, Entry(NoOp, k, NoEdge, "running", "blocked", "orphaned_running"))]
        /\ task' = [task EXCEPT ![t] = [@ EXCEPT !.status = "queued", !.lease = 0]]

\* Mutant: only the run row is blocked.
MutantBlockRun(t) ==
    /\ \E k \in DOMAIN runs[t] :
          runs[t][k].status = "running" /\ runs' = [runs EXCEPT ![t][k].status = "blocked"]
    /\ UNCHANGED <<log, task>>

BlockOrphanedRunning(t) ==
    LET open == {j \in DOMAIN runs[t] : runs[t][j].status = "running"}
        k == IF open = {} THEN 0 ELSE CHOOSE j \in open : TRUE
    IN  /\ runs' = IF open = {} THEN runs ELSE [runs EXCEPT ![t][k].status = "blocked"]
        /\ log' = [log EXCEPT ![t] =
              Append(@, Entry(NoOp, k, NoEdge, "running", "blocked", "orphaned_running"))]
        /\ task' = [task EXCEPT ![t] = Stopped(@, "blocked", "orphaned_running")]

LoopOrphan ==
    /\ driver.pc = "loop"
    /\ task[driver.task].status = "running"
    /\ BlockOrphanedRunning(driver.task)
    /\ CommitThen(Returned(driver.task))
    /\ UNCHANGED <<edges, dir, crashes>>

\* The stage is about to be claimed.
Claimable(t) ==
    /\ driver.pc = "loop"
    /\ t = driver.task
    /\ task[t].status = "queued"

\* The provider is not usable: a closed run row is recorded and the task
\* stops without a claim.  The allowance of an earlier resume stays set.
PreflightStop(status) ==
    LET t == driver.task
        k == Len(runs[t]) + 1
    IN  /\ Claimable(t)
        /\ ~IsTerminal(Profile, task[t].stage)
        /\ Len(runs[t]) < MaxRuns
        /\ runs' = [runs EXCEPT ![t] = Append(@, NewRun(t, status, 0))]
        /\ log' = [log EXCEPT ![t] =
              Append(@, Entry(NoOp, k, NoEdge, "queued", status, "preflight_failed"))]
        /\ task' = [task EXCEPT ![t] =
                        [@ EXCEPT !.status = status, !.stop = "preflight_failed"]]
        /\ CommitThen(Returned(t))
        /\ UNCHANGED <<edges, dir, crashes>>

\* claim_stage raises before it writes: the row points at a terminal stage,
\* or the frozen input's envelope framing does not parse.
ClaimRaises ==
    LET t == driver.task
    IN  /\ Claimable(t)
        /\ IsTerminal(Profile, task[t].stage) \/ Framing[t] = "malformed"
        /\ driver' = Raised(t)
        /\ UNCHANGED <<task, runs, edges, log, dir, crashes, faults>>

ClaimReady(t) ==
    /\ Claimable(t)
    /\ ~IsTerminal(Profile, task[t].stage)
    /\ Framing[t] # "malformed"

\* Mutant: one transition past the budget.
MutantTransitionCapHit(t) ==
    /\ task[t].transitions > Profile.max_transitions
    /\ task[t].allowance = 0
    /\ ~Uncapped(t)

TransitionCapHit(t) ==
    /\ task[t].transitions >= Profile.max_transitions
    /\ task[t].allowance = 0
    /\ ~Uncapped(t)

\* Mutant: attempts counted from zero.
MutantAttemptCapHit(t) ==
    /\ NextAttempt(t, task[t].stage).attempt - 1 > Profile.stages[task[t].stage].attempt_cap
    /\ task[t].allowance = 0

AttemptCapHit(t) ==
    /\ NextAttempt(t, task[t].stage).attempt > Profile.stages[task[t].stage].attempt_cap
    /\ task[t].allowance = 0

\* A budget is used up: the task waits for the user, with no run.
StopForCap ==
    LET t == driver.task
        reason == IF TransitionCapHit(t) THEN "transition_cap" ELSE "attempt_cap"
    IN  /\ ClaimReady(t)
        /\ TransitionCapHit(t) \/ AttemptCapHit(t)
        /\ log' = [log EXCEPT ![t] =
              Append(@, Entry(NoOp, 0, NoEdge, "queued", "waiting_user", reason))]
        /\ task' = [task EXCEPT ![t] = Stopped(@, "waiting_user", reason)]
        /\ CommitThen(Returned(t))
        /\ UNCHANGED <<runs, edges, dir, crashes>>

\* The stage is claimed under a fresh lease and the allowance is spent.
ClaimStage ==
    LET t == driver.task
        k == Len(runs[t]) + 1
    IN  /\ ClaimReady(t)
        /\ ~TransitionCapHit(t)
        /\ ~AttemptCapHit(t)
        /\ Len(runs[t]) < MaxRuns
        /\ runs' = [runs EXCEPT ![t] = Append(@, NewRun(t, "running", k))]
        /\ task' = [task EXCEPT ![t] =
                        [@ EXCEPT !.status = "running", !.lease = k, !.allowance = 0]]
        /\ CommitThen(At("provider", t))
        /\ UNCHANGED <<edges, log, dir, crashes>>

-----------------------------------------------------------------------------
\* commit_run: the provider answered (or was interrupted, or timed out).

\* The guard that a run may be committed at all: run and task are both
\* running and carry the same lease.
Committable(t, k) ==
    /\ driver.pc = "provider"
    /\ t = driver.task
    /\ k \in DOMAIN runs[t]
    /\ runs[t][k].status = "running"
    /\ task[t].status = "running"
    /\ runs[t][k].lease = task[t].lease

\* The typed outcomes classify_result accepts for the stage.
AllowedOutcomes(t) ==
    OutcomesOf(Profile, task[t].stage)
        \cup (IF Framing[t] = "envelope" THEN {HOLD_OUTCOME} ELSE {})

\* Mutant: only an explicit hold waits for the user.
MutantReviewerWaits(t, o) == task[t].stage \in Reviewers /\ o = HOLD_OUTCOME

\* An execution plan's reviewer may only say ready; the rest is the user's.
ReviewerWaits(t, o) == task[t].stage \in Reviewers /\ o # "ready"

\* A run that waits for the user is a committed run of stage_runs.
MutantRunStatusFor(status) == status           \* the task's status, unmapped
RunStatusFor(status) == IF status = "waiting_user" THEN "committed" ELSE status

Sealed(run, status) == [run EXCEPT !.status = status, !.sealed = TRUE]

\* The results that do not move the task: status and reason.
FailureResults(t) ==
    {<<"blocked", reason>> : reason \in BlockReasons}
        \cup {<<"paused", "rate_limited">>}
        \cup {<<"waiting_user", "review_requires_astra_decision">> :
                 o \in {o \in AllowedOutcomes(t) : ReviewerWaits(t, o)}}

CommitFailure(k, status, reason) ==
    LET t == driver.task IN
    /\ Committable(t, k)
    /\ <<status, reason>> \in FailureResults(t)
    /\ runs' = [runs EXCEPT ![t][k] =
                   Sealed(@, RunStatusFor(status))]
    /\ log' = [log EXCEPT ![t] =
                  Append(@, Entry(NoOp, k, NoEdge, "running", status, reason))]
    /\ task' = [task EXCEPT ![t] = Stopped(@, status, reason)]
    /\ CommitThen(At("loop", t))
    /\ UNCHANGED <<edges, dir, crashes>>

Accepted(t, k, o) ==
    /\ Committable(t, k)
    /\ o \in AllowedOutcomes(t)
    /\ ~ReviewerWaits(t, o)

\* An envelope task held for the user: no edge is consumed, the stage stays.
CommitHold(k) ==
    LET t == driver.task IN
    /\ Accepted(t, k, HOLD_OUTCOME)
    /\ Framing[t] = "envelope"
    /\ runs' = [runs EXCEPT ![t][k] = Sealed(@, "committed")]
    /\ log' = [log EXCEPT ![t] =
          Append(@, Entry(NoOp, k, NoEdge, "running", "waiting_user", "user_decision_required"))]
    /\ task' = [task EXCEPT ![t] = Stopped(@, "waiting_user", "user_decision_required")]
    /\ CommitThen(At("loop", t))
    /\ UNCHANGED <<edges, dir, crashes>>

\* A crossing is counted when it is made; a capped one when it is let through.
MutantCrossed(t, e, capped) == [edges EXCEPT ![t][e] = @ + 1]   \* counted twice
Crossed(t, e, capped) == IF capped THEN edges ELSE [edges EXCEPT ![t][e] = @ + 1]

EdgeCapHit(t, e) == edges[t][e] >= Profile.edge_caps[e] /\ ~Uncapped(t)

\* A typed outcome moves the task to its target, unless the edge is used up
\* or the outcome itself asks for the user; the stage moves in every case.
CommitEdge(k, o) ==
    LET t == driver.task
        e == <<runs[t][k].stage, o>>
        target == Target(Profile, runs[t][k].stage, o)
        capped == EdgeCapHit(t, e)
        stop == IF capped THEN "edge_cap"
                ELSE IF o = HOLD_OUTCOME THEN "user_decision_required" ELSE "none"
        status == IF stop # "none" THEN "waiting_user"
                  ELSE IF IsTerminal(Profile, target) THEN Profile.stages[target].terminal
                  ELSE "queued"
    IN  /\ Accepted(t, k, o)
        /\ ~(o = HOLD_OUTCOME /\ Framing[t] = "envelope")
        /\ runs' = [runs EXCEPT ![t][k] = Sealed(@, "committed")]
        /\ edges' = Crossed(t, e, capped)
        /\ log' = [log EXCEPT ![t] =
              Append(@, Entry(NoOp, k, e, "running", status,
                              IF stop = "none" THEN "stage_completed" ELSE stop))]
        /\ task' = [task EXCEPT ![t] =
                        [Stopped(task[t], status, stop) EXCEPT
                            !.stage = target,
                            !.transitions = task[t].transitions + 1]]
        /\ CommitThen(At("loop", t))
        /\ UNCHANGED <<dir, crashes>>

-----------------------------------------------------------------------------
\* resume

ContainmentStops == {"workspace_escape", "protected_root_drift"}

\* The edge of the latest edge_cap stop.
CappedEdge(t) ==
    LET ks == {i \in DOMAIN log[t] : log[t][i].reason = "edge_cap"}
    IN  log[t][CHOOSE i \in ks : \A j \in ks : j <= i].edge

\* A person moves a stopped task on.  Only a decision point grants one pass
\* through the caps; a used-up edge is charged now.
Resume(t, op, rerun) ==
    LET atEdgeCap == task[t].status = "waiting_user" /\ task[t].stop = "edge_cap"
        edge == IF atEdgeCap THEN CappedEdge(t) ELSE NoEdge
    IN  /\ driver.pc = "idle"
        /\ op \notin UsedOps
        /\ task[t].status \in RESUMABLE_STATUSES
        /\ task[t].stop \in ContainmentStops => rerun
        /\ edges' = IF atEdgeCap THEN [edges EXCEPT ![t][edge] = @ + 1] ELSE edges
        /\ log' = [log EXCEPT ![t] =
              Append(@, Entry(op, 0, edge, task[t].status, "queued",
                              IF rerun THEN "manual_rerun_stage" ELSE "manual_resume"))]
        /\ task' = [task EXCEPT ![t] =
              [Stopped(@, "queued", "none") EXCEPT
                  !.allowance = IF task[t].status = "waiting_user" THEN 1 ELSE 0]]
        /\ \/ driver' = At("loop", t) /\ UNCHANGED faults
           \/ faults < MaxFaults /\ driver' = Raised(t) /\ faults' = faults + 1
        /\ UNCHANGED <<runs, dir, crashes>>

\* The same resume again: it is not applied twice, execution carries on.
ResumeAgain(t, op) ==
    /\ driver.pc = "idle"
    /\ \E i \in DOMAIN log[t] : log[t][i].op = op
    /\ driver' = At("loop", t)
    /\ UNCHANGED <<task, runs, edges, log, dir, crashes, faults>>

-----------------------------------------------------------------------------
\* Failures of the controller process.

\* A transaction fails and rolls back, and the call raises.  An interrupted
\* submit removes the directory it made; a stage that cannot be committed
\* stays running in the database.
Rollback ==
    /\ driver.pc \in {"insert", "loop", "provider"}
    /\ faults < MaxFaults
    /\ faults' = faults + 1
    /\ dir' = IF driver.pc = "insert" THEN dir \ {driver.task} ELSE dir
    /\ driver' = Raised(driver.task)
    /\ UNCHANGED <<task, runs, edges, log, crashes>>

Crash ==
    /\ driver.pc # "down"
    /\ crashes < MaxCrashes
    /\ crashes' = crashes + 1
    /\ driver' = Down
    /\ UNCHANGED <<task, runs, edges, log, dir, faults>>

Boot ==
    /\ driver.pc = "down"
    /\ driver' = Booting
    /\ UNCHANGED <<task, runs, edges, log, dir, crashes, faults>>

\* reconcile_startup blocks what the dead process left running, task by
\* task, before the first request is served.
ReconcileOrphan(t) ==
    /\ driver.pc = "reconcile"
    /\ task[t].status = "running"
    /\ BlockOrphanedRunning(t)
    /\ UNCHANGED <<edges, dir, driver, crashes, faults>>

StartupReady ==
    /\ driver.pc = "reconcile"
    /\ \A t \in Task : task[t].status # "running"
    /\ driver' = Idle
    /\ UNCHANGED <<task, runs, edges, log, dir, crashes, faults>>

-----------------------------------------------------------------------------
Init ==
    /\ task = [t \in Task |-> NoRow]
    /\ runs = [t \in Task |-> <<>>]
    /\ edges = [t \in Task |-> [e \in EdgeSet |-> 0]]
    /\ log = [t \in Task |-> <<>>]
    /\ dir = {}
    /\ driver = Idle
    /\ crashes = 0
    /\ faults = 0

CommitRun ==
    \E k \in DOMAIN runs[driver.task] :
        \/ \E r \in FailureResults(driver.task) : CommitFailure(k, r[1], r[2])
        \/ CommitHold(k)
        \/ \E o \in OutcomesOf(Profile, task[driver.task].stage) : CommitEdge(k, o)

\* The steps of the controller on its own; the calls come from outside.
ControllerStep ==
    \/ SubmitInsert
    \/ RunReturns
    \/ LoopOrphan
    \/ \E status \in {"paused", "blocked"} : PreflightStop(status)
    \/ ClaimRaises
    \/ StopForCap
    \/ ClaimStage
    \/ driver.pc = "provider" /\ CommitRun

StartupStep == Boot \/ StartupReady \/ \E t \in Task : ReconcileOrphan(t)

Call ==
    \E t \in Task :
        \/ \E op \in Op :
              \/ SubmitPrepare(t, op)
              \/ ResumeAgain(t, op)
              \/ \E rerun \in BOOLEAN : Resume(t, op, rerun)
        \/ SubmitAgain(t)

Next == Call \/ ControllerStep \/ StartupStep \/ Rollback \/ Crash

Spec == Init /\ [][Next]_vars

\* The process keeps executing, the provider answers within its timeout, and
\* a supervisor restarts a dead daemon.  Nothing makes a user call.
FairSpec == Spec /\ WF_vars(ControllerStep) /\ WF_vars(StartupStep)
-----------------------------------------------------------------------------
\* Properties.

TaskRow == [status : Status \cup {"absent"}, stage : StageNames(Profile),
            transitions : Nat, allowance : {0, 1}, lease : Nat,
            stop : StopReasons \cup {"none"}]
RunRow == [stage : StageNames(Profile), cycle : Nat, attempt : Nat,
           status : RunStatus, lease : Nat, sealed : BOOLEAN]
LogRow == [op : Op \cup {NoOp}, run : Nat, edge : EdgeSet \cup {NoEdge},
           from : Status \cup {"none"}, to : Status, reason : Reasons]
Pc == {"idle", "insert", "loop", "provider", "down", "reconcile"}

\* Every variable holds rows of its table (the CHECK constraints of db.py).
TypeOK ==
    /\ task \in [Task -> TaskRow]
    /\ runs \in [Task -> Seq(RunRow)]
    /\ edges \in [Task -> [EdgeSet -> Nat]]
    /\ log \in [Task -> Seq(LogRow)]
    /\ dir \subseteq Task
    /\ driver \in [pc : Pc, task : Task \cup {"none"}, op : Op \cup {NoOp},
                  error : {"none", "raised"}]
    /\ crashes \in 0..MaxCrashes
    /\ faults \in 0..MaxFaults

\* A task is running exactly while one stage run of its current stage is,
\* and that run holds the task's lease: commit_run's "run/task state
\* conflict" and "lease conflict" cannot arise, and a crash leaves exactly
\* one run for the startup barrier to block.
OneLeasedRun ==
    /\ \A t \in Task :
        /\ task[t].status = "running" =>
              /\ task[t].lease \in DOMAIN runs[t]
              /\ runs[t][task[t].lease].status = "running"
              /\ runs[t][task[t].lease].lease = task[t].lease
              /\ runs[t][task[t].lease].stage = task[t].stage
        /\ task[t].status # "running" => task[t].lease = 0
        /\ \A k \in DOMAIN runs[t] :
              runs[t][k].status = "running" =>
                  task[t].status = "running" /\ task[t].lease = k
    /\ driver.pc = "provider" => task[driver.task].status = "running"

\* The uniqueness constraints of db.py never fire: a stage's (cycle, attempt)
\* is never reused and an operation id is applied to one transition.
KeysUnique ==
    /\ \A t \in Task : \A j, k \in DOMAIN runs[t] :
          /\ runs[t][j].stage = runs[t][k].stage
          /\ runs[t][j].cycle = runs[t][k].cycle
          /\ runs[t][j].attempt = runs[t][k].attempt
          => j = k
    /\ \A t, u \in Task : \A i \in DOMAIN log[t], j \in DOMAIN log[u] :
          log[t][i].op = log[u][j].op /\ log[t][i].op # NoOp => t = u /\ i = j

ResumeReasons == {"manual_resume", "manual_rerun_stage"}
Ended(t, k) == {i \in DOMAIN log[t] : log[t][i].run = k}

\* A stage run follows another only when the earlier one moved the task on,
\* or a person resumed the task after it ended and before the later one did:
\* interrupted work is never silently executed again.
RerunNeedsPerson ==
    \A t \in Task : \A k \in DOMAIN runs[t] \ {1} :
        \E i \in Ended(t, k - 1) :
            \/ log[t][i].to = "queued"
            \/ \E j \in DOMAIN log[t] :
                  /\ j > i
                  /\ log[t][j].reason \in ResumeReasons
                  /\ \A m \in Ended(t, k) : j < m

\* README: the opt-in single-review route does not automatically dispatch
\* repair after a non-ready review.  Whatever a reviewer said, the next stage
\* run is a person's decision.
ReviewGoesToPerson ==
    \A t \in Task : \A k \in DOMAIN runs[t] \ {1} :
        runs[t][k - 1].stage \in Reviewers =>
            \E i \in Ended(t, k - 1), j \in DOMAIN log[t] :
                /\ j > i
                /\ log[t][j].reason \in ResumeReasons
                /\ \A m \in Ended(t, k) : j < m

\* Legacy budgets bound the work a task may do on its own: beyond
\* max_transitions, an edge cap or an attempt cap, each extra step is paid
\* for by a resume from waiting_user.
DecisionsFor(t) == {i \in DOMAIN log[t] : log[t][i].from = "waiting_user"}

TransitionBudget ==
    \A t \in Task : ~Uncapped(t) =>
        task[t].transitions <= Profile.max_transitions + Cardinality(DecisionsFor(t))

AttemptBudget ==
    \A t \in Task :
        Cardinality({k \in DOMAIN runs[t] :
                        /\ runs[t][k].lease # 0
                        /\ runs[t][k].attempt > Profile.stages[runs[t][k].stage].attempt_cap})
            <= Cardinality(DecisionsFor(t))

\* An edge counter is exactly the crossings of its edge in the transition
\* log, a capped crossing being charged when a person lets it through, and
\* it passes its cap only by such charges.
EdgeLedger ==
    \A t \in Task : Exists(t) => \A e \in EdgeSet :
        LET crossings == {i \in DOMAIN log[t] : log[t][i].edge = e /\ log[t][i].reason # "edge_cap"}
            charged == {i \in crossings : log[t][i].reason \in ResumeReasons}
        IN  /\ edges[t][e] = Cardinality(crossings)
            /\ ~Uncapped(t) => edges[t][e] <= Profile.edge_caps[e] + Cardinality(charged)

\* The accounts of a task add up over every interleaving of stops, resumes,
\* replays and crashes: claim_stage, commit_run and resume never reuse a key,
\* never grant more than a decision paid for and never lose a crossing.
RunsAccounted == KeysUnique /\ TransitionBudget /\ AttemptBudget /\ EdgeLedger

\* A durable task keeps the directory that holds its frozen profile and
\* input, whatever failed around its submission.
SnapshotsKept == \A t \in Task : Exists(t) => t \in dir

\* Evidence is never rewritten: a run that ended keeps its row, the
\* transition log only grows, and a finished task keeps its row.
HistoryFrozen ==
    [][\A t \in Task :
        /\ \A k \in DOMAIN runs[t] :
              runs[t][k].status # "running" =>
                  k \in DOMAIN runs'[t] /\ runs'[t][k] = runs[t][k]
        /\ \A i \in DOMAIN log[t] : i \in DOMAIN log'[t] /\ log'[t][i] = log[t][i]
        /\ task[t].status \in TERMINAL_STATUSES => task'[t] = task[t]]_vars

\* Unless a transaction failed, a run does not stay running: its provider's
\* answer is committed or, when the process died, the startup barrier blocks
\* it.  (After a failed commit_run it waits for the next call on its task.)
RunningEnds ==
    \A t \in Task : task[t].status = "running" /\ faults = 0
                      ~> task[t].status # "running" \/ faults > 0

=============================================================================
