# agent-orch: verification project

TLA+ modules, model-checking configurations and machine-checked proofs for the
orchestrator in `src/orchestrator/`. The orchestrator runs a *task* through a
frozen *workflow profile* (a small stage graph), calling a provider CLI for
every stage, and stops for a person whenever its evidence or its budgets say so.
Everything here is translated from the Python sources; the map of each
definition to the lines it stands for is in `PROJECT.json`.

## The system

| Component | State it keeps | Operations | Interacts with |
|---|---|---|---|
| Controller (`controller.py`, `db.py`) | tables `tasks`, `stage_runs`, `edge_counts`, `transitions`; artifact directories | `submit`, `run_until_stop` (`claim_stage`, `commit_run`), `resume`, `reconcile_startup` | called by the daemon, one call at a time; calls the runner; writes the trajectory inside its transactions |
| Profile (`profile.py`) | none (immutable, hash-bound snapshot) | `validate_profile` | read on every controller step |
| Gate reachability (`controller.py`) | none | `_gate_reachable` | decides whether the caps of an envelope task gate |
| Convergence (`controller.py`, `runner.py`) | the sealed run history | `_convergence_context`, `_apply_convergence` | turns a review's outcome into a hold |
| Daemon and queue (`daemon.py`, `ipc.py`) | directories `inbox`, `processing`, `processed`, a lock file | `enqueue_request`, `_handle`, `_reconcile_startup_requests` | clients drop files; the daemon calls the controller |
| Runner (`runner.py`) | provider process, live stream queue, capture file | `run`, `classify_result`, `validate_sealed_boundary` | called by the controller; threads per stream |
| Review sessions (`review_session.py`) | one record per series, a registry, lock files | register, call, finish, rehydrate, reconcile | used by the configured runner around a provider call |
| Execution plan (`execution*.py`, `review_contract.py`) | none (parsed from the input snapshot) | `extract_plan`, `bind_session` | picks the runner of a stage |
| Kanban (`kanban/`) | cards, an append-only journal of commands, quota snapshots and attempts | card commands, quota commands, reads | called by the daemon; reads scope files and the gate decisions of `start.py` |
| Trajectory (`trajectory*.py`) | append-only hash chain of events | append, parity check, replay | written in the controller's transactions |
| Containment (`containment.py`) | fingerprints of protected roots | sandbox, `Sentinel` | stops a run with a containment reason |
| Watch (`watch.py`) | none: the caller keeps the cursor | `read_window` | reads the file of a live stream |
| Start (`start.py`) | a task record, a routing record, a gate decision file, resolver receipts, `inbox.md` | start, start-go, start-sync, gate-run, gate-sync, gate-decision | asks a resolver model for an envelope; puts requests into the daemon's inbox and reads the results |
| Others (`cli`, `doctor`, `config`, `demo`, `risk_rules`, `retained`, packaging, tools) | none that changes over time | | |

What is hard to get right here: a crash between any two transactions; a
transaction that commits and then raises (the trajectory parity check runs after
`COMMIT`); requests replayed after a crash; budgets that a person may lift for
one step; cards whose scope moves while commands, reports and closeouts about
the old one are still queued; a review loop whose only bound is that the reviews make progress; a
history that contains held, tampered and unreadable runs; a provider whose pipe
outlives it and whose deadline races its exit, displayed by a second thread with
a bounded queue; review sessions that must not be called while a call on them is
unaccounted for; an audit chain switched on and off between processes; files of
one decision written one by one. `PROJECT.json` lists
the hazards, each with its line and the properties that would catch it.

## Modules

| Module | Models | Kind |
|---|---|---|
| `ProfileGraph` | profile record, `validate_profile`, stage arity, reachability, cycles, the gate | pure operators |
| `TaskLifecycle` | the controller over its tables | state machine (core) |
| `Intake` | the daemon's file queue, composed with `TaskLifecycle` | composition |
| `RequestLedger` | what the queue promises | abstract specification |
| `TaskLifecycleProofs` | rows, leases, snapshots and history of `TaskLifecycle`; the two refinements of `Intake`, and what crashes leave behind | proofs |
| `CycleSearch` | `_gate_reachable` as the algorithm that runs | state machine |
| `CycleSearchProofs` | inductive invariant of `CycleSearch`: the answer is the graph's | proofs |
| `Convergence` | the review loop of one envelope task | state machine |
| `ConvergenceProofs` | inductive invariant and theorems of `Convergence` | proofs |
| `Envelope` | the resolver's reply, its grounding in the sources, the envelope written and read back | pure operators |
| `StartGate` | `start.py`'s commands over their files, on top of `Envelope` | state machine |
| `StartGateProofs` | inductive invariant and theorems of `StartGate`, and the lemmas about `Envelope` they rest on | proofs |
| `ReviewSession` | provider sessions bound to a series, the configured reviewer, its hand-over | state machine |
| `ReviewSessionProofs` | inductive invariant and theorems of `ReviewSession` | proofs |
| `ProviderRun` | one provider process: lifecycle thread, live-stream thread, sealed boundary | state machine |
| `ProviderRunProofs` | inductive invariant and theorems of `ProviderRun` | proofs |
| `Trajectory` | the event chain in the controller's transactions, and its replay | state machine |
| `TrajectoryProofs` | inductive invariant and theorems of `Trajectory` | proofs |
| `KanbanCards` | the card commands over the card table and the journal | state machine |
| `KanbanCardsProofs` | inductive invariant and theorems of `KanbanCards` | proofs |
| `MC*` | instances and constants for TLC | |

**TaskLifecycle.** `task`, `runs`, `edges` and `log` are the tables (a lease is
the index of the run it was issued for, a transition's `run` is the index of its
stage run, `operation_id`s that no request names are one value, because only the
named ones are looked up). `dir` is the set of tasks whose artifact directory
exists. `driver` is the program counter of the one controller thread: `insert`
between the two halves of `submit`, `loop` at the head of `run_until_stop`,
`provider` between `claim_stage` and `commit_run`, `reconcile` during startup.
Every `BEGIN IMMEDIATE ... COMMIT` is one action. `CommitThen` adds the outcome
in which the parity check after `COMMIT` raises; `Rollback` is a transaction
that fails; `Crash` is process death in any state. The provider's answer is any
result `classify_result` and the reviewer rule can produce. Timestamps, usage,
prompts, notifications, evidence index and manifests' contents are left out;
wall-clock ordering of runs is modelled as their real order.

**Intake** extends `TaskLifecycle`: a request's file is in one of four places,
`answers` collects the results published for it and `handler` is the daemon's
position in `_handle`. The controller's actions are reused unchanged; `Work`
interleaves them with the queue. `UsedOps` is what makes replays idempotent.

**CycleSearch** runs the two helper searches of the gate step by step. Names
to visit are sets, so that every visiting order is explored.

**Convergence** keeps the committed runs of one task; a run of a branching stage
may carry any record shape over a small set of identities. `HoldReason` is
`_apply_convergence` in its order. A reviewer's sealed reason is what later
`startswith` tests see.

**KanbanCards.** `card` and `events` are the two tables; `answers` collects the
published results. `handle_request` is one transaction, so every command is one
action: `Replay` for a known operation id, `Reject` with `Objection`'s reason in
the order the code tests, or the command's own action. A request may be handled
again at any time, and `Publish` may be skipped (the daemon died after the
commit). Requests are named by ids and `Ask` says what each asks. `Rewrite`
changes what is on disk under a scope, `Allow` is `run_gate_decision` of a
closeout. One value stands for all of `SCOPE_FIELDS`, one content for the files
under them, a hash is the value it covers; `thread` stands for provider, thread,
turn and coordinator of a worker, `handoff` for the hand-over record.
`card_is_claimed`, nights and claims are left out because no code binds a task or
a night to a card. A request `KanbanError` refuses changes nothing and is omitted.

**Envelope** turns one proposal, an entry per axis, into the payload the task is
frozen with: `DeclaredAxis` accepts a member only with a quote that is a span of
the sources, `WithEngineTargets` adds what the engine itself targets, and
`ReadsBack` is the schema every reader applies. Text is spans; what marks the
envelope itself in a text is a set of members (`Marked`). `MembersAssumption` says
of it that a path holds a marker only when its proposed form does, since
normalising a path (`PathOf`) adds no marker text, and that the engine's own paths hold none.
Normalised targets are collected one by one (`Adding`), as the loop in
`_axis_from_proposal` does.

**StartGate** keeps the files of one intake task. A command reads the records,
computes, and leaves a plan of effects that are performed one by one (`Perform`),
so that `Die` can fall between any two and an append may fail. The daemon
publishes results whenever it likes, also those of a task a person resumed.

**ReviewSession** keeps a record per series (session, state, pending marker), the
advisory lock as the run that holds it, and the runs with what is sealed of them.
Several workers, the operator's commands and an editor of the candidate
interleave; a worker may die in the call, before the seal and before the
hand-over. The provider may answer with any record of the review contract.

**ProviderRun** is `SubprocessRunner.run` as a program counter, `_LiveStream` as a
queue and a writer of its own, and the child with whoever inherited its pipe as
environment. Sizes are small numbers with the order the constants have. A run
ends in a `result`; `Manifest`, `ValidBoundary` and `ReadSealed` are the sealing
code and its two readers.

**Trajectory** keeps the canonical rows next to the events. Each controller
transaction appends its events under the checks of `TrajectoryStore.append`; a
refusal undoes it. The gate is what the current process read at its start and may
be flipped between processes. `TaskAgrees`, `AttemptAgrees` and `IntegrityStatus`
are the reducer's comparison.

## Runs

| Run | Shows | Bounds |
|---|---|---|
| `loop` | leases, run keys, budgets, edge ledger, snapshots and evidence in every interleaving of a legacy task, beside one whose envelope does not parse | 3 requests, 7 runs, 1 crash, 1 failing transaction; caps of 1 to 3, so each is reached and passed by a resume |
| `cycles` | the gate's search terminates (`SearchDecides`) and its answer is the one the graph dictates (`GateRight`) | every graph of three working stages with one or two outcomes each |
| `intake` | the queue implements `RequestLedger`; requests are answered and running tasks settled; crashes strand no task; a reviewer's verdict goes to a person | 2 tasks (one with a damaged envelope), 3 requests, 2 crashes, 1 fault; 6 runs, never reached |
| `converge` | reviews that move the task shrink the live set, all runs of the loop are bounded by the stages, the identities and the decisions, resolved failures stay resolved, baselines were accepted | 2 identities, 1 user decision, 1 lost artifact; 24 runs, never reached |
| `cards` | the journal tells every command once, approvals cover what the card holds, Done rests on the held approval, a closeout closes one card, closed cards stay closed; worker attempts hand over in order, stale reports are neither current nor pending | two scenes: 2 cards with 14 requests, and 1 card with 21 about its workers; revisions to 6 (the 64-bit limit), 1 or 2 refusals, 1 unpublished result |
| `start` | authority comes from the sources, what is written reads back, results are announced before they are recorded, recommendations fit, decisions stick | each reply is a usable one with one axis replaced; 3 requests, 1 death |
| `session` | no session is called while a call on it is unaccounted for, each is opened once, a ready review is of the candidate it was given | 2 series, 3 tasks, 1 imported session, 2 fresh sessions, 3 runs, 1 edit |
| `provider` | the terminal record is true and fits, success is whole, every result seals, both threads end | queue of 2, 8 bytes with 2 reserved, 2 chunks, 1 heartbeat, 1 fault |
| `trajectory` | the replay agrees with the rows, unknown stays unknown, only one kind of commit is refused | 2 sessions, 3 runs, 5 transitions, 2 flips of the gate, 1 damaged artifact |
| `reviewer_baseline`, `go_again`, `refusal` | expected violations, see *Findings* | minimal, or those of the run beside them |

The bounds are enough because each budget, cap and key is met within a few
steps: with caps of one and two every cap is hit, passed and hit again; a second
crash covers a crash during recovery; a stage is claimed again after a pause, a
block, a decision and a crash. `MaxRevision` is the 64-bit limit of a revision and is
reached; two generations, two cards and one closeout are the fewest that can be
confused, and the requests carry every expected revision at which they could be.
`MaxRefused` bounds the refusals in the journal (they only block their own
operation id), `MaxLost` the results a crash kept unpublished at one time. Three
requests to the daemon are an execution, a gate review and one more of either; a
third review run comes after a lost hand-over and its repair; a queue of two
overflows on the second chunk and a budget of eight ends before all are written;
two flips give one closed stretch without events between two with them.
Operation ids and sessions are interchangeable and a symmetry set in runs
without temporal properties that could be affected. `MCStartGate`,
`MCReviewSession` and `MCProviderRun` restrict their next-state relation, in the
module and with the reason there, to the histories that differ.
`CHECK_DEADLOCK FALSE` is set everywhere because a task that is finished, a
queue that is empty, and a kanban whose requests were all handled really have
nothing left to do.

**Fairness.** `FairIntakeSpec` assumes weak fairness of the daemon's own steps
together (one thread that keeps executing, a provider that answers within the
timeout `_run_process` enforces, a service manager that restarts the process:
`packaging/agent-orch.plist.template` keeps it alive). Users and clients are
never fair: nothing makes anyone resume. `CycleSearch` is one uninterrupted
computation. `RunningEnds` excludes failed transactions: a commit that fails
leaves the task `running` until the next call on it or the next start.
`ProviderRun` assumes that both threads are scheduled, the clock goes on, a child
that got SIGKILL dies, and whoever inherited the pipe closes it some day: the
final drain has no deadline, as the comment in `run` says.

## Proofs

The theorems are about the specifications with the whole of `Next`, for every value
of the constants that satisfies the named assumptions of the module; the runs
show the same formulas on small instances. The inductive invariants `IInv` were
invariants of TLC runs before they were proved.

| Module | Theorems |
|---|---|
| `TaskLifecycleProofs` | `TypeCorrect`: `[]TypeOK`; `LeaseExclusive`: `[]OneLeasedRun`; `SnapshotsSafe`: `[]SnapshotsKept` |
| ... its history | `EvidenceFrozen`: `HistoryFrozen`; `RerunsDecided`: `[]RerunNeedsPerson`; `AccountsBalance`: `[]RunsAccounted`; `ReviewsDecided`: `ReviewEnds => []ReviewGoesToPerson` |
| ... the queue in front | `IntakeDrivesController`: `IntakeSpec => Spec`; `LedgerImplemented`: `IntakeSpec => ImplementsLedger`; `CrashesStrandNone`: `HoldsInside => []CrashStrandsNoTask` |
| `KanbanCardsProofs` | `ApprovalsHold`: `[]CardsRestOnApproval`; `OneCardPerCloseout`: `[]CloseoutClosesOneCard`; `TerminalIsFinal`: `TerminalStays`; `CardsTyped`: `[]KanbanTypeOK`; `JournalTellsTruth`: `[]JournalTellsOnce`; `ReportsHonest`: `ReportsStayHonest`; `AttemptsHandOver`: `[]WorkersHandOver` |
| `ReviewSessionProofs` | `SessionTypes`: `[]TypeOK`; `NoCallReplayed`: `[]OneCallOutstanding`; `OpenThenResume`: `[]OpenedOnceThenResumed`; `ReadyIsReviewed`: `ReadyOnUnchanged` |
| `ConvergenceProofs` | `LoopEnds`: `[]LoopProgresses`; `ResolvedForGood`: `[]ResolvedStaysResolved`; `ScoredOnAccepted`: `[]BaselineAccepted`; `HoldsReadable`: `NoReviewerReviews => []HoldsStayReadable` |
| `ProviderRunProofs` | `TypesHold`: `[]TypeOK`; `CompleteStreams`: `[]CompleteMeansAll`; `TerminalFits`: `[]EndFits`; `SuccessesWhole`: `[]SuccessIsWhole`; `ResultsSeal`: `[]EveryResultSeals` |
| `TrajectoryProofs` | `RefusalsNarrow`: `[]OnlyRaisedBoundCallRefused`; `UnknownStays`: `[]CrashStaysUnknown`; `ReplayTellsRows`: `[]ReplayAgrees` |
| `StartGateProofs` | `EffectsFit`: `[]IInv`; `AnnouncedFirst`: `[]NotifiedFirst`; `RecommendationWhole`: `[]RecommendationFits`; `DecisionFinal`: `DecisionSticks`; `EnvelopeReadsBack`: `[]EmittedReadsBack`; `AuthoritySourced`: `[]AuthorityGrounded` |
| `CycleSearchProofs` | `AnswerRight`: `[]GateRight` |

**Assumptions.** What the code checks or guarantees: profiles pass
`validate_profile`, reviewers are stages, bounds are natural numbers, the terminal
record fits in its reserve and the reserve in the footprint (`BudgetAssumption`).
`FiniteAssumption`: a profile has finitely many stages, and the reviews of a task name
finitely many identities. `FactsAssumption` says that an apply task is resolved as one
and a draft by the tool-less review (both flags are computed from the same command);
`SaysAssumption` that the entries of a reply are sequences, a wrong shape being the
state `misshapen`. The others keep the
stand-in values apart from real ones: `NoneAssumption`, `NoEdgeAssumption`, `FreshAssumption`.

**Hypotheses.** Three theorems ask for more than `validate_profile` and
`execution_plan` check, so the hypothesis is in the theorem and not assumed of the model.
`ReviewEnds`, that a reviewer's `ready` ends the task, and `HoldsInside`, that
`needs_user_decision` leads to a working stage, hold of every profile in
`src/orchestrator/profiles` (`propose.yaml:29` is the only stage with that outcome,
and goes back to `draft`). Without `HoldsInside` a held run moves `current_stage` to a
terminal stage (`controller.py:657`), where a resume queues it and no claim accepts
it. Without `NoReviewerReviews` the property is false: that is the run `reviewer_baseline`.

**The rows of a task** (`TaskLifecycleProofs`). The inductive invariant `IInv` adds two
facts to the three that are proved. `DriverFits` says what
the rows look like at each program counter: between the two halves of `submit`
the row is absent and the directory is there, and the row of a task in the loop
exists. Without it `SubmitInsert` could create a row whose directory is missing.
`CapStopLogged` says that a task stopped at `edge_cap` has the capped edge in its
log. Without it `Resume` could charge an edge that does not exist, and the
counters' type would be lost. The proof has one lemma per action; actions that
rewrite one row of `task` and `runs` share the lemmas `RowStep`, `RunCloses` and
`RunsGrow`.

**The history** (`TaskLifecycleProofs`). No invariant here is proved action by action.
`StepKinds` shows once that a step leaves the rows of all tasks but one alone and
does one of six things to that one: it submits it, claims a run, closes the run, stops at
a cap, stops at a preflight, or resumes. Each invariant is shown to survive each kind. `Told`
is what `RerunNeedsPerson` needs: a task queued between two runs already has, in
its log, the word that opens the next. `Books` keeps the accounts: the runs beyond an
attempt cap, with the allowance not spent yet, are no more than the decisions (`Spent`), the
transitions stay within the budget plus the decisions, an edge counter is the number
of its crossings (`Counted`), and an operation id is logged once (`OpsOnce`). Sums are
cardinalities of sets of log positions, so that one more row is one more element,
and nothing recursive is needed.

**The queue** (`TaskLifecycleProofs`). Each step of `Intake` is a step of `TaskLifecycle` or leaves
its variables alone, so its theorems hold behind the queue. For the ledger, `QInv` says
what the queue looks like at each point of `_handle`: which files may have answers
(`Unanswered`), and what the controller is doing for the request in hand (`CallFits`).
An effect is a new operation id in the log, and `Books` says it is the id's only
one: the "at most once" of the ledger rests on the controller's idempotence, and
the proof shows where. `CrashStrandsNoTask` rests on `Owners`: as long as no transaction failed, a queued or
running task belongs to a request in `processing` without an answer that would be
accepted again.

**The loop** (`ConvergenceProofs`). `Walked` says that the runs which moved the task are
a path in the graph, `LeftByReview` that a branching stage is left only by a review that
moves the task, `MovesOnRecord` that such a review carries a record, `HoldsPaid` that every held
run but the last costs a decision. The bound on the runs is a pigeonhole argument: each
move has a level, the size of the live set it is measured from, or one more than all
identities before the first review; two moves never share stage and level
(`LevelsDiffer`: between two moves at one stage there is a review and a correction,
because the profile is gate-reachable, and the review shrank the set); so there are at
most stages times levels of them. A bound
on the runs *between two decisions* is false: a profile that starts at a correction stage
makes one pass more. `RunsBounded` is therefore a bound on the whole history.

**Cards** (`KanbanCardsProofs`). `IInv` says of every row what its approval and evidence rest on in the
journal. The approval and its event are set and cleared together: without that a
gated Done could look up the gate flag of another approval. `JournalOK` keys the
journal by the operation ids of its requests, which is what lets a new Done
compare itself with every earlier one. Rows only rest on journal entries, and
the journal only grows (`RowKeeps`), so each command is left with its own row.
`JInv` adds that the accepted events of a card are numbered by its revisions, one
each (`History`), and that no generation was granted twice (`Generations`). On these
rest the other two. `Honest` says what came, since a report, of the approval it was made
under: a later approval has a higher generation, so a scope that moves away and back does
not make the report current again. `AttemptsFit` orders the observations of workers by
revision: those of one attempt are contiguous, and one that another followed ended
handed over.

**Sessions** (`ReviewSessionProofs`). From the history of all calls, a record keeps a session, a state and one pending
run. Its `IInv` says why that is enough. `PendingTold`: a call that is unaccounted
for, on the session its series holds now, is the pending one; and what is pending
is a call on that session. `StateTold`: on a `new` session nothing but the pending
call was made, and a `ready` one is imported or answered. `SeriesHold` keeps two
series off one session: without it a call in one series would leave the record of
the other saying `new`. `KnownOnly` makes a session made up by a rehydration new to
every series, which needs the assumption that it is no imported one
(`FreshAssumption`: a `uuid4` is nobody's yet). Steps are proved in four shapes: a
record is installed, a call is made, a run is handed over, or every record stays
and the rows of the runs only gain what a return or a seal writes. `ReadyOnUnchanged` needs one
more fact, `CallsOwn`: while its provider works, a task's run is claimed for it and for the
packet it knows; only `Return` says `ready`, and it compares that packet.

**The provider** (`ProviderRunProofs`). The invariant has a part per thread. `LifeOK` says at each
program counter what is known of the child, the pipe, the capture and the result. `StreamOK`
relates the two threads: unless the stream is known to be incomplete, the file and the
queue are together what was offered (`NothingLost`); the optional records
leave the reserve alone (`RoomLeft`), which is why the terminal record fits; and the
text read is offered before the run ends unless an error is recorded (`ReadOffered`).

**The chain** (`TrajectoryProofs`). A controller transaction offers events `es` for new rows
`t`, `ts`, `rs`. `Fits` says what every such offer has in common, and a transaction ends
recorded, silent (no events are written) or undone; `TransactStep` shows once that any
fitting one keeps `IInv`, and one lemma per transaction shows that it fits. `OneBusyRun` ties the running
run to the gap of commits without events, `Mirrored` and `Intended` say what an event refers to,
`Chained` that each event was appendable after those before it: the store's checks
are what the transactions are refused by, so `OnlyRaisedBoundCallRefused` has to show
that no other fits are refused. `BaselineCovers` and `LatestTold` make the replay agree across
a stretch without events.

**Start** (`StartGateProofs`). A command of `start.py` reads the records once, and its writes come
later, one at a time, with deaths in between. So `IInv` speaks of the effects still to be
performed as it does of the files: `RequestsFit` and `DecisionFits` are about the inbox and the
decision as the effect in hand will leave them (`Ahead`, `Settled`), and `PlanFits` says of a
record about to be written what `RecordsFit` says of the one on disk, and that it keeps what
that one decided (`Rewrites`). `NotifiedFirst` then is the place of the note in the plan
(`NotesBefore`). `Answers` is what the daemon guarantees: one answer per request, one request
of a task in hand, none after the task is done; it is why the latest result of a task that
is done is the very result the gate stands for. One lemma per command shows that its plan fits,
and `Perform` and `Die` then keep the invariant whatever the plan is. `DecisionSticks` is
claimed of the decision whatever was enqueued, and of the final stage when there was one execution.

**The envelope** (`StartGateProofs`). `EmittedReadsBack` and `AuthorityGrounded` follow the value of
each axis from the reply to the payload. The write targets are a fold over the reply, and
what a fold returns is an induction over data, so `FoldIs` characterises it once, by the least
position at which it could fail; `FoldAdds` and `NormalisedIs` say that the result holds the
members' paths, each once, and no more of them than there were. The engine's
targets are appended once (`TargetsIs`) and sourced to the engine, and the payload
is valid for every reply that resolves (`PayloadValid`).

**The search** (`CycleSearchProofs`). `Collected` makes the first phase the least closed set. In a
search the grey stages are the path on the stack, each a successor of the one
before (`Path`), and whatever was looked at from a stage of it is finished or the next stage of it. The
finished stages only lead to finished ones and hold no cycle (`Finished`). A grey successor
of the top therefore closes a cycle (`GreyCloses`); a stage that is finished leads into the finished
part only, and nothing there leads back to it, so none is added (`NoCycleAdded`). No
induction over paths is needed: a cycle is a set in which every stage has a successor.

**Model-checked only.** Every safety invariant and action property of the passing runs is proved.
Liveness under fairness (`RequestsAnswered`, `RunningEnds`, `RunAndStreamEnd`,
`SearchDecides`) is out of the prover's reach and stays with TLC.

## Findings

* `reviewer_baseline`: the prefix given to a reviewer's held run defeats the
  exemption for runs held without a record, and every later review of that task
  is held as unverifiable.
* `go_again`: `start-go` looks at the task's stage only. A task whose result waits
  for the user is at the same stage, and is enqueued again.
* `refusal`: with the event gate on, the commit of a reviewer run whose
  session-bound call raised is refused by the event store and rolled back; the
  task stays `running`. With the gate off the run is recorded as blocked.

Seen while modelling, and not run as a configuration of their own:

* an input whose envelope framing does not parse raises inside `claim_stage`,
  before the code that would record a blocked run (`controller.py:340`), and stays
  `queued`: `ClaimRaises` in the `intake` run, where `CrashStrandsNoTask` exempts
  it;
* caps and failed preflights leave `queued` directly, where the README's diagram
  has only `queued --> running`: `StopForCap` and `PreflightStop`;
* a run held because its record has the wrong shape is read as a baseline
  (`Usable` in `Convergence`), although `controller.py:1282` has it skipped;
* a run claimed with the event gate on and settled with it off stays `running` in
  the replay, a `mismatch` for ever, although `trajectory.py:914` has the gap
  covered: `ReplayAgrees` claims the attempts only where no commit went
  unrecorded;
* after a death between the three files of a gate decision no command completes
  the records: `DecisionSticks` shows that nothing contradicts them either.

## Plan

1. `Watch`: windows read from a live stream while it is written, over `ProviderRun`'s
   writer.
2. The quota commands of the Kanban (snapshots, invalidation, CLI attempts) and an
   abstract idempotent register refined by `KanbanCards`.
3. Proofs about these, each in a module of its own.

## Not modelled

Prompt composition, YAML parsing, HTML rendering, command-line parsing, sandbox
profiles and file-system fingerprints are formatting or operating-system I/O
without control state of their own. `read_window` of `watch.py` is one bounded read
of a file and keeps nothing; the quota commands add immutable rows under the same
journal and replay as the card commands; the waiting client changes no state. `PROJECT.json` gives the reason for each
part.
