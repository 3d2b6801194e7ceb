------------------------------ MODULE StartGate ------------------------------
(***************************************************************************)
(* orch start and the stop-gate (start.py): one intake task, its two       *)
(* records on disk, the gate decision's file, the requests put into the    *)
(* daemon's inbox and the results published for them.                      *)
(*                                                                         *)
(* Every command reads both records, computes, and then performs its       *)
(* effects one by one: each file is written atomically, but the process    *)
(* may die, or an append may fail, between any two.  One operator works on *)
(* a task; the daemon publishes results at any time.                       *)
(***************************************************************************)
EXTENDS Envelope, FiniteSets

CONSTANTS
    Ask,            \* the start commands an operator may give, by name
    Facts,          \* ... what each says, and what its sources are
    Reply,          \* what the resolver may answer, by name
    Says,           \* ... the proposal of each
    Statuses,       \* controller statuses the daemon reports, with "error"
    MaxRequests,    \* bound on requests to the daemon
    MaxDeaths,      \* bound on commands that die between two effects
    None

ASSUME StartAssumption ==
    /\ MaxRequests \in Nat /\ MaxDeaths \in Nat
    /\ Statuses \subseteq {"done", "blocked", "paused", "waiting_user", "failed", "error"}

\* An apply task is resolved as one, and a draft by the tool-less review.
ASSUME FactsAssumption ==
    \A a \in Ask :
        LET src == Facts[a].src IN
        /\ DOMAIN src = {"spans", "own", "scope", "paths", "apply", "review"}
        /\ {src.paths, src.apply, src.review} \subseteq BOOLEAN
        /\ Facts[a].type = "apply" => src.apply
        /\ Facts[a].draft => src.review

\* Every entry of other keys or types is "misshapen".
ASSUME SaysAssumption ==
    \A y \in Reply : \A axis \in AXES :
        LET e == Says[y].axes[axis] IN
        /\ e.state \in {"misshapen", "unresolved", "declared", "semantically_silent"}
        /\ e.value \in Seq(ToSet(e.value)) /\ e.evidence \in Seq(ToSet(e.evidence))
        /\ axis = "targets" => ToSet(e.value) \subseteq DOMAIN PathOf

VARIABLES
    ask,        \* the start command given, or None
    task,       \* tasks/<id>.yaml, or None
    routing,    \* tasks/<id>-routing.yaml, or None
    decided,    \* tasks/<id>-gate-decision.yaml, or None
    attempts,   \* resolver receipts, each with what became of its attempt
    requests,   \* what was put into the inbox, in order; the index is the id
    results,    \* what the daemon published, in order of publication
    told,       \* results inbox.md tells of
    todo,       \* effects the running command has still to perform
    deaths      \* commands that died

vars == <<ask, task, routing, decided, attempts, requests, results, told, todo, deaths>>

Fact == Facts[ask]
-----------------------------------------------------------------------------
(* Preflight and routing of a start command.                                *)

ApprovedSpecGiven(f) == f.spec # "none"
OpenspecRequired(f) == f.type = "apply" \/ f.formal \/ f.high
OpenspecPresent(f) == ApprovedSpecGiven(f) \/ f.draft \/ f.mentions

Pattern(f) ==
    CASE f.draft -> "external_spec_review"
      [] f.type = "apply" /\ ~f.draft ->
            IF f.executor = "codex" THEN "codex_implement_claude_review"
            ELSE "claude_apply_codex_review"
      [] f.type \in {"propose", "review", "provider-smoke"} /\ ~f.draft -> f.type
      [] OTHER -> None

\* --executor is for apply tasks; elsewhere routing raises.
RouteRaises(f) == f.executor # "none" /\ f.type # "apply"

DraftMisused(f) ==
    f.draft /\ (f.type # "review" \/ f.config = "none" \/ ApprovedSpecGiven(f) \/ f.executor # "none")
ConfigRefused(f) ==
    /\ f.config # "none"
    /\ \/ f.config = "bad"
       \/ ~f.draft /\ (f.type # "apply" \/ f.executor # "codex")

Preflight(f) ==
    CASE DraftMisused(f) \/ ConfigRefused(f) \/ f.ambiguous -> "blocked"
      [] OTHER ->
    CASE f.type = "apply" /\ f.spec = "none" -> "waiting_user"
      [] OTHER ->
    CASE \/ f.type = "apply" /\ f.worktree = "none"
         \/ f.spec = "missing"
         \/ f.worktree = "missing" -> "blocked"
      [] OTHER ->
    CASE \/ OpenspecRequired(f) /\ ~OpenspecPresent(f)
         \/ f.type = "apply" /\ f.spec # "approved" -> "waiting_user"
      [] OTHER ->
    CASE f.marker = "plan" -> "blocked"
      [] f.marker = "envelope" -> "waiting_user"
      [] OTHER -> IF f.config # "none" /\ ~f.session THEN "blocked" ELSE "pass"

SemanticRisk(f) ==
    CASE OpenspecRequired(f) /\ ~OpenspecPresent(f) -> "high"
      [] OpenspecRequired(f) /\ OpenspecPresent(f) -> IF f.spec = "approved" THEN "low" ELSE "medium"
      [] OTHER -> "low"

\* Keywords of the text, the deployment's rules and the risk each suffice.
StopGate(f) == f.gateword \/ f.high

AutoStart(f) ==
    /\ ~f.high /\ SemanticRisk(f) # "high"
    /\ f.source = "rule" /\ f.type # "unknown"
    /\ f.config = "none"                     \* _route: a plan always waits

-----------------------------------------------------------------------------
(* The records, and what is read back from them.                            *)

Decisions == {"ALLOW", "BLOCK"}
Stages == {"intake", "route", "execute", "done", "blocked", "paused", "waiting_user", "failed"}
Opt(S) == S \cup {None}

ExecutionRow == [status : {"enqueued", "waiting_user", "blocked", "no receipt"}, req : Opt(Nat)]
ResultRow == [at : Nat, req : Nat, gated : BOOLEAN, stage : Stages]
ReviewRow == [req : Nat, about : Nat]
VerdictRow == [is : Decisions, at : Nat, about : Nat]
GateRow == [status : {"pending", "decided"}, at : Nat, review : Opt(ReviewRow),
            verdict : Opt(VerdictRow), held : BOOLEAN]
Record == [stage : Stages, pre : {"none", "pass", "blocked", "waiting_user"},
           execution : Opt(ExecutionRow), result : Opt(ResultRow), gate : Opt(GateRow),
           review : Opt(ReviewRow), verdict : Opt(VerdictRow), decision : Opt(Decisions)]
DecisionFile == [is : Decisions, at : Nat]

\* A missing file, block or field is none of the things it could hold.
ASSUME NoneAssumption ==
    /\ None \notin Ask \cup Nat \cup Decisions
    /\ None \notin {"allow", "block", "needs_user_decision"}
    /\ None \notin ExecutionRow /\ None \notin ResultRow /\ None \notin ReviewRow
    /\ None \notin VerdictRow /\ None \notin GateRow /\ None \notin Record
    /\ None \notin DecisionFile

NoRecord ==
    [stage |-> "intake", pre |-> "none", execution |-> None, result |-> None,
     gate |-> None, review |-> None, verdict |-> None, decision |-> None]

\* The routing decision is looked at first, then the task record.
Held(field) == IF routing[field] # None THEN routing[field] ELSE task[field]

GateOf == Held("gate")
GateReviewExecution ==
    IF Held("review") # None THEN Held("review")
    ELSE IF GateOf = None THEN None ELSE GateOf.review
GateReviewResult ==
    IF Held("verdict") # None THEN Held("verdict")
    ELSE IF GateOf = None THEN None ELSE GateOf.verdict
GateDecided ==
    \/ Held("decision") # None
    \/ \E g \in {routing.gate, task.gate} : g # None /\ g.status = "decided"

\* An enqueued execution has a request id; a refused one has not.
Requested(record) == record.execution # None /\ record.execution.req # None
Executed == Requested(routing) \/ Requested(task)
ExecutionRequestId ==
    IF Requested(routing) THEN routing.execution.req ELSE task.execution.req

FinalStage(decision) == IF decision = "ALLOW" THEN "done" ELSE "blocked"

-----------------------------------------------------------------------------
(* The daemon's results.                                                    *)

\* An error result names neither a task nor a request.
TaskOf(n) == IF results[n].status = "error" THEN None ELSE requests[results[n].req].task

Processed(r) == {n \in 1..Len(results) : results[n].req = r}

\* The latest result of its controller task: a resume publishes another.
LatestFor(n) ==
    IF TaskOf(n) = None THEN n
    ELSE Max({m \in 1..Len(results) : TaskOf(m) = TaskOf(n)})

LifecycleStage(status) ==
    CASE status \in {"done", "blocked", "paused", "waiting_user"} -> status
      [] OTHER -> "failed"

GateRequired(n) == results[n].status = "done" /\ StopGate(Fact)

ExecutionResult(n) ==
    [at |-> n, req |-> results[n].req, gated |-> GateRequired(n),
     stage |-> IF GateRequired(n) THEN "waiting_user" ELSE LifecycleStage(results[n].status)]

\* Outcomes printed over all runs of the reviewer's task.
OutcomesAt(n) == {results[m].outcome : m \in {m \in 1..n : TaskOf(m) = TaskOf(n)}} \ {None}

-----------------------------------------------------------------------------
(* Effects.                                                                 *)

WriteTask(record) == [write |-> "task", to |-> record]
WriteRouting(record) == [write |-> "routing", to |-> record]
WriteDecision(d) == [write |-> "decision", to |-> d]
Enqueue(request) == [write |-> "request", to |-> request]
Notify(n) == [write |-> "note", to |-> n]

Run(reply) ==
    [kind |-> "run", task |-> Len(requests) + 1, about |-> None, reply |-> reply]
Review(n) ==
    [kind |-> "review", task |-> Len(requests) + 1, about |-> n, reply |-> None]
Resume(t) == [kind |-> "resume", task |-> t, about |-> None, reply |-> None]

Idle == todo = <<>>
Command == Idle /\ task # None /\ routing # None

Perform ==
    /\ ~Idle
    /\ LET e == Head(todo) IN
          /\ task' = IF e.write = "task" THEN e.to ELSE task
          /\ routing' = IF e.write = "routing" THEN e.to ELSE routing
          /\ decided' = IF e.write = "decision" THEN e.to ELSE decided
          /\ requests' = IF e.write = "request" THEN Append(requests, e.to) ELSE requests
          /\ told' = IF e.write = "note" THEN told \cup {e.to} ELSE told
    /\ todo' = Tail(todo)
    /\ UNCHANGED <<ask, attempts, results, deaths>>

\* The process is killed, or a write or an append fails.
Die ==
    /\ ~Idle
    /\ deaths < MaxDeaths
    /\ deaths' = deaths + 1
    /\ todo' = <<>>
    /\ UNCHANGED <<ask, task, routing, decided, attempts, requests, results, told>>

-----------------------------------------------------------------------------
(* start, start-go                                                          *)

Outcome(reply) ==
    CASE ~Resolves(Says[reply], Fact.src) -> "waiting_user"
      [] Resolves(Says[reply], Fact.src)
            /\ ~ReadsBack(EnvelopePayload(Says[reply], Fact.src, StopGate(Fact))) -> "blocked"
      [] OTHER -> "enqueued"

\* The records after the one resolver call of an execution attempt, and the
\* effects in their order.  Without a receipt on disk nothing is enqueued.
EnqueueForRouting(t, r, reply) ==
    \E outcome \in {Outcome(reply), "no receipt"} :
    LET enqueued == outcome = "enqueued"
        execution == [status |-> outcome, req |-> IF enqueued THEN Len(requests) + 1 ELSE None]
        stage == CASE enqueued -> "execute"
                   [] outcome = "waiting_user" -> "waiting_user"
                   [] OTHER -> "blocked"
        pre == IF outcome = "waiting_user" THEN "waiting_user" ELSE r.pre
    IN  /\ attempts' = Append(attempts, [reply |-> reply, outcome |-> outcome])
        /\ todo' = (IF enqueued THEN <<Enqueue(Run(reply))>> ELSE <<>>)
                   \o <<WriteTask([t EXCEPT !.stage = stage, !.execution = execution]),
                        WriteRouting([r EXCEPT !.pre = pre, !.execution = execution])>>

StartRecords(a) ==
    LET f == Facts[a]
        pre == Preflight(f)
        t == NoRecord
        r == [NoRecord EXCEPT !.pre = pre]
    IN  CASE pre # "pass" ->
               [task |-> [t EXCEPT !.stage = pre], routing |-> r]
          [] pre = "pass" /\ f.dry /\ AutoStart(f) ->
               [task |-> [t EXCEPT !.stage = "route"], routing |-> r]
          [] OTHER ->
               [task |-> [t EXCEPT !.stage = "waiting_user"], routing |-> r]

\* The first write precedes preflight: routing that raises leaves it alone.
Start(a) ==
    /\ ask = None
    /\ ask' = a
    /\ task' = NoRecord
    /\ LET f == Facts[a] IN
          IF Preflight(f) = "pass" /\ (RouteRaises(f) \/ (AutoStart(f) /\ ~f.dry))
          THEN todo' = <<>>
          ELSE todo' = <<WriteTask(StartRecords(a).task), WriteRouting(StartRecords(a).routing)>>
    /\ UNCHANGED <<routing, decided, attempts, requests, results, told, deaths>>

\* The rest of a start that goes on by itself; the resolver is called here.
AutoStarts(reply) ==
    /\ ask # None
    /\ Preflight(Fact) = "pass" /\ AutoStart(Fact) /\ ~RouteRaises(Fact) /\ ~Fact.dry
    /\ Idle /\ task = NoRecord /\ routing = None /\ attempts = <<>>
    /\ Len(requests) < MaxRequests
    /\ EnqueueForRouting(task, [NoRecord EXCEPT !.pre = "pass"], reply)
    /\ UNCHANGED <<ask, task, routing, decided, requests, results, told, deaths>>

MayGo ==
    /\ task.stage = "waiting_user"
    /\ routing.pre = "pass"
    /\ Pattern(Fact) # None

StartGo(reply) ==
    /\ Command
    /\ MayGo
    /\ Len(requests) < MaxRequests
    /\ EnqueueForRouting(task, routing, reply)
    /\ UNCHANGED <<ask, task, routing, decided, requests, results, told, deaths>>

-----------------------------------------------------------------------------
(* start-sync                                                               *)

GateSummary(n) ==
    [status |-> "pending", at |-> n, review |-> GateReviewExecution, verdict |-> None, held |-> FALSE]

DecidedGate(n) ==
    IF task.gate # None THEN [task.gate EXCEPT !.status = "decided"]
    ELSE IF routing.gate # None THEN [routing.gate EXCEPT !.status = "decided"] ELSE None

\* Mutant: what is recorded is told of afterwards, as for a gate.
MutantNotifyFirst(n) == FALSE
\* A failed append must not leave the result recorded as known.
NotifyFirst(n) == ~GateRequired(n)

Sync(n) ==
    LET known == GateDecided /\ GateRequired(n)
        summary == IF known
                   THEN [ExecutionResult(n) EXCEPT !.gated = FALSE,
                            !.stage = IF Held("decision") # None THEN FinalStage(Held("decision"))
                                      ELSE task.stage]
                   ELSE ExecutionResult(n)
        gate == IF known THEN DecidedGate(n) ELSE GateSummary(n)
        t == [task EXCEPT !.stage = summary.stage, !.result = summary,
                 !.gate = IF GateRequired(n) /\ gate # None THEN gate ELSE @]
        r == [routing EXCEPT !.result = summary,
                 !.gate = IF GateRequired(n) /\ gate # None THEN gate ELSE @]
        news == IF known THEN FALSE
                ELSE IF GateRequired(n) THEN routing.gate # gate ELSE routing.result # summary
        note == IF news THEN <<Notify(n)>> ELSE <<>>
        writes == <<WriteTask(t), WriteRouting(r)>>
    IN  todo' = IF NotifyFirst(n) THEN note \o writes ELSE writes \o note

StartSync ==
    /\ Command
    /\ Executed
    /\ \E n \in Processed(ExecutionRequestId) : Sync(LatestFor(n))
    /\ UNCHANGED <<ask, task, routing, decided, attempts, requests, results, told, deaths>>

-----------------------------------------------------------------------------
(* The stop-gate.                                                           *)

PendingStopGate ==
    /\ task.stage = "waiting_user"
    /\ StopGate(Fact)
    /\ GateOf # None /\ GateOf.status = "pending"
    /\ Held("result") # None /\ Held("result").gated
    /\ results[Held("result").at].status = "done"

MayReview == ~GateDecided /\ GateReviewExecution = None /\ PendingStopGate

GateRun ==
    /\ Command
    /\ MayReview
    /\ Len(requests) < MaxRequests
    /\ LET about == Held("result").at
           review == [req |-> Len(requests) + 1, about |-> about]
           gate == [GateOf EXCEPT !.review = review]
       IN  todo' = <<Enqueue(Review(about)),
                     WriteTask([task EXCEPT !.review = review, !.gate = gate]),
                     WriteRouting([routing EXCEPT !.review = review, !.gate = gate])>>
    /\ UNCHANGED <<ask, task, routing, decided, attempts, requests, results, told, deaths>>

Recommendation(outcomes) == IF "allow" \in outcomes THEN "ALLOW" ELSE "BLOCK"

\* Mutant: the last word counts, whatever was printed before a resume.
MutantReviewReadable(n) ==
    results[n].status = "done" /\ results[n].outcome \in {"allow", "block"}
\* Malformed, ambiguous or unfinished results are refused.
ReviewReadable(n) ==
    results[n].status = "done" /\ OutcomesAt(n) \in {{"allow"}, {"block"}}

ReviewHeld(n) == results[n].status = "waiting_user"

GateSync ==
    /\ Command
    /\ ~GateDecided /\ GateReviewResult = None /\ PendingStopGate
    /\ GateReviewExecution # None
    /\ \E seed \in Processed(GateReviewExecution.req) :
          LET n == LatestFor(seed)
              verdict == [is |-> Recommendation(OutcomesAt(n)), at |-> n, about |-> Held("result").at]
              gate == [GateOf EXCEPT !.review = GateReviewExecution]
              held == [gate EXCEPT !.held = TRUE]
              told_gate == [gate EXCEPT !.verdict = verdict]
          IN  \/ /\ ReviewHeld(n)
                 /\ todo' = <<WriteTask([task EXCEPT !.stage = "waiting_user", !.gate = held]),
                              WriteRouting([routing EXCEPT !.gate = held])>>
              \/ /\ ReviewReadable(n)
                 /\ todo' = <<WriteTask([task EXCEPT !.stage = "waiting_user", !.gate = told_gate,
                                                     !.verdict = verdict]),
                              WriteRouting([routing EXCEPT !.gate = told_gate, !.verdict = verdict])>>
    /\ UNCHANGED <<ask, task, routing, decided, attempts, requests, results, told, deaths>>

\* Mutant: only the records are asked whether the gate was decided.
MutantMayDecide == ~GateDecided /\ PendingStopGate
MayDecide == decided = None /\ ~GateDecided /\ PendingStopGate

GateDecision(d) ==
    /\ Command
    /\ MayDecide
    /\ LET gate == [GateOf EXCEPT !.status = "decided"] IN
          todo' = <<WriteDecision([is |-> d, at |-> Held("result").at]),
                    WriteTask([task EXCEPT !.stage = FinalStage(d), !.gate = gate, !.decision = d]),
                    WriteRouting([routing EXCEPT !.gate = gate, !.decision = d])>>
    /\ UNCHANGED <<ask, task, routing, decided, attempts, requests, results, told, deaths>>

-----------------------------------------------------------------------------
(* The daemon, which answers each request once, and its operator.           *)

Unanswered(r) == r \in 1..Len(requests) /\ Processed(r) = {}

Publish(r, status, outcome) ==
    /\ Unanswered(r)
    /\ (outcome # None) = (requests[requests[r].task].kind = "review" /\ status \in {"done", "waiting_user"})
    /\ (outcome = "needs_user_decision") = (outcome # None /\ status = "waiting_user")
    /\ results' = Append(results, [req |-> r, status |-> status, outcome |-> outcome])
    /\ UNCHANGED <<ask, task, routing, decided, attempts, requests, told, todo, deaths>>

\* orch resume of a controller task that stopped short of its end.
ResumeTask(t) ==
    /\ Len(requests) < MaxRequests
    /\ \A r \in 1..Len(requests) : requests[r].task = t => ~Unanswered(r)
    /\ LET told_of == {n \in 1..Len(results) : TaskOf(n) = t} IN
          told_of # {} /\ results[Max(told_of)].status \in {"paused", "blocked", "waiting_user"}
    /\ requests' = Append(requests, Resume(t))
    /\ Idle
    /\ UNCHANGED <<ask, task, routing, decided, attempts, results, told, todo, deaths>>

-----------------------------------------------------------------------------
Init ==
    /\ ask = None /\ task = None /\ routing = None /\ decided = None
    /\ attempts = <<>> /\ requests = <<>> /\ results = <<>>
    /\ told = {} /\ todo = <<>> /\ deaths = 0

Next ==
    \/ \E a \in Ask : Start(a)
    \/ \E y \in Reply : AutoStarts(y) \/ StartGo(y)
    \/ StartSync
    \/ GateRun
    \/ GateSync
    \/ \E d \in {"ALLOW", "BLOCK"} : GateDecision(d)
    \/ Perform
    \/ Die
    \/ \E r \in 1..Len(requests), s \in Statuses,
          o \in {"allow", "block", "needs_user_decision", None} : Publish(r, s, o)
    \/ \E t \in 1..Len(requests) : ResumeTask(t)

Spec == Init /\ [][Next]_vars

-----------------------------------------------------------------------------
(* Properties                                                               *)

RunRequests == {r \in 1..Len(requests) : requests[r].kind = "run"}

\* The gate's decision is one decision: the artifact start.py writes first
\* (`decision_path') is never replaced, whatever died after it; a record
\* carries only the decision the artifact carries, keeps it, and the task
\* stays at its final stage through every later start-go, start-sync,
\* gate-run and gate-sync, as long as it was executed once (see OnlyFirstGo).
DecisionSticks ==
    [][/\ decided # None => decided' = decided
       /\ \A pair \in {<<task, task'>>, <<routing, routing'>>} :
             pair[1] # None /\ pair[1].decision # None => pair[2].decision = pair[1].decision
       /\ \A record \in {task', routing'} :
             record # None /\ record.decision # None
             => decided' # None /\ decided'.is = record.decision
       /\ task # None /\ task.decision # None /\ Cardinality(RunRequests) = 1
             => task'.stage = FinalStage(task.decision)]_vars

\* "A failed append must not persist the dedupe result": a result start-sync
\* has recorded, and so will not announce again, was announced in inbox.md,
\* even when the command died or the append failed on the way.
NotifiedFirst ==
    routing # None /\ routing.result # None =>
        routing.result.gated \/ GateDecided \/ routing.result.at \in told

EnvelopeOf(r) == EnvelopePayload(Says[requests[r].reply], Fact.src, StopGate(Fact))
Quoted(axis, x, r) ==
    LET e == Says[requests[r].reply].axes[axis] IN
    \E i \in DOMAIN e.value :
        /\ x = IF axis = "targets" THEN PathOf[e.value[i]] ELSE e.value[i]
        /\ e.evidence[i] \in ResolverSources(Fact.src).spans

\* The authority a task is enqueued with comes from its sources, not from the
\* resolver: every declared member is quoted verbatim from them (for a
\* tool-less review from the task's own words), a default surface lies in the
\* scope, an apply task names a target to write, and a review names none.
AuthorityGrounded ==
    \A r \in RunRequests :
        LET envelope == EnvelopeOf(r)
            asked(axis) == {x \in ToSet(envelope[axis].value) :
                               envelope[axis].source[x] = "requirement_sources"}
        IN  /\ \A axis \in AXES : \A x \in asked(axis) :
                    axis = ENUM_AXIS \/ Quoted(axis, x, r)
            /\ Fact.type = "apply"
               => \E x \in ToSet(envelope["targets"].value) : Quoted("targets", x, r)
            /\ Fact.draft => asked("targets") = {}
            /\ envelope["surface"].state = "semantically_silent"
                => ToSet(envelope["surface"].value) \subseteq Fact.src.scope

\* What the writer emits its readers accept: an attempt is rejected at the
\* framing only when a member itself carries a marker of the envelope, never
\* because the engine's own targets made the block invalid.
EmittedReadsBack ==
    \A i \in DOMAIN attempts :
        attempts[i].outcome = "blocked" =>
            \E axis \in AXES : ToSet(Says[attempts[i].reply].axes[axis].value) \cap Marked # {}

\* The recommendation a person sees is the whole answer of the reviewer asked
\* about the very result the gate is pending for: nothing else was printed by
\* any of its runs, and with a single execution no other result was reviewed.
RecommendationFits ==
    \A record \in {task, routing} :
        record # None /\ record.verdict # None =>
            LET v == record.verdict IN
            /\ results[v.at].status = "done"
            /\ OutcomesAt(v.at) = {IF v.is = "ALLOW" THEN "allow" ELSE "block"}
            /\ Cardinality(RunRequests) = 1
               => requests[requests[results[v.at].req].task].about = v.about

\* "task ... is not waiting for post-route go/no-go": start-go starts a task
\* once, and refuses one whose execution was enqueued before.
OnlyFirstGo == Cardinality(RunRequests) <= 1
=============================================================================
