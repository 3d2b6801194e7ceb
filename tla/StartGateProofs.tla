-------------------------- MODULE StartGateProofs --------------------------
(***************************************************************************)
(* What holds of orch start and its stop-gate for every set of commands,   *)
(* replies and statuses and any number of requests and deaths: the gate's  *)
(* decision is one decision, a recorded result was announced, the          *)
(* recommendation is the reviewer's whole answer about the very result the *)
(* gate waits for, the authority of an enqueued task is grounded in its    *)
(* sources, and the reader accepts what the writer emits.                  *)
(*                                                                         *)
(* A command computes its effects from what it read and performs them one  *)
(* by one, so each invariant on the records is also one on the effects     *)
(* still to be performed: it says of a record that is about to be written  *)
(* what it says of the record on disk.                                     *)
(***************************************************************************)
EXTENDS StartGate, SequenceTheorems, FiniteSetTheorems, WellFoundedInduction, TLAPS

-----------------------------------------------------------------------------
\* The inductive invariant.

Outcomes == {"allow", "block", "needs_user_decision"}
Request ==
    [kind : {"run", "review", "resume"}, task : Nat, about : Opt(Nat), reply : Reply \cup {None}]
Result == [req : Nat, status : Statuses, outcome : Opt(Outcomes)]
Attempt == [reply : Reply, outcome : {"enqueued", "waiting_user", "blocked", "no receipt"}]
Effect ==
    [write : {"task", "routing"}, to : Record] \cup [write : {"decision"}, to : DecisionFile]
    \cup [write : {"request"}, to : Request] \cup [write : {"note"}, to : Nat]

TypeOK ==
    /\ ask \in Ask \cup {None}
    /\ task \in Opt(Record) /\ routing \in Opt(Record) /\ decided \in Opt(DecisionFile)
    /\ attempts \in Seq(Attempt) /\ requests \in Seq(Request) /\ results \in Seq(Result)
    /\ told \subseteq Nat /\ todo \in Seq(Effect) /\ deaths \in Nat

\* Nothing happens before the one start command, and the task record comes first.
Begun ==
    /\ ask = None => /\ task = None /\ routing = None /\ decided = None /\ todo = <<>>
                     /\ requests = <<>> /\ attempts = <<>> /\ results = <<>>
    /\ task = None => ask = None

\* The inbox and the decision's file as the effect in hand will leave them.
Ahead == IF todo # <<>> /\ todo[1].write = "request" THEN Append(requests, todo[1].to) ELSE requests
Settled == IF todo # <<>> /\ todo[1].write = "decision" THEN todo[1].to ELSE decided

OfKind(k, r, reqs) == r \in 1..Len(reqs) /\ reqs[r].kind = k

\* A result that ends an execution of the task for good.
DoneRun(n) ==
    /\ n \in 1..Len(results) /\ results[n].status = "done"
    /\ OfKind("run", TaskOf(n), requests)

\* What is asked for: a run that its reader will accept, a review of a run
\* that is done, or a resume of either after some result of it.
RequestFits(r, reqs) ==
    /\ reqs[r].task \in 1..r
    /\ reqs[reqs[r].task].kind \in {"run", "review"}
    /\ reqs[r].kind \in {"run", "review"} => reqs[r].task = r
    /\ reqs[r].kind = "run" => reqs[r].reply \in Reply /\ Outcome(reqs[r].reply) = "enqueued"
    /\ reqs[r].kind = "review" => DoneRun(reqs[r].about)
    /\ reqs[r].kind = "resume" =>
          \E n \in 1..Len(results) : results[n].req = reqs[r].task /\ results[n].status # "error"

RequestsFit == \A r \in 1..Len(Ahead) : RequestFits(r, Ahead)

AttemptsFit == \A i \in 1..Len(attempts) : attempts[i].outcome = "blocked" => Outcome(attempts[i].reply) = "blocked"

\* Each request is answered once, one request of a task at a time, and none
\* after the task is done.
Answers ==
    /\ \A n \in 1..Len(results) : results[n].req \in 1..Len(requests)
    /\ \A m, n \in 1..Len(results) : results[m].req = results[n].req => m = n
    /\ \A r, s \in 1..Len(requests) :
          Unanswered(r) /\ Unanswered(s) /\ requests[r].task = requests[s].task => r = s
    /\ \A r \in 1..Len(requests) : \A n \in 1..Len(results) :
          Unanswered(r) /\ TaskOf(n) = requests[r].task => results[n].status # "done"
    /\ \A m, n \in 1..Len(results) :
          results[m].status = "done" /\ TaskOf(m) = TaskOf(n) => n <= m

VerdictFits(v) ==
    /\ v.at \in 1..Len(results) /\ results[v.at].status = "done"
    /\ OutcomesAt(v.at) = {IF v.is = "ALLOW" THEN "allow" ELSE "block"}
    /\ OfKind("review", TaskOf(v.at), requests)
    /\ DoneRun(v.about)

ReviewFits(x, reqs) == x # None => OfKind("review", x.req, reqs)

\* The request ids and results a record refers to are there and of its task.
RecordFits(x, reqs) ==
    /\ Requested(x) => OfKind("run", x.execution.req, reqs)
    /\ x.result # None =>
          /\ x.result.at \in 1..Len(results)
          /\ results[x.result.at].status # "error" => OfKind("run", TaskOf(x.result.at), requests)
    /\ ReviewFits(x.review, reqs)
    /\ x.gate # None => ReviewFits(x.gate.review, reqs)
    /\ x.verdict # None => VerdictFits(x.verdict)

RecordsFit == \A x \in {task, routing} : x # None => RecordFits(x, requests)

\* A record's decision is the one on file.
Carries(x, d) == x.decision # None => d # None /\ d.is = x.decision

OneRun(reqs) == \A r, s \in 1..Len(reqs) : OfKind("run", r, reqs) /\ OfKind("run", s, reqs) => r = s
Final(x) == x.decision # None => x.stage = FinalStage(x.decision)

DecisionFits ==
    /\ Settled # None => DoneRun(Settled.at) /\ StopGate(Fact)
    /\ \A x \in {task, routing} : x # None => Carries(x, decided)
    /\ OneRun(requests) /\ task # None => Final(task)

Decides(x) == x.decision # None \/ (x.gate # None /\ x.gate.status = "decided")

\* A record that is about to be written keeps what the one on disk decided.
Rewrites(old, x, reqs, d) ==
    /\ RecordFits(x, reqs) /\ Carries(x, d)
    /\ old # None /\ Decides(old) => Decides(x)
    /\ old # None /\ old.decision # None => x.decision = old.decision

AnyDecides == \E x \in {task, routing} : x # None /\ Decides(x)

\* A result is announced before it is recorded, unless a gate announces it
\* later or has been decided.
Announced(x, notes) == x.result # None => x.result.gated \/ AnyDecides \/ x.result.at \in notes

NotesBefore(i) == told \cup {todo[j].to : j \in {j \in 1..i : todo[j].write = "note"}}

PlanFits ==
    /\ \A i, j \in 1..Len(todo) : todo[i].write = todo[j].write => i = j
    /\ \A i \in 1..Len(todo) :
          /\ todo[i].write \in {"request", "decision"} => i = 1
          /\ todo[i].write = "request" => todo[i].to.kind # "resume"
          /\ todo[i].write = "decision" => decided = None
          /\ todo[i].write = "task" =>
                Rewrites(task, todo[i].to, Ahead, Settled) /\ (OneRun(requests) => Final(todo[i].to))
          /\ todo[i].write = "routing" =>
                /\ Rewrites(routing, todo[i].to, Ahead, Settled)
                /\ Announced(todo[i].to, NotesBefore(i))

IInv ==
    /\ TypeOK /\ Begun /\ RequestsFit /\ AttemptsFit /\ Answers
    /\ RecordsFit /\ DecisionFits /\ PlanFits
    /\ routing # None => Announced(routing, told)

-----------------------------------------------------------------------------
\* Facts about the data.

\* A set of natural numbers that is not empty has a least member.
LEMMA LeastOf ==
    ASSUME NEW T \in SUBSET Nat, T # {}
    PROVE  \E m \in T : \A k \in T : m <= k
<1> DEFINE R == {ss \in Nat \X Nat : ss[1] < ss[2]}
<1>1. IsWellFoundedOn(R, Nat)
  BY NatLessThanWellFounded, Zenon DEF OpToRel
<1>2. PICK m \in T : \A k \in T : <<k, m>> \notin R
  <2> HIDE DEF R
  <2> QED BY <1>1, WFMin
<1>3. \A k \in T : ~(k < m)
  BY <1>2
<1> QED BY <1>3

\* The latest of a non-empty set of results exists.
LEMMA LatestIs ==
    ASSUME NEW n \in Nat, NEW S \in SUBSET (1..n), S # {}
    PROVE  Max(S) \in S /\ \A j \in S : j <= Max(S)
<1> DEFINE T == {n - k : k \in S}
<1>1. T \subseteq Nat /\ T # {}
  <2>1. \A k \in S : n - k \in Nat
    OBVIOUS
  <2>2. T # {}
    BY Zenon
  <2> QED BY <2>1, <2>2
<1>2. PICK x \in T : \A y \in T : x <= y
  <2> HIDE DEF T
  <2> QED BY <1>1, LeastOf
<1>4. \A y \in T : ~(y < x)
  <2>1. \A y \in T : y \in Nat
    BY <1>1
  <2> HIDE DEF T
  <2> QED BY <1>2, <2>1
<1>5. PICK k \in S : x = n - k
  OBVIOUS
<1>6. \A j \in S : k >= j
  <2> SUFFICES ASSUME NEW j \in S PROVE k >= j
    OBVIOUS
  <2>1. ~(n - j < n - k)
    BY <1>4, <1>5
  <2>2. j \in Int /\ k \in Int /\ n \in Int
    OBVIOUS
  <2> HIDE DEF T
  <2> QED BY <2>1, <2>2
<1>7. Max(S) \in S /\ \A j \in S : Max(S) >= j
  BY <1>6 DEF Max
<1> QED BY <1>7

\* The rows and entries are records of the kinds named above.
LEMMA Rows ==
    ASSUME TypeOK
    PROVE  /\ \A n \in 1..Len(results) : results[n] \in Result
           /\ \A r \in 1..Len(requests) : requests[r] \in Request
           /\ \A i \in 1..Len(todo) : todo[i] \in Effect
           /\ \A i \in 1..Len(attempts) : attempts[i] \in Attempt
           /\ Len(results) \in Nat /\ Len(requests) \in Nat /\ Len(todo) \in Nat
  BY DEF TypeOK

\* What a result tells of its controller task.
LEMMA TaskOfIs ==
    ASSUME TypeOK, Answers, NEW n \in 1..Len(results)
    PROVE  /\ results[n].status = "error" => TaskOf(n) = None
           /\ results[n].status # "error" =>
                 TaskOf(n) = requests[results[n].req].task /\ TaskOf(n) \in Nat /\ TaskOf(n) # None
<1>1. results[n].req \in 1..Len(requests)
  BY DEF Answers
<1>2. requests[results[n].req].task \in Nat
  BY <1>1, Rows DEF Request
<1> QED BY <1>2, NoneAssumption DEF TaskOf

-----------------------------------------------------------------------------
\* What stays true while the inbox and the results grow.

Grows ==
    /\ Len(requests) <= Len(requests') /\ \A r \in 1..Len(requests) : requests'[r] = requests[r]
    /\ Len(results) <= Len(results') /\ \A n \in 1..Len(results) : results'[n] = results[n]
    /\ Len(requests') \in Nat /\ Len(results') \in Nat

LEMMA Grown ==
    ASSUME TypeOK, Answers, Grows
    PROVE  /\ \A n \in 1..Len(results) :
                 /\ n \in 1..Len(results') /\ results'[n] = results[n]
                 /\ TaskOf(n)' = TaskOf(n) /\ OutcomesAt(n)' = OutcomesAt(n)
           /\ \A k, r : OfKind(k, r, requests) => OfKind(k, r, requests')
<1>1. \A n \in 1..Len(results) : n \in 1..Len(results') /\ results'[n] = results[n]
  BY Rows DEF Grows
<1>2. \A n \in 1..Len(results) : TaskOf(n)' = TaskOf(n)
  <2> SUFFICES ASSUME NEW n \in 1..Len(results) PROVE TaskOf(n)' = TaskOf(n)
    OBVIOUS
  <2>1. results'[n] = results[n] /\ results[n].req \in 1..Len(requests)
    BY <1>1 DEF Answers
  <2>2. requests'[results[n].req] = requests[results[n].req]
    BY <2>1 DEF Grows
  <2> QED BY <2>1, <2>2 DEF TaskOf
<1>3. \A n \in 1..Len(results) : OutcomesAt(n)' = OutcomesAt(n)
  <2> SUFFICES ASSUME NEW n \in 1..Len(results) PROVE OutcomesAt(n)' = OutcomesAt(n)
    OBVIOUS
  <2>1. \A m \in 1..n : m \in 1..Len(results)
    BY Rows
  <2>2. \A m \in 1..n : TaskOf(m)' = TaskOf(m) /\ results'[m] = results[m]
    BY <1>1, <1>2, <2>1
  <2>3. TaskOf(n)' = TaskOf(n)
    BY <1>2
  <2>4. {m \in 1..n : TaskOf(m)' = TaskOf(n)'} = {m \in 1..n : TaskOf(m) = TaskOf(n)}
    BY <2>2, <2>3
  <2> DEFINE M == {m \in 1..n : TaskOf(m) = TaskOf(n)}
  <2>5. {results'[m].outcome : m \in M} = {results[m].outcome : m \in M}
    BY <2>2
  <2> QED BY <2>4, <2>5 DEF OutcomesAt
<1>4. ASSUME NEW k, NEW r, OfKind(k, r, requests) PROVE OfKind(k, r, requests')
  <2>1. r \in 1..Len(requests') /\ requests'[r] = requests[r]
    BY <1>4, Rows DEF OfKind, Grows
  <2> QED BY <2>1, <1>4 DEF OfKind
<1> QED BY <1>1, <1>2, <1>3, <1>4

LEMMA RunGrown ==
    ASSUME TypeOK, Answers, Grows, NEW n, DoneRun(n)
    PROVE  DoneRun(n)'
<1>1. n \in 1..Len(results) /\ TaskOf(n)' = TaskOf(n) /\ n \in 1..Len(results') /\ results'[n] = results[n]
  BY Grown DEF DoneRun
<1>2. OfKind("run", TaskOf(n), requests')
  BY Grown DEF DoneRun
<1> QED BY <1>1, <1>2 DEF DoneRun

LEMMA VerdictGrown ==
    ASSUME TypeOK, Answers, Grows, NEW v, VerdictFits(v)
    PROVE  VerdictFits(v)'
<1>1. /\ v.at \in 1..Len(results) /\ v.at \in 1..Len(results') /\ results'[v.at] = results[v.at]
      /\ TaskOf(v.at)' = TaskOf(v.at) /\ OutcomesAt(v.at)' = OutcomesAt(v.at)
  BY Grown DEF VerdictFits
<1>2. OfKind("review", TaskOf(v.at), requests') /\ DoneRun(v.about)'
  BY Grown, RunGrown DEF VerdictFits
<1> QED BY <1>1, <1>2 DEF VerdictFits

LEMMA RecordGrown ==
    ASSUME TypeOK, Answers, Grows, NEW reqs, NEW more, NEW x, RecordFits(x, reqs),
           \A k, r : OfKind(k, r, reqs) => OfKind(k, r, more)
    PROVE  RecordFits(x, more)'
<1>1. Requested(x) => OfKind("run", x.execution.req, more)
  BY DEF RecordFits
<1>2. ASSUME x.result # None
      PROVE  /\ x.result.at \in 1..Len(results')
             /\ results'[x.result.at].status # "error" => OfKind("run", TaskOf(x.result.at)', requests')
  <2>1. x.result.at \in 1..Len(results)
    BY <1>2 DEF RecordFits
  <2> QED BY <2>1, <1>2, Grown DEF RecordFits
<1>3. ReviewFits(x.review, more) /\ (x.gate # None => ReviewFits(x.gate.review, more))
  BY DEF RecordFits, ReviewFits
<1>4. x.verdict # None => VerdictFits(x.verdict)'
  BY VerdictGrown DEF RecordFits
<1> QED BY <1>1, <1>2, <1>3, <1>4 DEF RecordFits

LEMMA RequestGrown ==
    ASSUME TypeOK, Answers, Grows, ask' = ask, NEW reqs, NEW more, NEW r \in Nat,
           RequestFits(r, reqs), \A s \in 1..r : more[s] = reqs[s]
    PROVE  RequestFits(r, more)'
<1>1. reqs[r].task \in 1..r /\ r \in 1..r
  BY DEF RequestFits
<1>2. more[r] = reqs[r] /\ more[reqs[r].task] = reqs[reqs[r].task]
  BY <1>1
<1>3. \A reply : Outcome(reply)' = Outcome(reply)
  BY DEF Outcome, Fact
<1>4. reqs[r].kind = "review" => DoneRun(reqs[r].about)'
  BY RunGrown DEF RequestFits
<1>5. reqs[r].kind = "resume" =>
        \E n \in 1..Len(results') : results'[n].req = reqs[r].task /\ results'[n].status # "error"
  <2> SUFFICES ASSUME reqs[r].kind = "resume"
               PROVE  \E n \in 1..Len(results') :
                         results'[n].req = reqs[r].task /\ results'[n].status # "error"
    OBVIOUS
  <2>1. PICK n \in 1..Len(results) : results[n].req = reqs[r].task /\ results[n].status # "error"
    BY DEF RequestFits
  <2>2. n \in 1..Len(results') /\ results'[n] = results[n]
    BY Grown
  <2> QED BY <2>1, <2>2
<1> QED BY <1>1, <1>2, <1>3, <1>4, <1>5 DEF RequestFits

\* A command that computed its effects and performed none of them yet.
LEMMA Commanded ==
    ASSUME IInv, TypeOK', AttemptsFit', todo = <<>>, task # None,
           UNCHANGED <<ask, task, routing, decided, requests, results, told>>,
           \A i, j \in 1..Len(todo') : todo'[i].write = todo'[j].write => i = j,
           \A i \in 1..Len(todo') :
              /\ todo'[i].write \in {"request", "decision"} => i = 1
              /\ todo'[i].write = "request" =>
                    /\ RequestFits(Len(requests) + 1, Append(requests, todo'[i].to))
                    /\ todo'[i].to.kind # "resume"
              /\ todo'[i].write = "decision" =>
                    decided = None /\ DoneRun(todo'[i].to.at) /\ StopGate(Fact)
              /\ todo'[i].write = "task" =>
                    /\ Rewrites(task, todo'[i].to, Ahead', Settled')
                    /\ OneRun(requests) => Final(todo'[i].to)
              /\ todo'[i].write = "routing" =>
                    /\ Rewrites(routing, todo'[i].to, Ahead', Settled')
                    /\ Announced(todo'[i].to, NotesBefore(i)')
    PROVE  IInv'
<1>1. Grows /\ TypeOK /\ Answers /\ Ahead = requests /\ Settled = decided
  BY Rows DEF IInv, Grows, Ahead, Settled
<1>2. \A i \in 1..Len(todo') : i \in Nat
  OBVIOUS
<1>3. todo' # <<>> => 1 \in 1..Len(todo')
  BY DEF TypeOK
<1>4. Begun'
  BY DEF IInv, Begun
<1>5. Answers'
  BY DEF IInv, Answers, Unanswered, Processed, TaskOf
<1>6. RecordsFit'
  <2> SUFFICES ASSUME NEW x \in {task, routing}, x # None PROVE RecordFits(x, requests)'
    BY DEF RecordsFit
  <2>1. RecordFits(x, requests) /\ requests' = requests
    BY DEF IInv, RecordsFit
  <2> QED BY <2>1, <1>1, RecordGrown
<1>7. RequestsFit'
  <2> SUFFICES ASSUME NEW r \in 1..Len(Ahead') PROVE RequestFits(r, Ahead)'
    BY DEF RequestsFit
  <2>1. CASE r \in 1..Len(requests)
    <3>1. RequestFits(r, requests)
      BY <1>1, <2>1 DEF IInv, RequestsFit
    <3>2. \A s \in 1..r : Ahead'[s] = requests[s]
      BY <2>1, Rows, <1>1 DEF Ahead, TypeOK
    <3> QED BY <3>1, <3>2, <1>1, RequestGrown
  <2>2. CASE r \notin 1..Len(requests)
    <3>1. /\ todo' # <<>> /\ todo'[1].write = "request" /\ Ahead' = Append(requests, todo'[1].to)
          /\ r = Len(requests) + 1
      BY <2>2, <1>1, Rows DEF Ahead, TypeOK
    <3>2. RequestFits(r, Ahead')
      BY <3>1, <1>3
    <3> QED BY <3>2, <1>1, RequestGrown, Rows
  <2> QED BY <2>1, <2>2
<1>8. DecisionFits'
  <2>1. Settled' # None => DoneRun(Settled.at)' /\ StopGate(Fact)'
    <3> SUFFICES ASSUME Settled' # None PROVE DoneRun(Settled.at)' /\ StopGate(Fact)'
      OBVIOUS
    <3>1. DoneRun(Settled'.at) /\ StopGate(Fact)
      <4>1. CASE todo' # <<>> /\ todo'[1].write = "decision"
        BY <4>1, <1>3 DEF Settled
      <4>2. CASE ~(todo' # <<>> /\ todo'[1].write = "decision")
        <5>1. Settled' = Settled
          BY <4>2, <1>1 DEF Settled
        <5> QED BY <5>1 DEF IInv, DecisionFits
      <4> QED BY <4>1, <4>2
    <3>2. DoneRun(Settled.at)'
      BY <3>1, <1>1, RunGrown
    <3>3. StopGate(Fact)'
      BY <3>1 DEF StopGate, Fact
    <3> QED BY <3>2, <3>3
  <2> QED BY <2>1 DEF IInv, DecisionFits, Carries, OneRun, OfKind, Final
<1>9. PlanFits'
  <2>1. ASSUME NEW i \in 1..Len(todo'), NEW old \in {task, routing}, NEW x,
               Rewrites(old, x, Ahead', Settled')
        PROVE  Rewrites(old, x, Ahead, Settled)'
    <3>1. RecordFits(x, Ahead)'
      BY <2>1, <1>1, RecordGrown DEF Rewrites
    <3> QED BY <3>1, <2>1 DEF Rewrites, Carries, Decides
  <2>2. ASSUME NEW i \in 1..Len(todo')
        PROVE  /\ todo'[i].write = "task" =>
                    /\ Rewrites(task, todo[i].to, Ahead, Settled)'
                    /\ OneRun(requests') => Final(todo'[i].to)
               /\ todo'[i].write = "routing" =>
                    /\ Rewrites(routing, todo[i].to, Ahead, Settled)'
                    /\ Announced(todo[i].to, NotesBefore(i))'
    <3>1. todo'[i].write = "task" => Rewrites(task, todo[i].to, Ahead, Settled)'
      BY <2>1
    <3>2. todo'[i].write = "routing" => Rewrites(routing, todo[i].to, Ahead, Settled)'
      BY <2>1
    <3>3. todo'[i].write = "routing" => Announced(todo[i].to, NotesBefore(i))'
      BY DEF Announced, AnyDecides, Decides
    <3> QED BY <3>1, <3>2, <3>3
  <2> QED BY <2>2 DEF PlanFits
<1>10. (routing # None => Announced(routing, told))'
  BY DEF IInv, Announced, AnyDecides, Decides
<1> QED BY <1>4, <1>5, <1>6, <1>7, <1>8, <1>9, <1>10 DEF IInv

-----------------------------------------------------------------------------
\* The steps that perform, drop or answer what a command asked for.

LEMMA TypePerform ==
    ASSUME TypeOK, Perform
    PROVE  TypeOK'
<1> DEFINE e == Head(todo)
<1>1. todo # <<>> /\ todo \in Seq(Effect) /\ e \in Effect /\ todo' = Tail(todo)
  BY DEF TypeOK, Perform, Idle
<1>2. /\ e.write = "task" => e.to \in Record
      /\ e.write = "routing" => e.to \in Record
      /\ e.write = "decision" => e.to \in DecisionFile
      /\ e.write = "request" => e.to \in Request
      /\ e.write = "note" => e.to \in Nat
  BY <1>1 DEF Effect
<1>3. /\ task' = IF e.write = "task" THEN e.to ELSE task
      /\ routing' = IF e.write = "routing" THEN e.to ELSE routing
      /\ decided' = IF e.write = "decision" THEN e.to ELSE decided
      /\ requests' = IF e.write = "request" THEN Append(requests, e.to) ELSE requests
      /\ told' = IF e.write = "note" THEN told \cup {e.to} ELSE told
      /\ UNCHANGED <<ask, attempts, results, deaths>>
  BY DEF Perform
<1> HIDE DEF e
<1>4. task' \in Opt(Record) /\ routing' \in Opt(Record) /\ decided' \in Opt(DecisionFile)
  BY <1>2, <1>3 DEF TypeOK, Opt
<1>5. requests' \in Seq(Request)
  BY <1>2, <1>3 DEF TypeOK
<1>6. told' \subseteq Nat
  BY <1>2, <1>3 DEF TypeOK
<1>7. todo' \in Seq(Effect)
  BY <1>1
<1> QED BY <1>3, <1>4, <1>5, <1>6, <1>7 DEF TypeOK

\* What the effect in hand leaves behind: the next one is neither a request
\* nor the decision's file, and each of the others moves up.
LEMMA Performed ==
    ASSUME IInv, Perform
    PROVE  /\ todo # <<>> /\ 1 \in 1..Len(todo)
           /\ Ahead' = requests' /\ Settled' = decided'
           /\ requests' = Ahead /\ decided' = Settled
           /\ Len(todo') = Len(todo) - 1
           /\ \A i \in 1..Len(todo') : todo'[i] = todo[i + 1] /\ i + 1 \in 1..Len(todo) /\ i + 1 # 1
           /\ Grows
<1>1. todo # <<>> /\ todo \in Seq(Effect) /\ todo' = Tail(todo) /\ Len(todo) \in Nat
  BY DEF IInv, TypeOK, Perform, Idle
<1>2. 1 \in 1..Len(todo) /\ Head(todo) = todo[1] /\ Len(todo') = Len(todo) - 1
  BY <1>1
<1>3. \A i \in 1..Len(todo') : todo'[i] = todo[i + 1] /\ i + 1 \in 1..Len(todo) /\ i + 1 # 1
  BY <1>1, <1>2
<1>4. todo' # <<>> => todo'[1].write \notin {"request", "decision"}
  <2> SUFFICES ASSUME todo' # <<>> PROVE todo'[1].write \notin {"request", "decision"}
    OBVIOUS
  <2>1. 1 \in 1..Len(todo')
    BY <1>1
  <2>2. todo'[1] = todo[2] /\ 2 \in 1..Len(todo)
    BY <1>3, <2>1
  <2> QED BY <2>2 DEF IInv, PlanFits
<1>5. Ahead' = requests' /\ Settled' = decided'
  BY <1>4 DEF Ahead, Settled
<1>6. requests' = Ahead /\ decided' = Settled
  BY <1>1, <1>2 DEF Perform, Ahead, Settled
<1>7. Grows
  <2>1. requests' = requests \/ requests' = Append(requests, Head(todo).to)
    BY DEF Perform
  <2>2. results' = results
    BY DEF Perform
  <2>3. TypeOK /\ Len(requests) \in Nat /\ Len(results) \in Nat /\ requests \in Seq(Request)
    BY Rows DEF IInv, TypeOK
  <2>4. Len(requests) <= Len(requests') /\ Len(requests') \in Nat
    BY <2>1, <2>3
  <2>5. \A r \in 1..Len(requests) : requests'[r] = requests[r]
    BY <2>1, <2>3
  <2> QED BY <2>2, <2>3, <2>4, <2>5 DEF Grows
<1> QED BY <1>1, <1>2, <1>3, <1>5, <1>6, <1>7

LEMMA PerformDecides ==
    ASSUME IInv, Perform, AnyDecides
    PROVE  AnyDecides'
<1>1. /\ todo[1].write = "task" => Rewrites(task, todo[1].to, Ahead, Settled)
      /\ todo[1].write = "routing" => Rewrites(routing, todo[1].to, Ahead, Settled)
  BY Performed DEF IInv, PlanFits
<1>2. /\ task' = IF todo[1].write = "task" THEN todo[1].to ELSE task
      /\ routing' = IF todo[1].write = "routing" THEN todo[1].to ELSE routing
  BY Performed DEF Perform, IInv, TypeOK
<1>3. /\ todo[1].write = "task" => todo[1].to # None
      /\ todo[1].write = "routing" => todo[1].to # None
  BY Performed, Rows, NoneAssumption DEF IInv, Effect
<1>4. CASE task # None /\ Decides(task)
  <2>1. task' # None /\ Decides(task)'
    BY <1>1, <1>2, <1>3, <1>4 DEF Rewrites, Decides
  <2> QED BY <2>1 DEF AnyDecides
<1>5. CASE routing # None /\ Decides(routing)
  <2>1. routing' # None /\ Decides(routing)'
    BY <1>1, <1>2, <1>3, <1>5 DEF Rewrites, Decides
  <2> QED BY <2>1 DEF AnyDecides
<1> QED BY <1>4, <1>5 DEF AnyDecides

\* A request of its own task is put into the inbox: it waits for its answer.
LEMMA AnswersEnqueue ==
    ASSUME TypeOK, Answers, RequestsFit, Len(requests) <= Len(Ahead), NEW e \in Request,
           requests' = Append(requests, e), results' = results,
           Ahead = requests', e.kind # "resume"
    PROVE  Answers'
<1> DEFINE R == Len(requests) + 1
<1>1. /\ Len(requests') = R /\ requests'[R] = e /\ R \in Nat
      /\ \A r \in 1..Len(requests) : requests'[r] = requests[r] /\ r # R /\ r < R
      /\ \A r \in 1..Len(requests') : r \in 1..Len(requests) \/ r = R
      /\ 1..Len(requests) \subseteq 1..Len(requests')
  BY DEF TypeOK
<1>2. e.kind \in {"run", "review"} /\ e.task = R
  <2>1. RequestFits(R, requests')
    BY <1>1 DEF RequestsFit
  <2>2. e.kind \in {"run", "review"}
    BY DEF Request
  <2> QED BY <2>1, <2>2, <1>1 DEF RequestFits
<1>3. \A n \in 1..Len(results) : results[n].req \in 1..Len(requests) /\ TaskOf(n)' = TaskOf(n)
  BY <1>1 DEF Answers, TaskOf
<1>4. \A r \in 1..Len(requests) : Unanswered(r)' <=> Unanswered(r)
  BY <1>1 DEF Unanswered, Processed
<1>5. \A r \in 1..Len(requests) : requests[r].task # R
  <2> SUFFICES ASSUME NEW r \in 1..Len(requests) PROVE requests[r].task # R
    OBVIOUS
  <2>1. RequestFits(r, requests')
    BY <1>1 DEF RequestsFit
  <2>2. requests'[r].task \in 1..r /\ requests'[r] = requests[r] /\ r < R
    BY <2>1, <1>1 DEF RequestFits
  <2> QED BY <2>2, <1>1
<1>6. \A n \in 1..Len(results) : TaskOf(n) # R
  <2> SUFFICES ASSUME NEW n \in 1..Len(results) PROVE TaskOf(n) # R
    OBVIOUS
  <2>1. CASE results[n].status = "error"
    BY <2>1, <1>1, TaskOfIs, NoneAssumption
  <2>2. CASE results[n].status # "error"
    BY <2>2, <1>3, <1>5, TaskOfIs
  <2> QED BY <2>1, <2>2
<1> HIDE DEF R
<1>7. \A n \in 1..Len(results') : results'[n].req \in 1..Len(requests')
  BY <1>1, <1>3
<1>8. \A m, n \in 1..Len(results') : results'[m].req = results'[n].req => m = n
  BY DEF Answers
<1>9. \A r, s \in 1..Len(requests') :
         Unanswered(r)' /\ Unanswered(s)' /\ requests'[r].task = requests'[s].task => r = s
  <2> SUFFICES ASSUME NEW r \in 1..Len(requests'), NEW s \in 1..Len(requests'),
                      Unanswered(r)', Unanswered(s)', requests'[r].task = requests'[s].task
               PROVE  r = s
    OBVIOUS
  <2>1. CASE r = R
    BY <2>1, <1>1, <1>2, <1>5
  <2>2. CASE s = R
    BY <2>2, <1>1, <1>2, <1>5
  <2>3. CASE r \in 1..Len(requests) /\ s \in 1..Len(requests)
    BY <2>3, <1>1, <1>4 DEF Answers
  <2> QED BY <2>1, <2>2, <2>3, <1>1
<1>10. \A r \in 1..Len(requests') : \A n \in 1..Len(results') :
          Unanswered(r)' /\ TaskOf(n)' = requests'[r].task => results'[n].status # "done"
  <2> SUFFICES ASSUME NEW r \in 1..Len(requests'), NEW n \in 1..Len(results'),
                      Unanswered(r)', TaskOf(n)' = requests'[r].task
               PROVE  results'[n].status # "done"
    OBVIOUS
  <2>1. r # R
    BY <1>1, <1>2, <1>3, <1>6
  <2>2. r \in 1..Len(requests) /\ Unanswered(r) /\ TaskOf(n) = requests[r].task
    BY <2>1, <1>1, <1>3, <1>4
  <2> QED BY <2>2 DEF Answers
<1>11. \A m, n \in 1..Len(results') :
          results'[m].status = "done" /\ TaskOf(m)' = TaskOf(n)' => n <= m
  BY <1>3 DEF Answers
<1> QED BY <1>7, <1>8, <1>9, <1>10, <1>11 DEF Answers

LEMMA PerformIInv ==
    ASSUME IInv, Perform
    PROVE  IInv'
<1> DEFINE e == todo[1]
<1>1. /\ TypeOK /\ Answers /\ TypeOK' /\ Grows
      /\ Ahead' = requests' /\ Settled' = decided' /\ requests' = Ahead /\ decided' = Settled
  BY TypePerform, Performed DEF IInv
<1>2. /\ task' = IF e.write = "task" THEN e.to ELSE task
      /\ routing' = IF e.write = "routing" THEN e.to ELSE routing
      /\ told' = IF e.write = "note" THEN told \cup {e.to} ELSE told
      /\ requests' = IF e.write = "request" THEN Append(requests, e.to) ELSE requests
      /\ decided' = IF e.write = "decision" THEN e.to ELSE decided
      /\ UNCHANGED <<ask, attempts, results, deaths>>
  <2>1. Head(todo) = e
    BY Performed DEF IInv, TypeOK
  <2> QED BY <2>1 DEF Perform
<1>3. /\ e.write = "task" =>
           /\ Rewrites(task, e.to, Ahead, Settled) /\ (OneRun(requests) => Final(e.to))
      /\ e.write = "routing" =>
           Rewrites(routing, e.to, Ahead, Settled) /\ Announced(e.to, NotesBefore(1))
      /\ e.write = "decision" => decided = None
      /\ e.write = "request" => e.to.kind # "resume"
  BY Performed DEF IInv, PlanFits
<1>4. e \in Effect /\ (e.write \in {"task", "routing"} => e.to # None)
      /\ (e.write = "request" => e.to \in Request)
  BY Performed, Rows, NoneAssumption DEF IInv, Effect
<1>5. \A k, r : OfKind(k, r, requests) => OfKind(k, r, requests')
  BY <1>1, Grown
<1> HIDE DEF e
<1>6. Begun'
  <2>1. task # None /\ ask # None
    BY Performed DEF IInv, Begun
  <2> QED BY <2>1, <1>2, <1>4 DEF Begun
<1>7. RequestsFit'
  <2> SUFFICES ASSUME NEW r \in 1..Len(Ahead') PROVE RequestFits(r, Ahead)'
    BY DEF RequestsFit
  <2>1. RequestFits(r, Ahead) /\ r \in Nat
    BY <1>1 DEF IInv, RequestsFit
  <2>2. \A s \in 1..r : Ahead'[s] = Ahead[s]
    BY <1>1
  <2> QED BY <2>1, <2>2, <1>1, <1>2, RequestGrown
<1>8. AttemptsFit'
  BY <1>2 DEF IInv, AttemptsFit, Outcome, Fact
<1>9. Answers'
  <2>1. CASE e.write = "request"
    <3>1. Len(requests) <= Len(Ahead)
      BY <1>1 DEF Grows
    <3> QED BY <2>1, <3>1, <1>1, <1>2, <1>3, <1>4, AnswersEnqueue DEF IInv
  <2>2. CASE e.write # "request"
    BY <2>2, <1>2 DEF IInv, Answers, Unanswered, Processed, TaskOf
  <2> QED BY <2>1, <2>2
<1>10. RecordsFit'
  <2>1. task' # None => RecordFits(task, requests)'
    <3>1. CASE e.write = "task"
      BY <3>1, <1>1, <1>2, <1>3, RecordGrown DEF Rewrites
    <3>2. CASE e.write # "task"
      BY <3>2, <1>1, <1>2, <1>5, RecordGrown DEF IInv, RecordsFit
    <3> QED BY <3>1, <3>2
  <2>2. routing' # None => RecordFits(routing, requests)'
    <3>1. CASE e.write = "routing"
      BY <3>1, <1>1, <1>2, <1>3, RecordGrown DEF Rewrites
    <3>2. CASE e.write # "routing"
      BY <3>2, <1>1, <1>2, <1>5, RecordGrown DEF IInv, RecordsFit
    <3> QED BY <3>1, <3>2
  <2> QED BY <2>1, <2>2 DEF RecordsFit
<1>11. OneRun(requests') => OneRun(requests)
  <2>1. 1..Len(requests) \subseteq 1..Len(requests')
    BY <1>1 DEF Grows
  <2> QED BY <2>1, <1>5 DEF OneRun
<1>12. DecisionFits'
  <2>1. Settled' # None => DoneRun(Settled.at)' /\ StopGate(Fact)'
    <3> SUFFICES ASSUME Settled' # None PROVE DoneRun(Settled.at)' /\ StopGate(Fact)'
      OBVIOUS
    <3>1. Settled' = Settled
      BY <1>1
    <3>2. DoneRun(Settled.at) /\ StopGate(Fact)
      BY <3>1 DEF IInv, DecisionFits
    <3>3. StopGate(Fact)'
      BY <3>2, <1>2 DEF StopGate, Fact
    <3> QED BY <3>1, <3>2, <3>3, <1>1, RunGrown
  <2>2. task' # None => Carries(task', decided')
    BY <1>1, <1>2, <1>3 DEF IInv, DecisionFits, Carries, Rewrites
  <2>3. routing' # None => Carries(routing', decided')
    BY <1>1, <1>2, <1>3 DEF IInv, DecisionFits, Carries, Rewrites
  <2>4. OneRun(requests') /\ task' # None => Final(task')
    BY <1>2, <1>3, <1>11 DEF IInv, DecisionFits
  <2> QED BY <2>1, <2>2, <2>3, <2>4 DEF DecisionFits, Carries, OneRun, OfKind, Final
<1>13. PlanFits'
  <2>1. \A i \in 1..Len(todo') :
           /\ todo'[i] = todo[i + 1] /\ i + 1 \in 1..Len(todo)
           /\ todo'[i].write \notin {"request", "decision", e.write}
    <3> SUFFICES ASSUME NEW i \in 1..Len(todo')
                 PROVE  /\ todo'[i] = todo[i + 1] /\ i + 1 \in 1..Len(todo)
                        /\ todo'[i].write \notin {"request", "decision", e.write}
      OBVIOUS
    <3>1. todo'[i] = todo[i + 1] /\ i + 1 \in 1..Len(todo) /\ 1 \in 1..Len(todo) /\ i + 1 # 1
      BY Performed
    <3>2. todo[i + 1].write # e.write
      BY <3>1 DEF IInv, PlanFits, e
    <3> QED BY <3>1, <3>2 DEF IInv, PlanFits
  <2>2. \A i, j \in 1..Len(todo') : todo'[i].write = todo'[j].write => i = j
    <3> SUFFICES ASSUME NEW i \in 1..Len(todo'), NEW j \in 1..Len(todo'), todo'[i].write = todo'[j].write
                 PROVE  i = j
      OBVIOUS
    <3>1. i + 1 = j + 1
      BY <2>1 DEF IInv, PlanFits
    <3> QED BY <3>1
  <2>3. ASSUME NEW i \in 1..Len(todo'), todo'[i].write = "task"
        PROVE  Rewrites(task, todo[i].to, Ahead, Settled)' /\ (OneRun(requests') => Final(todo'[i].to))
    <3>1. /\ Rewrites(task, todo'[i].to, Ahead, Settled) /\ (OneRun(requests) => Final(todo'[i].to))
          /\ task' = task
      BY <2>1, <2>3, <1>2 DEF IInv, PlanFits
    <3>2. RecordFits(todo[i].to, Ahead)'
      BY <3>1, <1>1, RecordGrown DEF Rewrites
    <3> QED BY <3>1, <3>2, <1>1, <1>11 DEF Rewrites, Carries, Decides
  <2>4. ASSUME NEW i \in 1..Len(todo'), todo'[i].write = "routing"
        PROVE  Rewrites(routing, todo[i].to, Ahead, Settled)' /\ Announced(todo[i].to, NotesBefore(i))'
    <3>1. /\ Rewrites(routing, todo'[i].to, Ahead, Settled) /\ Announced(todo'[i].to, NotesBefore(i + 1))
          /\ routing' = routing
      BY <2>1, <2>4, <1>2 DEF IInv, PlanFits
    <3>2. RecordFits(todo[i].to, Ahead)'
      BY <3>1, <1>1, RecordGrown DEF Rewrites
    <3>3. NotesBefore(i + 1) \subseteq NotesBefore(i)'
      <4> SUFFICES ASSUME NEW n \in NotesBefore(i + 1) PROVE n \in NotesBefore(i)'
        OBVIOUS
      <4>1. CASE n \in told
        BY <4>1, <1>2 DEF NotesBefore
      <4>2. CASE n \notin told
        <5>1. PICK j \in 1..(i + 1) : todo[j].write = "note" /\ n = todo[j].to
          BY <4>2 DEF NotesBefore
        <5>2. CASE j = 1
          BY <5>1, <5>2, <1>2 DEF NotesBefore, e
        <5>3. CASE j # 1
          <6>1. j - 1 \in 1..i /\ j - 1 \in 1..Len(todo') /\ (j - 1) + 1 = j
            BY <5>3, Rows, <1>1
          <6>2. todo'[j - 1] = todo[j]
            BY <6>1, <2>1
          <6> QED BY <5>1, <6>1, <6>2 DEF NotesBefore
        <5> QED BY <5>2, <5>3
      <4> QED BY <4>1, <4>2
    <3>4. Announced(todo[i].to, NotesBefore(i))'
      BY <3>1, <3>3, PerformDecides DEF Announced
    <3> QED BY <3>1, <3>2, <3>4, <1>1 DEF Rewrites, Carries, Decides
  <2> QED BY <2>1, <2>2, <2>3, <2>4 DEF PlanFits
<1>14. (routing # None => Announced(routing, told))'
  <2>1. CASE e.write = "routing"
    <3>1. NotesBefore(1) = told
      BY <2>1 DEF NotesBefore, e
    <3> QED BY <2>1, <3>1, <1>2, <1>3, PerformDecides DEF Announced
  <2>2. CASE e.write # "routing"
    BY <2>2, <1>2, PerformDecides DEF IInv, Announced
  <2> QED BY <2>1, <2>2
<1> QED BY <1>1, <1>6, <1>7, <1>8, <1>9, <1>10, <1>12, <1>13, <1>14 DEF IInv

LEMMA DieIInv ==
    ASSUME IInv, Die
    PROVE  IInv'
<1>1. /\ todo' = <<>> /\ deaths' = deaths + 1
      /\ UNCHANGED <<ask, task, routing, decided, attempts, requests, results, told>>
  BY DEF Die
<1>2. TypeOK /\ TypeOK' /\ Answers /\ Grows
  BY <1>1, Rows DEF IInv, TypeOK, Grows
<1>3. Ahead' = requests /\ Settled' = decided /\ Len(todo') = 0
  BY <1>1 DEF Ahead, Settled
<1>4. RequestsFit'
  <2> SUFFICES ASSUME NEW r \in 1..Len(Ahead') PROVE RequestFits(r, Ahead)'
    BY DEF RequestsFit
  <2>1. r \in 1..Len(requests) /\ r \in Nat
    BY <1>3
  <2>2. r \in 1..Len(Ahead) /\ \A s \in 1..r : Ahead'[s] = Ahead[s]
    <3>1. CASE Ahead = requests
      BY <3>1, <2>1, <1>3
    <3>2. CASE Ahead # requests
      <4>1. Ahead = Append(requests, todo[1].to)
        BY <3>2 DEF Ahead
      <4> QED BY <4>1, <2>1, <1>2, <1>3 DEF TypeOK
    <3> QED BY <3>1, <3>2
  <2>3. RequestFits(r, Ahead)
    BY <2>2 DEF IInv, RequestsFit
  <2> QED BY <2>1, <2>2, <2>3, <1>1, <1>2, RequestGrown
<1>5. AttemptsFit' /\ Begun'
  BY <1>1 DEF IInv, AttemptsFit, Outcome, Fact, Begun
<1>6. Answers'
  BY <1>1 DEF IInv, Answers, Unanswered, Processed, TaskOf
<1>7. RecordsFit'
  <2> SUFFICES ASSUME NEW x \in {task, routing}, x # None PROVE RecordFits(x, requests)'
    BY <1>1 DEF RecordsFit
  <2>1. RecordFits(x, requests) /\ requests' = requests
    BY <1>1 DEF IInv, RecordsFit
  <2> QED BY <2>1, <1>2, RecordGrown
<1>8. DecisionFits'
  <2>1. decided # None => DoneRun(decided.at) /\ StopGate(Fact)
    BY DEF IInv, DecisionFits, Settled, PlanFits, TypeOK
  <2>2. Settled' # None => DoneRun(Settled.at)' /\ StopGate(Fact)'
    BY <2>1, <1>1, <1>2, <1>3, RunGrown DEF StopGate, Fact
  <2> QED BY <2>2, <1>1 DEF IInv, DecisionFits, Carries, OneRun, OfKind, Final
<1>9. PlanFits'
  BY <1>3 DEF PlanFits
<1>10. (routing # None => Announced(routing, told))'
  BY <1>1 DEF IInv, Announced, AnyDecides, Decides
<1> QED BY <1>2, <1>4, <1>5, <1>6, <1>7, <1>8, <1>9, <1>10 DEF IInv

\* A step of the daemon leaves the records and the effects alone.
LEMMA DaemonIInv ==
    ASSUME IInv, Grows, TypeOK', Answers', RequestsFit',
           UNCHANGED <<ask, task, routing, decided, attempts, told, todo>>,
           ask = None => results' = results /\ requests' = requests,
           \A k, r : OfKind(k, r, Ahead) => OfKind(k, r, Ahead')
    PROVE  IInv'
<1>1. TypeOK /\ Answers /\ Settled' = Settled
  BY DEF IInv, Settled
<1>2. \A k, r : OfKind(k, r, requests) => OfKind(k, r, requests')
  BY <1>1, Grown
<1>3. OneRun(requests') => OneRun(requests)
  <2>1. 1..Len(requests) \subseteq 1..Len(requests')
    BY DEF Grows
  <2> QED BY <2>1, <1>2 DEF OneRun
<1>4. Begun' /\ AttemptsFit'
  BY DEF IInv, Begun, AttemptsFit, Outcome, Fact
<1>5. RecordsFit'
  <2> SUFFICES ASSUME NEW x \in {task, routing}, x # None PROVE RecordFits(x, requests)'
    BY DEF RecordsFit
  <2>1. RecordFits(x, requests)
    BY DEF IInv, RecordsFit
  <2> QED BY <2>1, <1>1, <1>2, RecordGrown
<1>6. DecisionFits'
  <2>1. Settled' # None => DoneRun(Settled.at)' /\ StopGate(Fact)'
    <3> SUFFICES ASSUME Settled' # None PROVE DoneRun(Settled.at)' /\ StopGate(Fact)'
      OBVIOUS
    <3>1. DoneRun(Settled.at) /\ StopGate(Fact)
      BY <1>1 DEF IInv, DecisionFits
    <3>2. StopGate(Fact)'
      BY <3>1 DEF StopGate, Fact
    <3> QED BY <3>1, <3>2, <1>1, RunGrown
  <2>2. OneRun(requests') /\ task' # None => Final(task')
    BY <1>3 DEF IInv, DecisionFits
  <2> QED BY <2>1, <2>2 DEF IInv, DecisionFits, Carries, OneRun, OfKind, Final
<1>7. PlanFits'
  <2>1. ASSUME NEW old, NEW x, Rewrites(old, x, Ahead, Settled)
        PROVE  Rewrites(old, x, Ahead, Settled)'
    <3>1. RecordFits(x, Ahead)'
      BY <2>1, <1>1, RecordGrown DEF Rewrites
    <3> QED BY <2>1, <3>1, <1>1 DEF Rewrites, Carries, Decides
  <2>2. ASSUME NEW i \in 1..Len(todo)
        PROVE  /\ todo[i].write = "task" =>
                    Rewrites(task, todo[i].to, Ahead, Settled)' /\ (OneRun(requests') => Final(todo[i].to))
               /\ todo[i].write = "routing" =>
                    Rewrites(routing, todo[i].to, Ahead, Settled)' /\ Announced(todo[i].to, NotesBefore(i))'
    <3>1. todo[i].write = "task" =>
             Rewrites(task, todo[i].to, Ahead, Settled)' /\ (OneRun(requests') => Final(todo[i].to))
      BY <2>1, <1>3 DEF IInv, PlanFits
    <3>2. todo[i].write = "routing" =>
             Rewrites(routing, todo[i].to, Ahead, Settled)' /\ Announced(todo[i].to, NotesBefore(i))'
      <4>1. todo[i].write = "routing" =>
               Rewrites(routing, todo[i].to, Ahead, Settled) /\ Announced(todo[i].to, NotesBefore(i))
        BY DEF IInv, PlanFits
      <4>2. NotesBefore(i)' = NotesBefore(i)
        BY DEF NotesBefore
      <4>3. Announced(todo[i].to, NotesBefore(i)) => Announced(todo[i].to, NotesBefore(i))'
        BY <4>2 DEF Announced, AnyDecides, Decides
      <4> QED BY <4>1, <4>3, <2>1
    <3> QED BY <3>1, <3>2
  <2> QED BY <2>2 DEF IInv, PlanFits
<1>8. (routing # None => Announced(routing, told))'
  BY DEF IInv, Announced, AnyDecides, Decides
<1> QED BY <1>4, <1>5, <1>6, <1>7, <1>8 DEF IInv

LEMMA PublishIInv ==
    ASSUME IInv, NEW r \in 1..Len(requests), NEW s \in Statuses,
           NEW o \in {"allow", "block", "needs_user_decision", None}, Publish(r, s, o)
    PROVE  IInv'
<1>0. PICK N \in Nat : N = Len(results) + 1
  BY Rows DEF IInv
<1> DEFINE row == [req |-> r, status |-> s, outcome |-> o]
<1>1. /\ results' = Append(results, row) /\ Unanswered(r)
      /\ UNCHANGED <<ask, task, routing, decided, attempts, requests, told, todo, deaths>>
  BY DEF Publish
<1>2. TypeOK /\ Answers /\ row \in Result /\ results \in Seq(Result)
  BY Rows DEF IInv, TypeOK, Result, Opt, Outcomes
<1>3. /\ Len(results') = N /\ results'[N] = row /\ N \in Nat
      /\ \A n \in 1..Len(results) : results'[n] = results[n] /\ n < N
      /\ \A n \in 1..Len(results') : n \in 1..Len(results) \/ n = N
      /\ 1..Len(results) \subseteq 1..Len(results') /\ Len(results) \in Nat
  BY <1>0, <1>1, <1>2
<1>4. Grows
  BY <1>0, <1>1, <1>2, <1>3, Rows DEF Grows
<1>5. TypeOK'
  BY <1>1, <1>2 DEF TypeOK
<1>6. /\ \A n \in 1..Len(results) : TaskOf(n)' = TaskOf(n)
      /\ TaskOf(N)' = IF s = "error" THEN None ELSE requests[r].task
  BY <1>1, <1>3, <1>2 DEF TaskOf, Answers
<1>7. /\ \A q \in 1..Len(requests) : Unanswered(q)' => Unanswered(q) /\ q # r
      /\ \A n \in 1..Len(results) : results[n].req # r
  BY <1>1, <1>3 DEF Unanswered, Processed
<1>8. Answers'
  <2>1. \A n \in 1..Len(results') : results'[n].req \in 1..Len(requests')
    BY <1>1, <1>2, <1>3 DEF Answers
  <2>2. \A m, n \in 1..Len(results') : results'[m].req = results'[n].req => m = n
    BY <1>2, <1>3, <1>7 DEF Answers
  <2>3. \A p, q \in 1..Len(requests') :
           Unanswered(p)' /\ Unanswered(q)' /\ requests'[p].task = requests'[q].task => p = q
    BY <1>1, <1>2, <1>7 DEF Answers
  <2>4. \A q \in 1..Len(requests') : \A n \in 1..Len(results') :
           Unanswered(q)' /\ TaskOf(n)' = requests'[q].task => results'[n].status # "done"
    <3> SUFFICES ASSUME NEW q \in 1..Len(requests'), NEW n \in 1..Len(results'),
                        Unanswered(q)', TaskOf(n)' = requests'[q].task
                 PROVE  results'[n].status # "done"
      OBVIOUS
    <3>1. q \in 1..Len(requests) /\ Unanswered(q) /\ q # r
      BY <1>1, <1>7
    <3>2. CASE n = N
      <4>1. s = "error" \/ requests[r].task = requests[q].task
        BY <3>2, <1>1, <1>6
      <4>2. requests[r].task # requests[q].task
        BY <3>1, <1>1, <1>2 DEF Answers
      <4> QED BY <4>1, <4>2, <3>2, <1>3
    <3>3. CASE n \in 1..Len(results)
      BY <3>1, <3>3, <1>1, <1>2, <1>3, <1>6 DEF Answers
    <3> QED BY <3>2, <3>3, <1>3
  <2>5. \A m, n \in 1..Len(results') :
           results'[m].status = "done" /\ TaskOf(m)' = TaskOf(n)' => n <= m
    <3> SUFFICES ASSUME NEW m \in 1..Len(results'), NEW n \in 1..Len(results'),
                        results'[m].status = "done", TaskOf(m)' = TaskOf(n)'
                 PROVE  n <= m
      OBVIOUS
    <3>1. CASE m = N
      BY <3>1, <1>0, <1>3
    <3>2. CASE m \in 1..Len(results) /\ n \in 1..Len(results)
      BY <3>2, <1>2, <1>3, <1>6 DEF Answers
    <3>3. CASE m \in 1..Len(results) /\ n = N
      <4>1. TaskOf(m) # None /\ results[m].status = "done"
        BY <3>3, <1>2, <1>3, TaskOfIs
      <4>2. TaskOf(m) = requests[r].task
        BY <4>1, <3>3, <1>6
      <4> QED BY <4>1, <4>2, <3>3, <1>1, <1>2 DEF Answers
    <3> QED BY <3>1, <3>2, <3>3, <1>3
  <2> QED BY <2>1, <2>2, <2>3, <2>4, <2>5 DEF Answers
<1>9. Ahead' = Ahead
  BY <1>1 DEF Ahead
<1>10. RequestsFit'
  <2> SUFFICES ASSUME NEW q \in 1..Len(Ahead') PROVE RequestFits(q, Ahead)'
    BY DEF RequestsFit
  <2>1. RequestFits(q, Ahead) /\ q \in Nat
    BY <1>9 DEF IInv, RequestsFit
  <2> QED BY <2>1, <1>1, <1>2, <1>4, <1>9, RequestGrown
<1>11. ask # None
  BY DEF IInv, Begun
<1> QED BY <1>1, <1>4, <1>5, <1>8, <1>9, <1>10, <1>11, DaemonIInv

LEMMA ResumeIInv ==
    ASSUME IInv, NEW t \in 1..Len(requests), ResumeTask(t)
    PROVE  IInv'
<1>0. PICK R \in Nat : R = Len(requests) + 1
  BY Rows DEF IInv
<1> DEFINE told_of == {n \in 1..Len(results) : TaskOf(n) = t}
<1>1. /\ requests' = Append(requests, Resume(t)) /\ todo = <<>>
      /\ \A r \in 1..Len(requests) : requests[r].task = t => ~Unanswered(r)
      /\ told_of # {} /\ results[Max(told_of)].status \in {"paused", "blocked", "waiting_user"}
      /\ UNCHANGED <<ask, task, routing, decided, attempts, results, told, todo, deaths>>
  BY DEF ResumeTask, Idle
<1>2. TypeOK /\ Answers /\ Resume(t) \in Request /\ requests \in Seq(Request)
      /\ Ahead = requests /\ Ahead' = requests'
  BY <1>1, Rows DEF IInv, TypeOK, Resume, Request, Opt, Ahead
<1>3. /\ Len(requests') = R /\ requests'[R] = Resume(t)
      /\ \A r \in 1..Len(requests) : requests'[r] = requests[r] /\ r < R
      /\ \A r \in 1..Len(requests') : r \in 1..Len(requests) \/ r = R
      /\ 1..Len(requests) \subseteq 1..Len(requests') /\ Len(requests) \in Nat
  BY <1>0, <1>1, <1>2
<1>4. Grows
  BY <1>0, <1>1, <1>2, <1>3, Rows DEF Grows
<1>5. TypeOK'
  BY <1>1, <1>2 DEF TypeOK
<1>6. \A n \in 1..Len(results) : results[n].req \in 1..Len(requests) /\ TaskOf(n)' = TaskOf(n)
  BY <1>2, <1>4, Grown DEF Answers
<1>7. \A r \in 1..Len(requests) : Unanswered(r)' <=> Unanswered(r)
  BY <1>1, <1>3 DEF Unanswered, Processed
\* Nothing of the task is done: its latest result stopped short of that.
<1>8. \A n \in 1..Len(results) : TaskOf(n) = t => results[n].status # "done"
  <2> SUFFICES ASSUME NEW n \in 1..Len(results), TaskOf(n) = t, results[n].status = "done"
               PROVE  FALSE
    OBVIOUS
  <2>1. told_of \in SUBSET (1..Len(results)) /\ Len(results) \in Nat /\ n \in told_of
    BY Rows, <1>2
  <2>2. Max(told_of) \in told_of /\ n <= Max(told_of)
    BY <2>1, LatestIs
  <2>3. Max(told_of) <= n
    BY <2>2, <1>2 DEF Answers
  <2>4. Max(told_of) = n
    BY <2>1, <2>2, <2>3
  <2> QED BY <2>4, <1>1
<1>9. Answers'
  <2>1. \A n \in 1..Len(results') : results'[n].req \in 1..Len(requests')
    BY <1>1, <1>3, <1>6
  <2>2. \A m, n \in 1..Len(results') : results'[m].req = results'[n].req => m = n
    BY <1>1, <1>2 DEF Answers
  <2>3. \A r, s \in 1..Len(requests') :
           Unanswered(r)' /\ Unanswered(s)' /\ requests'[r].task = requests'[s].task => r = s
    <3> SUFFICES ASSUME NEW r \in 1..Len(requests'), NEW s \in 1..Len(requests'),
                        Unanswered(r)', Unanswered(s)', requests'[r].task = requests'[s].task
                 PROVE  r = s
      OBVIOUS
    <3>1. r = R => s = R
      BY <1>1, <1>3, <1>7 DEF Resume
    <3>2. s = R => r = R
      BY <1>1, <1>3, <1>7 DEF Resume
    <3>3. CASE r \in 1..Len(requests) /\ s \in 1..Len(requests)
      BY <3>3, <1>2, <1>3, <1>7 DEF Answers
    <3> QED BY <3>1, <3>2, <3>3, <1>3
  <2>4. \A r \in 1..Len(requests') : \A n \in 1..Len(results') :
           Unanswered(r)' /\ TaskOf(n)' = requests'[r].task => results'[n].status # "done"
    <3> SUFFICES ASSUME NEW r \in 1..Len(requests'), NEW n \in 1..Len(results'),
                        Unanswered(r)', TaskOf(n)' = requests'[r].task
                 PROVE  results'[n].status # "done"
      OBVIOUS
    <3>1. CASE r = R
      BY <3>1, <1>1, <1>3, <1>6, <1>8 DEF Resume
    <3>2. CASE r \in 1..Len(requests)
      BY <3>2, <1>1, <1>2, <1>3, <1>6, <1>7 DEF Answers
    <3> QED BY <3>1, <3>2, <1>3
  <2>5. \A m, n \in 1..Len(results') :
           results'[m].status = "done" /\ TaskOf(m)' = TaskOf(n)' => n <= m
    BY <1>1, <1>2, <1>6 DEF Answers
  <2> QED BY <2>1, <2>2, <2>3, <2>4, <2>5 DEF Answers
\* The task is a run's or a review's, and one of its results is of that request.
<1>10. RequestFits(R, requests')
  <2>1. PICK n \in 1..Len(results) : TaskOf(n) = t
    BY <1>1
  <2>2. results[n].status # "error" /\ requests[results[n].req].task = t
    BY <2>1, <1>2, TaskOfIs, NoneAssumption
  <2> DEFINE q == results[n].req
  <2>3. q \in 1..Len(requests) /\ RequestFits(q, requests)
    BY <1>2, <1>6 DEF IInv, RequestsFit
  <2>4. requests[t].kind \in {"run", "review"}
    BY <2>2, <2>3 DEF RequestFits
  <2>5. \E m \in 1..Len(results) : results[m].req = t /\ results[m].status # "error"
    <3>1. requests[q] \in Request
      BY <2>3, <1>2
    <3>2. CASE requests[q].kind = "resume"
      BY <3>2, <2>2, <2>3 DEF RequestFits
    <3>3. CASE requests[q].kind # "resume"
      <4>1. requests[q].task = q
        BY <3>1, <3>3, <2>3 DEF RequestFits, Request
      <4> QED BY <4>1, <2>2
    <3> QED BY <3>2, <3>3
  <2> QED BY <2>4, <2>5, <1>0, <1>3 DEF RequestFits, Resume
<1>11. RequestsFit'
  <2> SUFFICES ASSUME NEW r \in 1..Len(Ahead') PROVE RequestFits(r, Ahead)'
    BY DEF RequestsFit
  <2>1. r \in Nat /\ (r \in 1..Len(requests) \/ r = R)
    BY <1>2, <1>3
  <2>2. CASE r \in 1..Len(requests)
    <3>1. RequestFits(r, requests)
      BY <2>2, <1>2 DEF IInv, RequestsFit
    <3>2. \A s \in 1..r : Ahead'[s] = requests[s]
      BY <2>2, <1>2, <1>3
    <3> QED BY <3>1, <3>2, <2>1, <1>1, <1>2, <1>4, RequestGrown
  <2>3. CASE r = R
    BY <2>3, <2>1, <1>1, <1>2, <1>4, <1>10, RequestGrown
  <2> QED BY <2>1, <2>2, <2>3
<1>12. ask # None
  BY DEF IInv, Begun
<1>13. \A k, r : OfKind(k, r, Ahead) => OfKind(k, r, Ahead')
  BY <1>2, <1>4, Grown
<1> QED BY <1>1, <1>4, <1>5, <1>9, <1>11, <1>12, <1>13, DaemonIInv

-----------------------------------------------------------------------------
\* The commands.  Each is shown to plan effects that Commanded accepts.

LEMMA PreflightType == ASSUME NEW f PROVE Preflight(f) \in {"blocked", "waiting_user", "pass"}
  BY DEF Preflight

LEMMA NoRecordType == NoRecord \in Record
  BY DEF NoRecord, Record, Stages, Opt

\* Plans of two and of three effects.
LEMMA PairType ==
    ASSUME NEW x \in Effect, NEW y \in Effect
    PROVE  <<x, y>> \in Seq(Effect) /\ <<>> \o <<x, y>> = <<x, y>> /\ <<x, y>> \o <<>> = <<x, y>>
<1>1. <<x, y>> \in Seq(Effect)
  OBVIOUS
<1> QED BY <1>1, ConcatEmptySeq

LEMMA TripleType ==
    ASSUME NEW x \in Effect, NEW y \in Effect, NEW z \in Effect
    PROVE  /\ <<x, y, z>> \in Seq(Effect)
           /\ <<x>> \o <<y, z>> = <<x, y, z>> /\ <<x, y>> \o <<z>> = <<x, y, z>>
<1>1. <<x, y, z>> \in Seq(Effect)
  OBVIOUS
<1>2. <<x>> \o <<y, z>> = <<x, y, z>>
  <2>1. <<x>> \in Seq(Effect) /\ <<y, z>> \in Seq(Effect) /\ <<x, y, z>> \in Seq(Effect)
    OBVIOUS
  <2> DEFINE s == <<x>> \o <<y, z>>
  <2>2. s \in Seq(Effect) /\ Len(s) = 3
    BY <2>1
  <2>3. \A i \in 1..3 : s[i] = <<x, y, z>>[i]
    BY <2>1
  <2> HIDE DEF s
  <2>4. s = <<x, y, z>>
    BY <2>1, <2>2, <2>3, SeqEqual
  <2> QED BY <2>4 DEF s
<1>3. <<x, y>> \o <<z>> = <<x, y, z>>
  <2>1. <<x, y>> \in Seq(Effect) /\ <<z>> \in Seq(Effect) /\ <<x, y, z>> \in Seq(Effect)
    OBVIOUS
  <2> DEFINE s == <<x, y>> \o <<z>>
  <2>2. s \in Seq(Effect) /\ Len(s) = 3
    BY <2>1
  <2>3. \A i \in 1..3 : s[i] = <<x, y, z>>[i]
    BY <2>1
  <2> HIDE DEF s
  <2>4. s = <<x, y, z>>
    BY <2>1, <2>2, <2>3, SeqEqual
  <2> QED BY <2>4 DEF s
<1> QED BY <1>1, <1>2, <1>3

LEMMA StartIInv ==
    ASSUME IInv, NEW a \in Ask, Start(a)
    PROVE  IInv'
<1>0. PICK t, r : t = StartRecords(a).task /\ r = StartRecords(a).routing
  OBVIOUS
<1>1. /\ ask = None /\ routing = None /\ decided = None /\ requests = <<>> /\ attempts = <<>>
      /\ results = <<>> /\ TypeOK
      /\ ask' = a /\ task' = NoRecord
      /\ todo' = <<>> \/ todo' = <<WriteTask(t), WriteRouting(r)>>
      /\ UNCHANGED <<routing, decided, attempts, requests, results, told, deaths>>
  BY <1>0 DEF IInv, Begun, Start
<1>2. /\ t \in Record /\ r \in Record
      /\ \A x \in {t, r} : /\ x.execution = None /\ x.result = None /\ x.gate = None
                           /\ x.review = None /\ x.verdict = None /\ x.decision = None
  <2> DEFINE pre == Preflight(Facts[a])
  <2>1. pre \in {"blocked", "waiting_user", "pass"}
    BY PreflightType
  <2>2. r = [NoRecord EXCEPT !.pre = pre]
    BY <1>0, <2>1 DEF StartRecords
  <2>3. \E s \in {"blocked", "waiting_user", "route"} : t = [NoRecord EXCEPT !.stage = s]
    BY <1>0, <2>1 DEF StartRecords
  <2> HIDE DEF pre
  <2>4. r \in Record
    BY <2>1, <2>2 DEF NoRecord, Record, Stages, Opt
  <2>5. t \in Record
    BY <2>3 DEF NoRecord, Record, Stages, Opt
  <2>6. /\ t.execution = None /\ t.result = None /\ t.gate = None
        /\ t.review = None /\ t.verdict = None /\ t.decision = None
    BY <2>3 DEF NoRecord
  <2>7. /\ r.execution = None /\ r.result = None /\ r.gate = None
        /\ r.review = None /\ r.verdict = None /\ r.decision = None
    BY <2>2 DEF NoRecord
  <2> QED BY <2>4, <2>5, <2>6, <2>7
<1>3. TypeOK'
  <2>1. WriteTask(t) \in Effect /\ WriteRouting(r) \in Effect
    BY <1>2 DEF Effect, WriteTask, WriteRouting
  <2>2. <<WriteTask(t), WriteRouting(r)>> \in Seq(Effect) /\ <<>> \in Seq(Effect)
    BY <2>1, PairType
  <2>3. todo' \in Seq(Effect)
    BY <1>1, <2>2
  <2> QED BY <1>1, <2>3, NoRecordType DEF TypeOK, Opt
<1>4. Begun'
  BY <1>1, NoneAssumption, NoRecordType DEF Begun
<1>5. Ahead' = <<>> /\ Settled' = None
  BY <1>1 DEF Ahead, Settled, WriteTask
<1>6. RequestsFit' /\ AttemptsFit' /\ Answers'
  BY <1>1, <1>5 DEF RequestsFit, AttemptsFit, Answers, Unanswered
<1>7. ASSUME NEW x, x.execution = None, x.result = None, x.gate = None,
             x.review = None, x.verdict = None, x.decision = None
      PROVE  /\ RecordFits(x, requests)' /\ RecordFits(x, Ahead)'
             /\ Carries(x, decided') /\ Carries(x, Settled') /\ Final(x) /\ ~Decides(x)
  BY <1>7 DEF RecordFits, Requested, ReviewFits, Carries, Final, Decides
<1>8. /\ NoRecord.execution = None /\ NoRecord.result = None /\ NoRecord.gate = None
      /\ NoRecord.review = None /\ NoRecord.verdict = None /\ NoRecord.decision = None
  BY DEF NoRecord
<1>9. RecordsFit'
  BY <1>1, <1>7, <1>8 DEF RecordsFit
<1>10. DecisionFits'
  BY <1>1, <1>5, <1>7, <1>8 DEF DecisionFits, Carries, Final
<1>11. PlanFits'
  <2>1. CASE todo' = <<>>
    BY <2>1 DEF PlanFits
  <2>2. CASE todo' = <<WriteTask(t), WriteRouting(r)>>
    <3>1. /\ Len(todo') = 2 /\ todo'[1] = WriteTask(t) /\ todo'[2] = WriteRouting(r)
      BY <2>2
    <3>2. ~Decides(NoRecord) /\ NoRecord.decision = None
      BY <1>7, <1>8
    <3>3. Rewrites(task, t, Ahead, Settled)' /\ Final(t)
      BY <1>1, <1>2, <1>7, <3>2 DEF Rewrites, Carries, Decides
    <3>4. Rewrites(routing, r, Ahead, Settled)' /\ Announced(r, NotesBefore(2))'
      BY <1>1, <1>2, <1>7 DEF Rewrites, Carries, Decides, Announced
    <3> QED BY <3>1, <3>3, <3>4 DEF PlanFits, WriteTask, WriteRouting
  <2> QED BY <1>1, <2>1, <2>2
<1>12. (routing # None => Announced(routing, told))'
  BY <1>1
<1> QED BY <1>3, <1>4, <1>6, <1>9, <1>10, <1>11, <1>12 DEF IInv

\* A record that refers to what another one refers to.
LEMMA RecordAs ==
    ASSUME NEW x, NEW y, NEW reqs, RecordFits(x, requests),
           \A k, r : OfKind(k, r, requests) => OfKind(k, r, reqs),
           y.execution = x.execution \/ (Requested(y) => OfKind("run", y.execution.req, reqs)),
           y.result = x.result \/ (/\ y.result # None /\ y.result.at \in 1..Len(results)
                                   /\ results[y.result.at].status # "error" =>
                                         OfKind("run", TaskOf(y.result.at), requests)),
           y.review = x.review \/ ReviewFits(y.review, reqs),
           y.gate = x.gate \/ (y.gate # None => ReviewFits(y.gate.review, reqs)),
           y.verdict = x.verdict \/ VerdictFits(y.verdict)
    PROVE  RecordFits(y, reqs)
<1>1. Requested(y) => OfKind("run", y.execution.req, reqs)
  BY DEF RecordFits, Requested
<1>2. ReviewFits(y.review, reqs) /\ (y.gate # None => ReviewFits(y.gate.review, reqs))
  BY DEF RecordFits, ReviewFits
<1> QED BY <1>1, <1>2 DEF RecordFits

LEMMA EnqueueIInv ==
    ASSUME IInv, todo = <<>>, task # None, NEW r \in Record, NEW reply \in Reply,
           r = routing \/ (/\ routing = None /\ r.result = None /\ r.decision = None
                           /\ RecordFits(r, requests)),
           OneRun(requests) => task.decision = None,
           EnqueueForRouting(task, r, reply),
           UNCHANGED <<ask, task, routing, decided, requests, results, told, deaths>>
    PROVE  IInv'
<1> DEFINE Row(outcome) ==
              [status |-> outcome, req |-> IF outcome = "enqueued" THEN Len(requests) + 1 ELSE None]
<1>1. PICK outcome, execution, stage, pre :
        /\ outcome \in {Outcome(reply), "no receipt"} /\ execution = Row(outcome)
        /\ stage \in {"execute", "waiting_user", "blocked"}
        /\ pre = IF outcome = "waiting_user" THEN "waiting_user" ELSE r.pre
        /\ attempts' = Append(attempts, [reply |-> reply, outcome |-> outcome])
        /\ todo' = (IF outcome = "enqueued" THEN <<Enqueue(Run(reply))>> ELSE <<>>)
                   \o <<WriteTask([task EXCEPT !.stage = stage, !.execution = execution]),
                        WriteRouting([r EXCEPT !.pre = pre, !.execution = execution])>>
  <2>1. PICK outcome \in {Outcome(reply), "no receipt"} :
           LET enqueued == outcome = "enqueued"
               execution == [status |-> outcome, req |-> IF enqueued THEN Len(requests) + 1 ELSE None]
               stage == CASE enqueued -> "execute"
                          [] outcome = "waiting_user" -> "waiting_user"
                          [] OTHER -> "blocked"
               pre == IF outcome = "waiting_user" THEN "waiting_user" ELSE r.pre
           IN  /\ attempts' = Append(attempts, [reply |-> reply, outcome |-> outcome])
               /\ todo' = (IF enqueued THEN <<Enqueue(Run(reply))>> ELSE <<>>)
                          \o <<WriteTask([task EXCEPT !.stage = stage, !.execution = execution]),
                               WriteRouting([r EXCEPT !.pre = pre, !.execution = execution])>>
    BY DEF EnqueueForRouting
  <2> DEFINE stage == CASE outcome = "enqueued" -> "execute"
                        [] outcome = "waiting_user" -> "waiting_user"
                        [] OTHER -> "blocked"
  <2>2. stage \in {"execute", "waiting_user", "blocked"}
    OBVIOUS
  <2> QED BY <2>1, <2>2, Zenon
<1> DEFINE enqueued == outcome = "enqueued"
           w == [task EXCEPT !.stage = stage, !.execution = execution]
           v == [r EXCEPT !.pre = pre, !.execution = execution]
<1>2. /\ TypeOK /\ Answers /\ task \in Record /\ r \in Record /\ Ahead = requests
      /\ Len(requests) \in Nat /\ requests \in Seq(Request)
      /\ attempts \in Seq(Attempt)
  BY Rows DEF IInv, TypeOK, Opt, Ahead
<1>3. outcome \in {"enqueued", "waiting_user", "blocked", "no receipt"}
  BY <1>1 DEF Outcome
<1>4. /\ execution \in ExecutionRow
      /\ execution.req = IF enqueued THEN Len(requests) + 1 ELSE None
  <2> DEFINE q == IF enqueued THEN Len(requests) + 1 ELSE None
  <2>1. execution = [status |-> outcome, req |-> q]
    BY <1>1
  <2>2. q \in Opt(Nat)
    BY <1>2 DEF Opt
  <2> HIDE DEF q, Row
  <2>3. execution.req = q /\ execution \in ExecutionRow
    BY <2>1, <2>2, <1>3 DEF ExecutionRow
  <2> QED BY <2>3 DEF q
<1>a. /\ stage \in {"execute", "waiting_user", "blocked"}
      /\ pre \in {"none", "pass", "blocked", "waiting_user"}
  <2>1. stage \in {"execute", "waiting_user", "blocked"}
        /\ pre = IF outcome = "waiting_user" THEN "waiting_user" ELSE r.pre
    BY <1>1
  <2> QED BY <2>1, <1>2 DEF Record
<1>b. outcome \in {Outcome(reply), "no receipt"}
  BY <1>1
<1>c. PICK row \in Attempt :
        attempts' = Append(attempts, row) /\ row.reply = reply /\ row.outcome = outcome
  <2>1. [reply |-> reply, outcome |-> outcome] \in Attempt
    BY <1>3 DEF Attempt
  <2>2. attempts' = Append(attempts, [reply |-> reply, outcome |-> outcome])
    BY <1>1
  <2> QED BY <2>1, <2>2
<1>5. /\ w \in Record /\ v \in Record
      /\ w.execution = execution /\ v.execution = execution
      /\ w.result = task.result /\ w.gate = task.gate /\ w.review = task.review
      /\ w.verdict = task.verdict /\ w.decision = task.decision
      /\ v.result = r.result /\ v.gate = r.gate /\ v.review = r.review
      /\ v.verdict = r.verdict /\ v.decision = r.decision
  <2>1. stage \in Stages /\ execution \in Opt(ExecutionRow)
    BY <1>4, <1>a DEF Stages, Opt
  <2>2. w \in Record /\ v \in Record
    BY <2>1, <1>2, <1>a DEF Record
  <2>3. /\ w.execution = execution /\ w.result = task.result /\ w.gate = task.gate
        /\ w.review = task.review /\ w.verdict = task.verdict /\ w.decision = task.decision
    BY <1>2 DEF Record
  <2>4. /\ v.execution = execution /\ v.result = r.result /\ v.gate = r.gate
        /\ v.review = r.review /\ v.verdict = r.verdict /\ v.decision = r.decision
    BY <1>2 DEF Record
  <2> QED BY <2>2, <2>3, <2>4
<1>6. Run(reply) \in Request /\ Run(reply).kind = "run"
  BY <1>2 DEF Run, Request, Opt
<1> DEFINE e1 == Enqueue(Run(reply))
           e2 == WriteTask(w)
           e3 == WriteRouting(v)
<1>7. e1 \in Effect /\ e2 \in Effect /\ e3 \in Effect
  BY <1>5, <1>6 DEF Effect, Enqueue, WriteTask, WriteRouting
<1>8. todo' = IF enqueued THEN <<e1, e2, e3>> ELSE <<e2, e3>>
  <2> HIDE DEF e1, e2, e3
  <2>1. todo' = (IF enqueued THEN <<e1>> ELSE <<>>) \o <<e2, e3>>
    BY <1>1 DEF e1, e2, e3, w, v
  <2> QED BY <2>1, <1>7, PairType, TripleType
<1>9. /\ e1.write = "request" /\ e1.to = Run(reply) /\ e2.write = "task" /\ e2.to = w
      /\ e3.write = "routing" /\ e3.to = v
  BY DEF Enqueue, WriteTask, WriteRouting
<1> HIDE DEF w, v, e1, e2, e3, Row
<1>10. /\ Len(todo') = IF enqueued THEN 3 ELSE 2
       /\ todo'[1] = IF enqueued THEN e1 ELSE e2
       /\ todo'[2] = IF enqueued THEN e2 ELSE e3
       /\ enqueued => todo'[3] = e3
       /\ todo' # <<>>
  BY <1>8
<1>11. \A i \in 1..Len(todo') :
          \/ enqueued /\ i = 1 /\ todo'[i] = e1
          \/ i = (IF enqueued THEN 2 ELSE 1) /\ todo'[i] = e2
          \/ i = (IF enqueued THEN 3 ELSE 2) /\ todo'[i] = e3
  BY <1>10
<1>12. Ahead' = (IF enqueued THEN Append(requests, Run(reply)) ELSE requests) /\ Settled' = decided
  BY <1>9, <1>10 DEF Ahead, Settled
<1>13. \A k, q : OfKind(k, q, requests) => OfKind(k, q, Ahead')
  BY <1>2, <1>12 DEF OfKind
<1>14. \A x : x.execution = execution => (Requested(x) => OfKind("run", x.execution.req, Ahead'))
  BY <1>2, <1>4, <1>6, <1>12 DEF Requested, OfKind
<1>15. r # None /\ RecordFits(task, requests) /\ RecordFits(r, requests)
  BY <1>2, NoneAssumption DEF IInv, RecordsFit
<1>16. RecordFits(w, Ahead')
  BY <1>5, <1>13, <1>14, <1>15, RecordAs
<1>17. RecordFits(v, Ahead')
  BY <1>5, <1>13, <1>14, <1>15, RecordAs
<1>18. Rewrites(task, w, Ahead', Settled') /\ (OneRun(requests) => Final(w))
  BY <1>5, <1>12, <1>16 DEF IInv, DecisionFits, Rewrites, Carries, Decides, Final
<1>19. Rewrites(routing, v, Ahead', Settled')
  BY <1>5, <1>12, <1>15, <1>17 DEF IInv, DecisionFits, Rewrites, Carries, Decides
<1>20. \A i : Announced(v, NotesBefore(i)')
  BY <1>5, <1>15 DEF IInv, Announced, NotesBefore
<1>21. enqueued => RequestFits(Len(requests) + 1, Append(requests, Run(reply)))
  BY <1>2, <1>6, <1>b DEF RequestFits, Run
<1>22. TypeOK'
  <2>1. attempts' \in Seq(Attempt)
    BY <1>c, <1>2
  <2>2. todo' \in Seq(Effect)
    BY <1>7, <1>8, PairType, TripleType
  <2> QED BY <2>1, <2>2 DEF IInv, TypeOK
<1>23. AttemptsFit'
  <2>1. \A i \in 1..Len(attempts') :
           (i \in 1..Len(attempts) /\ attempts'[i] = attempts[i]) \/ attempts'[i] = row
    BY <1>2, <1>c
  <2>2. row.outcome = "blocked" => Outcome(row.reply) = "blocked"
    BY <1>b, <1>c
  <2> QED BY <2>1, <2>2 DEF IInv, AttemptsFit, Outcome, Fact
<1>24. \A i \in 1..Len(todo') :
          /\ todo'[i].write \in {"request", "decision"} => i = 1
          /\ todo'[i].write = "request" => enqueued /\ todo'[i].to = Run(reply)
          /\ todo'[i].write # "decision"
          /\ todo'[i].write = "task" => todo'[i].to = w
          /\ todo'[i].write = "routing" => todo'[i].to = v
  BY <1>9, <1>11
<1>25. \A i, j \in 1..Len(todo') : todo'[i].write = todo'[j].write => i = j
  BY <1>9, <1>11
<1> QED BY <1>6, <1>18, <1>19, <1>20, <1>21, <1>22, <1>23, <1>24, <1>25, Commanded

LEMMA AutoStartsIInv ==
    ASSUME IInv, NEW y \in Reply, AutoStarts(y)
    PROVE  IInv'
<1> DEFINE r == [NoRecord EXCEPT !.pre = "pass"]
<1>1. /\ todo = <<>> /\ task = NoRecord /\ routing = None
      /\ EnqueueForRouting(task, r, y)
      /\ UNCHANGED <<ask, task, routing, decided, requests, results, told, deaths>>
  BY DEF AutoStarts, Idle
<1>2. task # None /\ task.decision = None
  BY <1>1, NoRecordType, NoneAssumption DEF NoRecord
<1>3. r \in Record
  BY DEF NoRecord, Record, Stages, Opt
<1>4. /\ r.execution = None /\ r.result = None /\ r.gate = None
      /\ r.review = None /\ r.verdict = None /\ r.decision = None
  BY DEF NoRecord
<1> HIDE DEF r
<1>5. RecordFits(r, requests)
  BY <1>4 DEF RecordFits, Requested, ReviewFits
<1> QED BY <1>1, <1>2, <1>3, <1>4, <1>5, EnqueueIInv

\* A task that was executed once and whose gate was decided is not started
\* again: its record does not wait.
LEMMA StartGoIInv ==
    ASSUME IInv, NEW y \in Reply, StartGo(y)
    PROVE  IInv'
<1>1. /\ todo = <<>> /\ task # None /\ routing # None /\ task.stage = "waiting_user"
      /\ EnqueueForRouting(task, routing, y)
      /\ UNCHANGED <<ask, task, routing, decided, requests, results, told, deaths>>
  BY DEF StartGo, Command, MayGo, Idle
<1>2. routing \in Record
  BY <1>1 DEF IInv, TypeOK, Opt
<1>3. OneRun(requests) => task.decision = None
  BY <1>1 DEF IInv, DecisionFits, Final, FinalStage
<1> QED BY <1>1, <1>2, <1>3, EnqueueIInv

-----------------------------------------------------------------------------
\* start-sync

\* What the records on disk say of the gate.
LEMMA HeldIs ==
    ASSUME IInv, task # None, routing # None
    PROVE  /\ task \in Record /\ routing \in Record /\ TypeOK /\ Answers
           /\ RecordFits(task, requests) /\ RecordFits(routing, requests)
           /\ GateDecided <=> AnyDecides
           /\ \A f \in {"result", "gate", "review", "verdict", "decision"} :
                 Held(f) = routing[f] \/ Held(f) = task[f]
<1>1. task \in Record /\ routing \in Record
  BY DEF IInv, TypeOK, Opt
<1>2. GateDecided <=> AnyDecides
  BY <1>1 DEF GateDecided, AnyDecides, Decides, Held
<1> QED BY <1>1, <1>2 DEF IInv, RecordsFit, Held

\* The result a request leads to is there, and is of the request's task.
LEMMA LatestFits ==
    ASSUME IInv, NEW q \in 1..Len(requests), NEW n \in Processed(q)
    PROVE  /\ n \in 1..Len(results) /\ LatestFor(n) \in 1..Len(results)
           /\ TaskOf(LatestFor(n)) = TaskOf(n)
           /\ results[n].status = "error" => LatestFor(n) = n
           /\ results[n].status # "error" => TaskOf(LatestFor(n)) = requests[q].task
           /\ results[n].status # "error" =>
                 \A m \in 1..Len(results) : TaskOf(m) = TaskOf(n) => m <= LatestFor(n)
<1>1. n \in 1..Len(results) /\ results[n].req = q /\ TypeOK /\ Answers
  BY DEF Processed, IInv
<1>2. CASE results[n].status = "error"
  <2>1. TaskOf(n) = None
    BY <1>1, <1>2 DEF TaskOf
  <2> QED BY <1>1, <1>2, <2>1 DEF LatestFor
<1>3. CASE results[n].status # "error"
  <2>1. TaskOf(n) # None /\ TaskOf(n) = requests[q].task
    BY <1>1, <1>3, TaskOfIs
  <2> DEFINE M == {m \in 1..Len(results) : TaskOf(m) = TaskOf(n)}
  <2>2. M \in SUBSET (1..Len(results)) /\ n \in M /\ Len(results) \in Nat
    BY <1>1, Rows
  <2>3. Max(M) \in M /\ \A m \in M : m <= Max(M)
    BY <2>2, LatestIs
  <2>4. LatestFor(n) = Max(M)
    BY <2>1 DEF LatestFor
  <2> QED BY <1>1, <1>3, <2>1, <2>3, <2>4
<1> QED BY <1>2, <1>3

\* Once the one execution of the task is done and its gate decided, every
\* later start-sync reads that very result again.
LEMMA DecidedResult ==
    ASSUME IInv, task # None, task.decision # None, OneRun(requests),
           NEW q, OfKind("run", q, requests), NEW n \in Processed(q)
    PROVE  GateRequired(LatestFor(n))
<1> DEFINE d == decided.at
<1>1. DoneRun(d) /\ StopGate(Fact) /\ TypeOK /\ Answers
  <2>1. decided # None
    BY DEF IInv, DecisionFits, Carries
  <2>2. Settled = decided
    BY <2>1 DEF Settled, IInv, PlanFits, TypeOK
  <2> QED BY <2>1, <2>2 DEF IInv, DecisionFits
<1>2. q \in 1..Len(requests) /\ requests[q].kind = "run" /\ n \in 1..Len(results) /\ results[n].req = q
  BY DEF OfKind, Processed
<1>3. d \in 1..Len(results) /\ results[d].status = "done" /\ TaskOf(d) = q
  BY <1>1, <1>2 DEF DoneRun, OneRun, OfKind
<1>4. results[d].req \in 1..Len(requests) /\ requests[results[d].req].task = q
  BY <1>1, <1>3, TaskOfIs DEF Answers
<1> DEFINE p == results[d].req
<1>5. RequestFits(p, requests) /\ requests[p] \in Request
  <2>1. \A r \in 1..Len(requests) : Ahead[r] = requests[r] /\ r \in 1..Len(Ahead)
    BY <1>1 DEF Ahead, TypeOK
  <2>2. RequestFits(p, Ahead)
    BY <1>4, <2>1 DEF IInv, RequestsFit
  <2>3. Ahead[p] = requests[p] /\ Ahead[requests[p].task] = requests[requests[p].task]
    BY <1>2, <1>4, <2>1
  <2> QED BY <1>1, <1>4, <2>2, <2>3, Rows DEF RequestFits
<1>6. results[n].status # "error"
  <2>1. CASE requests[p].kind = "resume"
    <3>1. PICK m \in 1..Len(results) : results[m].req = q /\ results[m].status # "error"
      BY <1>4, <1>5, <2>1 DEF RequestFits
    <3> QED BY <3>1, <1>1, <1>2 DEF Answers
  <2>2. CASE requests[p].kind # "resume"
    <3>1. p = q
      BY <1>4, <1>5, <2>2 DEF RequestFits, Request
    <3> QED BY <3>1, <1>1, <1>2, <1>3 DEF Answers
  <2> QED BY <2>1, <2>2
<1>7. TaskOf(n) = q
  <2>1. requests[q].task = q
    <3>1. RequestFits(q, Ahead) /\ Ahead[q] = requests[q]
      BY <1>1, <1>2 DEF IInv, RequestsFit, Ahead, TypeOK
    <3> QED BY <1>2, <3>1 DEF RequestFits
  <2> QED BY <2>1, <1>1, <1>2, <1>6, TaskOfIs
<1> DEFINE k == LatestFor(n)
<1>8. k \in 1..Len(results) /\ TaskOf(k) = q /\ d <= k
  BY <1>2, <1>3, <1>6, <1>7, LatestFits
<1>9. k <= d
  BY <1>1, <1>3, <1>8 DEF Answers
<1>10. k = d
  <2>1. k \in Nat /\ d \in Nat
    BY <1>3, <1>8
  <2> HIDE DEF k, d
  <2> QED BY <2>1, <1>8, <1>9
<1> QED BY <1>1, <1>3, <1>10 DEF GateRequired

\* The execution's result that start-sync looks at is one of a run.
LEMMA SyncedRun ==
    ASSUME IInv, task # None, routing # None, Executed, NEW m \in Processed(ExecutionRequestId)
    PROVE  /\ OfKind("run", ExecutionRequestId, requests)
           /\ LatestFor(m) \in 1..Len(results)
           /\ results[LatestFor(m)].status # "error" => OfKind("run", TaskOf(LatestFor(m)), requests)
<1>1. PICK q, k : q = ExecutionRequestId /\ k = LatestFor(m)
  OBVIOUS
<1>2. OfKind("run", q, requests)
  BY <1>1, HeldIs DEF Executed, ExecutionRequestId, RecordFits
<1>3. q \in 1..Len(requests) /\ requests[q].kind = "run"
  BY <1>2 DEF OfKind
<1>4. requests[q].task = q
  <2>1. RequestFits(q, Ahead) /\ Ahead[q] = requests[q]
    BY <1>3 DEF IInv, TypeOK, RequestsFit, Ahead
  <2> QED BY <1>3, <2>1 DEF RequestFits
<1>5. /\ k \in 1..Len(results)
      /\ results[m].status = "error" => k = m
      /\ results[m].status # "error" => TaskOf(k) = q
  BY <1>1, <1>3, <1>4, LatestFits
<1> QED BY <1>1, <1>2, <1>5

\* The result start-sync records.
LEMMA SummaryIs ==
    ASSUME IInv, task # None, routing # None, NEW n \in 1..Len(results), NEW summary,
           summary = IF GateDecided /\ GateRequired(n)
                     THEN [ExecutionResult(n) EXCEPT !.gated = FALSE,
                              !.stage = IF Held("decision") # None THEN FinalStage(Held("decision"))
                                        ELSE task.stage]
                     ELSE ExecutionResult(n)
    PROVE  /\ summary \in ResultRow /\ summary.at = n
           /\ ~GateDecided /\ GateRequired(n) => summary.gated
           /\ GateDecided /\ GateRequired(n) /\ Held("decision") # None
                 => summary.stage = FinalStage(Held("decision"))
<1>1. task.stage \in Stages
  BY HeldIs DEF Record
<1>2. n \in Nat /\ results[n].req \in Nat /\ GateRequired(n) \in BOOLEAN
  BY Rows DEF IInv, Result, GateRequired
<1>3. ExecutionResult(n) \in ResultRow /\ ExecutionResult(n).at = n
      /\ (GateRequired(n) => ExecutionResult(n).gated)
  BY <1>2 DEF ExecutionResult, ResultRow, LifecycleStage, Stages
<1> DEFINE s == IF Held("decision") # None THEN FinalStage(Held("decision")) ELSE task.stage
<1>4. s \in Stages /\ (Held("decision") # None => s = FinalStage(Held("decision")))
  BY <1>1 DEF FinalStage, Stages
<1>5. summary = IF GateDecided /\ GateRequired(n)
                THEN [ExecutionResult(n) EXCEPT !.gated = FALSE, !.stage = s]
                ELSE ExecutionResult(n)
  OBVIOUS
<1> HIDE DEF s
<1>6. CASE GateDecided /\ GateRequired(n)
  <2>1. summary = [ExecutionResult(n) EXCEPT !.gated = FALSE, !.stage = s]
    BY <1>5, <1>6
  <2>2. summary \in ResultRow /\ summary.at = n /\ summary.stage = s
    BY <2>1, <1>3, <1>4 DEF ResultRow
  <2> QED BY <1>4, <1>6, <2>2
<1>7. CASE ~(GateDecided /\ GateRequired(n))
  BY <1>3, <1>5, <1>7
<1> QED BY <1>6, <1>7

LEMMA PendingGate ==
    ASSUME NEW n \in Nat, NEW review \in Opt(ReviewRow)
    PROVE  [status |-> "pending", at |-> n, review |-> review, verdict |-> None, held |-> FALSE] \in GateRow
  BY SMT DEF GateRow, Opt

\* The gate start-sync records: pending, or decided as it was before.
LEMMA GateIs ==
    ASSUME IInv, task # None, routing # None, NEW n \in 1..Len(results), NEW gate,
           gate = IF GateDecided /\ GateRequired(n) THEN DecidedGate(n) ELSE GateSummary(n)
    PROVE  /\ gate \in Opt(GateRow)
           /\ gate # None => ReviewFits(gate.review, requests)
           /\ gate # None /\ GateDecided /\ GateRequired(n) => gate.status = "decided"
<1>1. task \in Record /\ routing \in Record /\ RecordFits(task, requests) /\ RecordFits(routing, requests)
  BY HeldIs
<1>2. CASE GateDecided /\ GateRequired(n)
  <2>1. gate = None \/ \E old \in {task.gate, routing.gate} :
           old # None /\ gate = [old EXCEPT !.status = "decided"]
    BY <1>2 DEF DecidedGate
  <2>2. CASE gate = None
    BY <2>2, NoneAssumption DEF Opt
  <2>3. ASSUME NEW old \in {task.gate, routing.gate}, old # None, gate = [old EXCEPT !.status = "decided"]
        PROVE  gate \in GateRow /\ ReviewFits(gate.review, requests) /\ gate.status = "decided"
    <3>1. old \in GateRow /\ ReviewFits(old.review, requests)
      BY <1>1, <2>3 DEF Record, Opt, RecordFits
    <3>2. gate \in GateRow /\ gate.review = old.review /\ gate.status = "decided"
      BY <3>1, <2>3 DEF GateRow
    <3> QED BY <3>1, <3>2
  <2> QED BY <2>1, <2>2, <2>3 DEF Opt
<1>3. CASE ~(GateDecided /\ GateRequired(n))
  <2> DEFINE review == GateReviewExecution
  <2>1. review \in Opt(ReviewRow) /\ ReviewFits(review, requests)
    <3>1. \A x \in {task, routing} : /\ x.review \in Opt(ReviewRow) /\ ReviewFits(x.review, requests)
                                     /\ x.gate # None => /\ x.gate.review \in Opt(ReviewRow)
                                                         /\ ReviewFits(x.gate.review, requests)
      BY <1>1 DEF Record, Opt, GateRow, RecordFits
    <3>2. None \in Opt(ReviewRow) /\ ReviewFits(None, requests)
      BY DEF Opt, ReviewFits
    <3> QED BY <3>1, <3>2 DEF GateReviewExecution, GateOf, Held
  <2>2. gate = [status |-> "pending", at |-> n, review |-> review, verdict |-> None, held |-> FALSE]
    BY <1>3 DEF GateSummary
  <2>3. n \in Nat
    BY HeldIs, Rows
  <2> HIDE DEF review
  <2>4. None \in Opt(VerdictRow)
    BY DEF Opt
  <2>5. gate.review = review
    BY <2>2
  <2>6. gate \in GateRow
    BY <2>1, <2>2, <2>3, PendingGate
  <2> QED BY <1>3, <2>1, <2>5, <2>6 DEF Opt
<1> QED BY <1>2, <1>3

\* The gate written is the one computed, or the one there was.
LEMMA SyncRewrites ==
    ASSUME IInv, NEW old \in {task, routing}, NEW x, NEW n \in 1..Len(results), NEW summary \in ResultRow,
           task # None, routing # None, NEW gate,
           x.execution = old.execution, x.review = old.review, x.verdict = old.verdict,
           x.decision = old.decision, x.result = summary,
           x.gate = IF GateRequired(n) /\ gate # None THEN gate ELSE old.gate,
           gate # None => ReviewFits(gate.review, requests),
           gate # None /\ GateDecided /\ GateRequired(n) => gate.status = "decided",
           summary.at = n,
           results[n].status # "error" => OfKind("run", TaskOf(n), requests)
    PROVE  Rewrites(old, x, requests, decided)
<1>1. old # None /\ summary # None /\ RecordFits(old, requests)
  BY HeldIs, NoneAssumption
<1>2. Decides(old) => Decides(x)
  <2>1. Decides(old) => GateDecided
    BY <1>1, HeldIs DEF AnyDecides
  <2> QED BY <2>1 DEF Decides
<1>3. RecordFits(x, requests)
  <2>1. x.gate = old.gate \/ (x.gate # None => ReviewFits(x.gate.review, requests))
    OBVIOUS
  <2> QED BY <1>1, <2>1, RecordAs
<1>4. Carries(x, decided)
  BY <1>1 DEF IInv, DecisionFits, Carries
<1> QED BY <1>2, <1>3, <1>4 DEF Rewrites

LEMMA SyncIInv ==
    ASSUME IInv, StartSync
    PROVE  IInv'
<1>1. /\ todo = <<>> /\ task # None /\ routing # None /\ Executed
      /\ UNCHANGED <<ask, task, routing, decided, attempts, requests, results, told, deaths>>
  BY DEF StartSync, Command, Idle
<1>2. PICK m \in Processed(ExecutionRequestId) : Sync(LatestFor(m))
  BY DEF StartSync
<1>3. PICK n, summary, gate, t, r :
        /\ n = LatestFor(m)
        /\ summary = IF GateDecided /\ GateRequired(n)
                     THEN [ExecutionResult(n) EXCEPT !.gated = FALSE,
                              !.stage = IF Held("decision") # None THEN FinalStage(Held("decision"))
                                        ELSE task.stage]
                     ELSE ExecutionResult(n)
        /\ gate = IF GateDecided /\ GateRequired(n) THEN DecidedGate(n) ELSE GateSummary(n)
        /\ t = [task EXCEPT !.stage = summary.stage, !.result = summary,
                   !.gate = IF GateRequired(n) /\ gate # None THEN gate ELSE @]
        /\ r = [routing EXCEPT !.result = summary,
                   !.gate = IF GateRequired(n) /\ gate # None THEN gate ELSE @]
  OBVIOUS
<1> DEFINE note == Notify(n)
           e1 == WriteTask(t)
           e2 == WriteRouting(r)
           news == routing.result # summary
<1>4. \/ todo' = <<e1, e2>> \o <<>> /\ (GateRequired(n) \/ ~news)
      \/ todo' = <<>> \o <<e1, e2>> /\ (GateRequired(n) \/ ~news)
      \/ todo' = <<note>> \o <<e1, e2>>
      \/ todo' = <<e1, e2>> \o <<note>> /\ GateRequired(n)
  <2> DEFINE known == GateDecided /\ GateRequired(n)
             told_of == IF known THEN FALSE ELSE IF GateRequired(n) THEN routing.gate # gate ELSE news
             notes == IF told_of THEN <<note>> ELSE <<>>
  <2>1. todo' = IF NotifyFirst(n) THEN notes \o <<e1, e2>> ELSE <<e1, e2>> \o notes
    <3> HIDE DEF note, e1, e2
    <3> QED BY <1>2, <1>3 DEF Sync, note, e1, e2
  <2> HIDE DEF note, e1, e2, news
  <2>2. CASE GateRequired(n)
    BY <2>1, <2>2 DEF NotifyFirst
  <2>3. CASE ~GateRequired(n)
    BY <2>1, <2>3 DEF NotifyFirst
  <2> QED BY <2>2, <2>3
<1>5. /\ TypeOK /\ Answers /\ task \in Record /\ routing \in Record
      /\ Ahead = requests /\ Settled = decided
  BY <1>1, HeldIs DEF Ahead, Settled
<1>6. /\ n \in 1..Len(results) /\ n \in Nat
      /\ OfKind("run", ExecutionRequestId, requests)
      /\ results[n].status # "error" => OfKind("run", TaskOf(n), requests)
  <2>1. /\ n \in 1..Len(results) /\ OfKind("run", ExecutionRequestId, requests)
        /\ results[n].status # "error" => OfKind("run", TaskOf(n), requests)
    BY <1>1, <1>3, SyncedRun
  <2> QED BY <2>1, <1>5, Rows
<1>7. /\ summary \in ResultRow /\ summary.at = n
      /\ ~GateDecided /\ GateRequired(n) => summary.gated
      /\ GateDecided /\ GateRequired(n) /\ Held("decision") # None
            => summary.stage = FinalStage(Held("decision"))
  BY <1>1, <1>3, <1>6, SummaryIs
<1>8. /\ gate \in Opt(GateRow)
      /\ gate # None => ReviewFits(gate.review, requests)
      /\ gate # None /\ GateDecided /\ GateRequired(n) => gate.status = "decided"
  BY <1>1, <1>3, <1>6, GateIs
<1>9. /\ t \in Record /\ t.result = summary /\ t.decision = task.decision /\ t.stage = summary.stage
      /\ Rewrites(task, t, requests, decided)
  <2>1. PICK g : g = IF GateRequired(n) /\ gate # None THEN gate ELSE task.gate
    OBVIOUS
  <2>2. g \in Opt(GateRow) /\ summary \in Opt(ResultRow) /\ summary.stage \in Stages
    BY <1>5, <1>7, <1>8, <2>1 DEF Record, Opt, ResultRow
  <2>3. t = [task EXCEPT !.stage = summary.stage, !.result = summary, !.gate = g]
    BY <1>3, <2>1
  <2>4. /\ t \in Record /\ t.result = summary /\ t.decision = task.decision /\ t.stage = summary.stage
        /\ t.execution = task.execution /\ t.review = task.review /\ t.verdict = task.verdict /\ t.gate = g
    BY <1>5, <2>2, <2>3 DEF Record
  <2>5. Rewrites(task, t, requests, decided)
    BY <2>1, <2>4, <1>1, <1>6, <1>7, <1>8, SyncRewrites
  <2> QED BY <2>4, <2>5
<1>10. r \in Record /\ r.result = summary /\ Rewrites(routing, r, requests, decided)
  <2>1. PICK g : g = IF GateRequired(n) /\ gate # None THEN gate ELSE routing.gate
    OBVIOUS
  <2>2. g \in Opt(GateRow) /\ summary \in Opt(ResultRow)
    BY <1>5, <1>7, <1>8, <2>1 DEF Record, Opt
  <2>3. r = [routing EXCEPT !.result = summary, !.gate = g]
    BY <1>3, <2>1
  <2>4. /\ r \in Record /\ r.result = summary /\ r.decision = routing.decision
        /\ r.execution = routing.execution /\ r.review = routing.review
        /\ r.verdict = routing.verdict /\ r.gate = g
    BY <1>5, <2>2, <2>3 DEF Record
  <2>5. Rewrites(routing, r, requests, decided)
    BY <2>1, <2>4, <1>1, <1>6, <1>7, <1>8, SyncRewrites
  <2> QED BY <2>4, <2>5
\* Where the gate was decided after the one run, that run's result is read again.
<1>11. OneRun(requests) => Final(t)
  <2> SUFFICES ASSUME OneRun(requests), task.decision # None PROVE t.stage = FinalStage(t.decision)
    BY <1>9 DEF Final
  <2>1. GateRequired(n)
    BY <1>1, <1>3, <1>6, DecidedResult
  <2>2. GateDecided
    BY <1>1, HeldIs DEF AnyDecides, Decides
  <2>3. Held("decision") # None /\ Held("decision") = task.decision
    <3>1. \A x \in {task, routing} : x.decision # None => decided # None /\ decided.is = x.decision
      BY <1>1 DEF IInv, DecisionFits, Carries
    <3> QED BY <3>1 DEF Held
  <2> QED BY <2>1, <2>2, <2>3, <1>7, <1>9
<1>12. \A S : GateRequired(n) \/ n \in S \/ (~news /\ told \subseteq S) => Announced(r, S)
  <2> SUFFICES ASSUME NEW S, GateRequired(n) \/ n \in S \/ (~news /\ told \subseteq S)
               PROVE  r.result.gated \/ AnyDecides \/ r.result.at \in S
    BY DEF Announced
  <2>1. CASE GateRequired(n)
    BY <2>1, <1>1, <1>7, <1>10, HeldIs
  <2>2. CASE n \in S
    BY <2>2, <1>7, <1>10
  <2>3. CASE ~news /\ told \subseteq S
    <3>1. routing.result = summary /\ summary # None
      BY <2>3, <1>7, NoneAssumption
    <3> QED BY <2>3, <3>1, <1>1, <1>10 DEF IInv, Announced
  <2> QED BY <2>1, <2>2, <2>3
<1>13. /\ note \in Effect /\ e1 \in Effect /\ e2 \in Effect
       /\ note.write = "note" /\ note.to = n /\ e1.write = "task" /\ e1.to = t
       /\ e2.write = "routing" /\ e2.to = r
  BY <1>6, <1>9, <1>10 DEF Effect, Notify, WriteTask, WriteRouting
<1> HIDE DEF note, e1, e2, news
<1>14. \/ todo' = <<e1, e2>> /\ (GateRequired(n) \/ ~news)
       \/ todo' = <<note, e1, e2>>
       \/ todo' = <<e1, e2, note>> /\ GateRequired(n)
  BY <1>4, <1>13, PairType, TripleType
<1>15. todo' \in Seq(Effect) /\ Ahead' = requests /\ Settled' = decided
  <2>1. todo' \in Seq(Effect)
    <3>1. /\ <<e1, e2>> \in Seq(Effect) /\ <<note, e1, e2>> \in Seq(Effect)
          /\ <<e1, e2, note>> \in Seq(Effect)
      BY <1>13, PairType, TripleType, Zenon
    <3>2. todo' \in {<<e1, e2>>, <<note, e1, e2>>, <<e1, e2, note>>}
      BY <1>14, Zenon
    <3> QED BY <3>1, <3>2, Zenon
  <2>2. todo'[1] \in {note, e1}
    BY <1>14
  <2> QED BY <2>1, <2>2, <1>1, <1>13 DEF Ahead, Settled
<1>16. TypeOK' /\ AttemptsFit'
  BY <1>1, <1>5, <1>15 DEF IInv, TypeOK, AttemptsFit, Outcome, Fact
<1>17. \A i, j \in 1..Len(todo') : todo'[i].write = todo'[j].write => i = j
  BY <1>13, <1>14
<1>18. \A i \in 1..Len(todo') :
          /\ todo'[i].write \notin {"request", "decision"}
          /\ todo'[i].write = "task" => todo'[i].to = t
          /\ todo'[i].write = "routing" =>
                todo'[i].to = r /\ ((i = 3 /\ todo'[1] = note) \/ GateRequired(n) \/ ~news)
  BY <1>13, <1>14
<1>19. \A i \in 1..Len(todo') : todo'[i].write = "routing" => Announced(r, NotesBefore(i)')
  <2> SUFFICES ASSUME NEW i \in 1..Len(todo'), todo'[i].write = "routing"
               PROVE  Announced(r, NotesBefore(i)')
    OBVIOUS
  <2>1. told \subseteq NotesBefore(i)'
    BY <1>1 DEF NotesBefore
  <2>2. i = 3 /\ todo'[1] = note => n \in NotesBefore(i)'
    BY <1>13 DEF NotesBefore
  <2> QED BY <1>12, <1>18, <2>1, <2>2
<1> QED BY <1>1, <1>9, <1>10, <1>11, <1>15, <1>16, <1>17, <1>18, <1>19, Commanded

-----------------------------------------------------------------------------
\* The stop-gate.

\* What a pending gate stands for: a result of a run that is done.
LEMMA PendingIs ==
    ASSUME IInv, task # None, routing # None, PendingStopGate
    PROVE  /\ GateOf \in GateRow /\ ReviewFits(GateOf.review, requests)
           /\ Held("result").at \in Nat /\ DoneRun(Held("result").at) /\ StopGate(Fact)
<1>1. /\ task \in Record /\ routing \in Record
      /\ RecordFits(task, requests) /\ RecordFits(routing, requests)
  BY HeldIs
<1>2. GateOf \in GateRow /\ ReviewFits(GateOf.review, requests)
  BY <1>1 DEF PendingStopGate, GateOf, Held, Record, Opt, RecordFits
<1> DEFINE h == Held("result")
<1>3. h # None /\ results[h.at].status = "done" /\ h \in {task.result, routing.result}
  BY DEF PendingStopGate, Held
<1>4. h \in ResultRow
  BY <1>1, <1>3 DEF Record, Opt
<1>5. h.at \in 1..Len(results) /\ OfKind("run", TaskOf(h.at), requests)
  <2> HIDE DEF h
  <2> QED BY <1>1, <1>3 DEF RecordFits
<1> QED BY <1>2, <1>3, <1>4, <1>5 DEF PendingStopGate, DoneRun, ResultRow

\* Nothing on disk is decided yet, so nothing has to be kept.
LEMMA Undecided ==
    ASSUME IInv, task # None, routing # None, ~GateDecided
    PROVE  /\ task.decision = None /\ routing.decision = None
           /\ \A old \in {task, routing} : \A x, reqs, d :
                 RecordFits(x, reqs) /\ Carries(x, d) => Rewrites(old, x, reqs, d)
<1>1. ~Decides(task) /\ ~Decides(routing)
  BY HeldIs DEF AnyDecides
<1> QED BY <1>1 DEF Rewrites, Decides

\* The review and its request are planned together: either record may miss
\* it, but neither names a review that was not asked for.
LEMMA GateRunIInv ==
    ASSUME IInv, GateRun
    PROVE  IInv'
<1>1. /\ todo = <<>> /\ task # None /\ routing # None /\ ~GateDecided /\ PendingStopGate
      /\ UNCHANGED <<ask, task, routing, decided, attempts, requests, results, told, deaths>>
  BY DEF GateRun, Command, Idle, MayReview
<1>2. PICK about, review, gate, t, r :
        /\ about = Held("result").at
        /\ review = [req |-> Len(requests) + 1, about |-> about]
        /\ gate = [GateOf EXCEPT !.review = review]
        /\ t = [task EXCEPT !.review = review, !.gate = gate]
        /\ r = [routing EXCEPT !.review = review, !.gate = gate]
  OBVIOUS
<1> DEFINE e0 == Enqueue(Review(about))
           e1 == WriteTask(t)
           e2 == WriteRouting(r)
<1>3. todo' = <<e0, e1, e2>>
  <2>1. GateRun
    OBVIOUS
  <2> HIDE DEF e0, e1, e2
  <2> QED BY <1>2, <2>1 DEF GateRun, e0, e1, e2
<1>4. /\ TypeOK /\ Answers /\ task \in Record /\ routing \in Record
      /\ Ahead = requests /\ requests \in Seq(Request) /\ Len(requests) \in Nat
      /\ RecordFits(task, requests) /\ RecordFits(routing, requests)
  <2>1. TypeOK /\ Answers /\ task \in Record /\ routing \in Record
        /\ RecordFits(task, requests) /\ RecordFits(routing, requests)
    BY <1>1, HeldIs
  <2> QED BY <1>1, <2>1 DEF Ahead, TypeOK
<1>5. GateOf \in GateRow /\ about \in Nat /\ DoneRun(about)
  BY <1>1, <1>2, PendingIs
<1>6. review \in ReviewRow /\ review.req = Len(requests) + 1
  BY <1>2, <1>4, <1>5 DEF ReviewRow
<1>7. gate \in GateRow /\ gate.review = review
  <2>1. review \in Opt(ReviewRow)
    BY <1>6 DEF Opt
  <2> QED BY <1>2, <1>5, <2>1 DEF GateRow
<1>8. Review(about) \in Request /\ Review(about).kind = "review" /\ Review(about).about = about
  BY <1>4, <1>5 DEF Review, Request, Opt
<1>9. RequestFits(Len(requests) + 1, Append(requests, Review(about)))
  BY <1>4, <1>5, <1>8 DEF RequestFits, Review
<1>10. \A old \in {task, routing} : \A x : x = [old EXCEPT !.review = review, !.gate = gate] =>
          /\ x \in Record /\ x.execution = old.execution /\ x.result = old.result
          /\ x.review = review /\ x.gate = gate /\ x.verdict = old.verdict
          /\ x.decision = old.decision
  <2>1. review \in Opt(ReviewRow) /\ gate \in Opt(GateRow)
    BY <1>6, <1>7 DEF Opt
  <2>2. \A old \in Record : \A x : x = [old EXCEPT !.review = review, !.gate = gate] =>
          /\ x \in Record /\ x.execution = old.execution /\ x.result = old.result
          /\ x.review = review /\ x.gate = gate /\ x.verdict = old.verdict
          /\ x.decision = old.decision
    BY <2>1 DEF Record
  <2> QED BY <1>4, <2>2
<1>11. /\ t \in Record /\ t.execution = task.execution /\ t.result = task.result
       /\ t.review = review /\ t.gate = gate /\ t.verdict = task.verdict
       /\ t.decision = task.decision
       /\ r \in Record /\ r.execution = routing.execution /\ r.result = routing.result
       /\ r.review = review /\ r.gate = gate /\ r.verdict = routing.verdict
       /\ r.decision = routing.decision
  BY <1>2, <1>10
<1>12. /\ e0 \in Effect /\ e1 \in Effect /\ e2 \in Effect
       /\ e0.write = "request" /\ e0.to = Review(about) /\ e1.write = "task" /\ e1.to = t
       /\ e2.write = "routing" /\ e2.to = r
  BY <1>8, <1>11 DEF Effect, Enqueue, WriteTask, WriteRouting
<1> HIDE DEF e0, e1, e2
<1>13. /\ todo' \in Seq(Effect) /\ Len(todo') = 3
       /\ todo'[1] = e0 /\ todo'[2] = e1 /\ todo'[3] = e2 /\ todo' # <<>>
  BY <1>3, <1>12
<1>14. Ahead' = Append(requests, Review(about)) /\ Settled' = decided
  BY <1>1, <1>12, <1>13 DEF Ahead, Settled
<1>15. (\A k, q : OfKind(k, q, requests) => OfKind(k, q, Ahead')) /\ ReviewFits(review, Ahead')
  <2>1. \A k, q : OfKind(k, q, requests) => OfKind(k, q, Append(requests, Review(about)))
    BY <1>4 DEF OfKind
  <2>2. OfKind("review", Len(requests) + 1, Append(requests, Review(about)))
    BY <1>4, <1>8 DEF OfKind
  <2> QED BY <1>6, <1>14, <2>1, <2>2 DEF ReviewFits
<1>16. RecordFits(t, Ahead')
  BY <1>4, <1>7, <1>11, <1>15, RecordAs
<1>17. RecordFits(r, Ahead')
  BY <1>4, <1>7, <1>11, <1>15, RecordAs
<1>18. Rewrites(task, t, Ahead', Settled') /\ Final(t) /\ Rewrites(routing, r, Ahead', Settled')
  <2>1. t.decision = None /\ r.decision = None
    BY <1>1, <1>11, Undecided
  <2>2. Carries(t, Settled') /\ Carries(r, Settled') /\ Final(t)
    BY <2>1 DEF Carries, Final
  <2> QED BY <2>2, <1>1, <1>16, <1>17, Undecided
<1>19. \A i : Announced(r, NotesBefore(i)')
  BY <1>1, <1>11 DEF IInv, Announced, NotesBefore
<1>20. TypeOK' /\ AttemptsFit'
  BY <1>1, <1>4, <1>13 DEF IInv, TypeOK, AttemptsFit, Outcome, Fact
<1>21. \A i, j \in 1..Len(todo') : todo'[i].write = todo'[j].write => i = j
  BY <1>12, <1>13
<1>22. \A i \in 1..Len(todo') :
          /\ todo'[i].write = "request" => i = 1 /\ todo'[i].to = Review(about)
          /\ todo'[i].write # "decision"
          /\ todo'[i].write = "task" => todo'[i].to = t
          /\ todo'[i].write = "routing" => todo'[i].to = r
  BY <1>12, <1>13
<1> QED BY <1>1, <1>8, <1>9, <1>18, <1>19, <1>20, <1>21, <1>22, Commanded

LEMMA ReviewExecutionIs ==
    ASSUME IInv, task # None, routing # None
    PROVE  GateReviewExecution \in Opt(ReviewRow) /\ ReviewFits(GateReviewExecution, requests)
<1>1. \A x \in {task, routing} : /\ x.review \in Opt(ReviewRow) /\ ReviewFits(x.review, requests)
                                 /\ x.gate # None => /\ x.gate.review \in Opt(ReviewRow)
                                                     /\ ReviewFits(x.gate.review, requests)
  BY HeldIs DEF Record, Opt, GateRow, RecordFits
<1>2. None \in Opt(ReviewRow) /\ ReviewFits(None, requests)
  BY DEF Opt, ReviewFits
<1> QED BY <1>1, <1>2 DEF GateReviewExecution, GateOf, Held

\* What a readable review recommends is its whole answer.
LEMMA ReadableFits ==
    ASSUME IInv, task # None, routing # None, PendingStopGate, GateReviewExecution # None,
           NEW seed \in Processed(GateReviewExecution.req), NEW n, n = LatestFor(seed),
           ReviewReadable(n), NEW verdict,
           verdict = [is |-> Recommendation(OutcomesAt(n)), at |-> n, about |-> Held("result").at]
    PROVE  verdict \in VerdictRow /\ VerdictFits(verdict)
<1>1. PICK q : q = GateReviewExecution.req
  OBVIOUS
<1>2. q \in 1..Len(requests) /\ requests[q].kind = "review"
  BY <1>1, ReviewExecutionIs DEF ReviewFits, OfKind
<1>3. requests[q].task = q /\ TypeOK /\ Answers
  <2>1. RequestFits(q, Ahead) /\ Ahead[q] = requests[q]
    BY <1>2 DEF IInv, TypeOK, RequestsFit, Ahead
  <2> QED BY <1>2, <2>1, HeldIs DEF RequestFits
<1>4. results[n].status = "done" /\ OutcomesAt(n) \in {{"allow"}, {"block"}}
  BY DEF ReviewReadable
<1>5. n \in 1..Len(results) /\ TaskOf(n) = q
  <2>1. /\ n \in 1..Len(results)
        /\ results[seed].status = "error" => n = seed
        /\ results[seed].status # "error" => TaskOf(n) = requests[q].task
    BY <1>1, <1>2, LatestFits
  <2> QED BY <1>3, <1>4, <2>1
<1>6. OfKind("review", TaskOf(n), requests)
  BY <1>2, <1>5 DEF OfKind
<1>7. PICK is, about : is = Recommendation(OutcomesAt(n)) /\ about = Held("result").at
  OBVIOUS
<1>8. is \in Decisions /\ OutcomesAt(n) = {IF is = "ALLOW" THEN "allow" ELSE "block"}
  BY <1>4, <1>7 DEF Recommendation, Decisions
<1>9. about \in Nat /\ DoneRun(about) /\ n \in Nat
  BY <1>3, <1>5, <1>7, PendingIs, Rows
<1>10. verdict = [is |-> is, at |-> n, about |-> about]
  BY <1>7
<1>11. verdict.is = is /\ verdict.at = n /\ verdict.about = about /\ verdict \in VerdictRow
  BY <1>8, <1>9, <1>10 DEF VerdictRow
<1> QED BY <1>4, <1>5, <1>6, <1>8, <1>9, <1>11 DEF VerdictFits

LEMMA GateSyncIInv ==
    ASSUME IInv, GateSync
    PROVE  IInv'
<1>1. /\ todo = <<>> /\ task # None /\ routing # None /\ ~GateDecided /\ PendingStopGate
      /\ GateReviewExecution # None
      /\ UNCHANGED <<ask, task, routing, decided, attempts, requests, results, told, deaths>>
  BY DEF GateSync, Command, Idle
<1>2. PICK seed, n, verdict, gate, held, told_gate, t, r :
        /\ seed \in Processed(GateReviewExecution.req) /\ n = LatestFor(seed)
        /\ verdict = [is |-> Recommendation(OutcomesAt(n)), at |-> n, about |-> Held("result").at]
        /\ gate = [GateOf EXCEPT !.review = GateReviewExecution]
        /\ held = [gate EXCEPT !.held = TRUE]
        /\ told_gate = [gate EXCEPT !.verdict = verdict]
        /\ todo' = <<WriteTask(t), WriteRouting(r)>>
        /\ \/ /\ t = [task EXCEPT !.stage = "waiting_user", !.gate = held]
              /\ r = [routing EXCEPT !.gate = held]
           \/ /\ ReviewReadable(n)
              /\ t = [task EXCEPT !.stage = "waiting_user", !.gate = told_gate, !.verdict = verdict]
              /\ r = [routing EXCEPT !.gate = told_gate, !.verdict = verdict]
  <2>1. GateSync
    OBVIOUS
  <2> QED BY <2>1, Zenon DEF GateSync
<1>3. /\ TypeOK /\ Answers /\ task \in Record /\ routing \in Record
      /\ Ahead = requests /\ Settled = decided
      /\ RecordFits(task, requests) /\ RecordFits(routing, requests)
  BY <1>1, HeldIs DEF Ahead, Settled
<1>4. GateOf \in GateRow
  BY <1>1, PendingIs
<1>5. PICK review : review = GateReviewExecution /\ review \in Opt(ReviewRow)
                    /\ ReviewFits(review, requests)
  BY <1>1, ReviewExecutionIs
<1>6. gate \in GateRow /\ gate.review = review
  BY <1>2, <1>4, <1>5 DEF GateRow
<1>7. held \in GateRow /\ held.review = review
  BY <1>2, <1>6 DEF GateRow
<1>8. ReviewReadable(n) =>
         /\ verdict \in VerdictRow /\ VerdictFits(verdict)
         /\ told_gate \in GateRow /\ told_gate.review = review
  <2> SUFFICES ASSUME ReviewReadable(n)
               PROVE  /\ verdict \in VerdictRow /\ VerdictFits(verdict)
                      /\ told_gate \in GateRow /\ told_gate.review = review
    OBVIOUS
  <2>1. verdict \in VerdictRow /\ VerdictFits(verdict)
    BY <1>1, <1>2, ReadableFits
  <2>2. verdict \in Opt(VerdictRow)
    BY <2>1 DEF Opt
  <2> QED BY <1>2, <1>6, <2>1, <2>2 DEF GateRow
<1>9. \A x \in {t, r} : x \in Record /\ x.gate # None /\ x.gate.review = review
  <2>1. CASE /\ t = [task EXCEPT !.stage = "waiting_user", !.gate = held]
             /\ r = [routing EXCEPT !.gate = held]
    <3>1. held \in Opt(GateRow) /\ "waiting_user" \in Stages /\ held # None
      BY <1>7, NoneAssumption DEF Opt, Stages
    <3>2. t \in Record /\ r \in Record /\ t.gate = held /\ r.gate = held
      BY <2>1, <3>1, <1>3 DEF Record
    <3> QED BY <1>7, <3>1, <3>2
  <2>2. CASE /\ ReviewReadable(n)
             /\ t = [task EXCEPT !.stage = "waiting_user", !.gate = told_gate, !.verdict = verdict]
             /\ r = [routing EXCEPT !.gate = told_gate, !.verdict = verdict]
    <3>1. /\ told_gate \in Opt(GateRow) /\ "waiting_user" \in Stages /\ told_gate # None
          /\ verdict \in Opt(VerdictRow)
      BY <1>8, <2>2, NoneAssumption DEF Opt, Stages
    <3>2. t \in Record /\ r \in Record /\ t.gate = told_gate /\ r.gate = told_gate
      BY <2>2, <3>1, <1>3 DEF Record
    <3> QED BY <1>8, <2>2, <3>1, <3>2
  <2> QED BY <1>2, <2>1, <2>2
<1>10. /\ t.execution = task.execution /\ t.result = task.result /\ t.review = task.review
       /\ t.decision = task.decision
       /\ r.execution = routing.execution /\ r.result = routing.result /\ r.review = routing.review
       /\ r.decision = routing.decision
  BY <1>2, <1>3 DEF Record
<1>11. /\ t.verdict = task.verdict \/ VerdictFits(t.verdict)
       /\ r.verdict = routing.verdict \/ VerdictFits(r.verdict)
  BY <1>2, <1>3, <1>8 DEF Record
<1>12. RecordFits(t, requests) /\ RecordFits(r, requests)
  <2>1. RecordFits(t, requests)
    BY <1>3, <1>5, <1>9, <1>10, <1>11, RecordAs
  <2>2. RecordFits(r, requests)
    BY <1>3, <1>5, <1>9, <1>10, <1>11, RecordAs
  <2> QED BY <2>1, <2>2
<1>13. Rewrites(task, t, requests, decided) /\ Final(t) /\ Rewrites(routing, r, requests, decided)
  <2>1. t.decision = None /\ r.decision = None
    BY <1>1, <1>10, Undecided
  <2>2. Carries(t, decided) /\ Carries(r, decided) /\ Final(t)
    BY <2>1 DEF Carries, Final
  <2> QED BY <2>2, <1>1, <1>12, Undecided
<1>14. \A i : Announced(r, NotesBefore(i)')
  BY <1>1, <1>10 DEF IInv, Announced, NotesBefore
<1> DEFINE e1 == WriteTask(t)
           e2 == WriteRouting(r)
<1>15. /\ e1 \in Effect /\ e2 \in Effect
       /\ e1.write = "task" /\ e1.to = t /\ e2.write = "routing" /\ e2.to = r
       /\ todo' = <<e1, e2>>
  BY <1>2, <1>9 DEF Effect, WriteTask, WriteRouting
<1> HIDE DEF e1, e2
<1>16. todo' \in Seq(Effect) /\ Len(todo') = 2 /\ todo'[1] = e1 /\ todo'[2] = e2
  BY <1>15
<1>17. Ahead' = requests /\ Settled' = decided
  BY <1>1, <1>15, <1>16 DEF Ahead, Settled
<1>18. TypeOK' /\ AttemptsFit'
  BY <1>1, <1>3, <1>16 DEF IInv, TypeOK, AttemptsFit, Outcome, Fact
<1>19. \A i, j \in 1..Len(todo') : todo'[i].write = todo'[j].write => i = j
  BY <1>15, <1>16
<1>20. \A i \in 1..Len(todo') :
          /\ todo'[i].write \notin {"request", "decision"}
          /\ todo'[i].write = "task" => todo'[i].to = t
          /\ todo'[i].write = "routing" => todo'[i].to = r
  BY <1>15, <1>16
<1> QED BY <1>1, <1>13, <1>14, <1>17, <1>18, <1>19, <1>20, Commanded

\* The decision's file comes first and is written only where there is none.
LEMMA GateDecisionIInv ==
    ASSUME IInv, NEW d \in Decisions, GateDecision(d)
    PROVE  IInv'
<1>1. /\ todo = <<>> /\ task # None /\ routing # None /\ ~GateDecided /\ PendingStopGate
      /\ decided = None
      /\ UNCHANGED <<ask, task, routing, decided, attempts, requests, results, told, deaths>>
  BY DEF GateDecision, Command, Idle, MayDecide
<1>2. PICK file, gate, t, r :
        /\ file = [is |-> d, at |-> Held("result").at]
        /\ gate = [GateOf EXCEPT !.status = "decided"]
        /\ t = [task EXCEPT !.stage = FinalStage(d), !.gate = gate, !.decision = d]
        /\ r = [routing EXCEPT !.gate = gate, !.decision = d]
  OBVIOUS
<1> DEFINE e0 == WriteDecision(file)
           e1 == WriteTask(t)
           e2 == WriteRouting(r)
<1>3. todo' = <<e0, e1, e2>>
  <2>1. GateDecision(d)
    OBVIOUS
  <2> HIDE DEF e0, e1, e2
  <2> QED BY <1>2, <2>1 DEF GateDecision, e0, e1, e2
<1>4. /\ TypeOK /\ Answers /\ task \in Record /\ routing \in Record
      /\ Ahead = requests
      /\ RecordFits(task, requests) /\ RecordFits(routing, requests)
  BY <1>1, HeldIs DEF Ahead
<1>5. /\ GateOf \in GateRow /\ ReviewFits(GateOf.review, requests) /\ StopGate(Fact)
      /\ Held("result").at \in Nat /\ DoneRun(Held("result").at)
  BY <1>1, PendingIs
<1>6. file \in DecisionFile /\ file.is = d /\ DoneRun(file.at)
  BY <1>2, <1>5 DEF DecisionFile
<1>7. gate \in GateRow /\ gate.review = GateOf.review
  BY <1>2, <1>5 DEF GateRow
<1>8. /\ t \in Record /\ t.execution = task.execution /\ t.result = task.result
      /\ t.review = task.review /\ t.gate = gate /\ t.verdict = task.verdict
      /\ t.decision = d /\ t.stage = FinalStage(d)
  <2>1. gate \in Opt(GateRow) /\ d \in Opt(Decisions) /\ FinalStage(d) \in Stages
    BY <1>7 DEF Opt, FinalStage, Stages
  <2> QED BY <2>1, <1>2, <1>4 DEF Record
<1>9. /\ r \in Record /\ r.execution = routing.execution /\ r.result = routing.result
      /\ r.review = routing.review /\ r.gate = gate /\ r.verdict = routing.verdict
      /\ r.decision = d
  <2>1. gate \in Opt(GateRow) /\ d \in Opt(Decisions)
    BY <1>7 DEF Opt
  <2> QED BY <2>1, <1>2, <1>4 DEF Record
<1>10. RecordFits(t, requests) /\ RecordFits(r, requests)
  <2>1. RecordFits(t, requests)
    BY <1>4, <1>5, <1>7, <1>8, RecordAs
  <2>2. RecordFits(r, requests)
    BY <1>4, <1>5, <1>7, <1>9, RecordAs
  <2> QED BY <2>1, <2>2
<1>11. /\ e0 \in Effect /\ e1 \in Effect /\ e2 \in Effect
       /\ e0.write = "decision" /\ e0.to = file /\ e1.write = "task" /\ e1.to = t
       /\ e2.write = "routing" /\ e2.to = r
  BY <1>6, <1>8, <1>9 DEF Effect, WriteDecision, WriteTask, WriteRouting
<1> HIDE DEF e0, e1, e2
<1>12. /\ todo' \in Seq(Effect) /\ Len(todo') = 3 /\ todo' # <<>>
       /\ todo'[1] = e0 /\ todo'[2] = e1 /\ todo'[3] = e2
  BY <1>3, <1>11
<1>13. Ahead' = requests /\ Settled' = file
  BY <1>1, <1>11, <1>12 DEF Ahead, Settled
<1>14. Rewrites(task, t, requests, file) /\ Final(t) /\ Rewrites(routing, r, requests, file)
  <2>1. Carries(t, file) /\ Carries(r, file) /\ Final(t)
    BY <1>6, <1>8, <1>9, NoneAssumption DEF Carries, Final
  <2> QED BY <2>1, <1>1, <1>10, Undecided
<1>15. \A i : Announced(r, NotesBefore(i)')
  BY <1>1, <1>9 DEF IInv, Announced, NotesBefore
<1>16. TypeOK' /\ AttemptsFit'
  BY <1>1, <1>4, <1>12 DEF IInv, TypeOK, AttemptsFit, Outcome, Fact
<1>17. \A i, j \in 1..Len(todo') : todo'[i].write = todo'[j].write => i = j
  BY <1>11, <1>12
<1>18. \A i \in 1..Len(todo') :
          /\ todo'[i].write = "decision" => i = 1 /\ todo'[i].to = file
          /\ todo'[i].write # "request"
          /\ todo'[i].write = "task" => todo'[i].to = t
          /\ todo'[i].write = "routing" => todo'[i].to = r
  BY <1>11, <1>12
<1> QED BY <1>1, <1>5, <1>6, <1>13, <1>14, <1>15, <1>16, <1>17, <1>18, Commanded

-----------------------------------------------------------------------------
\* The inductive invariant holds.

LEMMA InitIInv == Init => IInv
<1> SUFFICES ASSUME Init PROVE IInv
  OBVIOUS
<1>1. Ahead = <<>> /\ Settled = None
  BY DEF Init, Ahead, Settled
<1>2. TypeOK
  BY DEF Init, TypeOK, Opt
<1>3. Begun /\ RequestsFit /\ AttemptsFit /\ Answers
  BY <1>1 DEF Init, Begun, RequestsFit, AttemptsFit, Answers
<1>4. RecordsFit /\ DecisionFits
  BY <1>1 DEF Init, RecordsFit, DecisionFits, OneRun
<1>5. PlanFits
  BY DEF Init, PlanFits
<1> QED BY <1>2, <1>3, <1>4, <1>5 DEF Init, IInv

LEMMA StutterIInv == IInv /\ UNCHANGED vars => IInv'
<1> SUFFICES ASSUME IInv, UNCHANGED vars PROVE IInv'
  OBVIOUS
<1>1. UNCHANGED <<ask, task, routing, decided, attempts, requests, results, told, todo>>
      /\ deaths' = deaths
  BY DEF vars
<1>2. Grows /\ Answers' /\ TypeOK'
  <2>1. Grows
    BY <1>1, Rows DEF IInv, Grows
  <2>2. TypeOK'
    BY <1>1 DEF IInv, TypeOK
  <2>3. Answers'
    BY <1>1 DEF IInv, Answers, Unanswered, Processed, TaskOf
  <2> QED BY <2>1, <2>2, <2>3
<1>3. RequestsFit'
  <2> SUFFICES ASSUME NEW r \in 1..Len(Ahead') PROVE RequestFits(r, Ahead)'
    BY DEF RequestsFit
  <2>1. Ahead' = Ahead
    BY <1>1 DEF Ahead
  <2>2. RequestFits(r, Ahead) /\ r \in Nat
    BY <2>1 DEF IInv, RequestsFit
  <2> QED BY <1>1, <1>2, <2>1, <2>2, RequestGrown DEF IInv
<1>4. \A k, r : OfKind(k, r, Ahead) => OfKind(k, r, Ahead')
  BY <1>1 DEF Ahead
<1> QED BY <1>1, <1>2, <1>3, <1>4, DaemonIInv

LEMMA NextIInv == IInv /\ [Next]_vars => IInv'
<1> SUFFICES ASSUME IInv, Next PROVE IInv'
  BY StutterIInv
<1>1. CASE \E a \in Ask : Start(a)
  BY <1>1, StartIInv
<1>2. CASE \E y \in Reply : AutoStarts(y) \/ StartGo(y)
  BY <1>2, AutoStartsIInv, StartGoIInv
<1>3. CASE StartSync
  BY <1>3, SyncIInv
<1>4. CASE GateRun
  BY <1>4, GateRunIInv
<1>5. CASE GateSync
  BY <1>5, GateSyncIInv
<1>6. CASE \E d \in {"ALLOW", "BLOCK"} : GateDecision(d)
  BY <1>6, GateDecisionIInv DEF Decisions
<1>7. CASE Perform
  BY <1>7, PerformIInv
<1>8. CASE Die
  BY <1>8, DieIInv
<1>9. CASE \E r \in 1..Len(requests), s \in Statuses,
              o \in {"allow", "block", "needs_user_decision", None} : Publish(r, s, o)
  BY <1>9, PublishIInv
<1>10. CASE \E t \in 1..Len(requests) : ResumeTask(t)
  BY <1>10, ResumeIInv
<1> QED BY <1>1, <1>2, <1>3, <1>4, <1>5, <1>6, <1>7, <1>8, <1>9, <1>10 DEF Next

\* Whatever commands are given, wherever they die and whenever the daemon
\* answers: the records, the inbox, the results and the effects still to be
\* performed fit together as stated above.
THEOREM EffectsFit == Spec => []IInv
  BY InitIInv, NextIInv, PTL DEF Spec

\* start-sync: a result the routing record carries, which no later sync would
\* announce, was announced in inbox.md, unless a gate announces it or has
\* been decided; a death between the append and the two writes included.
THEOREM AnnouncedFirst == Spec => []NotifiedFirst
<1>1. IInv => NotifiedFirst
  <2> SUFFICES ASSUME IInv, routing # None, routing.result # None
               PROVE  routing.result.gated \/ GateDecided \/ routing.result.at \in told
    BY DEF NotifiedFirst
  <2>1. task # None
    BY DEF IInv, Begun
  <2>2. routing.result.gated \/ AnyDecides \/ routing.result.at \in told
    BY DEF IInv, Announced
  <2> QED BY <2>1, <2>2, HeldIs
<1> QED BY <1>1, EffectsFit, PTL

\* Where one run was requested, there is one.
LEMMA OnlyRun ==
    ASSUME IInv, Cardinality(RunRequests) = 1
    PROVE  OneRun(requests)
<1>1. IsFiniteSet(RunRequests)
  <2>1. Len(requests) \in Nat /\ RunRequests \subseteq 1..Len(requests)
    BY Rows DEF IInv, RunRequests
  <2>2. IsFiniteSet(1..Len(requests))
    BY <2>1, FS_Interval
  <2> QED BY <2>1, <2>2, FS_Subset
<1>2. PICK x : RunRequests = {x}
  BY <1>1, FS_Singleton
<1> QED BY <1>2 DEF OneRun, OfKind, RunRequests

\* The one result of a done execution.
LEMMA DoneOnce ==
    ASSUME IInv, OneRun(requests), NEW m, NEW n, DoneRun(m), DoneRun(n)
    PROVE  m = n
<1>1. m \in 1..Len(results) /\ n \in 1..Len(results) /\ TaskOf(m) = TaskOf(n)
  BY DEF DoneRun, OneRun, OfKind
<1>2. m <= n /\ n <= m
  BY <1>1 DEF IInv, Answers, DoneRun
<1>3. m \in Nat /\ n \in Nat
  BY <1>1, Rows DEF IInv
<1> QED BY <1>2, <1>3

\* gate-sync: the recommendation on either record is the whole answer of a
\* reviewer that is done, and with one execution the reviewer was asked about
\* the very result the gate stood for; _gate_review_readable, _latest_result.
THEOREM RecommendationWhole == Spec => []RecommendationFits
<1>1. IInv => RecommendationFits
  <2> SUFFICES ASSUME IInv, NEW x \in {task, routing}, x # None, x.verdict # None
               PROVE  /\ results[x.verdict.at].status = "done"
                      /\ OutcomesAt(x.verdict.at) = {IF x.verdict.is = "ALLOW" THEN "allow" ELSE "block"}
                      /\ Cardinality(RunRequests) = 1
                         => requests[requests[results[x.verdict.at].req].task].about = x.verdict.about
    BY Zenon DEF RecommendationFits
  <2>1. VerdictFits(x.verdict) /\ TypeOK /\ Answers
    BY DEF IInv, RecordsFit, RecordFits
  <2> DEFINE n == x.verdict.at
             q == TaskOf(n)
  <2>2. n \in 1..Len(results) /\ results[n].status = "done" /\ OfKind("review", q, requests)
    BY <2>1 DEF VerdictFits
  <2>3. requests[results[n].req].task = q
    BY <2>1, <2>2, TaskOfIs
  <2>4. DoneRun(requests[q].about) /\ DoneRun(x.verdict.about)
    <3>1. q \in 1..Len(requests) /\ requests[q].kind = "review"
      BY <2>2 DEF OfKind
    <3>2. RequestFits(q, Ahead) /\ Ahead[q] = requests[q]
      BY <2>1, <3>1 DEF IInv, TypeOK, RequestsFit, Ahead
    <3>3. DoneRun(requests[q].about)
      BY <3>1, <3>2 DEF RequestFits
    <3> QED BY <2>1, <3>3 DEF VerdictFits
  <2>5. Cardinality(RunRequests) = 1 => requests[q].about = x.verdict.about
    BY <2>4, OnlyRun, DoneOnce
  <2> QED BY <2>1, <2>2, <2>3, <2>5 DEF VerdictFits
<1> QED BY <1>1, EffectsFit, PTL

\* Only the first write of a start and the effects of a command touch the files.
LEMMA Untouched ==
    ASSUME Next
    PROVE  UNCHANGED <<task, routing, decided>> \/ Perform \/ \E a \in Ask : Start(a)
<1>1. CASE \E y \in Reply : AutoStarts(y) \/ StartGo(y)
  BY <1>1 DEF AutoStarts, StartGo
<1>2. CASE StartSync \/ GateRun \/ GateSync \/ (\E d \in {"ALLOW", "BLOCK"} : GateDecision(d))
  BY <1>2 DEF StartSync, GateRun, GateSync, GateDecision
<1>3. CASE \/ Die \/ (\E t \in 1..Len(requests) : ResumeTask(t))
           \/ \E r \in 1..Len(requests), s \in Statuses,
                 o \in {"allow", "block", "needs_user_decision", None} : Publish(r, s, o)
  BY <1>3 DEF Die, ResumeTask, Publish
<1> QED BY <1>1, <1>2, <1>3 DEF Next

\* What a step does to a decision that was made.
LEMMA StepSticks ==
    ASSUME IInv, [Next]_vars
    PROVE  /\ decided # None => decided' = decided
           /\ task # None /\ task.decision # None =>
                 /\ task'.decision = task.decision
                 /\ OneRun(requests) => task'.stage = FinalStage(task.decision)
           /\ routing # None /\ routing.decision # None => routing'.decision = routing.decision
<1>1. CASE UNCHANGED <<task, routing, decided>>
  BY <1>1 DEF IInv, DecisionFits, Final
<1>2. CASE \E a \in Ask : Start(a)
  <2>1. task = None /\ routing = None /\ decided' = decided
    BY <1>2 DEF IInv, Begun, Start
  <2> QED BY <2>1
<1>3. CASE Perform
  <2> DEFINE e == todo[1]
  <2>1. /\ todo # <<>> /\ e = Head(todo) /\ 1 \in 1..Len(todo)
        /\ task' = IF e.write = "task" THEN e.to ELSE task
        /\ routing' = IF e.write = "routing" THEN e.to ELSE routing
        /\ decided' = IF e.write = "decision" THEN e.to ELSE decided
    <3>1. todo # <<>> /\ todo \in Seq(Effect)
      BY <1>3 DEF IInv, TypeOK, Perform, Idle
    <3>2. e = Head(todo) /\ 1 \in 1..Len(todo)
      BY <3>1
    <3> HIDE DEF e
    <3> QED BY <1>3, <3>1, <3>2 DEF Perform
  <2>2. /\ e.write = "decision" => decided = None
        /\ e.write = "task" => /\ Rewrites(task, e.to, Ahead, Settled)
                               /\ OneRun(requests) => Final(e.to)
        /\ e.write = "routing" => Rewrites(routing, e.to, Ahead, Settled)
    BY <2>1 DEF IInv, PlanFits
  <2>3. task # None => (OneRun(requests) => Final(task))
    BY DEF IInv, DecisionFits
  <2> HIDE DEF e
  <2> QED BY <2>1, <2>2, <2>3 DEF Rewrites, Final
<1> QED BY <1>1, <1>2, <1>3, Untouched DEF vars

\* The gate's decision is one decision: start-gate-decision writes
\* decision_path first and only where there is none, every later write of a
\* record carries what that file says, and a task executed once stays at its
\* final stage through every later command.
THEOREM DecisionFinal == Spec => DecisionSticks
<1>1. IInv /\ IInv' /\ [Next]_vars =>
        /\ decided # None => decided' = decided
        /\ \A pair \in {<<task, task'>>, <<routing, routing'>>} :
              pair[1] # None /\ pair[1].decision # None => pair[2].decision = pair[1].decision
        /\ \A record \in {task', routing'} :
              record # None /\ record.decision # None
              => decided' # None /\ decided'.is = record.decision
        /\ task # None /\ task.decision # None /\ Cardinality(RunRequests) = 1
              => task'.stage = FinalStage(task.decision)
  <2> SUFFICES ASSUME IInv, IInv', [Next]_vars
               PROVE  /\ decided # None => decided' = decided
                      /\ \A pair \in {<<task, task'>>, <<routing, routing'>>} :
                            pair[1] # None /\ pair[1].decision # None
                            => pair[2].decision = pair[1].decision
                      /\ \A record \in {task', routing'} :
                            record # None /\ record.decision # None
                            => decided' # None /\ decided'.is = record.decision
                      /\ task # None /\ task.decision # None /\ Cardinality(RunRequests) = 1
                            => task'.stage = FinalStage(task.decision)
    OBVIOUS
  <2>1. \A record \in {task', routing'} :
           record # None /\ record.decision # None => decided' # None /\ decided'.is = record.decision
    BY DEF IInv, DecisionFits, Carries
  <2>2. \A pair \in {<<task, task'>>, <<routing, routing'>>} :
           pair[1] # None /\ pair[1].decision # None => pair[2].decision = pair[1].decision
    BY StepSticks
  <2>3. task # None /\ task.decision # None /\ Cardinality(RunRequests) = 1
           => task'.stage = FinalStage(task.decision)
    BY StepSticks, OnlyRun
  <2> QED BY <2>1, <2>2, <2>3, StepSticks
<1> QED BY <1>1, EffectsFit, PTL DEF Spec, DecisionSticks

-----------------------------------------------------------------------------
\* The envelope: what a reply that resolves is turned into.

\* The recursion behind FoldLeft: what is folded over the positions in S.
FoldsTo(f, n, base, s) ==
    f = [S \in SUBSET (1..n) |->
            IF S = {} THEN base ELSE Adding(f[S \ {Max(S)}], s[Max(S)])]

\* The largest of the positions in a set, when the last one is among them.
LEMMA LastIs ==
    ASSUME NEW n \in Nat, NEW S \in SUBSET (1..n), n \in S
    PROVE  Max(S) = n
<1>1. \A j \in S : n >= j
  OBVIOUS
<1>2. \A m \in S : (\A j \in S : m >= j) => m = n
  OBVIOUS
<1> QED BY <1>1, <1>2 DEF Max

LEMMA FoldExists ==
    ASSUME NEW base, NEW s, NEW n \in Nat
    PROVE  \E f : FoldsTo(f, n, base, s)
<1> DEFINE T == {k \in Nat : ~\E f : FoldsTo(f, k, base, s)}
<1> SUFFICES ASSUME T # {} PROVE FALSE
  OBVIOUS
<1>1. PICK m \in T : \A k \in T : m <= k
  <2>1. T \in SUBSET Nat
    OBVIOUS
  <2> HIDE DEF T
  <2> QED BY <2>1, LeastOf
<1>2. m # 0
  <2> SUFFICES ASSUME m = 0 PROVE FALSE
    OBVIOUS
  <2>1. \A S \in SUBSET (1..0) : S = {}
    OBVIOUS
  <2>2. PICK f : f = [S \in SUBSET (1..0) |-> base]
    OBVIOUS
  <2>3. FoldsTo(f, 0, base, s)
    BY <2>1, <2>2 DEF FoldsTo
  <2> QED BY <2>3
<1>3. PICK l \in Nat : m = l + 1
  BY <1>2
<1>4. l \notin T
  BY <1>1, <1>3
<1>5. PICK f : FoldsTo(f, l, base, s)
  BY <1>4
<1>6. PICK g : g = [S \in SUBSET (1..m) |-> IF m \in S THEN Adding(f[S \ {m}], s[m]) ELSE f[S]]
  OBVIOUS
<1>7. \A S \in SUBSET (1..l) : f[S] = IF S = {} THEN base ELSE Adding(f[S \ {Max(S)}], s[Max(S)])
  BY <1>5 DEF FoldsTo
<1>8. \A S \in SUBSET (1..m) :
         /\ m \notin S => S \in SUBSET (1..l)
         /\ S \ {m} \in SUBSET (1..l)
         /\ \A x : S \ {x} \in SUBSET (1..m)
  <2>1. 1..m = (1..l) \cup {m}
    BY <1>3
  <2> QED BY <2>1
<1>9. ASSUME NEW S \in SUBSET (1..m)
      PROVE  g[S] = IF S = {} THEN base ELSE Adding(g[S \ {Max(S)}], s[Max(S)])
  <2>1. CASE m \in S
    <3>1. Max(S) = m
      BY <2>1, <1>3, LastIs
    <3>2. g[S] = Adding(f[S \ {m}], s[m])
      BY <1>6, <2>1
    <3>3. g[S \ {m}] = f[S \ {m}]
      BY <1>6, <1>8
    <3> QED BY <2>1, <3>1, <3>2, <3>3
  <2>2. CASE m \notin S
    <3>1. S \in SUBSET (1..l) /\ g[S] = f[S]
      BY <1>6, <1>8, <2>2
    <3>2. g[S \ {Max(S)}] = f[S \ {Max(S)}]
      BY <1>6, <1>8, <2>2
    <3> QED BY <1>7, <3>1, <3>2
  <2> QED BY <2>1, <2>2
<1>10. FoldsTo(g, m, base, s)
  <2>1. DOMAIN g = SUBSET (1..m) /\ g = [S \in SUBSET (1..m) |-> g[S]]
    BY <1>6
  <2>2. g = [S \in SUBSET (1..m) |->
               IF S = {} THEN base ELSE Adding(g[S \ {Max(S)}], s[Max(S)])]
    BY <1>9, <2>1
  <2> QED BY <2>2 DEF FoldsTo
<1> QED BY <1>10

LEMMA FoldIs ==
    ASSUME NEW base, NEW n \in Nat, NEW s, DOMAIN s = 1..n
    PROVE  \E f : FoldsTo(f, n, base, s) /\ FoldLeft(Adding, base, s) = f[1..n]
<1> DEFINE F == CHOOSE f : f = [S \in SUBSET DOMAIN s |->
                     IF S = {} THEN base ELSE LET x == Max(S) IN Adding(f[S \ {x}], s[x])]
<1>1. FoldLeft(Adding, base, s) = F[DOMAIN s]
  BY DEF FoldLeft, MapThenFoldSet
<1>2. F = CHOOSE f : FoldsTo(f, n, base, s)
  BY DEF FoldsTo
<1>3. FoldsTo(F, n, base, s)
  <2> HIDE DEF F
  <2> QED BY <1>2, FoldExists
<1> QED BY <1>1, <1>3

LEMMA AddingIs ==
    ASSUME NEW V, NEW p \in Seq(V), IsInjective(p), NEW x \in V
    PROVE  /\ Adding(p, x) \in Seq(V) /\ IsInjective(Adding(p, x))
           /\ ToSet(Adding(p, x)) = ToSet(p) \cup {x}
<1>1. CASE Contains(p, x)
  BY <1>1 DEF Adding, Contains, ToSet
<1>2. CASE ~Contains(p, x)
  <2>1. Adding(p, x) = Append(p, x) /\ Append(p, x) \in Seq(V)
    BY <1>2 DEF Adding
  <2>2. DOMAIN p = 1..Len(p) /\ Len(p) \in Nat /\ DOMAIN Append(p, x) = 1..(Len(p) + 1)
    OBVIOUS
  <2>3. \A i \in 1..(Len(p) + 1) :
           \/ i \in 1..Len(p) /\ Append(p, x)[i] = p[i] /\ p[i] # x
           \/ i = Len(p) + 1 /\ Append(p, x)[i] = x
    BY <1>2, <2>2 DEF Contains
  <2>4. IsInjective(Append(p, x))
    BY <2>2, <2>3 DEF IsInjective
  <2>5. ToSet(Append(p, x)) = ToSet(p) \cup {x}
    <3>1. ToSet(Append(p, x)) \subseteq ToSet(p) \cup {x}
      BY <2>2, <2>3 DEF ToSet
    <3>2. ToSet(p) \subseteq ToSet(Append(p, x))
      <4> SUFFICES ASSUME NEW i \in 1..Len(p) PROVE p[i] \in ToSet(Append(p, x))
        BY <2>2 DEF ToSet
      <4>1. i \in 1..(Len(p) + 1) /\ Append(p, x)[i] = p[i]
        BY <2>2
      <4> QED BY <2>2, <4>1 DEF ToSet
    <3>3. x \in ToSet(Append(p, x))
      <4>1. Len(p) + 1 \in 1..(Len(p) + 1) /\ Append(p, x)[Len(p) + 1] = x
        BY <2>2
      <4> QED BY <2>2, <4>1 DEF ToSet
    <3> QED BY <3>1, <3>2, <3>3
  <2> QED BY <2>1, <2>4, <2>5
<1> QED BY <1>1, <1>2

AddingAll(base, s) == FoldLeft(Adding, base, s)

LEMMA FoldAdds ==
    ASSUME NEW V, NEW base \in Seq(V), IsInjective(base), NEW s \in Seq(V)
    PROVE  /\ AddingAll(base, s) \in Seq(V)
           /\ IsInjective(AddingAll(base, s))
           /\ ToSet(AddingAll(base, s)) = ToSet(base) \cup ToSet(s)
<1>1. PICK n \in Nat : n = Len(s) /\ DOMAIN s = 1..n
  OBVIOUS
<1>2. PICK f : FoldsTo(f, n, base, s) /\ AddingAll(base, s) = f[1..n]
  BY <1>1, FoldIs DEF AddingAll
<1> DEFINE Holds(k) == /\ f[1..k] \in Seq(V) /\ IsInjective(f[1..k])
                       /\ ToSet(f[1..k]) = ToSet(base) \cup {s[i] : i \in 1..k}
           T == {k \in 0..n : ~Holds(k)}
<1>3. T = {}
  <2> SUFFICES ASSUME T # {} PROVE FALSE
    OBVIOUS
  <2>1. PICK m \in T : \A k \in T : m <= k
    <3>1. T \in SUBSET Nat
      OBVIOUS
    <3> HIDE DEF T
    <3> QED BY <3>1, LeastOf
  <2>2. m \in 0..n /\ ~Holds(m)
    OBVIOUS
  <2>3. Holds(0)
    <3>1. 1..0 = {} /\ {} \in SUBSET (1..n)
      OBVIOUS
    <3>2. f[1..0] = base
      BY <1>2, <3>1 DEF FoldsTo
    <3> QED BY <3>1, <3>2
  <2>4. PICK l \in 0..n : m = l + 1
    <3>1. m # 0
      BY <2>2, <2>3
    <3> HIDE DEF Holds, T
    <3> QED BY <2>2, <3>1
  <2>5. Holds(l)
    <3>1. l \notin T
      <4> HIDE DEF T
      <4> QED BY <2>1, <2>4
    <3> QED BY <3>1
  <2>6. 1..m \in SUBSET (1..n) /\ Max(1..m) = m /\ (1..m) \ {m} = 1..l /\ 1..m # {}
        /\ m \in Nat /\ m \in 1..n
    <3>1. m \in Nat /\ m \in 1..m /\ m \in 1..n /\ (1..m) \ {m} = 1..l /\ 1..m \in SUBSET (1..n)
      BY <2>2, <2>4
    <3> QED BY <3>1, LastIs
  <2>7. f[1..m] = Adding(f[1..l], s[m])
    BY <1>2, <2>6 DEF FoldsTo
  <2>8. s[m] \in V
    BY <1>1, <2>6
  <2>9. /\ f[1..m] \in Seq(V) /\ IsInjective(f[1..m])
        /\ ToSet(f[1..m]) = ToSet(f[1..l]) \cup {s[m]}
    <3>1. PICK p, q, x : p = f[1..l] /\ q = f[1..m] /\ x = s[m]
      OBVIOUS
    <3>2. p \in Seq(V) /\ IsInjective(p) /\ x \in V
      BY <2>5, <2>8, <3>1
    <3>3. q = Adding(p, x)
      BY <2>7, <3>1
    <3>4. q \in Seq(V) /\ IsInjective(q) /\ ToSet(q) = ToSet(p) \cup {x}
      BY <3>2, <3>3, AddingIs
    <3> QED BY <3>1, <3>4
  <2>10. {s[i] : i \in 1..l} \cup {s[m]} = {s[i] : i \in 1..m}
    <3>1. 1..m = (1..l) \cup {m}
      BY <2>6
    <3> QED BY <3>1
  <2>11. Holds(m)
    BY <2>5, <2>9, <2>10
  <2> QED BY <2>2, <2>11
<1>4. Holds(n)
  <2>1. n \in 0..n
    BY <1>1
  <2>2. n \notin T
    BY <1>3
  <2> QED BY <2>1, <2>2
<1>5. {s[i] : i \in 1..n} = ToSet(s)
  BY <1>1 DEF ToSet
<1> QED BY <1>2, <1>4, <1>5

LEMMA NormalisedIs ==
    ASSUME NEW members, members \in Seq(ToSet(members))
    PROVE  /\ Normalised(members) \in Seq(ToSet(Normalised(members)))
           /\ IsInjective(Normalised(members))
           /\ ToSet(Normalised(members)) = {PathOf[m] : m \in ToSet(members)}
<1> DEFINE W == {PathOf[m] : m \in ToSet(members)}
<1>1. PICK n \in Nat : n = Len(members) /\ DOMAIN members = 1..n
  OBVIOUS
<1>2. PICK s : s = [i \in DOMAIN members |-> PathOf[members[i]]]
  OBVIOUS
<1>3. \A i \in 1..n : members[i] \in ToSet(members)
  BY <1>1 DEF ToSet
<1>4. s \in Seq(W) /\ DOMAIN s = 1..n
  <2>1. s \in [1..n -> W]
    BY <1>1, <1>2, <1>3
  <2> HIDE DEF W
  <2> QED BY <1>1, <2>1, SeqDef
<1>5. ToSet(s) = W
  BY <1>1, <1>2, <1>4 DEF ToSet
<1>6. PICK base : base = <<>> /\ base \in Seq(W) /\ IsInjective(base) /\ ToSet(base) = {}
  <2>1. <<>> \in Seq(W) /\ IsInjective(<<>>) /\ ToSet(<<>>) = {}
    BY DEF IsInjective, ToSet
  <2> QED BY <2>1
<1>7. Normalised(members) = AddingAll(base, s)
  BY <1>2, <1>6 DEF Normalised, AddingAll
<1> HIDE DEF W
<1>8. /\ AddingAll(base, s) \in Seq(W) /\ IsInjective(AddingAll(base, s))
      /\ ToSet(AddingAll(base, s)) = ToSet(base) \cup ToSet(s)
  <2>1. base \in Seq(W) /\ IsInjective(base) /\ s \in Seq(W)
    BY <1>4, <1>6
  <2>2. ASSUME NEW V, NEW b \in Seq(V), IsInjective(b), NEW q \in Seq(V)
        PROVE  /\ AddingAll(b, q) \in Seq(V) /\ IsInjective(AddingAll(b, q))
               /\ ToSet(AddingAll(b, q)) = ToSet(b) \cup ToSet(q)
    BY <2>2, FoldAdds
  <2> QED BY <2>1, <2>2
<1>9. ToSet(Normalised(members)) = W
  BY <1>5, <1>6, <1>7, <1>8
<1>10. Normalised(members) \in Seq(W) /\ IsInjective(Normalised(members))
  BY <1>7, <1>8
<1>11. Normalised(members) \in Seq(ToSet(Normalised(members)))
  BY <1>9, <1>10
<1> QED BY <1>9, <1>10, <1>11 DEF W

\* A proposed axis that neither raises nor stays unresolved.
AxisFits(axis, e, src, a, v) ==
    /\ a = Declared(v) \/ (axis # "targets" /\ a = SafeDefault(v))
    /\ v \in Seq(ToSet(v)) /\ IsInjective(v)
    /\ axis = ENUM_AXIS => v = USER_DECISION
    /\ ToSet(v) \cap Marked # {} /\ axis # "targets" => ToSet(e.value) \cap Marked # {}
    /\ axis # ENUM_AXIS /\ a = Declared(v) =>
          \A x \in ToSet(v) : \E i \in DOMAIN e.value :
             /\ x = IF axis = "targets" THEN PathOf[e.value[i]] ELSE e.value[i]
             /\ e.evidence[i] \in src.spans
    /\ axis = "surface" /\ a = SafeDefault(v) => ToSet(v) \subseteq src.scope
    /\ axis = "targets" /\ src.apply => v # <<>>

LEMMA DeclaredFits ==
    ASSUME NEW axis \in SET_AXES, NEW e, NEW src, NEW a,
           e.value \in Seq(ToSet(e.value)), e.evidence \in Seq(ToSet(e.evidence)),
           ~MembersRefused(e), a = DeclaredAxis(axis, e, src),
           a.state \notin {"raised", "unresolved"}
    PROVE  \E v : AxisFits(axis, e, src, a, v)
<1>1. axis # ENUM_AXIS /\ IsInjective(e.value)
  BY DEF SET_AXES, ENUM_AXIS, MembersRefused
<1>2. Raised.state = "raised" /\ Unresolved.state = "unresolved"
  BY DEF Raised, Unresolved, Value
<1>3. \A v, w : Declared(v) # SafeDefault(w)
  <2> SUFFICES ASSUME NEW v, NEW w PROVE Declared(v) # SafeDefault(w)
    OBVIOUS
  <2>1. Declared(v).state = "declared" /\ SafeDefault(w).state = "semantically_silent"
    BY DEF Declared, SafeDefault, Value
  <2> QED BY <2>1
<1>4. CASE e.value = <<>>
  <2>1. a = Declared(<<>>) /\ axis = "targets" /\ ~src.apply
    BY <1>2, <1>4 DEF DeclaredAxis, EmptyDeclared
  <2>2. <<>> \in Seq(ToSet(<<>>)) /\ IsInjective(<<>>) /\ ToSet(<<>>) = {}
    BY DEF IsInjective, ToSet
  <2> QED BY <1>1, <1>3, <2>1, <2>2 DEF AxisFits
<1>5. CASE e.value # <<>>
  <2>1. /\ Len(e.evidence) = Len(e.value) /\ Grounded(e.evidence, src.spans)
        /\ a = IF axis # "targets" THEN Declared(e.value) ELSE Declared(Normalised(e.value))
    BY <1>2, <1>5 DEF DeclaredAxis
  <2>2. DOMAIN e.value = 1..Len(e.value) /\ Len(e.value) \in Nat
        /\ DOMAIN e.evidence = DOMAIN e.value
    BY <2>1
  <2>3. \A i \in DOMAIN e.value : e.evidence[i] \in src.spans
    BY <2>1, <2>2 DEF Grounded, ToSet
  <2>4. \A x \in ToSet(e.value) : \E i \in DOMAIN e.value : x = e.value[i]
    BY <2>2 DEF ToSet
  <2>5. CASE axis # "targets"
    <3>1. \A x \in ToSet(e.value) : \E i \in DOMAIN e.value :
             x = e.value[i] /\ e.evidence[i] \in src.spans
      BY <2>3, <2>4
    <3> QED BY <1>1, <1>3, <2>1, <2>5, <3>1 DEF AxisFits
  <2>6. CASE axis = "targets"
    <3>1. PICK v : v = Normalised(e.value)
      OBVIOUS
    <3>2. /\ v \in Seq(ToSet(v)) /\ IsInjective(v)
          /\ ToSet(v) = {PathOf[m] : m \in ToSet(e.value)}
      BY <3>1, NormalisedIs
    <3>3. \A x \in ToSet(v) : \E i \in DOMAIN e.value :
             x = PathOf[e.value[i]] /\ e.evidence[i] \in src.spans
      BY <2>3, <2>4, <3>2
    <3>4. v # <<>>
      <4>1. 1 \in DOMAIN e.value
        BY <1>5, <2>2
      <4>2. e.value[1] \in ToSet(e.value)
        BY <4>1 DEF ToSet
      <4>3. PathOf[e.value[1]] \in ToSet(v)
        BY <3>2, <4>2
      <4> QED BY <4>3 DEF ToSet
    <3> QED BY <1>1, <1>3, <2>1, <2>6, <3>1, <3>2, <3>3, <3>4 DEF AxisFits
  <2> QED BY <2>5, <2>6
<1> QED BY <1>4, <1>5

LEMMA AxisIs ==
    ASSUME NEW axis \in AXES, NEW e, NEW src, NEW a,
           e.state \in {"misshapen", "unresolved", "declared", "semantically_silent"},
           e.value \in Seq(ToSet(e.value)), e.evidence \in Seq(ToSet(e.evidence)),
           a = AxisFromProposal(axis, e, src), a.state \notin {"raised", "unresolved"}
    PROVE  \E v : AxisFits(axis, e, src, a, v)
<1>1. Raised.state = "raised" /\ Unresolved.state = "unresolved"
  BY DEF Raised, Unresolved, Value
<1>2. e.state \in {"declared", "semantically_silent"}
  BY <1>1 DEF AxisFromProposal
<1>3. CASE axis = ENUM_AXIS
  <2>1. a = ExpansionAxis(e, src) /\ axis \notin {"targets", "surface"}
    BY <1>2, <1>3 DEF AxisFromProposal, ENUM_AXIS
  <2>2. e.value = USER_DECISION /\ (a = Declared(USER_DECISION) \/ a = SafeDefault(USER_DECISION))
    BY <1>1, <2>1 DEF ExpansionAxis
  <2>3. USER_DECISION \in Seq(ToSet(USER_DECISION)) /\ IsInjective(USER_DECISION)
    <3>1. DOMAIN USER_DECISION = {1}
      BY DEF USER_DECISION
    <3>2. IsInjective(USER_DECISION)
      BY <3>1 DEF IsInjective
    <3> QED BY <2>2, <3>2
  <2> QED BY <1>3, <2>1, <2>2, <2>3 DEF AxisFits
<1>4. CASE axis # ENUM_AXIS
  <2>1. /\ axis \in SET_AXES /\ ~MembersRefused(e)
        /\ a = IF e.state = "declared" THEN DeclaredAxis(axis, e, src) ELSE SilentAxis(axis, e, src)
    BY <1>1, <1>2, <1>4 DEF AxisFromProposal, AXES
  <2>2. CASE e.state = "declared"
    BY <2>1, <2>2, DeclaredFits
  <2>3. CASE e.state # "declared"
    <3>1. /\ axis # "targets" /\ a = SafeDefault(e.value)
          /\ axis = "surface" => ToSet(e.value) \subseteq src.scope
      <4>1. a = SilentAxis(axis, e, src) /\ axis \in {"surface", "targets", "ceiling"}
        BY <2>1, <2>3 DEF SET_AXES
      <4>2. CASE axis = "targets"
        BY <4>1, <4>2, <1>1 DEF SilentAxis
      <4>3. CASE axis = "ceiling"
        BY <4>1, <4>3, <1>1 DEF SilentAxis
      <4>4. CASE axis = "surface"
        <5>1. ToSet(<<>>) = {}
          BY DEF ToSet
        <5> QED BY <4>1, <4>4, <5>1, <1>1 DEF SilentAxis, Grounded
      <4> QED BY <4>1, <4>2, <4>3, <4>4
    <3>2. IsInjective(e.value)
      BY <2>1 DEF MembersRefused
    <3>3. \A v : a # Declared(v)
      <4> SUFFICES ASSUME NEW v PROVE a # Declared(v)
        OBVIOUS
      <4>1. Declared(v).state = "declared" /\ SafeDefault(e.value).state = "semantically_silent"
        BY DEF Declared, SafeDefault, Value
      <4> QED BY <3>1, <4>1
    <3> QED BY <1>4, <3>1, <3>2, <3>3 DEF AxisFits
  <2> QED BY <2>2, <2>3
<1> QED BY <1>3, <1>4

\* The write targets of an envelope: the declared ones and the engine's own.
TargetsFit(p, v, owned) ==
    /\ p.state = "declared" /\ p.default_applied = FALSE
    /\ ToSet(p.value) = ToSet(v) \cup owned /\ IsInjective(p.value)
    /\ DOMAIN p.source = ToSet(v) \cup owned
    /\ \A x \in ToSet(v) \cup owned :
          p.source[x] = IF x \in owned THEN "engine_owned" ELSE "requirement_sources"
    /\ owned # {} /\ owned \subseteq {"reports", "gate-review-output"}

LEMMA TargetsIs ==
    ASSUME NEW v, v \in Seq(ToSet(v)), IsInjective(v), NEW gated \in BOOLEAN, NEW p, NEW owned,
           p = WithEngineTargets(Declared(v), gated), owned = ToSet(EngineOwned(gated))
    PROVE  TargetsFit(p, v, owned)
<1>1. PICK src : src = [x \in ToSet(v) |-> "requirement_sources"]
  OBVIOUS
<1>2. Declared(v) = [state |-> "declared", value |-> v, default_applied |-> FALSE, source |-> src]
  BY <1>1 DEF Declared, Value
<1>3. PICK o : o = EngineOwned(gated) /\ owned = ToSet(o)
  OBVIOUS
<1>4. /\ o \in Seq(owned) /\ owned # {} /\ owned \subseteq {"reports", "gate-review-output"}
  <2>1. CASE gated
    <3>1. o = <<"reports", "gate-review-output">> /\ DOMAIN o = {1, 2}
      BY <1>3, <2>1 DEF EngineOwned
    <3>2. owned = {"reports", "gate-review-output"}
      BY <1>3, <3>1 DEF ToSet
    <3> QED BY <3>1, <3>2
  <2>2. CASE ~gated
    <3>1. o = <<"reports">> /\ DOMAIN o = {1}
      BY <1>3, <2>2 DEF EngineOwned
    <3>2. owned = {"reports"}
      BY <1>3, <3>1 DEF ToSet
    <3> QED BY <3>1, <3>2
  <2> QED BY <2>1, <2>2
<1>5. PICK w, source : w = AddingAll(v, o) /\ source = EngineSource(src, o)
  OBVIOUS
<1>6. ToSet(w) = ToSet(v) \cup owned /\ IsInjective(w)
  <2>1. PICK V : V = ToSet(v) \cup owned
    OBVIOUS
  <2>2. v \in Seq(V) /\ o \in Seq(V)
    BY <1>4, <2>1
  <2> QED BY <1>3, <1>5, <2>2, FoldAdds
<1>7. source = [x \in ToSet(v) \cup owned |->
                   IF x \in owned THEN "engine_owned" ELSE "requirement_sources"]
  <2>1. DOMAIN src = ToSet(v) /\ \A x \in ToSet(v) : src[x] = "requirement_sources"
    BY <1>1
  <2>2. source = [x \in ToSet(v) \cup owned |-> IF x \in owned THEN "engine_owned" ELSE src[x]]
    BY <1>3, <1>5, <2>1 DEF EngineSource
  <2> QED BY <2>1, <2>2
<1>8. p = [state |-> "declared", value |-> w, default_applied |-> FALSE, source |-> source]
  <2>1. PICK d : d = Declared(v)
    OBVIOUS
  <2>2. p = [d EXCEPT !.value = AddingAll(d.value, EngineOwned(gated)),
                      !.source = EngineSource(d.source, EngineOwned(gated))]
    BY <2>1 DEF WithEngineTargets, AddingAll
  <2>3. d = [state |-> "declared", value |-> v, default_applied |-> FALSE, source |-> src]
    BY <1>2, <2>1
  <2>4. d.value = v /\ d.source = src
    BY <2>3
  <2>5. p = [d EXCEPT !.value = w, !.source = source]
    BY <1>3, <1>5, <2>2, <2>4
  <2> QED BY <2>3, <2>5
<1> QED BY <1>4, <1>6, <1>7, <1>8 DEF TargetsFit

\* Every axis of an envelope is a proposed one, the targets with the engine's own.
LEMMA PayloadIs ==
    ASSUME NEW y \in Reply, NEW src, NEW gated \in BOOLEAN, Resolves(Says[y], src), NEW axis \in AXES
    PROVE  \E a, v :
              /\ AxisFits(axis, Says[y].axes[axis], ResolverSources(src), a, v)
              /\ EnvelopePayload(Says[y], src, gated)[axis] =
                    IF axis = "targets" THEN WithEngineTargets(a, gated) ELSE a
<1>1. PICK e, rs, a : /\ e = Says[y].axes[axis] /\ rs = ResolverSources(src)
                      /\ a = AxisFromProposal(axis, e, rs)
  OBVIOUS
<1>2. ParsedAxes(Says[y], src) = [x \in AXES |-> ParsedAxes(Says[y], src)[x]]
      /\ a = ParsedAxes(Says[y], src)[axis]
  BY <1>1 DEF ParsedAxes
<1>3. a.state \notin {"raised", "unresolved"}
  BY <1>2 DEF Resolves, ReplyRefused
<1>4. PICK v : AxisFits(axis, e, rs, a, v)
  <2>1. /\ e.state \in {"misshapen", "unresolved", "declared", "semantically_silent"}
        /\ e.value \in Seq(ToSet(e.value)) /\ e.evidence \in Seq(ToSet(e.evidence))
    BY <1>1, SaysAssumption
  <2> QED BY <1>1, <1>3, <2>1, AxisIs
<1>5. EnvelopePayload(Says[y], src, gated)[axis] =
         IF axis = "targets" THEN WithEngineTargets(a, gated) ELSE a
  <2>1. PICK parsed : parsed = ParsedAxes(Says[y], src)
    OBVIOUS
  <2>2. parsed = [x \in AXES |-> parsed[x]] /\ a = parsed[axis]
    BY <1>2, <2>1
  <2>3. EnvelopePayload(Says[y], src, gated) =
           [parsed EXCEPT !["targets"] = WithEngineTargets(parsed["targets"], gated)]
    BY <2>1 DEF EnvelopePayload
  <2> QED BY <2>2, <2>3
<1> QED BY <1>1, <1>4, <1>5

\* The block the writer renders is one its own schema accepts.
LEMMA PayloadValid ==
    ASSUME NEW y \in Reply, NEW src, NEW gated \in BOOLEAN, Resolves(Says[y], src), NEW axis \in AXES
    PROVE  /\ ValidAxis(axis, EnvelopePayload(Says[y], src, gated)[axis])
           /\ ToSet(EnvelopePayload(Says[y], src, gated)[axis].value) \cap Marked # {}
                 => ToSet(Says[y].axes[axis].value) \cap Marked # {}
<1>1. PICK e, rs, a, v, p :
        /\ e = Says[y].axes[axis] /\ AxisFits(axis, e, rs, a, v)
        /\ p = EnvelopePayload(Says[y], src, gated)[axis]
        /\ p = IF axis = "targets" THEN WithEngineTargets(a, gated) ELSE a
  <2>1. PICK a, v :
           /\ AxisFits(axis, Says[y].axes[axis], ResolverSources(src), a, v)
           /\ EnvelopePayload(Says[y], src, gated)[axis] =
                 IF axis = "targets" THEN WithEngineTargets(a, gated) ELSE a
    BY PayloadIs
  <2> QED BY <2>1
<1>2. v \in Seq(ToSet(v)) /\ IsInjective(v) /\ (axis = ENUM_AXIS => v = USER_DECISION)
  BY <1>1 DEF AxisFits
<1>3. CASE axis = "targets"
  <2>1. a = Declared(v)
    BY <1>1, <1>3 DEF AxisFits
  <2>2. PICK owned : owned = ToSet(EngineOwned(gated))
    OBVIOUS
  <2>3. TargetsFit(p, v, owned)
    <3>1. p = WithEngineTargets(Declared(v), gated)
      BY <1>1, <1>3, <2>1
    <3> QED BY <1>2, <2>2, <3>1, TargetsIs
  <2>4. ValidAxis(axis, p)
    <3>1. DOMAIN p.source = ToSet(p.value)
      BY <2>3 DEF TargetsFit
    <3>2. \E x \in ToSet(p.value) : p.source[x] # "safe_default"
      BY <2>3 DEF TargetsFit
    <3> QED BY <1>3, <2>3, <3>1, <3>2 DEF TargetsFit, ValidAxis, ENUM_AXIS
  <2>5. ToSet(p.value) \cap Marked # {} => ToSet(e.value) \cap Marked # {}
    <3> SUFFICES ASSUME NEW x \in ToSet(p.value), x \in Marked
                 PROVE  ToSet(e.value) \cap Marked # {}
      OBVIOUS
    <3>1. x \in ToSet(v)
      BY <2>3, MembersAssumption DEF TargetsFit
    <3>2. PICK i \in DOMAIN e.value : x = PathOf[e.value[i]]
      BY <1>1, <1>3, <2>1, <3>1 DEF AxisFits, ENUM_AXIS
    <3>3. e.value[i] \in ToSet(e.value) /\ ToSet(e.value) \subseteq DOMAIN PathOf
      <4>1. e.value[i] \in ToSet(e.value)
        BY <3>2 DEF ToSet
      <4>2. ToSet(e.value) \subseteq DOMAIN PathOf
        BY <1>1, <1>3, SaysAssumption
      <4> QED BY <4>1, <4>2
    <3> QED BY <3>2, <3>3, MembersAssumption
  <2> QED BY <1>1, <2>4, <2>5
<1>4. CASE axis # "targets"
  <2>1. p = a /\ (a = Declared(v) \/ a = SafeDefault(v))
    BY <1>1, <1>4 DEF AxisFits
  <2>2. PICK provenance, state :
           /\ p.value = v /\ p.source = [x \in ToSet(v) |-> provenance] /\ p.state = state
           /\ \/ state = "declared" /\ provenance = "requirement_sources" /\ p.default_applied = FALSE
              \/ state = "semantically_silent" /\ provenance = "safe_default" /\ p.default_applied = TRUE
    <3>1. CASE a = Declared(v)
      BY <2>1, <3>1 DEF Declared, Value
    <3>2. CASE a = SafeDefault(v)
      BY <2>1, <3>2 DEF SafeDefault, Value
    <3> QED BY <2>1, <3>1, <3>2
  <2>3. state = "declared" /\ v # <<>> => \E x \in ToSet(v) : p.source[x] # "safe_default"
    <3> SUFFICES ASSUME state = "declared", v # <<>>
                 PROVE  \E x \in ToSet(v) : p.source[x] # "safe_default"
      OBVIOUS
    <3>1. 1 \in DOMAIN v
      BY <1>2
    <3>2. v[1] \in ToSet(v)
      BY <3>1 DEF ToSet
    <3> QED BY <2>2, <3>2
  <2>4. DOMAIN p.source = ToSet(p.value)
    BY <2>2
  <2>5. ValidAxis(axis, p)
    BY <1>2, <1>4, <2>2, <2>3, <2>4 DEF ValidAxis
  <2>6. ToSet(p.value) \cap Marked # {} => ToSet(e.value) \cap Marked # {}
    BY <1>1, <1>4, <2>2 DEF AxisFits
  <2> QED BY <1>1, <2>5, <2>6
<1> QED BY <1>3, <1>4

-----------------------------------------------------------------------------
\* The authority of what is enqueued.

LEMMA OutcomeIs ==
    ASSUME NEW y \in Reply
    PROVE  /\ StopGate(Fact) \in BOOLEAN
           /\ Outcome(y) \in {"enqueued", "blocked"} => Resolves(Says[y], Fact.src)
           /\ Outcome(y) = "blocked" =>
                 ~ReadsBack(EnvelopePayload(Says[y], Fact.src, StopGate(Fact)))
  BY DEF Outcome, StopGate

\* start.py renders the envelope and reads the input back before it enqueues:
\* that check refuses an attempt only when a member carries a marker itself,
\* for the payload the engine adds its own targets to is always valid.
THEOREM EnvelopeReadsBack == Spec => []EmittedReadsBack
<1>1. IInv => EmittedReadsBack
  <2> SUFFICES ASSUME IInv, NEW i \in DOMAIN attempts, attempts[i].outcome = "blocked"
               PROVE  \E axis \in AXES :
                         ToSet(Says[attempts[i].reply].axes[axis].value) \cap Marked # {}
    BY DEF EmittedReadsBack
  <2>1. PICK y \in Reply : y = attempts[i].reply /\ Outcome(y) = "blocked"
    <3>1. i \in 1..Len(attempts) /\ attempts[i] \in Attempt
      BY DEF IInv, TypeOK
    <3> QED BY <3>1 DEF IInv, AttemptsFit, Attempt
  <2>2. PICK src, gated : gated \in BOOLEAN /\ src = Fact.src /\ gated = StopGate(Fact)
    BY OutcomeIs
  <2>3. Resolves(Says[y], src) /\ ~ReadsBack(EnvelopePayload(Says[y], src, gated))
    BY <2>1, <2>2, OutcomeIs
  <2>4. PICK axis \in AXES :
           \/ ~ValidAxis(axis, EnvelopePayload(Says[y], src, gated)[axis])
           \/ ToSet(EnvelopePayload(Says[y], src, gated)[axis].value) \cap Marked # {}
    BY <2>3 DEF ReadsBack
  <2>5. /\ ValidAxis(axis, EnvelopePayload(Says[y], src, gated)[axis])
        /\ ToSet(EnvelopePayload(Says[y], src, gated)[axis].value) \cap Marked # {}
              => ToSet(Says[y].axes[axis].value) \cap Marked # {}
    BY <2>2, <2>3, PayloadValid
  <2> QED BY <2>1, <2>4, <2>5
<1> QED BY <1>1, EffectsFit, PTL

\* One axis of an envelope, and what its members were quoted from.
GroundedAxis(axis, p, e, rs) ==
    /\ axis # ENUM_AXIS => \A x \in ToSet(p.value) : p.source[x] = "requirement_sources" =>
          \E i \in DOMAIN e.value :
             /\ x = IF axis = "targets" THEN PathOf[e.value[i]] ELSE e.value[i]
             /\ e.evidence[i] \in rs.spans
    /\ axis = "targets" /\ rs.apply =>
          \E x \in ToSet(p.value) : \E i \in DOMAIN e.value :
             x = PathOf[e.value[i]] /\ e.evidence[i] \in rs.spans
    /\ axis = "surface" /\ p.state = "semantically_silent" => ToSet(p.value) \subseteq rs.scope

LEMMA AxisGrounded ==
    ASSUME NEW y \in Reply, NEW src, NEW gated \in BOOLEAN, Resolves(Says[y], src),
           NEW axis \in AXES, NEW p, p = EnvelopePayload(Says[y], src, gated)[axis],
           NEW e, e = Says[y].axes[axis], NEW rs, rs = ResolverSources(src)
    PROVE  GroundedAxis(axis, p, e, rs)
<1>1. PICK a, v : /\ AxisFits(axis, e, rs, a, v)
                  /\ p = IF axis = "targets" THEN WithEngineTargets(a, gated) ELSE a
  <2>1. PICK a, v :
           /\ AxisFits(axis, Says[y].axes[axis], ResolverSources(src), a, v)
           /\ EnvelopePayload(Says[y], src, gated)[axis] =
                 IF axis = "targets" THEN WithEngineTargets(a, gated) ELSE a
    BY PayloadIs
  <2> QED BY <2>1
<1>2. v \in Seq(ToSet(v)) /\ IsInjective(v)
  BY <1>1 DEF AxisFits
<1>3. CASE axis = "targets"
  <2>1. a = Declared(v) /\ axis # ENUM_AXIS /\ axis # "surface"
    BY <1>1, <1>3 DEF AxisFits, ENUM_AXIS
  <2>2. PICK owned : owned = ToSet(EngineOwned(gated))
    OBVIOUS
  <2>3. TargetsFit(p, v, owned)
    <3>1. p = WithEngineTargets(Declared(v), gated)
      BY <1>1, <1>3, <2>1
    <3> QED BY <1>2, <2>2, <3>1, TargetsIs
  <2>4. \A x \in ToSet(v) : \E i \in DOMAIN e.value : x = PathOf[e.value[i]] /\ e.evidence[i] \in rs.spans
    BY <1>1, <1>3, <2>1 DEF AxisFits
  <2>5. \A x \in ToSet(p.value) : p.source[x] = "requirement_sources" => x \in ToSet(v)
    BY <2>3 DEF TargetsFit
  <2>6. rs.apply => \E x \in ToSet(v) : x \in ToSet(p.value)
    <3> SUFFICES ASSUME rs.apply PROVE \E x \in ToSet(v) : x \in ToSet(p.value)
      OBVIOUS
    <3>1. 1 \in DOMAIN v
      <4>1. v # <<>>
        BY <1>1, <1>3 DEF AxisFits
      <4> QED BY <1>2, <4>1
    <3>2. v[1] \in ToSet(v)
      BY <3>1 DEF ToSet
    <3> QED BY <2>3, <3>2 DEF TargetsFit
  <2> QED BY <1>3, <2>1, <2>4, <2>5, <2>6 DEF GroundedAxis
<1>4. CASE axis # "targets"
  <2>1. p = a /\ (a = Declared(v) \/ a = SafeDefault(v))
    BY <1>1, <1>4 DEF AxisFits
  <2>2. CASE a = Declared(v)
    <3>1. p.value = v /\ p.state = "declared"
      BY <2>1, <2>2 DEF Declared, Value
    <3>2. axis # ENUM_AXIS => \A x \in ToSet(v) : \E i \in DOMAIN e.value :
             x = e.value[i] /\ e.evidence[i] \in rs.spans
      BY <1>1, <1>4, <2>2 DEF AxisFits
    <3> QED BY <1>4, <3>1, <3>2 DEF GroundedAxis
  <2>3. CASE a = SafeDefault(v)
    <3>1. p.value = v /\ p.source = [x \in ToSet(v) |-> "safe_default"]
      BY <2>1, <2>3 DEF SafeDefault, Value
    <3>2. axis = "surface" => ToSet(v) \subseteq rs.scope
      BY <1>1, <2>3 DEF AxisFits
    <3> QED BY <1>4, <3>1, <3>2 DEF GroundedAxis
  <2> QED BY <2>1, <2>2, <2>3
<1> QED BY <1>3, <1>4

\* What the task was enqueued with: one resolvable reply.
LEMMA RunReply ==
    ASSUME IInv, NEW r \in RunRequests
    PROVE  /\ requests[r].reply \in Reply /\ ask \in Ask
           /\ Resolves(Says[requests[r].reply], Fact.src)
<1>1. r \in 1..Len(requests) /\ requests[r].kind = "run" /\ TypeOK
  BY DEF IInv, RunRequests
<1>2. RequestFits(r, Ahead) /\ Ahead[r] = requests[r]
  BY <1>1 DEF IInv, TypeOK, RequestsFit, Ahead
<1>3. requests[r].reply \in Reply /\ Outcome(requests[r].reply) = "enqueued"
  BY <1>1, <1>2 DEF RequestFits
<1>4. ask \in Ask
  <2>1. requests # <<>>
    BY <1>1
  <2> QED BY <2>1 DEF IInv, TypeOK, Begun
<1> QED BY <1>3, <1>4, OutcomeIs

\* _axis_from_proposal and _envelope_payload: what a task may touch and do is
\* what its own sources say, whatever the resolver answered; a tool-less
\* review grants no target, an apply task names one that was quoted.
THEOREM AuthoritySourced == Spec => []AuthorityGrounded
<1>1. IInv => AuthorityGrounded
  <2> SUFFICES ASSUME IInv, NEW r \in RunRequests
               PROVE  LET envelope == EnvelopeOf(r)
                          asked(axis) == {x \in ToSet(envelope[axis].value) :
                                             envelope[axis].source[x] = "requirement_sources"}
                      IN  /\ \A axis \in AXES : \A x \in asked(axis) :
                                  axis = ENUM_AXIS \/ Quoted(axis, x, r)
                          /\ Fact.type = "apply"
                             => \E x \in ToSet(envelope["targets"].value) : Quoted("targets", x, r)
                          /\ Fact.draft => asked("targets") = {}
                          /\ envelope["surface"].state = "semantically_silent"
                              => ToSet(envelope["surface"].value) \subseteq Fact.src.scope
    BY DEF AuthorityGrounded
  <2>1. PICK y, src, gated, rs :
           /\ y \in Reply /\ gated \in BOOLEAN
           /\ y = requests[r].reply /\ src = Fact.src /\ gated = StopGate(Fact)
           /\ rs = ResolverSources(src) /\ Resolves(Says[y], src) /\ ask \in Ask
    BY RunReply, OutcomeIs
  <2>2. PICK envelope : envelope = EnvelopeOf(r) /\ envelope = EnvelopePayload(Says[y], src, gated)
    BY <2>1 DEF EnvelopeOf
  <2>3. /\ Fact.type = "apply" => rs.apply
        /\ rs.scope = Fact.src.scope
        /\ Fact.draft => Says[y].axes["targets"].value = <<>>
    <3>1. /\ DOMAIN src = {"spans", "own", "scope", "paths", "apply", "review"}
          /\ Fact.type = "apply" => src.apply
          /\ Fact.draft => src.review
      BY <2>1, FactsAssumption DEF Fact
    <3>2. rs.apply = src.apply /\ rs.scope = src.scope
      BY <2>1, <3>1 DEF ResolverSources
    <3>3. src.review => Says[y].axes["targets"].value = <<>>
      BY <2>1 DEF Resolves, ReplyRefused
    <3> QED BY <2>1, <3>1, <3>2, <3>3
  <2>4. ASSUME NEW axis \in AXES
        PROVE  /\ axis # ENUM_AXIS => \A x \in ToSet(envelope[axis].value) :
                     envelope[axis].source[x] = "requirement_sources" => Quoted(axis, x, r)
               /\ axis = "targets" /\ rs.apply =>
                     \E x \in ToSet(envelope[axis].value) : Quoted(axis, x, r)
               /\ axis = "surface" /\ envelope[axis].state = "semantically_silent"
                     => ToSet(envelope[axis].value) \subseteq rs.scope
    <3>1. PICK p, e : p = envelope[axis] /\ e = Says[y].axes[axis]
      OBVIOUS
    <3>2. GroundedAxis(axis, p, e, rs)
      <4>1. p = EnvelopePayload(Says[y], src, gated)[axis]
        BY <2>2, <3>1
      <4> QED BY <2>1, <3>1, <4>1, AxisGrounded
    <3>3. \A x : Quoted(axis, x, r) <=>
             \E i \in DOMAIN e.value :
                /\ x = IF axis = "targets" THEN PathOf[e.value[i]] ELSE e.value[i]
                /\ e.evidence[i] \in rs.spans
      BY <2>1, <3>1 DEF Quoted
    <3>4. axis # ENUM_AXIS => \A x \in ToSet(p.value) : p.source[x] = "requirement_sources" => Quoted(axis, x, r)
      BY <3>2, <3>3 DEF GroundedAxis
    <3>5. axis = "targets" /\ rs.apply => \E x \in ToSet(p.value) : Quoted(axis, x, r)
      BY <3>2, <3>3 DEF GroundedAxis
    <3>6. axis = "surface" /\ p.state = "semantically_silent" => ToSet(p.value) \subseteq rs.scope
      BY <3>2 DEF GroundedAxis
    <3> QED BY <3>1, <3>4, <3>5, <3>6
  <2>5. "targets" \in AXES /\ "surface" \in AXES /\ "targets" # ENUM_AXIS
    BY DEF AXES, SET_AXES, ENUM_AXIS
  <2>6. \A axis \in AXES : \A x \in ToSet(envelope[axis].value) :
           envelope[axis].source[x] = "requirement_sources" => axis = ENUM_AXIS \/ Quoted(axis, x, r)
    BY <2>4
  <2>7. Fact.type = "apply" => \E x \in ToSet(envelope["targets"].value) : Quoted("targets", x, r)
    BY <2>3, <2>4, <2>5
  <2>8. Fact.draft => \A x \in ToSet(envelope["targets"].value) :
           envelope["targets"].source[x] # "requirement_sources"
    <3>1. Fact.draft => \A x : ~Quoted("targets", x, r)
      BY <2>1, <2>3 DEF Quoted
    <3> QED BY <2>4, <2>5, <3>1
  <2>9. envelope["surface"].state = "semantically_silent"
           => ToSet(envelope["surface"].value) \subseteq Fact.src.scope
    BY <2>3, <2>4, <2>5
  <2> QED BY <2>2, <2>6, <2>7, <2>8, <2>9
<1> QED BY <1>1, EffectsFit, PTL
=============================================================================
