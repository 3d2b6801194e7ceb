------------------------ MODULE TaskLifecycleProofs ------------------------
(***************************************************************************)
(* What holds of TaskLifecycle for every task set, profile, framing and    *)
(* bound: the rows are well typed, a running task has exactly one leased   *)
(* run, and a durable task keeps its snapshots; then, of the history it    *)
(* writes, that evidence is never rewritten, a run follows another only on *)
(* the profile's or a person's word, and the keys, budgets and edge        *)
(* counters add up.  The proofs about the history do not look at the       *)
(* actions: each step has one of the kinds listed below, and each          *)
(* invariant is shown to survive every kind.                               *)
(*                                                                         *)
(* Then what holds of the request queue in front of it: the daemon makes   *)
(* no call the controller would not accept on its own (Intake implements   *)
(* TaskLifecycle, so every theorem above holds behind the daemon too), a   *)
(* request takes effect at most once and is answered at most once (Intake  *)
(* implements RequestLedger), and a crash leaves no task without a request *)
(* that drives it on.                                                      *)
(***************************************************************************)
EXTENDS Intake, TLAPS, SequenceTheorems, FiniteSetTheorems, WellFoundedInduction

-----------------------------------------------------------------------------
\* Facts about the data.

\* The latest of a non-empty set of positions in a log exists: what the
\* controller's ORDER BY ... DESC LIMIT 1 queries return.
LEMMA LatestExists ==
    ASSUME NEW n \in Nat, NEW S \in SUBSET (1..n), S # {}
    PROVE  \E k \in S : \A j \in S : j <= k
<1> DEFINE R == {ss \in Nat \X Nat : ss[1] < ss[2]}
           T == {n - k : k \in S}
<1>1. T \subseteq Nat /\ T # {}
  <2>1. \A k \in S : n - k \in Nat
    OBVIOUS
  <2>2. T # {}
    BY Zenon
  <2> QED BY <2>1, <2>2
<1>2. IsWellFoundedOn(R, Nat)
  BY NatLessThanWellFounded, Zenon DEF OpToRel
<1>3. PICK x \in T : \A y \in T : <<y, x>> \notin R
  <2> HIDE DEF R, T
  <2> QED BY <1>1, <1>2, WFMin
<1>4. \A y \in T : ~(y < x)
  BY <1>1, <1>3
<1>5. PICK k \in S : x = n - k
  OBVIOUS
<1>6. \A j \in S : n - j \in T /\ ~(n - j < n - k)
  BY <1>4, <1>5
<1> QED BY <1>6, <1>5

\* A typed outcome of a stage leads to a stage, and its edge has a counter:
\* what validate_profile guarantees of a frozen profile.
LEMMA OutcomeTarget ==
    ASSUME NEW s \in StageNames(Profile), NEW o \in OutcomesOf(Profile, s)
    PROVE  /\ Target(Profile, s, o) \in StageNames(Profile)
           /\ <<s, o>> \in EdgeSet
           /\ IsTerminal(Profile, Target(Profile, s, o)) =>
                Profile.stages[Target(Profile, s, o)].terminal \in TERMINAL_STATUSES
<1>1. Target(Profile, s, o) \in StageNames(Profile)
  BY ProfileAssumption DEF ValidProfile
<1>2. <<s, o>> \in EdgeSet
  BY DEF EdgeSet, Edges
<1> QED BY <1>1, <1>2, ProfileAssumption DEF ValidProfile

\* The attempt number of a new run is well typed: the run it continues exists.
LEMMA NewRunType ==
    ASSUME TypeOK, NEW t \in Task, NEW status \in RunStatus, NEW lease \in Nat
    PROVE  /\ NewRun(t, status, lease) \in RunRow
           /\ NewRun(t, status, lease).status = status
           /\ NewRun(t, status, lease).lease = lease
           /\ NewRun(t, status, lease).stage = task[t].stage
<1> DEFINE s == task[t].stage
           ks == RunsOf(t, s)
           n == Len(runs[t])
<1>1. s \in StageNames(Profile)
  BY DEF TypeOK, TaskRow
<1>2. runs[t] \in Seq(RunRow) /\ n \in Nat /\ DOMAIN runs[t] = 1..n
  BY DEF TypeOK
<1>3. NextAttempt(t, s).cycle \in Nat /\ NextAttempt(t, s).attempt \in Nat
  <2>1. CASE ks = {}
    BY <2>1 DEF NextAttempt
  <2>2. CASE ks # {}
    <3> DEFINE k == CHOOSE k \in ks : \A j \in ks : j <= k
               last == runs[t][k]
    <3>1. ks \in SUBSET (1..n)
      BY <1>2 DEF RunsOf
    <3>2. \E i \in ks : \A j \in ks : j <= i
      BY <1>2, <2>2, <3>1, LatestExists
    <3>3. k \in ks
      BY <3>2
    <3>4. last \in RunRow
      BY <1>2, <3>1, <3>3
    <3>5. last.cycle \in Nat /\ last.attempt \in Nat
      BY <3>4 DEF RunRow
    <3>6. \/ NextAttempt(t, s) = [cycle |-> last.cycle, attempt |-> last.attempt + 1]
          \/ NextAttempt(t, s) = [cycle |-> last.cycle + 1, attempt |-> 1]
      BY <2>2 DEF NextAttempt
    <3> HIDE DEF last
    <3> QED BY <3>5, <3>6
  <2> QED BY <2>1, <2>2
<1> QED BY <1>1, <1>3 DEF NewRun, RunRow

-----------------------------------------------------------------------------
\* The inductive invariant.

\* A call in progress is about a task, and one that is inserting a row has
\* made the directory of a task that has no row yet.
DriverFits ==
    /\ driver.pc \in {"insert", "loop", "provider"} => driver.task \in Task
    /\ driver.pc = "insert" => ~Exists(driver.task) /\ driver.task \in dir

\* The edge a person lets a task through is on record: the stop at an edge
\* cap and its transition row are written together.
CapStopLogged ==
    \A t \in Task : task[t].stop = "edge_cap" =>
        \E i \in DOMAIN log[t] : log[t][i].reason = "edge_cap"

IInv ==
    /\ TypeOK
    /\ OneLeasedRun
    /\ DriverFits
    /\ CapStopLogged
    /\ SnapshotsKept

LEMMA InitIInv == Init => IInv
<1> SUFFICES ASSUME Init PROVE IInv
  OBVIOUS
<1>1. NoRow \in TaskRow
  BY ProfileAssumption DEF ValidProfile, NoRow, TaskRow, StopReasons
<1>2. TypeOK
  BY <1>1, BoundAssumption DEF Init, TypeOK, Idle, Pc, NoOp
<1>3. OneLeasedRun
  BY DEF Init, OneLeasedRun, NoRow, Idle
<1>4. DriverFits
  BY DEF Init, DriverFits, Idle
<1>5. CapStopLogged
  BY DEF Init, CapStopLogged, NoRow
<1>6. SnapshotsKept
  BY DEF Init, SnapshotsKept, Exists, NoRow
<1> QED BY <1>2, <1>3, <1>4, <1>5, <1>6 DEF IInv

-----------------------------------------------------------------------------
\* What one step may do to a row, a run and the log.

DriverType ==
    [pc : Pc, task : Task \cup {"none"}, op : Op \cup {NoOp}, error : {"none", "raised"}]

\* After COMMIT the call goes on or raises; it stays with its task.
LEMMA CommitThenFits ==
    ASSUME TypeOK, NEW pc \in {"loop", "provider", "idle"}, driver.task \in Task,
           NEW next, next = At(pc, driver.task), CommitThen(next)
    PROVE  /\ driver' \in DriverType
           /\ faults' \in 0..MaxFaults
           /\ driver'.pc # "insert"
           /\ driver'.pc \in {pc, "idle"}
           /\ driver'.task = driver.task
<1>1. faults \in Nat /\ MaxFaults \in Nat /\ faults \in 0..MaxFaults
  BY BoundAssumption DEF TypeOK
<1>2. driver' \in {At(pc, driver.task), Raised(driver.task)}
  BY DEF CommitThen
<1>3. faults' \in 0..MaxFaults
  BY <1>1 DEF CommitThen
<1>4. \A u \in Task : At(pc, u) \in DriverType /\ Raised(u) \in DriverType
  BY Zenon DEF At, Raised, DriverType, Pc
<1>5. /\ driver'.pc \in {pc, "idle"}
      /\ driver'.task = driver.task
  BY <1>2 DEF At, Raised
<1> QED BY <1>2, <1>3, <1>4, <1>5

\* Appending a row to one task's log keeps what was there.
LEMMA LogGrows ==
    ASSUME TypeOK, NEW t \in Task, NEW row \in LogRow,
           log' = [log EXCEPT ![t] = Append(@, row)]
    PROVE  /\ log' \in [Task -> Seq(LogRow)]
           /\ \A u \in Task \ {t} : log'[u] = log[u]
           /\ \A u \in Task : \A i \in DOMAIN log[u] :
                 i \in DOMAIN log'[u] /\ log'[u][i] = log[u][i]
           /\ \E i \in DOMAIN log'[t] : log'[t][i] = row
<1>1. log[t] \in Seq(LogRow) /\ log'[t] = Append(log[t], row)
  BY DEF TypeOK
<1>2. /\ log'[t] \in Seq(LogRow)
      /\ Len(log'[t]) = Len(log[t]) + 1
      /\ \A i \in 1..Len(log[t]) : log'[t][i] = log[t][i]
      /\ log'[t][Len(log[t]) + 1] = row
  BY <1>1, AppendProperties
<1>3. DOMAIN log[t] = 1..Len(log[t]) /\ DOMAIN log'[t] = 1..(Len(log[t]) + 1) /\ Len(log[t]) \in Nat
  BY <1>1, <1>2
<1>4. \A u \in Task \ {t} : log'[u] = log[u]
  BY DEF TypeOK
<1>5. \A i \in DOMAIN log[t] : i \in DOMAIN log'[t] /\ log'[t][i] = log[t][i]
  BY <1>2, <1>3
<1>6. \E i \in DOMAIN log'[t] : log'[t][i] = row
  BY <1>2, <1>3
<1>7. log' \in [Task -> Seq(LogRow)]
  BY <1>2, <1>4 DEF TypeOK
<1> QED BY <1>4, <1>5, <1>6, <1>7

\* Appending a run keeps the earlier ones.
LEMMA RunsGrow ==
    ASSUME TypeOK, NEW t \in Task, NEW row \in RunRow,
           runs' = [runs EXCEPT ![t] = Append(@, row)]
    PROVE  /\ runs' \in [Task -> Seq(RunRow)]
           /\ \A u \in Task \ {t} : runs'[u] = runs[u]
           /\ DOMAIN runs[t] = 1..Len(runs[t]) /\ Len(runs[t]) \in Nat
           /\ DOMAIN runs'[t] = 1..(Len(runs[t]) + 1)
           /\ \A k \in DOMAIN runs[t] : runs'[t][k] = runs[t][k]
           /\ runs'[t][Len(runs[t]) + 1] = row
<1>1. runs[t] \in Seq(RunRow) /\ runs'[t] = Append(runs[t], row)
  BY DEF TypeOK
<1>2. /\ runs'[t] \in Seq(RunRow)
      /\ Len(runs'[t]) = Len(runs[t]) + 1
      /\ \A i \in 1..Len(runs[t]) : runs'[t][i] = runs[t][i]
      /\ runs'[t][Len(runs[t]) + 1] = row
  BY <1>1, AppendProperties
<1>3. \A u \in Task \ {t} : runs'[u] = runs[u]
  BY DEF TypeOK
<1>4. runs' \in [Task -> Seq(RunRow)]
  BY <1>2, <1>3 DEF TypeOK
<1> QED BY <1>1, <1>2, <1>3, <1>4

\* The open run of a running task is the one its lease names.
LEMMA CommittableLease ==
    ASSUME IInv, NEW t \in Task, NEW k \in DOMAIN runs[t], Committable(t, k)
    PROVE  /\ t = driver.task
           /\ k = task[t].lease
           /\ runs[t][k].stage = task[t].stage
           /\ \A j \in DOMAIN runs[t] : runs[t][j].status = "running" => j = k
<1>1. /\ t = driver.task
      /\ runs[t][k].status = "running"
  BY DEF Committable
<1>2. \A j \in DOMAIN runs[t] : runs[t][j].status = "running" => task[t].lease = j
  BY DEF IInv, OneLeasedRun
<1>3. runs[t][task[t].lease].stage = task[t].stage
  BY DEF IInv, OneLeasedRun, Committable
<1> QED BY <1>1, <1>2, <1>3

\* Closing the open run leaves the task without one.
LEMMA RunCloses ==
    ASSUME IInv, NEW t \in Task, NEW k \in DOMAIN runs[t], NEW row \in RunRow,
           row.status # "running",
           \A j \in DOMAIN runs[t] : runs[t][j].status = "running" => j = k,
           runs' = [runs EXCEPT ![t][k] = row]
    PROVE  /\ runs' \in [Task -> Seq(RunRow)]
           /\ \A u \in Task \ {t} : runs'[u] = runs[u]
           /\ \A j \in DOMAIN runs'[t] : runs'[t][j].status # "running"
           /\ DOMAIN runs'[t] = DOMAIN runs[t]
           /\ \A j \in DOMAIN runs[t] \ {k} : runs'[t][j] = runs[t][j]
<1>1. runs[t] \in Seq(RunRow) /\ runs \in [Task -> Seq(RunRow)]
  BY DEF IInv, TypeOK
<1>2. runs'[t] = [runs[t] EXCEPT ![k] = row] /\ \A u \in Task \ {t} : runs'[u] = runs[u]
  BY <1>1
<1>3. runs'[t] \in Seq(RunRow) /\ DOMAIN runs'[t] = DOMAIN runs[t]
  BY <1>1, <1>2, ExceptSeq
<1>4. \A j \in DOMAIN runs[t] : runs'[t][j] = IF j = k THEN row ELSE runs[t][j]
  BY <1>1, <1>2
<1>5. runs' \in [Task -> Seq(RunRow)]
  BY <1>1, <1>2, <1>3
<1> QED BY <1>2, <1>3, <1>4, <1>5

-----------------------------------------------------------------------------
\* The actions that leave the rows alone.

RowsSame == UNCHANGED <<task, runs, edges, log>>

LEMMA RowsSameStep ==
    ASSUME IInv, RowsSame,
           driver' \in DriverType,
           crashes' \in 0..MaxCrashes, faults' \in 0..MaxFaults,
           dir' \subseteq Task,
           \A t \in Task : Exists(t) /\ t \in dir => t \in dir',
           driver'.pc \in {"insert", "loop"} => driver'.task \in Task,
           driver'.pc = "insert" => ~Exists(driver'.task) /\ driver'.task \in dir',
           driver'.pc = "provider" => driver' = driver
    PROVE  IInv'
<1>1. TypeOK'
  BY DEF IInv, TypeOK, RowsSame, DriverType
<1>2. OneLeasedRun'
  <2>1. driver'.pc = "provider" => task[driver'.task].status = "running"
    BY DEF IInv, OneLeasedRun
  <2> QED BY <2>1 DEF IInv, OneLeasedRun, RowsSame
<1>3. DriverFits'
  BY DEF IInv, DriverFits, RowsSame, Exists
<1>4. CapStopLogged'
  BY DEF IInv, CapStopLogged, RowsSame
<1>5. SnapshotsKept'
  BY DEF IInv, SnapshotsKept, RowsSame, Exists
<1> QED BY <1>1, <1>2, <1>3, <1>4, <1>5 DEF IInv

LEMMA DriverValues ==
    /\ Idle \in DriverType
    /\ Down \in DriverType
    /\ Booting \in DriverType
    /\ \A t \in Task :
          /\ Returned(t) \in DriverType
          /\ Raised(t) \in DriverType
          /\ At("loop", t) \in DriverType
          /\ \A op \in Op : Inserting(t, op) \in DriverType
BY DEF Idle, Down, Booting, Returned, Raised, At, Inserting, DriverType, Pc

LEMMA RowsSameActions ==
    ASSUME IInv,
           \/ \E t \in Task, op \in Op : SubmitPrepare(t, op) \/ ResumeAgain(t, op)
           \/ \E t \in Task : SubmitAgain(t)
           \/ RunReturns \/ ClaimRaises \/ Rollback \/ Crash \/ Boot \/ StartupReady
           \/ UNCHANGED vars
    PROVE  IInv'
<1>0. TypeOK /\ DriverFits /\ crashes \in Nat /\ faults \in Nat
      /\ crashes \in 0..MaxCrashes /\ faults \in 0..MaxFaults
  BY BoundAssumption DEF IInv, TypeOK
<1>1. ASSUME NEW t \in Task, NEW op \in Op, SubmitPrepare(t, op) PROVE IInv'
  <2>1. driver'.pc = "insert" /\ driver'.task = t
    BY <1>1 DEF SubmitPrepare, Inserting
  <2> QED BY <1>0, <1>1, <2>1, DriverValues, RowsSameStep DEF SubmitPrepare, RowsSame, TypeOK
<1>2. ASSUME NEW t \in Task, \/ SubmitAgain(t) \/ \E op \in Op : ResumeAgain(t, op) PROVE IInv'
  <2>1. driver'.pc = "loop" /\ driver'.task = t
    BY <1>2 DEF SubmitAgain, ResumeAgain, At
  <2> QED BY <1>0, <1>2, <2>1, DriverValues, RowsSameStep
         DEF SubmitAgain, ResumeAgain, RowsSame, TypeOK
<1>3. CASE RunReturns \/ ClaimRaises
  <2>1. driver.task \in Task
    BY <1>0, <1>3 DEF RunReturns, ClaimRaises, Claimable, DriverFits
  <2>2. driver' \in {Returned(driver.task), Raised(driver.task)}
    BY <1>3 DEF RunReturns, ClaimRaises
  <2>3. driver'.pc = "idle" /\ driver' \in DriverType
    <3>1. driver' \in DriverType
      BY <2>1, <2>2, DriverValues
    <3> QED BY <2>2, <3>1 DEF Returned, Raised
  <2> QED BY <1>0, <1>3, <2>3, RowsSameStep DEF RunReturns, ClaimRaises, RowsSame, TypeOK
<1>4. CASE Rollback
  <2>1. driver.task \in Task /\ driver' = Raised(driver.task) /\ RowsSame /\ crashes' = crashes
    BY <1>0, <1>4 DEF Rollback, DriverFits, RowsSame
  <2>2. driver'.pc = "idle" /\ driver' \in DriverType
    BY <2>1, DriverValues DEF Raised
  <2>3. dir' \subseteq Task /\ \A t \in Task : Exists(t) /\ t \in dir => t \in dir'
    BY <1>0, <1>4 DEF Rollback, DriverFits, TypeOK
  <2>4. faults' \in 0..MaxFaults
    BY <1>0, <1>4, BoundAssumption DEF Rollback
  <2> QED BY <1>0, <2>1, <2>2, <2>3, <2>4, RowsSameStep
<1>5. CASE Crash \/ Boot \/ StartupReady
  <2>1. driver'.pc \in {"down", "reconcile", "idle"} /\ driver' \in DriverType
    BY <1>5, DriverValues DEF Crash, Boot, StartupReady, Down, Idle, Booting
  <2>2. crashes' \in 0..MaxCrashes /\ faults' = faults /\ dir' = dir /\ RowsSame
    BY <1>0, <1>5, BoundAssumption DEF Crash, Boot, StartupReady, RowsSame
  <2> QED BY <1>0, <2>1, <2>2, RowsSameStep DEF TypeOK
<1>6. CASE UNCHANGED vars
  <2>1. driver' \in DriverType /\ RowsSame /\ dir' = dir /\ driver' = driver
    BY <1>0, <1>6 DEF TypeOK, DriverType, vars, RowsSame
  <2> QED BY <1>0, <1>6, <2>1, RowsSameStep DEF TypeOK, DriverFits, vars
<1> QED BY <1>1, <1>2, <1>3, <1>4, <1>5, <1>6

-----------------------------------------------------------------------------
\* The actions that change one task's rows.

\* The rows of u in the next state, when only those of t change.
OthersSame(t) ==
    \A u \in Task \ {t} : task'[u] = task[u] /\ runs'[u] = runs[u] /\ log'[u] = log[u]

\* After the step t is not running and has no open run, or t runs under the
\* lease of its one open run.
Settled(t) ==
    \/ /\ task'[t].status # "running" /\ task'[t].lease = 0
       /\ \A k \in DOMAIN runs'[t] : runs'[t][k].status # "running"
       /\ driver'.pc # "provider"
    \/ /\ task'[t].status = "running"
       /\ task'[t].lease \in DOMAIN runs'[t]
       /\ runs'[t][task'[t].lease].status = "running"
       /\ runs'[t][task'[t].lease].lease = task'[t].lease
       /\ runs'[t][task'[t].lease].stage = task'[t].stage
       /\ \A k \in DOMAIN runs'[t] : runs'[t][k].status = "running" => k = task'[t].lease

LEMMA RowStep ==
    ASSUME IInv, NEW t \in Task, t \in dir,
           task' \in [Task -> TaskRow], runs' \in [Task -> Seq(RunRow)],
           edges' \in [Task -> [EdgeSet -> Nat]], log' \in [Task -> Seq(LogRow)],
           driver' \in DriverType, faults' \in 0..MaxFaults, crashes' = crashes, dir' = dir,
           OthersSame(t), Settled(t),
           driver'.pc # "insert",
           driver'.pc \in {"loop", "provider"} => driver'.task = t,
           task'[t].stop = "edge_cap" =>
              \E i \in DOMAIN log'[t] : log'[t][i].reason = "edge_cap"
    PROVE  IInv'
<1>1. TypeOK'
  BY DEF IInv, TypeOK, DriverType
<1>2. OneLeasedRun'
  <2>1. driver'.pc = "provider" => task'[driver'.task].status = "running"
    BY DEF Settled
  <2>2. ASSUME NEW u \in Task \ {t}
        PROVE  /\ task'[u].status = "running" =>
                    /\ task'[u].lease \in DOMAIN runs'[u]
                    /\ runs'[u][task'[u].lease].status = "running"
                    /\ runs'[u][task'[u].lease].lease = task'[u].lease
                    /\ runs'[u][task'[u].lease].stage = task'[u].stage
               /\ task'[u].status # "running" => task'[u].lease = 0
               /\ \A k \in DOMAIN runs'[u] : runs'[u][k].status = "running" =>
                    task'[u].status = "running" /\ task'[u].lease = k
    <3>1. task'[u] = task[u] /\ runs'[u] = runs[u]
      BY DEF OthersSame
    <3> QED BY <3>1 DEF IInv, OneLeasedRun
  <2> QED BY <2>1, <2>2 DEF Settled, OneLeasedRun
<1>3. DriverFits'
  BY DEF DriverFits
<1>4. CapStopLogged'
  BY ZenonT(30) DEF IInv, CapStopLogged, OthersSame
<1>5. SnapshotsKept'
  BY DEF IInv, SnapshotsKept, Exists, OthersSame
<1> QED BY <1>1, <1>2, <1>3, <1>4, <1>5 DEF IInv

\* The task a call is working on, in the states where a row may change.
LEMMA DriverTask ==
    ASSUME IInv
    PROVE  /\ driver.pc \in {"insert", "loop", "provider"} => driver.task \in Task
           /\ \A t \in Task : Exists(t) => t \in dir
           /\ \A t \in Task : task[t] \in TaskRow /\ runs[t] \in Seq(RunRow)
           /\ runs \in [Task -> Seq(RunRow)]
           /\ edges \in [Task -> [EdgeSet -> Nat]]
           /\ crashes \in 0..MaxCrashes /\ faults \in 0..MaxFaults
           /\ \A t \in Task : task[t].status # "running" =>
                 task[t].lease = 0 /\ \A k \in DOMAIN runs[t] : runs[t][k].status # "running"
BY DEF IInv, DriverFits, SnapshotsKept, TypeOK, OneLeasedRun

\* Writing one row of the task table.
LEMMA RowWritten ==
    ASSUME TypeOK, NEW t \in Task, NEW row \in TaskRow, task' = [task EXCEPT ![t] = row]
    PROVE  /\ task' \in [Task -> TaskRow]
           /\ task'[t] = row
           /\ \A u \in Task \ {t} : task'[u] = task[u]
BY DEF TypeOK

\* Counting a crossing keeps the counters well typed.
LEMMA EdgeCounted ==
    ASSUME edges \in [Task -> [EdgeSet -> Nat]], NEW t \in Task, NEW e,
           edges' = [edges EXCEPT ![t][e] = @ + 1]
    PROVE  edges' \in [Task -> [EdgeSet -> Nat]]
<1>1. edges[t] \in [EdgeSet -> Nat] /\ edges'[t] = [edges[t] EXCEPT ![e] = @ + 1]
  OBVIOUS
<1>2. edges'[t] \in [EdgeSet -> Nat]
  <2> DEFINE old == edges[t]
             new == edges'[t]
  <2>1. old \in [EdgeSet -> Nat] /\ new = [old EXCEPT ![e] = @ + 1]
    BY <1>1
  <2> HIDE DEF old, new
  <2>2. e \in EdgeSet => new \in [EdgeSet -> Nat]
    BY <2>1
  <2>3. e \notin EdgeSet => new \in [EdgeSet -> Nat]
    BY <2>1
  <2> QED BY <2>2, <2>3 DEF new
<1>3. \A u \in Task \ {t} : edges'[u] = edges[u]
  OBVIOUS
<1> QED BY <1>2, <1>3

LEMMA StoppedType ==
    ASSUME NEW row \in TaskRow, NEW status \in Status, NEW stop \in StopReasons \cup {"none"}
    PROVE  /\ Stopped(row, status, stop) \in TaskRow
           /\ Stopped(row, status, stop).status = status
           /\ Stopped(row, status, stop).stop = stop
           /\ Stopped(row, status, stop).lease = 0
           /\ Stopped(row, status, stop).transitions = row.transitions
BY DEF Stopped, TaskRow

LEMMA SubmitInsertStep ==
    ASSUME IInv, SubmitInsert PROVE IInv'
<1> DEFINE t == driver.task
           row == Entry(driver.op, 0, NoEdge, "none", "queued", "submitted")
<1>1. t \in Task /\ t \in dir /\ ~Exists(t)
  BY DEF IInv, DriverFits, SubmitInsert
<1>2. row \in LogRow
  BY DEF IInv, TypeOK, Entry, LogRow, Reasons, Status, ACTIVE_STATUSES
<1>3. log' = [log EXCEPT ![t] = Append(@, row)]
  BY DEF SubmitInsert, InsertRow
<1>4. log' \in [Task -> Seq(LogRow)] /\ \A u \in Task \ {t} : log'[u] = log[u]
  BY <1>1, <1>2, <1>3, LogGrows DEF IInv
<1>5. /\ driver' \in DriverType /\ faults' \in 0..MaxFaults
      /\ driver'.pc \in {"loop", "idle"} /\ driver'.task = t
  BY <1>1, CommitThenFits DEF IInv, SubmitInsert
<1>6. /\ task' \in [Task -> TaskRow]
      /\ task'[t].status = "queued" /\ task'[t].lease = 0 /\ task'[t].stop = "none"
      /\ \A u \in Task \ {t} : task'[u] = task[u]
  BY <1>1, ProfileAssumption
     DEF IInv, TypeOK, SubmitInsert, InsertRow, NoRow, TaskRow, ValidProfile,
         Status, ACTIVE_STATUSES
<1>7. edges' \in [Task -> [EdgeSet -> Nat]]
  BY DEF IInv, TypeOK, SubmitInsert, InsertRow
<1>8. UNCHANGED <<runs, dir, crashes>>
  BY DEF SubmitInsert
<1>9. Settled(t)
  BY <1>1, <1>5, <1>6, <1>8, DriverTask DEF Settled, Exists
<1>10. OthersSame(t)
  BY <1>4, <1>6, <1>8 DEF OthersSame
<1>11. runs' \in [Task -> Seq(RunRow)]
  BY <1>8, DriverTask
<1> HIDE DEF t, row
<1> QED BY <1>1, <1>4, <1>5, <1>6, <1>7, <1>8, <1>9, <1>10, <1>11, RowStep

LEMMA StopForCapStep ==
    ASSUME IInv, StopForCap PROVE IInv'
<1> DEFINE t == driver.task
           reason == IF TransitionCapHit(t) THEN "transition_cap" ELSE "attempt_cap"
           row == Entry(NoOp, 0, NoEdge, "queued", "waiting_user", reason)
<1>1. t \in Task /\ task[t].status = "queued" /\ t \in dir
  BY DriverTask DEF StopForCap, ClaimReady, Claimable, Exists
<1>2. row \in LogRow /\ reason \in StopReasons /\ reason # "edge_cap"
  BY DEF Entry, LogRow, Reasons, StopReasons, Status, ACTIVE_STATUSES, RESUMABLE_STATUSES
<1>3. log' = [log EXCEPT ![t] = Append(@, row)]
  BY DEF StopForCap
<1>4. log' \in [Task -> Seq(LogRow)] /\ \A u \in Task \ {t} : log'[u] = log[u]
  BY <1>1, <1>2, <1>3, LogGrows DEF IInv
<1>5. /\ driver' \in DriverType /\ faults' \in 0..MaxFaults
      /\ driver'.pc = "idle" /\ driver'.task = t
  <2>1. Returned(t) = At("idle", t)
    BY DEF Returned, At
  <2> QED BY <1>1, <2>1, CommitThenFits DEF IInv, StopForCap
<1>6. /\ task' = [task EXCEPT ![t] = Stopped(task[t], "waiting_user", reason)]
      /\ UNCHANGED <<runs, edges, dir, crashes>>
  BY DEF StopForCap
<1>7. /\ task' \in [Task -> TaskRow]
      /\ task'[t].status = "waiting_user" /\ task'[t].lease = 0 /\ task'[t].stop = reason
      /\ \A u \in Task \ {t} : task'[u] = task[u]
  <2> HIDE DEF reason
  <2> DEFINE new == Stopped(task[t], "waiting_user", reason)
  <2>1. task[t] \in TaskRow /\ "waiting_user" \in Status /\ reason \in StopReasons \cup {"none"}
    BY <1>1, <1>2, DriverTask DEF Status, RESUMABLE_STATUSES
  <2>2. new \in TaskRow /\ new.status = "waiting_user" /\ new.lease = 0 /\ new.stop = reason
    BY SMTT(30), <2>1, StoppedType, Zenon
  <2>3. task' = [task EXCEPT ![t] = new]
    BY <1>6
  <2> HIDE DEF new
  <2> QED BY <1>1, <2>2, <2>3, RowWritten DEF IInv
<1>8. Settled(t)
  BY <1>1, <1>5, <1>6, <1>7, DriverTask DEF Settled
<1>9. OthersSame(t)
  BY <1>4, <1>6, <1>7 DEF OthersSame
<1> HIDE DEF t, row, reason
<1> QED BY <1>1, <1>2, <1>4, <1>5, <1>6, <1>7, <1>8, <1>9, RowStep, DriverTask

LEMMA ResumeStep ==
    ASSUME IInv, NEW t \in Task, NEW op \in Op, NEW rerun \in BOOLEAN, Resume(t, op, rerun)
    PROVE  IInv'
<1> DEFINE atEdgeCap == task[t].status = "waiting_user" /\ task[t].stop = "edge_cap"
           edge == IF atEdgeCap THEN CappedEdge(t) ELSE NoEdge
           reason == IF rerun THEN "manual_rerun_stage" ELSE "manual_resume"
           row == Entry(op, 0, edge, task[t].status, "queued", reason)
<1>1. task[t].status \in RESUMABLE_STATUSES /\ t \in dir
  BY DriverTask DEF Resume, RESUMABLE_STATUSES, Exists
<1>2. edge \in EdgeSet \cup {NoEdge}
  <2>1. CASE ~atEdgeCap
    BY <2>1
  <2>2. CASE atEdgeCap
    <3> DEFINE ks == {i \in DOMAIN log[t] : log[t][i].reason = "edge_cap"}
               k == CHOOSE i \in ks : \A j \in ks : j <= i
    <3>1. log[t] \in Seq(LogRow) /\ Len(log[t]) \in Nat /\ DOMAIN log[t] = 1..Len(log[t])
      BY DEF IInv, TypeOK
    <3>2. ks # {}
      BY <2>2 DEF IInv, CapStopLogged
    <3>3. ks \in SUBSET (1..Len(log[t]))
      BY <3>1
    <3>4. \E i \in ks : \A j \in ks : j <= i
      <4> HIDE DEF ks
      <4> QED BY <3>1, <3>2, <3>3, LatestExists
    <3>5. k \in ks
      BY <3>4
    <3>6. edge = log[t][k].edge
      BY <2>2 DEF CappedEdge
    <3> HIDE DEF k
    <3>7. log[t][k] \in LogRow
      BY <3>1, <3>5
    <3> QED BY <3>6, <3>7 DEF LogRow
  <2> QED BY <2>1, <2>2
<1>3. row \in LogRow
  <2> HIDE DEF edge
  <2> QED BY <1>1, <1>2 DEF Entry, LogRow, Reasons, Status, ACTIVE_STATUSES
<1>4. log' = [log EXCEPT ![t] = Append(@, row)]
  BY DEF Resume
<1>5. log' \in [Task -> Seq(LogRow)] /\ \A u \in Task \ {t} : log'[u] = log[u]
  BY <1>3, <1>4, LogGrows DEF IInv
<1>6. /\ driver' \in DriverType /\ faults' \in 0..MaxFaults
      /\ driver'.pc \in {"loop", "idle"} /\ driver'.task = t
  <2>1. /\ driver' \in {At("loop", t), Raised(t)}
        /\ faults' = faults \/ (faults < MaxFaults /\ faults' = faults + 1)
    BY DEF Resume
  <2>2. driver' \in DriverType
    BY <2>1, DriverValues
  <2>3. faults' \in 0..MaxFaults
    BY <2>1, DriverTask, BoundAssumption
  <2> QED BY <2>1, <2>2, <2>3 DEF At, Raised
<1>7. /\ task' = [task EXCEPT ![t] = [Stopped(@, "queued", "none") EXCEPT
                       !.allowance = IF task[t].status = "waiting_user" THEN 1 ELSE 0]]
      /\ UNCHANGED <<runs, dir, crashes>>
  BY DEF Resume
<1>8. /\ task' \in [Task -> TaskRow]
      /\ task'[t].status = "queued" /\ task'[t].lease = 0 /\ task'[t].stop = "none"
      /\ \A u \in Task \ {t} : task'[u] = task[u]
  <2> DEFINE old == Stopped(task[t], "queued", "none")
             new == [old EXCEPT !.allowance = IF task[t].status = "waiting_user" THEN 1 ELSE 0]
  <2>1. old \in TaskRow /\ old.status = "queued" /\ old.lease = 0 /\ old.stop = "none"
    BY StoppedType, DriverTask DEF Status, ACTIVE_STATUSES
  <2>2. task' = [task EXCEPT ![t] = new]
    BY <1>7
  <2>3. new \in TaskRow /\ new.status = "queued" /\ new.lease = 0 /\ new.stop = "none"
    <3> HIDE DEF old
    <3> QED BY <2>1 DEF TaskRow
  <2> HIDE DEF new
  <2> QED BY <2>2, <2>3, RowWritten DEF IInv
<1>9. edges' \in [Task -> [EdgeSet -> Nat]]
  <2>1. edges' = edges \/ edges' = [edges EXCEPT ![t][edge] = @ + 1]
    BY DEF Resume
  <2> HIDE DEF edge
  <2> QED BY <2>1, EdgeCounted, DriverTask
<1>10. Settled(t)
  BY ZenonT(30), <1>1, <1>6, <1>7, <1>8, DriverTask DEF Settled, RESUMABLE_STATUSES
<1>11. OthersSame(t)
  BY <1>5, <1>7, <1>8 DEF OthersSame
<1> HIDE DEF row, edge, atEdgeCap, reason
<1> QED BY <1>1, <1>5, <1>6, <1>7, <1>8, <1>9, <1>10, <1>11, RowStep, DriverTask

LEMMA PreflightStopStep ==
    ASSUME IInv, NEW status \in {"paused", "blocked"}, PreflightStop(status)
    PROVE  IInv'
<1> DEFINE t == driver.task
           k == Len(runs[t]) + 1
           run == NewRun(t, status, 0)
           row == Entry(NoOp, k, NoEdge, "queued", status, "preflight_failed")
<1>1. t \in Task /\ task[t].status = "queued" /\ t \in dir
  BY DriverTask DEF PreflightStop, Claimable, Exists
<1>2. run \in RunRow /\ run.status = status
  BY <1>1, NewRunType DEF IInv, RunStatus
<1>3. runs' = [runs EXCEPT ![t] = Append(@, run)]
  BY DEF PreflightStop
<1>4. /\ runs' \in [Task -> Seq(RunRow)]
      /\ \A u \in Task \ {t} : runs'[u] = runs[u]
      /\ \A j \in DOMAIN runs'[t] : runs'[t][j].status # "running"
  <2> HIDE DEF run
  <2>1. /\ runs' \in [Task -> Seq(RunRow)]
        /\ \A u \in Task \ {t} : runs'[u] = runs[u]
        /\ DOMAIN runs[t] = 1..Len(runs[t]) /\ Len(runs[t]) \in Nat
        /\ DOMAIN runs'[t] = 1..(Len(runs[t]) + 1)
        /\ \A j \in DOMAIN runs[t] : runs'[t][j] = runs[t][j]
        /\ runs'[t][Len(runs[t]) + 1] = run
    BY <1>1, <1>2, <1>3, RunsGrow DEF IInv
  <2>2. \A j \in DOMAIN runs[t] : runs[t][j].status # "running"
    BY <1>1, DriverTask
  <2> QED BY <1>2, <2>1, <2>2
<1>5. row \in LogRow
  <2>1. k \in Nat
    BY <1>1, DriverTask
  <2> HIDE DEF k
  <2> QED BY <2>1 DEF Entry, LogRow, Reasons, StopReasons, Status, ACTIVE_STATUSES,
                      RESUMABLE_STATUSES
<1>6. log' = [log EXCEPT ![t] = Append(@, row)]
  BY DEF PreflightStop
<1>7. log' \in [Task -> Seq(LogRow)] /\ \A u \in Task \ {t} : log'[u] = log[u]
  BY <1>1, <1>5, <1>6, LogGrows DEF IInv
<1>8. /\ driver' \in DriverType /\ faults' \in 0..MaxFaults
      /\ driver'.pc = "idle" /\ driver'.task = t
  <2>1. Returned(t) = At("idle", t)
    BY DEF Returned, At
  <2> QED BY <1>1, <2>1, CommitThenFits DEF IInv, PreflightStop
<1>9. /\ task' = [task EXCEPT ![t] = [@ EXCEPT !.status = status, !.stop = "preflight_failed"]]
      /\ UNCHANGED <<edges, dir, crashes>>
  BY DEF PreflightStop
<1>10. /\ task' \in [Task -> TaskRow]
       /\ task'[t].status = status /\ task'[t].lease = 0
       /\ task'[t].stop = "preflight_failed"
       /\ \A u \in Task \ {t} : task'[u] = task[u]
  <2> DEFINE new == [task[t] EXCEPT !.status = status, !.stop = "preflight_failed"]
  <2>1. task[t] \in TaskRow /\ task[t].lease = 0
    BY <1>1, DriverTask
  <2>2. new \in TaskRow /\ new.status = status /\ new.lease = 0 /\ new.stop = "preflight_failed"
    BY <2>1 DEF TaskRow, Status, RESUMABLE_STATUSES, StopReasons
  <2>3. task' = [task EXCEPT ![t] = new]
    BY <1>9
  <2> HIDE DEF new
  <2> QED BY <1>1, <2>2, <2>3, RowWritten DEF IInv
<1>11. Settled(t)
  BY <1>4, <1>8, <1>10 DEF Settled
<1>12. OthersSame(t)
  BY <1>4, <1>7, <1>10 DEF OthersSame
<1> HIDE DEF t, k, run, row
<1> QED BY <1>1, <1>4, <1>7, <1>8, <1>9, <1>10, <1>11, <1>12, RowStep, DriverTask

LEMMA ClaimStageStep ==
    ASSUME IInv, ClaimStage PROVE IInv'
<1> DEFINE t == driver.task
           k == Len(runs[t]) + 1
           run == NewRun(t, "running", k)
<1>1. t \in Task /\ task[t].status = "queued" /\ t \in dir /\ k \in Nat \ {0}
  BY DriverTask DEF ClaimStage, ClaimReady, Claimable, Exists
<1>2. run \in RunRow /\ run.status = "running" /\ run.lease = k /\ run.stage = task[t].stage
  <2> HIDE DEF k
  <2> QED BY <1>1, NewRunType DEF IInv, RunStatus
<1>3. runs' = [runs EXCEPT ![t] = Append(@, run)]
  BY DEF ClaimStage
<1>4. /\ runs' \in [Task -> Seq(RunRow)]
      /\ \A u \in Task \ {t} : runs'[u] = runs[u]
      /\ k \in DOMAIN runs'[t] /\ runs'[t][k] = run
      /\ \A j \in DOMAIN runs'[t] : runs'[t][j].status = "running" => j = k
  <2> HIDE DEF run
  <2>1. /\ runs' \in [Task -> Seq(RunRow)]
        /\ \A u \in Task \ {t} : runs'[u] = runs[u]
        /\ DOMAIN runs[t] = 1..Len(runs[t]) /\ Len(runs[t]) \in Nat
        /\ DOMAIN runs'[t] = 1..(Len(runs[t]) + 1)
        /\ \A j \in DOMAIN runs[t] : runs'[t][j] = runs[t][j]
        /\ runs'[t][Len(runs[t]) + 1] = run
    BY <1>1, <1>2, <1>3, RunsGrow DEF IInv
  <2>2. \A j \in DOMAIN runs[t] : runs[t][j].status # "running"
    BY <1>1, DriverTask
  <2> QED BY <2>1, <2>2
<1>5. /\ task' = [task EXCEPT ![t] = [@ EXCEPT !.status = "running", !.lease = k,
                                                !.allowance = 0]]
      /\ UNCHANGED <<edges, log, dir, crashes>>
  BY DEF ClaimStage
<1>6. /\ task' \in [Task -> TaskRow]
      /\ task'[t].status = "running" /\ task'[t].lease = k
      /\ task'[t].stage = task[t].stage /\ task'[t].stop = task[t].stop
      /\ \A u \in Task \ {t} : task'[u] = task[u]
  <2> DEFINE new == [task[t] EXCEPT !.status = "running", !.lease = k, !.allowance = 0]
  <2>1. task[t] \in TaskRow
    BY <1>1, DriverTask
  <2>2. task' = [task EXCEPT ![t] = new]
    BY <1>5
  <2>3. /\ new \in TaskRow /\ new.status = "running" /\ new.lease = k
        /\ new.stage = task[t].stage /\ new.stop = task[t].stop
    <3> HIDE DEF k
    <3> QED BY <1>1, <2>1 DEF TaskRow, Status, ACTIVE_STATUSES
  <2> HIDE DEF new
  <2> QED BY <1>1, <2>2, <2>3, RowWritten DEF IInv
<1>7. /\ driver' \in DriverType /\ faults' \in 0..MaxFaults
      /\ driver'.pc \in {"provider", "idle"} /\ driver'.task = t
  BY <1>1, CommitThenFits DEF IInv, ClaimStage
<1>8. log' \in [Task -> Seq(LogRow)] /\ log' = log
  BY <1>5 DEF IInv, TypeOK
<1>9. Settled(t)
  <2> HIDE DEF k, run
  <2> QED BY <1>2, <1>4, <1>6 DEF Settled
<1>10. OthersSame(t)
  BY <1>4, <1>6, <1>8 DEF OthersSame
<1>11. task'[t].stop = "edge_cap" => \E i \in DOMAIN log'[t] : log'[t][i].reason = "edge_cap"
  BY <1>1, <1>6, <1>8 DEF IInv, CapStopLogged
<1> HIDE DEF t, k, run
<1> QED BY <1>1, <1>4, <1>5, <1>6, <1>7, <1>8, <1>9, <1>10, <1>11, RowStep, DriverTask

\* What the startup barrier and the run loop do to an orphan.
LEMMA OrphanStep ==
    ASSUME IInv, NEW t \in Task, task[t].status = "running", BlockOrphanedRunning(t),
           UNCHANGED <<edges, dir, crashes>>,
           driver' \in DriverType, faults' \in 0..MaxFaults,
           driver'.pc \in {"idle", "reconcile"}
    PROVE  IInv'
<1> DEFINE k == task[t].lease
           row == Entry(NoOp, k, NoEdge, "running", "blocked", "orphaned_running")
           closed == [runs[t][k] EXCEPT !.status = "blocked"]
<1>1. t \in dir
  BY DriverTask DEF Exists
<1>2. /\ k \in DOMAIN runs[t] /\ runs[t][k].status = "running"
      /\ \A j \in DOMAIN runs[t] : runs[t][j].status = "running" => j = k
  BY DEF IInv, OneLeasedRun
<1>3. /\ runs' = [runs EXCEPT ![t][k] = closed]
      /\ log' = [log EXCEPT ![t] = Append(@, row)]
      /\ task' = [task EXCEPT ![t] = Stopped(task[t], "blocked", "orphaned_running")]
  <2> DEFINE open == {j \in DOMAIN runs[t] : runs[t][j].status = "running"}
  <2>1. open = {k}
    BY <1>2
  <2>2. (CHOOSE j \in open : TRUE) = k /\ open # {}
    <3> HIDE DEF open, k
    <3> QED BY <2>1
  <2> HIDE DEF k
  <2> QED BY <2>2 DEF BlockOrphanedRunning
<1>4. closed \in RunRow /\ closed.status = "blocked"
  <2>1. runs[t][k] \in RunRow
    BY <1>2, DriverTask
  <2> QED BY <2>1 DEF RunRow, RunStatus
<1>5. row \in LogRow
  <2>1. k \in Nat
    BY DriverTask DEF TaskRow
  <2> HIDE DEF k
  <2> QED BY <2>1 DEF Entry, LogRow, Reasons, StopReasons, Status, ACTIVE_STATUSES,
                      RESUMABLE_STATUSES
<1>6. log' \in [Task -> Seq(LogRow)] /\ \A u \in Task \ {t} : log'[u] = log[u]
  BY <1>3, <1>5, LogGrows DEF IInv
<1>7. /\ runs' \in [Task -> Seq(RunRow)]
      /\ \A u \in Task \ {t} : runs'[u] = runs[u]
      /\ \A j \in DOMAIN runs'[t] : runs'[t][j].status # "running"
  <2> HIDE DEF closed, k
  <2> QED BY <1>2, <1>3, <1>4, RunCloses
<1>8. /\ task' \in [Task -> TaskRow]
      /\ task'[t].status = "blocked" /\ task'[t].lease = 0 /\ task'[t].stop = "orphaned_running"
      /\ \A u \in Task \ {t} : task'[u] = task[u]
  <2> DEFINE new == Stopped(task[t], "blocked", "orphaned_running")
  <2>1. task[t] \in TaskRow /\ "blocked" \in Status /\ "orphaned_running" \in StopReasons \cup {"none"}
    BY DriverTask DEF Status, RESUMABLE_STATUSES, StopReasons
  <2>2. new \in TaskRow /\ new.status = "blocked" /\ new.lease = 0 /\ new.stop = "orphaned_running"
    <3> HIDE DEF row, closed, k
    <3> QED BY <2>1, StoppedType
  <2>3. task' = [task EXCEPT ![t] = new]
    BY <1>3
  <2> HIDE DEF new
  <2> QED BY <2>2, <2>3, RowWritten DEF IInv
<1>9. Settled(t)
  BY <1>7, <1>8 DEF Settled
<1>10. OthersSame(t)
  BY <1>6, <1>7, <1>8 DEF OthersSame
<1> HIDE DEF k, row, closed
<1> QED BY <1>1, <1>6, <1>7, <1>8, <1>9, <1>10, RowStep, DriverTask

\* What the three ways to commit a run share: the open run is sealed, one
\* row is logged and the task leaves the running status.
LEMMA CommitStep ==
    ASSUME IInv, NEW t \in Task, NEW k \in DOMAIN runs[t], Committable(t, k),
           NEW status \in RunStatus \ {"running"}, NEW row \in LogRow, NEW new \in TaskRow,
           runs' = [runs EXCEPT ![t][k] = Sealed(runs[t][k], status)],
           log' = [log EXCEPT ![t] = Append(@, row)],
           task' = [task EXCEPT ![t] = new],
           new.status # "running", new.lease = 0,
           new.stop = "edge_cap" => row.reason = "edge_cap",
           edges' \in [Task -> [EdgeSet -> Nat]],
           CommitThen(At("loop", t)),
           UNCHANGED <<dir, crashes>>
    PROVE  IInv'
<1> DEFINE closed == Sealed(runs[t][k], status)
<1>1. t = driver.task /\ t \in dir
  BY DriverTask DEF Committable, Exists
<1>2. closed \in RunRow /\ closed.status = status
  <2>1. runs[t][k] \in RunRow
    BY DriverTask
  <2> QED BY <2>1 DEF Sealed, RunRow
<1>3. /\ runs' \in [Task -> Seq(RunRow)]
      /\ \A u \in Task \ {t} : runs'[u] = runs[u]
      /\ \A j \in DOMAIN runs'[t] : runs'[t][j].status # "running"
  <2>1. \A j \in DOMAIN runs[t] : runs[t][j].status = "running" => j = k
    BY CommittableLease
  <2> HIDE DEF closed
  <2> QED BY <1>2, <2>1, RunCloses DEF closed
<1>4. /\ log' \in [Task -> Seq(LogRow)] /\ \A u \in Task \ {t} : log'[u] = log[u]
      /\ \E i \in DOMAIN log'[t] : log'[t][i] = row
  BY LogGrows DEF IInv
<1>5. task' \in [Task -> TaskRow] /\ task'[t] = new /\ \A u \in Task \ {t} : task'[u] = task[u]
  BY RowWritten DEF IInv
<1>6. /\ driver' \in DriverType /\ faults' \in 0..MaxFaults
      /\ driver'.pc \in {"loop", "idle"} /\ driver'.task = t
  BY <1>1, CommitThenFits DEF IInv
<1>7. Settled(t)
  BY <1>3, <1>5, <1>6 DEF Settled
<1>8. OthersSame(t)
  BY <1>3, <1>4, <1>5 DEF OthersSame
<1>9. task'[t].stop = "edge_cap" => \E i \in DOMAIN log'[t] : log'[t][i].reason = "edge_cap"
  BY <1>4, <1>5
<1> HIDE DEF closed
<1> QED BY <1>1, <1>3, <1>4, <1>5, <1>6, <1>7, <1>8, <1>9, RowStep

LEMMA CommitFailureStep ==
    ASSUME IInv, NEW k, NEW status, NEW reason, CommitFailure(k, status, reason)
    PROVE  IInv'
<1> DEFINE t == driver.task
           row == Entry(NoOp, k, NoEdge, "running", status, reason)
           new == Stopped(task[t], status, reason)
<1>1. Committable(t, k) /\ t \in Task /\ k \in DOMAIN runs[t] /\ k \in Nat
  BY DriverTask DEF CommitFailure, Committable
<1>2. /\ status \in {"blocked", "paused", "waiting_user"}
      /\ reason \in StopReasons /\ reason # "edge_cap"
  BY DEF CommitFailure, FailureResults, BlockReasons, StopReasons
<1>3. row \in LogRow
  BY <1>1, <1>2 DEF Entry, LogRow, Reasons, Status, ACTIVE_STATUSES, RESUMABLE_STATUSES
<1>4. new \in TaskRow /\ new.status # "running" /\ new.lease = 0 /\ new.stop # "edge_cap"
  <2>1. task[t] \in TaskRow /\ status \in Status /\ reason \in StopReasons \cup {"none"}
    BY <1>1, <1>2, DriverTask DEF Status, RESUMABLE_STATUSES
  <2> HIDE DEF t, row
  <2>2. new \in TaskRow /\ new.status = status /\ new.lease = 0 /\ new.stop = reason
    BY <2>1, StoppedType
  <2> HIDE DEF new
  <2> QED BY <1>2, <2>2
<1>5. RunStatusFor(status) \in RunStatus \ {"running"}
  BY <1>2 DEF RunStatusFor, RunStatus
<1>6. /\ runs' = [runs EXCEPT ![t][k] = Sealed(runs[t][k], RunStatusFor(status))]
      /\ log' = [log EXCEPT ![t] = Append(@, row)]
      /\ task' = [task EXCEPT ![t] = new]
      /\ CommitThen(At("loop", t))
      /\ UNCHANGED <<edges, dir, crashes>>
  BY DEF CommitFailure
<1> HIDE DEF t, row, new
<1> QED BY <1>1, <1>3, <1>4, <1>5, <1>6, CommitStep, DriverTask

LEMMA CommitHoldStep ==
    ASSUME IInv, NEW k, CommitHold(k) PROVE IInv'
<1> DEFINE t == driver.task
           row == Entry(NoOp, k, NoEdge, "running", "waiting_user", "user_decision_required")
           new == Stopped(task[t], "waiting_user", "user_decision_required")
<1>1. Committable(t, k) /\ t \in Task /\ k \in DOMAIN runs[t] /\ k \in Nat
  BY DriverTask DEF CommitHold, Accepted, Committable
<1>2. row \in LogRow
  BY <1>1 DEF Entry, LogRow, Reasons, StopReasons, Status, ACTIVE_STATUSES, RESUMABLE_STATUSES
<1>3. new \in TaskRow /\ new.status # "running" /\ new.lease = 0 /\ new.stop # "edge_cap"
  <2>1. /\ task[t] \in TaskRow /\ "waiting_user" \in Status
        /\ "user_decision_required" \in StopReasons \cup {"none"}
    BY <1>1, DriverTask DEF Status, RESUMABLE_STATUSES, StopReasons
  <2> HIDE DEF t, row
  <2>2. new \in TaskRow /\ new.status = "waiting_user" /\ new.lease = 0
        /\ new.stop = "user_decision_required"
    BY <2>1, StoppedType
  <2> HIDE DEF new
  <2> QED BY <2>2
<1>4. /\ runs' = [runs EXCEPT ![t][k] = Sealed(runs[t][k], "committed")]
      /\ log' = [log EXCEPT ![t] = Append(@, row)]
      /\ task' = [task EXCEPT ![t] = new]
      /\ CommitThen(At("loop", t))
      /\ UNCHANGED <<edges, dir, crashes>>
  BY DEF CommitHold
<1>5. "committed" \in RunStatus \ {"running"}
  BY DEF RunStatus
<1> HIDE DEF t, row, new
<1> QED BY <1>1, <1>2, <1>3, <1>4, <1>5, CommitStep, DriverTask

LEMMA CommitEdgeStep ==
    ASSUME IInv, NEW k, NEW o, o \in OutcomesOf(Profile, task[driver.task].stage),
           CommitEdge(k, o)
    PROVE  IInv'
<1> DEFINE t == driver.task
           e == <<runs[t][k].stage, o>>
           target == Target(Profile, runs[t][k].stage, o)
           capped == EdgeCapHit(t, e)
           stop == IF capped THEN "edge_cap"
                   ELSE IF o = HOLD_OUTCOME THEN "user_decision_required" ELSE "none"
           status == IF stop # "none" THEN "waiting_user"
                     ELSE IF IsTerminal(Profile, target) THEN Profile.stages[target].terminal
                     ELSE "queued"
           row == Entry(NoOp, k, e, "running", status,
                        IF stop = "none" THEN "stage_completed" ELSE stop)
           old == Stopped(task[t], status, stop)
           new == [old EXCEPT !.stage = target, !.transitions = task[t].transitions + 1]
<1>1. Committable(t, k) /\ t \in Task /\ k \in DOMAIN runs[t] /\ k \in Nat
  <2>1. Accepted(driver.task, k, o)
    BY DEF CommitEdge
  <2> QED BY <2>1, DriverTask DEF Accepted, Committable
<1>2. runs[t][k].stage = task[t].stage /\ task[t] \in TaskRow
  BY <1>1, CommittableLease, DriverTask
<1>3. target \in StageNames(Profile) /\ e \in EdgeSet
      /\ (IsTerminal(Profile, target) => Profile.stages[target].terminal \in TERMINAL_STATUSES)
  <2>1. runs[t][k].stage \in StageNames(Profile) /\ o \in OutcomesOf(Profile, runs[t][k].stage)
    BY <1>2 DEF TaskRow
  <2> QED BY <2>1, OutcomeTarget
<1>4. /\ stop \in {"edge_cap", "user_decision_required", "none"}
      /\ status \in {"waiting_user", "queued"} \cup TERMINAL_STATUSES
  <2> HIDE DEF t, e, target, capped
  <2> QED BY <1>3
<1>5. row \in LogRow /\ (stop = "edge_cap" => row.reason = "edge_cap")
  <2> HIDE DEF t, e, status, stop
  <2> QED BY <1>1, <1>3, <1>4
       DEF Entry, LogRow, Reasons, StopReasons, Status, ACTIVE_STATUSES, RESUMABLE_STATUSES
<1>6. new \in TaskRow /\ new.status # "running" /\ new.lease = 0 /\ new.stop = stop
  <2>1. task[t] \in TaskRow /\ status \in Status /\ stop \in StopReasons \cup {"none"}
        /\ status # "running"
    <3> HIDE DEF t, status, stop
    <3> QED BY <1>2, <1>4
         DEF Status, RESUMABLE_STATUSES, ACTIVE_STATUSES, StopReasons, TERMINAL_STATUSES
  <2>2. /\ old \in TaskRow /\ old.status = status /\ old.lease = 0 /\ old.stop = stop
    <3> HIDE DEF t, status, stop
    <3> QED BY <2>1, StoppedType
  <2>3. task[t].transitions \in Nat
    BY <2>1 DEF TaskRow
  <2>4. target \in StageNames(Profile)
    BY <1>3
  <2>5. status # "running"
    BY <2>1
  <2> DEFINE n == task[t].transitions + 1
  <2>6. n \in Nat
    BY <2>3
  <2>7. new = [old EXCEPT !.stage = target, !.transitions = n]
    OBVIOUS
  <2> HIDE DEF n, old, status, stop, target, new
  <2> QED BY <2>2, <2>4, <2>5, <2>6, <2>7 DEF TaskRow
<1>7. edges' \in [Task -> [EdgeSet -> Nat]]
  <2>1. edges' = edges \/ edges' = [edges EXCEPT ![t][e] = @ + 1]
    BY DEF CommitEdge, Crossed
  <2> HIDE DEF e
  <2> QED BY <1>1, <2>1, EdgeCounted, DriverTask
<1>8. /\ runs' = [runs EXCEPT ![t][k] = Sealed(runs[t][k], "committed")]
      /\ log' = [log EXCEPT ![t] = Append(@, row)]
      /\ task' = [task EXCEPT ![t] = new]
      /\ CommitThen(At("loop", t))
      /\ UNCHANGED <<dir, crashes>>
  BY DEF CommitEdge
<1>9. "committed" \in RunStatus \ {"running"}
  BY DEF RunStatus
<1> HIDE DEF t, e, target, capped, stop, status, row, old, new
<1> QED BY <1>1, <1>5, <1>6, <1>7, <1>8, <1>9, CommitStep

-----------------------------------------------------------------------------
\* The theorems.

LEMMA NextIInv == IInv /\ [Next]_vars => IInv'
<1> SUFFICES ASSUME IInv, [Next]_vars PROVE IInv'
  OBVIOUS
<1>1. ASSUME NEW t \in Task, NEW op \in Op, SubmitPrepare(t, op) \/ ResumeAgain(t, op)
      PROVE IInv'
  BY <1>1, RowsSameActions
<1>2. ASSUME NEW t \in Task, NEW op \in Op, NEW rerun \in BOOLEAN, Resume(t, op, rerun)
      PROVE IInv'
  BY <1>2, ResumeStep
<1>3. ASSUME NEW t \in Task, SubmitAgain(t) PROVE IInv'
  BY <1>3, RowsSameActions
<1>4. CASE RunReturns \/ ClaimRaises \/ Rollback \/ Crash \/ Boot \/ StartupReady
  BY <1>4, RowsSameActions
<1>5. CASE SubmitInsert
  BY <1>5, SubmitInsertStep
<1>6. CASE LoopOrphan
  <2>1. Returned(driver.task) = At("idle", driver.task)
    BY DEF Returned, At
  <2>2. driver.task \in Task
    BY <1>6, DriverTask DEF LoopOrphan
  <2>3. driver' \in DriverType /\ faults' \in 0..MaxFaults /\ driver'.pc = "idle"
    BY <1>6, <2>1, <2>2, CommitThenFits DEF IInv, LoopOrphan
  <2> QED BY <1>6, <2>2, <2>3, OrphanStep DEF LoopOrphan
<1>7. ASSUME NEW status \in {"paused", "blocked"}, PreflightStop(status) PROVE IInv'
  BY <1>7, PreflightStopStep
<1>8. CASE StopForCap
  BY <1>8, StopForCapStep
<1>9. CASE ClaimStage
  BY <1>9, ClaimStageStep
<1>10. CASE CommitRun
  <2>1. ASSUME NEW k, NEW r, CommitFailure(k, r[1], r[2]) PROVE IInv'
    BY <2>1, CommitFailureStep
  <2>2. ASSUME NEW k, CommitHold(k) PROVE IInv'
    BY <2>2, CommitHoldStep
  <2>3. ASSUME NEW k, NEW o \in OutcomesOf(Profile, task[driver.task].stage), CommitEdge(k, o)
        PROVE IInv'
    BY <2>3, CommitEdgeStep
  <2> QED BY <1>10, <2>1, <2>2, <2>3 DEF CommitRun
<1>11. ASSUME NEW t \in Task, ReconcileOrphan(t) PROVE IInv'
  <2>1. driver' = driver /\ faults' = faults
        /\ driver \in DriverType /\ faults \in 0..MaxFaults /\ driver.pc = "reconcile"
    BY <1>11 DEF ReconcileOrphan, IInv, TypeOK, DriverType
  <2> QED BY <1>11, <2>1, OrphanStep DEF ReconcileOrphan
<1>12. CASE UNCHANGED vars
  BY <1>12, RowsSameActions
<1> QED
  BY <1>1, <1>2, <1>3, <1>4, <1>5, <1>6, <1>7, <1>8, <1>9, <1>10, <1>11, <1>12
     DEF Next, Call, ControllerStep, StartupStep

\* The rows keep the shape db.py's CHECK constraints demand.
THEOREM TypeCorrect == Spec => []TypeOK
<1>1. IInv => TypeOK
  BY DEF IInv
<1> QED BY <1>1, InitIInv, NextIInv, PTL DEF Spec

\* A task is running exactly while one run of its stage holds its lease, so
\* commit_run's conflict checks cannot fire in a serial controller.
THEOREM LeaseExclusive == Spec => []OneLeasedRun
<1>1. IInv => OneLeasedRun
  BY DEF IInv
<1> QED BY <1>1, InitIInv, NextIInv, PTL DEF Spec

\* submit's clean-up never removes the directory of a task that is durable.
THEOREM SnapshotsSafe == Spec => []SnapshotsKept
<1>1. IInv => SnapshotsKept
  BY DEF IInv
<1> QED BY <1>1, InitIInv, NextIInv, PTL DEF Spec

-----------------------------------------------------------------------------
\* What a step does to the rows of one task.

\* The transition log of t, and of no other task, grows by one row.
Logs(t, row) ==
    /\ row \in LogRow
    /\ \A u \in Task \ {t} : log'[u] = log[u]
    /\ DOMAIN log'[t] = 1..(Len(log[t]) + 1)
    /\ \A i \in 1..Len(log[t]) : log'[t][i] = log[t][i]
    /\ log'[t][Len(log[t]) + 1] = row

\* The stage runs of t, and of no other task, grow by one row.
Opens(t, run) ==
    /\ run \in RunRow
    /\ \A u \in Task \ {t} : runs'[u] = runs[u]
    /\ DOMAIN runs'[t] = 1..(Len(runs[t]) + 1)
    /\ \A k \in 1..Len(runs[t]) : runs'[t][k] = runs[t][k]
    /\ runs'[t][Len(runs[t]) + 1] = run

\* The row of t, and of no other task, becomes new.
Becomes(t, new) ==
    /\ new \in TaskRow
    /\ \A u \in Task \ {t} : task'[u] = task[u]
    /\ task'[t] = new

\* submit's transaction.
Submits(t) ==
    /\ driver.pc = "insert" /\ t = driver.task
    /\ task[t].status = "absent"
    /\ \E new \in TaskRow : Becomes(t, new) /\ new.status = "queued" /\ new.transitions = 0
                            /\ new.allowance = 0 /\ new.lease = 0
                            /\ new.stage = Profile.initial
    /\ Logs(t, Entry(driver.op, 0, NoEdge, "none", "queued", "submitted"))
    /\ runs' = runs
    /\ \A u \in Task \ {t} : edges'[u] = edges[u]
    /\ edges'[t] = [e \in EdgeSet |-> 0]

\* A cap stops the task before a claim.
Caps(t) ==
    /\ task[t].status = "queued"
    /\ \E new \in TaskRow :
          /\ Becomes(t, new) /\ new.status = "waiting_user" /\ new.lease = 0
          /\ new.stage = task[t].stage
          /\ new.transitions = task[t].transitions /\ new.allowance = task[t].allowance
    /\ \E reason \in {"transition_cap", "attempt_cap"} :
          Logs(t, Entry(NoOp, 0, NoEdge, "queued", "waiting_user", reason))
    /\ UNCHANGED <<runs, edges>>

\* A person moves the task on; op is the request's.
Resumes(t, op) ==
    LET atEdgeCap == task[t].status = "waiting_user" /\ task[t].stop = "edge_cap"
        edge == IF atEdgeCap THEN CappedEdge(t) ELSE NoEdge
    IN  /\ op \in Op \ UsedOps
        /\ task[t].status \in RESUMABLE_STATUSES
        /\ \E new \in TaskRow :
              /\ Becomes(t, new) /\ new.status = "queued" /\ new.lease = 0
              /\ new.stage = task[t].stage
              /\ new.transitions = task[t].transitions
              /\ new.allowance = IF task[t].status = "waiting_user" THEN 1 ELSE 0
        /\ \E reason \in ResumeReasons :
              Logs(t, Entry(op, 0, edge, task[t].status, "queued", reason))
        /\ runs' = runs
        /\ edges' = IF atEdgeCap THEN [edges EXCEPT ![t][edge] = @ + 1] ELSE edges

\* The provider cannot be used: a run row that is closed at once.
Preflights(t) ==
    /\ task[t].status = "queued"
    /\ \E status \in {"paused", "blocked"} :
          /\ Opens(t, NewRun(t, status, 0))
          /\ \E new \in TaskRow :
                /\ Becomes(t, new) /\ new.status = status /\ new.lease = task[t].lease
                /\ new.stage = task[t].stage
                /\ new.transitions = task[t].transitions /\ new.allowance = task[t].allowance
          /\ Logs(t, Entry(NoOp, Len(runs[t]) + 1, NoEdge, "queued", status, "preflight_failed"))
    /\ edges' = edges

\* A stage is claimed.
Claims(t) ==
    /\ task[t].status = "queued"
    /\ ~TransitionCapHit(t) /\ ~AttemptCapHit(t)
    /\ Opens(t, NewRun(t, "running", Len(runs[t]) + 1))
    /\ \E new \in TaskRow :
          /\ Becomes(t, new) /\ new.status = "running" /\ new.lease = Len(runs[t]) + 1
          /\ new.stage = task[t].stage
          /\ new.transitions = task[t].transitions /\ new.allowance = 0
    /\ UNCHANGED <<edges, log>>

\* A closing run takes the edge of its outcome o: a queued target works on,
\* and a reviewer that is not waited for said ready; a final one ends the task
\* unless the edge is used up or the outcome asks for the user.
Takes(t, row, new, o) ==
    LET s == task[t].stage
        target == Target(Profile, s, o)
    IN  /\ row.edge = <<s, o>>
        /\ new.stage = target
        /\ row.to = "queued" => ~IsTerminal(Profile, target) /\ (s \in Reviewers => o = "ready")
        /\ IsTerminal(Profile, target) /\ o # HOLD_OUTCOME /\ ~EdgeCapHit(t, row.edge) =>
              new.status \in TERMINAL_STATUSES

\* The edge a closing run takes, if any, and what it costs.
Crosses(t, row, new) ==
    \/ /\ row.edge = NoEdge /\ edges' = edges /\ new.stage = task[t].stage
       /\ new.transitions = task[t].transitions /\ row.reason # "edge_cap"
       /\ row.to # "queued"
    \/ /\ row.edge \in EdgeSet
       /\ \E o \in OutcomesOf(Profile, task[t].stage) : Takes(t, row, new, o)
       /\ new.transitions = task[t].transitions + 1
       /\ IF EdgeCapHit(t, row.edge)
          THEN row.reason = "edge_cap" /\ edges' = edges
          ELSE row.reason # "edge_cap" /\ edges' = [edges EXCEPT ![t][row.edge] = @ + 1]

\* The task's open run ends, whatever ended it.
Closes(t) ==
    LET k == task[t].lease IN
    /\ task[t].status = "running" /\ k \in DOMAIN runs[t]
    /\ \A u \in Task \ {t} : runs'[u] = runs[u]
    /\ DOMAIN runs'[t] = DOMAIN runs[t]
    /\ \A j \in DOMAIN runs[t] \ {k} : runs'[t][j] = runs[t][j]
    /\ runs'[t][k].stage = runs[t][k].stage /\ runs'[t][k].cycle = runs[t][k].cycle
    /\ runs'[t][k].attempt = runs[t][k].attempt /\ runs'[t][k].lease = runs[t][k].lease
    /\ runs'[t][k].status # "running"
    /\ \E new \in TaskRow, row \in LogRow :
          /\ Becomes(t, new) /\ new.status # "running" /\ new.status # "absent" /\ new.lease = 0
          /\ new.allowance = task[t].allowance
          /\ Logs(t, row) /\ row.op = NoOp /\ row.run = k /\ row.from = "running"
          /\ row.to = new.status /\ row.reason \notin ResumeReasons
          /\ Crosses(t, row, new)

RowsKept == UNCHANGED <<task, runs, edges, log>>

Moves(t) ==
    \/ Submits(t) \/ Caps(t) \/ (\E op \in Op : Resumes(t, op))
    \/ Preflights(t) \/ Claims(t) \/ Closes(t)

-----------------------------------------------------------------------------
\* Each action of the controller is of one kind.

LEMMA Logged ==
    ASSUME TypeOK, NEW t \in Task, NEW row \in LogRow,
           log' = [log EXCEPT ![t] = Append(@, row)]
    PROVE  Logs(t, row)
<1>1. log[t] \in Seq(LogRow) /\ log'[t] = Append(log[t], row)
  BY DEF TypeOK
<1>2. /\ Len(log'[t]) = Len(log[t]) + 1 /\ log'[t] \in Seq(LogRow)
      /\ \A i \in 1..Len(log[t]) : log'[t][i] = log[t][i]
      /\ log'[t][Len(log[t]) + 1] = row
  BY <1>1, AppendProperties
<1>3. DOMAIN log'[t] = 1..(Len(log[t]) + 1)
  BY <1>2, LenProperties
<1>4. \A u \in Task \ {t} : log'[u] = log[u]
  BY DEF TypeOK
<1> QED BY <1>2, <1>3, <1>4 DEF Logs

LEMMA Opened ==
    ASSUME TypeOK, NEW t \in Task, NEW run \in RunRow,
           runs' = [runs EXCEPT ![t] = Append(@, run)]
    PROVE  Opens(t, run)
<1>1. runs[t] \in Seq(RunRow) /\ runs'[t] = Append(runs[t], run)
  BY DEF TypeOK
<1>2. /\ Len(runs'[t]) = Len(runs[t]) + 1 /\ runs'[t] \in Seq(RunRow)
      /\ \A i \in 1..Len(runs[t]) : runs'[t][i] = runs[t][i]
      /\ runs'[t][Len(runs[t]) + 1] = run
  BY <1>1, AppendProperties
<1>3. DOMAIN runs'[t] = 1..(Len(runs[t]) + 1)
  BY <1>2, LenProperties
<1>4. \A u \in Task \ {t} : runs'[u] = runs[u]
  BY DEF TypeOK
<1> QED BY <1>2, <1>3, <1>4 DEF Opens

LEMMA Became ==
    ASSUME TypeOK, NEW t \in Task, NEW new \in TaskRow, task' = [task EXCEPT ![t] = new]
    PROVE  Becomes(t, new)
BY DEF TypeOK, Becomes

\* Two updates of a row, field by field.
LEMMA StoppedRow ==
    ASSUME NEW row \in TaskRow, NEW status \in Status, NEW stop \in StopReasons \cup {"none"}
    PROVE  /\ Stopped(row, status, stop) \in TaskRow
           /\ Stopped(row, status, stop).status = status /\ Stopped(row, status, stop).lease = 0
           /\ Stopped(row, status, stop).transitions = row.transitions
           /\ Stopped(row, status, stop).allowance = row.allowance
           /\ Stopped(row, status, stop).stage = row.stage
BY DEF Stopped, TaskRow

LEMMA Statuses ==
    /\ "queued" \in Status /\ "running" \in Status /\ "waiting_user" \in Status
    /\ "paused" \in Status /\ "blocked" \in Status
    /\ RESUMABLE_STATUSES \subseteq Status /\ TERMINAL_STATUSES \subseteq Status
BY DEF Status, ACTIVE_STATUSES, RESUMABLE_STATUSES, TERMINAL_STATUSES

LEMMA EntryRow ==
    ASSUME NEW op \in Op \cup {NoOp}, NEW run \in Nat, NEW edge \in EdgeSet \cup {NoEdge},
           NEW from \in Status \cup {"none"}, NEW to \in Status, NEW reason \in Reasons
    PROVE  /\ Entry(op, run, edge, from, to, reason) \in LogRow
           /\ Entry(op, run, edge, from, to, reason).op = op
           /\ Entry(op, run, edge, from, to, reason).run = run
           /\ Entry(op, run, edge, from, to, reason).edge = edge
           /\ Entry(op, run, edge, from, to, reason).from = from
           /\ Entry(op, run, edge, from, to, reason).to = to
           /\ Entry(op, run, edge, from, to, reason).reason = reason
BY DEF Entry, LogRow

LEMMA ReasonsKnown ==
    /\ "submitted" \in Reasons /\ "stage_completed" \in Reasons
    /\ ResumeReasons \subseteq Reasons /\ StopReasons \subseteq Reasons
    /\ "transition_cap" \in StopReasons /\ "attempt_cap" \in StopReasons
    /\ "edge_cap" \in StopReasons /\ "preflight_failed" \in StopReasons
    /\ "orphaned_running" \in StopReasons /\ "user_decision_required" \in StopReasons
BY DEF Reasons, StopReasons, ResumeReasons

LEMMA KindSubmit ==
    ASSUME IInv, SubmitInsert PROVE driver.task \in Task /\ Submits(driver.task)
<1> DEFINE t == driver.task
           new == [NoRow EXCEPT !.status = "queued"]
           row == Entry(driver.op, 0, NoEdge, "none", "queued", "submitted")
<1>1. t \in Task /\ task[t].status = "absent" /\ driver.pc = "insert"
  BY DEF IInv, DriverFits, SubmitInsert, Exists
<1>2. /\ new \in TaskRow /\ new.status = "queued" /\ new.transitions = 0 /\ new.allowance = 0
      /\ new.lease = 0 /\ new.stage = Profile.initial
  BY ProfileAssumption, Statuses DEF NoRow, TaskRow, ValidProfile
<1>3. row \in LogRow
  <2>1. driver.op \in Op \cup {NoOp}
    BY DEF IInv, TypeOK
  <2>2. "submitted" \in Reasons /\ "queued" \in Status /\ "none" \in Status \cup {"none"}
    BY ReasonsKnown, Statuses
  <2> QED BY <2>1, <2>2, EntryRow
<1>4. /\ task' = [task EXCEPT ![t] = new]
      /\ log' = [log EXCEPT ![t] = Append(@, row)]
      /\ edges' = [edges EXCEPT ![t] = [e \in EdgeSet |-> 0]]
      /\ runs' = runs
  BY DEF SubmitInsert, InsertRow
<1>5. edges'[t] = [e \in EdgeSet |-> 0] /\ \A u \in Task \ {t} : edges'[u] = edges[u]
  BY <1>1, <1>4 DEF IInv, TypeOK
<1>6. Logs(t, row) /\ Becomes(t, new)
  <2> HIDE DEF t, new, row
  <2> QED BY <1>1, <1>2, <1>3, <1>4, Logged, Became DEF IInv
<1> HIDE DEF new
<1> QED BY <1>1, <1>2, <1>4, <1>5, <1>6 DEF Submits

LEMMA KindCap ==
    ASSUME IInv, StopForCap PROVE driver.task \in Task /\ Caps(driver.task)
<1> DEFINE t == driver.task
           reason == IF TransitionCapHit(t) THEN "transition_cap" ELSE "attempt_cap"
           row == Entry(NoOp, 0, NoEdge, "queued", "waiting_user", reason)
           new == Stopped(task[t], "waiting_user", reason)
<1>1. t \in Task /\ task[t].status = "queued"
  BY DriverTask DEF StopForCap, ClaimReady, Claimable
<1>2. reason \in {"transition_cap", "attempt_cap"}
  OBVIOUS
<1>3. /\ task' = [task EXCEPT ![t] = new]
      /\ log' = [log EXCEPT ![t] = Append(@, row)]
      /\ UNCHANGED <<runs, edges>>
  BY DEF StopForCap
<1> HIDE DEF reason
<1>4. row \in LogRow
  <2>1. reason \in Reasons /\ "queued" \in Status \cup {"none"} /\ "waiting_user" \in Status
        /\ NoOp \in Op \cup {NoOp} /\ NoEdge \in EdgeSet \cup {NoEdge}
    BY <1>2, ReasonsKnown, Statuses
  <2> QED BY <2>1, EntryRow
<1>5. /\ new \in TaskRow /\ new.status = "waiting_user" /\ new.lease = 0
      /\ new.transitions = task[t].transitions /\ new.allowance = task[t].allowance
      /\ new.stage = task[t].stage
  <2>1. task[t] \in TaskRow
    BY <1>1, DriverTask
  <2>2. reason \in StopReasons \cup {"none"} /\ "waiting_user" \in Status
    BY <1>2, ReasonsKnown, Statuses
  <2> HIDE DEF t
  <2> QED BY <2>1, <2>2, StoppedRow
<1>6. Logs(t, row) /\ Becomes(t, new)
  <2> HIDE DEF t, new, row
  <2> QED BY <1>1, <1>3, <1>4, <1>5, Logged, Became DEF IInv
<1> HIDE DEF new, t
<1> QED BY <1>1, <1>2, <1>3, <1>5, <1>6 DEF Caps, t

\* The edge of a task that stopped at its cap is that of a row of its log.
LEMMA CappedEdgeLogged ==
    ASSUME IInv, NEW t \in Task, task[t].stop = "edge_cap"
    PROVE  \E i \in DOMAIN log[t] :
              log[t][i].reason = "edge_cap" /\ CappedEdge(t) = log[t][i].edge
<1> DEFINE ks == {i \in DOMAIN log[t] : log[t][i].reason = "edge_cap"}
           k == CHOOSE i \in ks : \A j \in ks : j <= i
<1>1. log[t] \in Seq(LogRow) /\ Len(log[t]) \in Nat /\ DOMAIN log[t] = 1..Len(log[t])
  BY DEF IInv, TypeOK
<1>2. ks # {}
  BY DEF IInv, CapStopLogged
<1>3. ks \in SUBSET (1..Len(log[t]))
  BY <1>1
<1>4. \E i \in ks : \A j \in ks : j <= i
  <2> HIDE DEF ks
  <2> QED BY <1>1, <1>2, <1>3, LatestExists
<1>5. k \in ks
  BY <1>4
<1>6. CappedEdge(t) = log[t][k].edge
  BY DEF CappedEdge
<1> QED BY <1>5, <1>6

LEMMA KindResume ==
    ASSUME IInv, NEW t \in Task, NEW op \in Op, NEW rerun \in BOOLEAN, Resume(t, op, rerun)
    PROVE  Resumes(t, op)
<1> DEFINE atEdgeCap == task[t].status = "waiting_user" /\ task[t].stop = "edge_cap"
           edge == IF atEdgeCap THEN CappedEdge(t) ELSE NoEdge
           reason == IF rerun THEN "manual_rerun_stage" ELSE "manual_resume"
           row == Entry(op, 0, edge, task[t].status, "queued", reason)
           old == Stopped(task[t], "queued", "none")
           paid == IF task[t].status = "waiting_user" THEN 1 ELSE 0
           new == [old EXCEPT !.allowance = paid]
<1>1. /\ task[t].status \in RESUMABLE_STATUSES /\ op \in Op \ UsedOps /\ task[t] \in TaskRow
      /\ task' = [task EXCEPT ![t] = new]
      /\ log' = [log EXCEPT ![t] = Append(@, row)]
      /\ edges' = IF atEdgeCap THEN [edges EXCEPT ![t][edge] = @ + 1] ELSE edges
      /\ runs' = runs
  BY DriverTask DEF Resume
<1>2. edge \in EdgeSet \cup {NoEdge}
  <2>1. CASE ~atEdgeCap
    BY <2>1
  <2>2. CASE atEdgeCap
    <3>1. PICK i \in DOMAIN log[t] : CappedEdge(t) = log[t][i].edge
      BY <2>2, CappedEdgeLogged
    <3>2. log[t] \in Seq(LogRow)
      BY DEF IInv, TypeOK
    <3>3. log[t][i] \in LogRow
      BY <3>2
    <3> QED BY <2>2, <3>1, <3>3 DEF LogRow
  <2> QED BY <2>1, <2>2
<1>3. reason \in ResumeReasons /\ paid \in {0, 1}
  BY DEF ResumeReasons
<1>4. row \in LogRow
  <2> HIDE DEF edge, reason
  <2>1. op \in Op \cup {NoOp} /\ task[t].status \in Status \cup {"none"} /\ "queued" \in Status
        /\ reason \in Reasons /\ 0 \in Nat
    BY <1>1, <1>3, ReasonsKnown, Statuses
  <2> QED BY <1>2, <2>1, EntryRow
<1>5. /\ new \in TaskRow /\ new.status = "queued" /\ new.lease = 0
      /\ new.transitions = task[t].transitions /\ new.allowance = paid
      /\ new.stage = task[t].stage
  <2>1. /\ old \in TaskRow /\ old.status = "queued" /\ old.lease = 0
        /\ old.transitions = task[t].transitions /\ old.stage = task[t].stage
    <3>1. "queued" \in Status /\ "none" \in StopReasons \cup {"none"}
      BY Statuses
    <3> QED BY <1>1, <3>1, StoppedRow
  <2> HIDE DEF old, paid
  <2> QED BY <1>3, <2>1 DEF TaskRow
<1>6. Logs(t, row) /\ Becomes(t, new)
  <2> HIDE DEF new, row
  <2> QED BY <1>1, <1>4, <1>5, Logged, Became DEF IInv
<1> HIDE DEF new, reason
<1> QED BY <1>1, <1>3, <1>5, <1>6 DEF Resumes

LEMMA KindPreflight ==
    ASSUME IInv, NEW status \in {"paused", "blocked"}, PreflightStop(status)
    PROVE  driver.task \in Task /\ Preflights(driver.task)
<1> DEFINE t == driver.task
           k == Len(runs[t]) + 1
           run == NewRun(t, status, 0)
           row == Entry(NoOp, k, NoEdge, "queued", status, "preflight_failed")
           new == [task[t] EXCEPT !.status = status, !.stop = "preflight_failed"]
<1>1. t \in Task /\ task[t].status = "queued" /\ task[t] \in TaskRow
  BY DriverTask DEF PreflightStop, Claimable
<1>2. /\ task' = [task EXCEPT ![t] = new]
      /\ runs' = [runs EXCEPT ![t] = Append(@, run)]
      /\ log' = [log EXCEPT ![t] = Append(@, row)]
      /\ edges' = edges
  BY DEF PreflightStop
<1>3. run \in RunRow
  BY <1>1, NewRunType DEF IInv, RunStatus
<1>4. row \in LogRow
  <2>1. k \in Nat
    BY <1>1, DriverTask
  <2>2. "preflight_failed" \in Reasons /\ "queued" \in Status \cup {"none"} /\ status \in Status
        /\ NoOp \in Op \cup {NoOp} /\ NoEdge \in EdgeSet \cup {NoEdge}
    BY ReasonsKnown, Statuses
  <2> HIDE DEF k
  <2> QED BY <2>1, <2>2, EntryRow
<1>5. /\ new \in TaskRow /\ new.status = status /\ new.lease = task[t].lease
      /\ new.transitions = task[t].transitions /\ new.allowance = task[t].allowance
      /\ new.stage = task[t].stage
  BY <1>1, ReasonsKnown, Statuses DEF TaskRow
<1>6. Logs(t, row) /\ Becomes(t, new) /\ Opens(t, run)
  <2> HIDE DEF t, new, row, run
  <2> QED BY <1>1, <1>2, <1>3, <1>4, <1>5, Logged, Became, Opened DEF IInv
<1> HIDE DEF new
<1> QED BY <1>1, <1>2, <1>5, <1>6 DEF Preflights

LEMMA KindClaim ==
    ASSUME IInv, ClaimStage PROVE driver.task \in Task /\ Claims(driver.task)
<1> DEFINE t == driver.task
           k == Len(runs[t]) + 1
           run == NewRun(t, "running", k)
           new == [task[t] EXCEPT !.status = "running", !.lease = k, !.allowance = 0]
<1>1. /\ t \in Task /\ task[t].status = "queued" /\ task[t] \in TaskRow /\ k \in Nat
      /\ ~TransitionCapHit(t) /\ ~AttemptCapHit(t)
  BY DriverTask DEF ClaimStage, ClaimReady, Claimable
<1>2. /\ task' = [task EXCEPT ![t] = new]
      /\ runs' = [runs EXCEPT ![t] = Append(@, run)]
      /\ UNCHANGED <<log, edges>>
  BY DEF ClaimStage
<1>3. run \in RunRow
  <2> HIDE DEF k
  <2> QED BY <1>1, NewRunType DEF IInv, RunStatus
<1>4. /\ new \in TaskRow /\ new.status = "running" /\ new.lease = k
      /\ new.transitions = task[t].transitions /\ new.allowance = 0
      /\ new.stage = task[t].stage
  <2> HIDE DEF k
  <2> QED BY <1>1, Statuses DEF TaskRow
<1>5. Becomes(t, new) /\ Opens(t, run)
  <2> HIDE DEF t, new, run
  <2> QED BY <1>1, <1>2, <1>3, <1>4, Became, Opened DEF IInv
<1> HIDE DEF new
<1> QED BY <1>1, <1>2, <1>4, <1>5 DEF Claims

\* What the ways a run ends share.
LEMMA KindClose ==
    ASSUME IInv, NEW t \in Task, task[t].status = "running",
           NEW k, k = task[t].lease,
           NEW status \in RunStatus \ {"running"}, NEW sealed \in BOOLEAN,
           runs' = [runs EXCEPT ![t][k] = [runs[t][k] EXCEPT !.status = status, !.sealed = sealed]],
           NEW row \in LogRow, log' = [log EXCEPT ![t] = Append(@, row)],
           NEW new \in TaskRow, task' = [task EXCEPT ![t] = new],
           new.status # "running", new.status # "absent", new.lease = 0,
           new.allowance = task[t].allowance,
           row.op = NoOp, row.run = k, row.from = "running", row.to = new.status,
           row.reason \notin ResumeReasons,
           Crosses(t, row, new)
    PROVE  Closes(t)
<1> DEFINE closed == [runs[t][k] EXCEPT !.status = status, !.sealed = sealed]
<1>1. /\ k \in DOMAIN runs[t]
      /\ \A j \in DOMAIN runs[t] : runs[t][j].status = "running" => j = k
  BY DEF IInv, OneLeasedRun
<1>2. runs[t][k] \in RunRow
  BY <1>1, DriverTask
<1>3. /\ closed \in RunRow /\ closed.status = status
      /\ closed.stage = runs[t][k].stage /\ closed.cycle = runs[t][k].cycle
      /\ closed.attempt = runs[t][k].attempt /\ closed.lease = runs[t][k].lease
  BY <1>2 DEF RunRow
<1> HIDE DEF closed
<1>4. runs' = [runs EXCEPT ![t][k] = closed]
  BY DEF closed
<1>5. /\ \A u \in Task \ {t} : runs'[u] = runs[u]
      /\ DOMAIN runs'[t] = DOMAIN runs[t]
      /\ \A j \in DOMAIN runs[t] \ {k} : runs'[t][j] = runs[t][j]
      /\ runs'[t][k] = closed
  BY <1>1, <1>4 DEF IInv, TypeOK
<1>6. Logs(t, row) /\ Becomes(t, new)
  BY Logged, Became DEF IInv
<1>7. /\ runs'[t][k].stage = runs[t][k].stage /\ runs'[t][k].cycle = runs[t][k].cycle
      /\ runs'[t][k].attempt = runs[t][k].attempt /\ runs'[t][k].lease = runs[t][k].lease
      /\ runs'[t][k].status # "running"
  BY <1>3, <1>5
<1> QED BY <1>1, <1>5, <1>6, <1>7 DEF Closes

LEMMA KindOrphan ==
    ASSUME IInv, NEW t \in Task, task[t].status = "running", BlockOrphanedRunning(t),
           edges' = edges
    PROVE  Closes(t)
<1> DEFINE k == task[t].lease
           row == Entry(NoOp, k, NoEdge, "running", "blocked", "orphaned_running")
           new == Stopped(task[t], "blocked", "orphaned_running")
<1>1. /\ k \in DOMAIN runs[t] /\ runs[t][k].status = "running"
      /\ \A j \in DOMAIN runs[t] : runs[t][j].status = "running" => j = k
  BY DEF IInv, OneLeasedRun
<1>2. runs[t][k] \in RunRow /\ task[t] \in TaskRow /\ k \in Nat
  BY <1>1, DriverTask DEF TaskRow
<1>3. /\ runs' = [runs EXCEPT ![t][k].status = "blocked"]
      /\ log' = [log EXCEPT ![t] = Append(@, row)]
      /\ task' = [task EXCEPT ![t] = new]
  <2> DEFINE open == {j \in DOMAIN runs[t] : runs[t][j].status = "running"}
  <2>1. open = {k}
    BY <1>1
  <2>2. (CHOOSE j \in open : TRUE) = k /\ open # {}
    <3> HIDE DEF open, k
    <3> QED BY <2>1
  <2> HIDE DEF k
  <2> QED BY <2>2 DEF BlockOrphanedRunning
<1>4. [runs[t][k] EXCEPT !.status = "blocked"]
        = [runs[t][k] EXCEPT !.status = "blocked", !.sealed = runs[t][k].sealed]
      /\ runs[t][k].sealed \in BOOLEAN
  BY <1>2 DEF RunRow
<1>5. row \in LogRow /\ row.op = NoOp /\ row.run = k /\ row.edge = NoEdge
      /\ row.from = "running" /\ row.to = "blocked" /\ row.reason = "orphaned_running"
  <2>1. "orphaned_running" \in Reasons /\ "running" \in Status \cup {"none"} /\ "blocked" \in Status
        /\ NoOp \in Op \cup {NoOp} /\ NoEdge \in EdgeSet \cup {NoEdge} /\ k \in Nat
    BY <1>2, ReasonsKnown, Statuses
  <2> HIDE DEF k
  <2>2. row \in LogRow
    BY <2>1, EntryRow
  <2> QED BY <2>2 DEF Entry
<1>6. /\ new \in TaskRow /\ new.status = "blocked" /\ new.lease = 0
      /\ new.transitions = task[t].transitions /\ new.allowance = task[t].allowance
      /\ new.stage = task[t].stage
  <2>1. "orphaned_running" \in StopReasons \cup {"none"} /\ "blocked" \in Status
    BY ReasonsKnown, Statuses
  <2> QED BY <1>2, <2>1, StoppedRow
<1>7. runs' = [runs EXCEPT ![t][k] = [runs[t][k] EXCEPT !.status = "blocked", !.sealed = runs[t][k].sealed]]
  BY <1>3, <1>4
<1>8. "blocked" \in RunStatus \ {"running"} /\ row.reason \notin ResumeReasons
  BY <1>5 DEF RunStatus, ResumeReasons
<1> HIDE DEF k, row, new
<1>9. Crosses(t, row, new)
  BY <1>5, <1>6 DEF Crosses
<1> QED BY ZenonT(30), <1>3, <1>4, <1>5, <1>6, <1>7, <1>8, <1>9, KindClose DEF k

LEMMA KindCommitFailure ==
    ASSUME IInv, NEW k, NEW status, NEW reason, CommitFailure(k, status, reason)
    PROVE  driver.task \in Task /\ Closes(driver.task)
<1> DEFINE t == driver.task
           row == Entry(NoOp, k, NoEdge, "running", status, reason)
           new == Stopped(task[t], status, reason)
<1>1. /\ Committable(t, k) /\ t \in Task /\ k \in DOMAIN runs[t] /\ k \in Nat
      /\ task[t].status = "running" /\ task[t] \in TaskRow /\ runs[t][k] \in RunRow
  BY DriverTask DEF CommitFailure, Committable
<1>2. k = task[t].lease
  BY <1>1, CommittableLease
<1>3. /\ status \in {"blocked", "paused", "waiting_user"}
      /\ reason \in StopReasons /\ reason # "edge_cap" /\ reason \notin ResumeReasons
  BY DEF CommitFailure, FailureResults, BlockReasons, StopReasons, ResumeReasons
<1>4. /\ row \in LogRow /\ row.op = NoOp /\ row.run = k /\ row.edge = NoEdge
      /\ row.from = "running" /\ row.to = status /\ row.reason = reason
  <2>1. reason \in Reasons /\ "running" \in Status \cup {"none"} /\ status \in Status
        /\ NoOp \in Op \cup {NoOp} /\ NoEdge \in EdgeSet \cup {NoEdge}
    BY <1>3, ReasonsKnown, Statuses
  <2>2. row \in LogRow
    BY <1>1, <2>1, EntryRow
  <2> QED BY <2>2 DEF Entry
<1>5. /\ new \in TaskRow /\ new.status = status /\ new.lease = 0
      /\ new.transitions = task[t].transitions /\ new.allowance = task[t].allowance
      /\ new.stage = task[t].stage
  <2>1. reason \in StopReasons \cup {"none"} /\ status \in Status
    BY <1>3, Statuses
  <2> HIDE DEF t
  <2> QED BY <1>1, <2>1, StoppedRow
<1>6. RunStatusFor(status) \in RunStatus \ {"running"}
  BY <1>3 DEF RunStatusFor, RunStatus
<1>7. /\ runs' = [runs EXCEPT ![t][k] =
                     [runs[t][k] EXCEPT !.status = RunStatusFor(status), !.sealed = TRUE]]
      /\ log' = [log EXCEPT ![t] = Append(@, row)]
      /\ task' = [task EXCEPT ![t] = new]
      /\ edges' = edges
  BY DEF CommitFailure, Sealed
<1> HIDE DEF t, row, new
<1>8. Crosses(t, row, new)
  BY <1>3, <1>4, <1>5, <1>7 DEF Crosses
<1>9. new.status # "running" /\ new.status # "absent" /\ row.to = new.status
      /\ row.reason \notin ResumeReasons
  BY <1>3, <1>4, <1>5
<1> QED BY <1>1, <1>2, <1>4, <1>5, <1>6, <1>7, <1>8, <1>9, KindClose DEF t

LEMMA KindCommitHold ==
    ASSUME IInv, NEW k, CommitHold(k)
    PROVE  driver.task \in Task /\ Closes(driver.task)
<1> DEFINE t == driver.task
           row == Entry(NoOp, k, NoEdge, "running", "waiting_user", "user_decision_required")
           new == Stopped(task[t], "waiting_user", "user_decision_required")
<1>1. /\ Committable(t, k) /\ t \in Task /\ k \in DOMAIN runs[t] /\ k \in Nat
      /\ task[t].status = "running" /\ task[t] \in TaskRow /\ runs[t][k] \in RunRow
  BY DriverTask DEF CommitHold, Accepted, Committable
<1>2. k = task[t].lease
  BY <1>1, CommittableLease
<1>3. /\ "user_decision_required" \in StopReasons /\ "user_decision_required" \notin ResumeReasons
      /\ "waiting_user" \in Status
  BY ReasonsKnown, Statuses DEF ResumeReasons
<1>4. /\ row \in LogRow /\ row.op = NoOp /\ row.run = k /\ row.edge = NoEdge
      /\ row.from = "running" /\ row.to = "waiting_user" /\ row.reason = "user_decision_required"
  <2>1. "user_decision_required" \in Reasons /\ "running" \in Status \cup {"none"}
        /\ NoOp \in Op \cup {NoOp} /\ NoEdge \in EdgeSet \cup {NoEdge}
    BY <1>3, ReasonsKnown, Statuses
  <2>2. row \in LogRow
    BY <1>1, <1>3, <2>1, EntryRow
  <2> QED BY <2>2 DEF Entry
<1>5. /\ new \in TaskRow /\ new.status = "waiting_user" /\ new.lease = 0
      /\ new.transitions = task[t].transitions /\ new.allowance = task[t].allowance
      /\ new.stage = task[t].stage
  <2>1. "user_decision_required" \in StopReasons \cup {"none"}
    BY <1>3
  <2> HIDE DEF t
  <2> QED BY <1>1, <1>3, <2>1, StoppedRow
<1>6. "committed" \in RunStatus \ {"running"}
  BY DEF RunStatus
<1>7. /\ runs' = [runs EXCEPT ![t][k] =
                     [runs[t][k] EXCEPT !.status = "committed", !.sealed = TRUE]]
      /\ log' = [log EXCEPT ![t] = Append(@, row)]
      /\ task' = [task EXCEPT ![t] = new]
      /\ edges' = edges
  BY DEF CommitHold, Sealed
<1> HIDE DEF t, row, new
<1>8. Crosses(t, row, new)
  BY <1>4, <1>5, <1>7 DEF Crosses
<1>9. new.status # "running" /\ new.status # "absent" /\ row.to = new.status
      /\ row.reason \notin ResumeReasons
  BY <1>3, <1>4, <1>5
<1> QED BY <1>1, <1>2, <1>4, <1>5, <1>6, <1>7, <1>8, <1>9, KindClose DEF t

LEMMA KindCommitEdge ==
    ASSUME IInv, NEW k, NEW o, o \in OutcomesOf(Profile, task[driver.task].stage),
           CommitEdge(k, o)
    PROVE  driver.task \in Task /\ Closes(driver.task)
<1> DEFINE t == driver.task
           e == <<runs[t][k].stage, o>>
           target == Target(Profile, runs[t][k].stage, o)
           capped == EdgeCapHit(t, e)
           stop == IF capped THEN "edge_cap"
                   ELSE IF o = HOLD_OUTCOME THEN "user_decision_required" ELSE "none"
           status == IF stop # "none" THEN "waiting_user"
                     ELSE IF IsTerminal(Profile, target) THEN Profile.stages[target].terminal
                     ELSE "queued"
           reason == IF stop = "none" THEN "stage_completed" ELSE stop
           row == Entry(NoOp, k, e, "running", status, reason)
           old == Stopped(task[t], status, stop)
           n == task[t].transitions + 1
           new == [old EXCEPT !.stage = target, !.transitions = n]
<1>1. /\ Committable(t, k) /\ t \in Task /\ k \in DOMAIN runs[t] /\ k \in Nat
      /\ task[t].status = "running" /\ task[t] \in TaskRow /\ runs[t][k] \in RunRow
  <2>1. Accepted(driver.task, k, o)
    BY DEF CommitEdge
  <2> QED BY <2>1, DriverTask DEF Accepted, Committable
<1>2. k = task[t].lease /\ runs[t][k].stage = task[t].stage
  BY <1>1, CommittableLease
<1>3. /\ target \in StageNames(Profile) /\ e \in EdgeSet
      /\ IsTerminal(Profile, target) => Profile.stages[target].terminal \in TERMINAL_STATUSES
  <2>1. runs[t][k].stage \in StageNames(Profile) /\ o \in OutcomesOf(Profile, runs[t][k].stage)
    BY <1>1, <1>2 DEF TaskRow
  <2> QED BY <2>1, OutcomeTarget
<1>4. /\ stop \in {"edge_cap", "user_decision_required", "none"} /\ (stop = "edge_cap" <=> capped)
      /\ status \in {"waiting_user", "queued"} \cup TERMINAL_STATUSES
      /\ reason \in {"edge_cap", "user_decision_required", "stage_completed"}
      /\ (reason = "edge_cap" <=> capped)
  <2> HIDE DEF t, e, target, capped
  <2> QED BY <1>3
<1>5. /\ status \in Status /\ status # "running" /\ status # "absent"
      /\ stop \in StopReasons \cup {"none"} /\ reason \in Reasons /\ reason \notin ResumeReasons
  <2> HIDE DEF t, e, target, capped, stop, status, reason
  <2> QED BY <1>4, ReasonsKnown, Statuses DEF TERMINAL_STATUSES, ResumeReasons
<1>6. /\ row \in LogRow /\ row.op = NoOp /\ row.run = k /\ row.edge = e
      /\ row.from = "running" /\ row.to = status /\ row.reason = reason
  <2>1. "running" \in Status \cup {"none"} /\ NoOp \in Op \cup {NoOp} /\ e \in EdgeSet \cup {NoEdge}
    BY <1>3, Statuses
  <2> HIDE DEF t, e, status, stop, reason
  <2>2. row \in LogRow
    BY <1>1, <1>5, <2>1, EntryRow
  <2> QED BY <2>2 DEF Entry
<1>7. /\ new \in TaskRow /\ new.status = status /\ new.lease = 0
      /\ new.transitions = task[t].transitions + 1 /\ new.allowance = task[t].allowance
      /\ new.stage = target
  <2> HIDE DEF t, target, status, stop
  <2>1. /\ old \in TaskRow /\ old.status = status /\ old.lease = 0
        /\ old.allowance = task[t].allowance
    BY <1>1, <1>5, StoppedRow
  <2>2. n \in Nat
    BY <1>1 DEF TaskRow
  <2> HIDE DEF old, n
  <2>3. /\ new \in TaskRow /\ new.status = status /\ new.lease = 0
        /\ new.transitions = n /\ new.allowance = task[t].allowance
        /\ new.stage = target
    BY <1>3, <2>1, <2>2 DEF TaskRow
  <2> QED BY <2>3 DEF n
<1>8. "committed" \in RunStatus \ {"running"}
  BY DEF RunStatus
<1>9. /\ runs' = [runs EXCEPT ![t][k] =
                     [runs[t][k] EXCEPT !.status = "committed", !.sealed = TRUE]]
      /\ log' = [log EXCEPT ![t] = Append(@, row)]
      /\ task' = [task EXCEPT ![t] = new]
      /\ edges' = IF capped THEN edges ELSE [edges EXCEPT ![t][e] = @ + 1]
  BY DEF CommitEdge, Crossed, Sealed
<1>10. Crosses(t, row, new)
  <2>1. capped = EdgeCapHit(t, row.edge)
    BY <1>6
  <2>2. Takes(t, row, new, o)
    <3>1. status = "queued" => ~IsTerminal(Profile, target)
      <4> HIDE DEF t, e, target, capped
      <4> QED BY <1>3 DEF TERMINAL_STATUSES
    <3>2. task[t].stage \in Reviewers => o = "ready"
      BY DEF CommitEdge, Accepted, ReviewerWaits
    <3>3. IsTerminal(Profile, target) /\ o # HOLD_OUTCOME /\ ~capped => status \in TERMINAL_STATUSES
      <4> HIDE DEF t, e, target, capped
      <4> QED BY <1>3
    <3>4. e = <<task[t].stage, o>> /\ target = Target(Profile, task[t].stage, o)
      BY <1>2
    <3> HIDE DEF t, e, target, capped, status, stop, reason, row, new
    <3> QED BY <1>6, <1>7, <2>1, <3>1, <3>2, <3>3, <3>4 DEF Takes
  <2>3. o \in OutcomesOf(Profile, task[t].stage)
    OBVIOUS
  <2> HIDE DEF t, e, target, capped, stop, status, reason, row, new
  <2> QED BY <1>3, <1>4, <1>6, <1>7, <1>9, <2>1, <2>2, <2>3 DEF Crosses
<1>11. new.status # "running" /\ new.status # "absent" /\ row.to = new.status
       /\ row.reason \notin ResumeReasons
  BY <1>5, <1>6, <1>7
<1> HIDE DEF t, e, target, capped, stop, status, reason, row, old, n, new
<1> QED BY <1>1, <1>2, <1>6, <1>7, <1>8, <1>9, <1>10, <1>11, KindClose DEF t

\* What the controller does on its own, and what the startup barrier does.
LEMMA ControllerKinds ==
    ASSUME IInv, ControllerStep
    PROVE  \/ RowsKept
           \/ /\ driver.task \in Task
              /\ \/ Submits(driver.task) \/ Caps(driver.task) \/ Preflights(driver.task)
                 \/ Claims(driver.task) \/ Closes(driver.task)
<1>1. CASE RunReturns \/ ClaimRaises
  BY <1>1 DEF RunReturns, ClaimRaises, RowsKept
<1>2. CASE SubmitInsert
  BY <1>2, KindSubmit
<1>3. CASE LoopOrphan
  <2>1. driver.task \in Task
    BY <1>3, DriverTask DEF LoopOrphan
  <2> QED BY <1>3, <2>1, KindOrphan DEF LoopOrphan
<1>4. ASSUME NEW status \in {"paused", "blocked"}, PreflightStop(status)
      PROVE driver.task \in Task /\ Preflights(driver.task)
  BY <1>4, KindPreflight
<1>5. CASE StopForCap
  BY <1>5, KindCap
<1>6. CASE ClaimStage
  BY <1>6, KindClaim
<1>7. CASE CommitRun
  <2>1. ASSUME NEW k, NEW r, CommitFailure(k, r[1], r[2])
        PROVE driver.task \in Task /\ Closes(driver.task)
    BY <2>1, KindCommitFailure
  <2>2. ASSUME NEW k, CommitHold(k) PROVE driver.task \in Task /\ Closes(driver.task)
    BY <2>2, KindCommitHold
  <2>3. ASSUME NEW k, NEW o \in OutcomesOf(Profile, task[driver.task].stage), CommitEdge(k, o)
        PROVE driver.task \in Task /\ Closes(driver.task)
    BY <2>3, KindCommitEdge
  <2> QED BY <1>7, <2>1, <2>2, <2>3 DEF CommitRun
<1> QED BY <1>1, <1>2, <1>3, <1>4, <1>5, <1>6, <1>7 DEF ControllerStep

LEMMA StartupKinds ==
    ASSUME IInv, StartupStep PROVE RowsKept \/ \E t \in Task : Closes(t)
<1>1. CASE Boot \/ StartupReady
  BY <1>1 DEF Boot, StartupReady, RowsKept
<1>2. ASSUME NEW t \in Task, ReconcileOrphan(t) PROVE Closes(t)
  BY <1>2, KindOrphan DEF ReconcileOrphan
<1> QED BY <1>1, <1>2 DEF StartupStep

LEMMA StepKinds ==
    ASSUME IInv, [Next]_vars PROVE RowsKept \/ \E t \in Task : Moves(t)
<1>1. ASSUME NEW t \in Task, NEW op \in Op, SubmitPrepare(t, op) \/ ResumeAgain(t, op)
      PROVE RowsKept
  BY <1>1 DEF SubmitPrepare, ResumeAgain, RowsKept
<1>2. ASSUME NEW t \in Task, NEW op \in Op, NEW rerun \in BOOLEAN, Resume(t, op, rerun)
      PROVE Moves(t)
  BY <1>2, KindResume DEF Moves
<1>3. ASSUME NEW t \in Task, SubmitAgain(t) PROVE RowsKept
  BY <1>3 DEF SubmitAgain, RowsKept
<1>4. CASE Rollback \/ Crash \/ UNCHANGED vars
  BY <1>4 DEF Rollback, Crash, vars, RowsKept
<1>5. CASE ControllerStep
  BY <1>5, ControllerKinds DEF Moves
<1>6. CASE StartupStep
  BY <1>6, StartupKinds DEF Moves
<1> QED BY <1>1, <1>2, <1>3, <1>4, <1>5, <1>6 DEF Next, Call

-----------------------------------------------------------------------------
\* Evidence is never rewritten.

\* What is written of a task stays: its log, its closed runs and the row of a
\* finished task.
Frozen(t) ==
    /\ \A k \in DOMAIN runs[t] :
          runs[t][k].status # "running" =>
              k \in DOMAIN runs'[t] /\ runs'[t][k] = runs[t][k]
    /\ \A i \in DOMAIN log[t] : i \in DOMAIN log'[t] /\ log'[t][i] = log[t][i]
    /\ task[t].status \in TERMINAL_STATUSES => task'[t] = task[t]

LEMMA Lengths ==
    ASSUME TypeOK, NEW t \in Task
    PROVE  /\ log[t] \in Seq(LogRow) /\ DOMAIN log[t] = 1..Len(log[t]) /\ Len(log[t]) \in Nat
           /\ runs[t] \in Seq(RunRow) /\ DOMAIN runs[t] = 1..Len(runs[t]) /\ Len(runs[t]) \in Nat
           /\ task[t] \in TaskRow
BY DEF TypeOK

LEMMA LogKept ==
    ASSUME TypeOK, NEW t \in Task, NEW row, Logs(t, row), NEW u \in Task, NEW i \in DOMAIN log[u]
    PROVE  i \in DOMAIN log'[u] /\ log'[u][i] = log[u][i]
<1>1. /\ DOMAIN log[t] = 1..Len(log[t]) /\ Len(log[t]) \in Nat
      /\ DOMAIN log'[t] = 1..(Len(log[t]) + 1)
  BY Lengths DEF Logs
<1>2. CASE u = t
  BY <1>1, <1>2 DEF Logs
<1>3. CASE u # t
  BY <1>3 DEF Logs
<1> QED BY <1>2, <1>3

LEMMA RunKept ==
    ASSUME TypeOK, NEW t \in Task, NEW run, Opens(t, run), NEW u \in Task, NEW k \in DOMAIN runs[u]
    PROVE  k \in DOMAIN runs'[u] /\ runs'[u][k] = runs[u][k]
<1>1. /\ DOMAIN runs[t] = 1..Len(runs[t]) /\ Len(runs[t]) \in Nat
      /\ DOMAIN runs'[t] = 1..(Len(runs[t]) + 1)
  BY Lengths DEF Opens
<1>2. CASE u = t
  BY <1>1, <1>2 DEF Opens
<1>3. CASE u # t
  BY <1>3 DEF Opens
<1> QED BY <1>2, <1>3

LEMMA RowKept ==
    ASSUME NEW t \in Task, task[t].status \notin TERMINAL_STATUSES, NEW new, Becomes(t, new),
           NEW u \in Task, task[u].status \in TERMINAL_STATUSES
    PROVE  task'[u] = task[u]
BY DEF Becomes

LEMMA MovesFreeze ==
    ASSUME IInv, NEW t \in Task, Moves(t), NEW u \in Task PROVE Frozen(u)
<1>0. TypeOK
  BY DEF IInv
<1>1. /\ task[t].status \notin TERMINAL_STATUSES
      /\ \E new : Becomes(t, new)
  <2>1. /\ "absent" \notin TERMINAL_STATUSES /\ "queued" \notin TERMINAL_STATUSES
        /\ "running" \notin TERMINAL_STATUSES
        /\ RESUMABLE_STATUSES \cap TERMINAL_STATUSES = {}
    BY DEF TERMINAL_STATUSES, RESUMABLE_STATUSES
  <2> QED BY <2>1 DEF Moves, Submits, Caps, Resumes, Preflights, Claims, Closes
<1>2. (\E row : Logs(t, row)) \/ log' = log
  BY DEF Moves, Submits, Caps, Resumes, Preflights, Claims, Closes
<1>3. task[u].status \in TERMINAL_STATUSES => task'[u] = task[u]
  BY <1>1, RowKept
<1>4. \A i \in DOMAIN log[u] : i \in DOMAIN log'[u] /\ log'[u][i] = log[u][i]
  BY <1>0, <1>2, LogKept
<1>5. \A k \in DOMAIN runs[u] :
          runs[u][k].status # "running" => k \in DOMAIN runs'[u] /\ runs'[u][k] = runs[u][k]
  <2>1. CASE runs' = runs
    BY <2>1
  <2>2. CASE \E run : Opens(t, run)
    BY <1>0, <2>2, RunKept
  <2>3. CASE Closes(t)
    <3>1. CASE u # t
      BY <2>3, <3>1 DEF Closes
    <3>2. CASE u = t
      <4>1. runs[t][task[t].lease].status = "running"
        BY <2>3 DEF Closes, IInv, OneLeasedRun
      <4> QED BY <2>3, <3>2, <4>1 DEF Closes
    <3> QED BY <3>1, <3>2
  <2> QED BY <2>1, <2>2, <2>3 DEF Moves, Submits, Caps, Resumes, Preflights, Claims
<1> QED BY <1>3, <1>4, <1>5 DEF Frozen

LEMMA StepFreezes ==
    ASSUME IInv, [Next]_vars PROVE \A t \in Task : Frozen(t)
<1>1. CASE RowsKept
  BY <1>1 DEF RowsKept, Frozen
<1>2. CASE \E t \in Task : Moves(t)
  BY <1>2, MovesFreeze
<1> QED BY <1>1, <1>2, StepKinds

\* A stop, a resume, a replay or a crash adds rows: none rewrites a closed
\* run, a transition or the row of a finished task.
THEOREM EvidenceFrozen == Spec => HistoryFrozen
<1>1. IInv /\ [Next]_vars => [\A t \in Task : Frozen(t)]_vars
  BY StepFreezes
<1>2. [][\A t \in Task : Frozen(t)]_vars => HistoryFrozen
  BY PTL DEF HistoryFrozen, Frozen
<1> QED BY <1>1, <1>2, InitIInv, NextIInv, PTL DEF Spec

-----------------------------------------------------------------------------
\* Interrupted work is never silently executed again.

\* What lets a run open: the last one moved the task on, or a person did.
MovedOn(t) ==
    \E i \in Ended(t, Len(runs[t])) :
        \/ log[t][i].to = "queued"
        \/ \E j \in DOMAIN log[t] : j > i /\ log[t][j].reason \in ResumeReasons

Follows(t, k) ==
    \E i \in Ended(t, k - 1) :
        \/ log[t][i].to = "queued"
        \/ \E j \in DOMAIN log[t] :
              /\ j > i
              /\ log[t][j].reason \in ResumeReasons
              /\ \A m \in Ended(t, k) : j < m

\* A task without a row has no history; an open run is the latest one; a row
\* of the log names no run still to come; and a task that is queued between
\* two runs has the word it needs to open the next.
Tale(t) ==
    /\ task[t].status = "absent" => runs[t] = <<>> /\ log[t] = <<>>
    /\ task[t].status = "running" => task[t].lease = Len(runs[t])
    /\ \A i \in DOMAIN log[t] : log[t][i].run <= Len(runs[t])
    /\ task[t].status # "running" /\ Len(runs[t]) # 0 => Ended(t, Len(runs[t])) # {}
    /\ task[t].status = "queued" /\ Len(runs[t]) # 0 => MovedOn(t)
    /\ \A k \in 2..Len(runs[t]) : Follows(t, k)

Told == \A t \in Task : Tale(t)

LEMMA LogsLength ==
    ASSUME IInv, IInv', NEW t \in Task, NEW row, Logs(t, row)
    PROVE  Len(log'[t]) = Len(log[t]) + 1
<1>1. /\ DOMAIN log'[t] = 1..Len(log'[t]) /\ Len(log'[t]) \in Nat /\ Len(log[t]) \in Nat
  BY Lengths DEF IInv, TypeOK
<1>2. 1..Len(log'[t]) = 1..(Len(log[t]) + 1)
  BY <1>1 DEF Logs
<1> HIDE DEF Logs
<1> QED BY <1>1, <1>2

LEMMA OpensLength ==
    ASSUME IInv, IInv', NEW t \in Task, NEW run, Opens(t, run)
    PROVE  Len(runs'[t]) = Len(runs[t]) + 1
<1>1. /\ DOMAIN runs'[t] = 1..Len(runs'[t]) /\ Len(runs'[t]) \in Nat /\ Len(runs[t]) \in Nat
  BY Lengths DEF IInv, TypeOK
<1>2. 1..Len(runs'[t]) = 1..(Len(runs[t]) + 1)
  BY <1>1 DEF Opens
<1> QED BY <1>1, <1>2

LEMMA ClosesLength ==
    ASSUME IInv, IInv', NEW t \in Task, Closes(t)
    PROVE  Len(runs'[t]) = Len(runs[t])
<1>1. /\ DOMAIN runs'[t] = 1..Len(runs'[t]) /\ Len(runs'[t]) \in Nat /\ Len(runs[t]) \in Nat
      /\ DOMAIN runs[t] = 1..Len(runs[t])
  BY Lengths DEF IInv, TypeOK
<1>2. 1..Len(runs'[t]) = 1..Len(runs[t])
  BY <1>1 DEF Closes
<1> QED BY <1>1, <1>2

\* What the log says of earlier runs survives a new row, which comes last.
LEMMA EndedKept ==
    ASSUME TypeOK, NEW t \in Task, NEW row, Logs(t, row), NEW k
    PROVE  Ended(t, k)' = Ended(t, k) \cup (IF row.run = k THEN {Len(log[t]) + 1} ELSE {})
<1>1. /\ DOMAIN log'[t] = DOMAIN log[t] \cup {Len(log[t]) + 1}
      /\ \A i \in DOMAIN log[t] : log'[t][i] = log[t][i] /\ i # Len(log[t]) + 1
      /\ log'[t][Len(log[t]) + 1] = row
  BY Lengths DEF Logs
<1>2. Ended(t, k)' = {i \in DOMAIN log'[t] : log'[t][i].run = k}
  BY DEF Ended
<1> QED BY <1>1, <1>2 DEF Ended

LEMMA FollowsKept ==
    ASSUME TypeOK, NEW t \in Task, NEW row, Logs(t, row), NEW k \in Nat, Follows(t, k)
    PROVE  Follows(t, k)'
<1> DEFINE n == Len(log[t]) + 1
<1>1. /\ \A i \in DOMAIN log[t] : i \in DOMAIN log'[t] /\ log'[t][i] = log[t][i] /\ i < n
      /\ n \in Nat
  BY Lengths DEF Logs
<1>2. /\ Ended(t, k - 1) \subseteq Ended(t, k - 1)' /\ Ended(t, k - 1) \subseteq DOMAIN log[t]
      /\ \A m \in Ended(t, k)' : m \in Ended(t, k) \/ m = n
  <2>1. \A h \in Int : Ended(t, h)' = Ended(t, h) \cup (IF row.run = h THEN {n} ELSE {})
    BY EndedKept
  <2>2. k \in Int /\ k - 1 \in Int
    OBVIOUS
  <2>3. Ended(t, k - 1) \subseteq DOMAIN log[t]
    BY DEF Ended
  <2>4. Ended(t, k - 1) \subseteq Ended(t, k - 1)'
    BY <2>1, <2>2
  <2>5. \A m \in Ended(t, k)' : m \in Ended(t, k) \/ m = n
    BY <2>1, <2>2
  <2> QED BY <2>3, <2>4, <2>5
<1> HIDE DEF n
<1>3. PICK i \in Ended(t, k - 1) :
        \/ log[t][i].to = "queued"
        \/ \E j \in DOMAIN log[t] :
              j > i /\ log[t][j].reason \in ResumeReasons /\ \A m \in Ended(t, k) : j < m
  BY DEF Follows
<1>4. i \in Ended(t, k - 1)' /\ i \in DOMAIN log[t] /\ log'[t][i] = log[t][i]
  BY <1>1, <1>2
<1>5. CASE log[t][i].to = "queued"
  BY <1>4, <1>5 DEF Follows
<1>6. CASE \E j \in DOMAIN log[t] :
              j > i /\ log[t][j].reason \in ResumeReasons /\ \A m \in Ended(t, k) : j < m
  <2>1. PICK j \in DOMAIN log[t] :
              j > i /\ log[t][j].reason \in ResumeReasons /\ \A m \in Ended(t, k) : j < m
    BY <1>6
  <2>2. j \in DOMAIN log'[t] /\ log'[t][j] = log[t][j] /\ \A m \in Ended(t, k)' : j < m
    BY <1>1, <1>2, <2>1
  <2> QED BY <1>4, <2>1, <2>2 DEF Follows
<1> QED BY <1>3, <1>5, <1>6

\* A run that opens follows the last one on the word that queued the task.
LEMMA OpenFollows ==
    ASSUME TypeOK, NEW t \in Task, Tale(t), task[t].status = "queued", Len(runs[t]) # 0,
           \/ log' = log
           \/ \E row : Logs(t, row),
           NEW k \in Nat, k = Len(runs[t]) + 1
    PROVE  Follows(t, k)'
<1> DEFINE n == Len(log[t]) + 1
<1>1. /\ \A i \in DOMAIN log[t] : i \in DOMAIN log'[t] /\ log'[t][i] = log[t][i] /\ i < n
      /\ n \in Nat /\ Len(runs[t]) \in Nat /\ k - 1 = Len(runs[t]) /\ k > Len(runs[t])
  <2>1. \A i \in DOMAIN log[t] : i \in DOMAIN log'[t] /\ log'[t][i] = log[t][i]
    BY LogKept, Zenon
  <2>2. DOMAIN log[t] = 1..Len(log[t]) /\ Len(log[t]) \in Nat /\ Len(runs[t]) \in Nat
    BY Lengths
  <2> QED BY <2>1, <2>2
<1>2. \A i \in DOMAIN log[t] : log[t][i].run # k
  <2>1. \A i \in DOMAIN log[t] : log[t][i] \in LogRow /\ log[t][i].run <= Len(runs[t])
    BY Lengths DEF Tale
  <2>2. \A i \in DOMAIN log[t] : log[t][i].run \in Nat
    BY <2>1 DEF LogRow
  <2> QED BY <1>1, <2>1, <2>2
<1>3. /\ Ended(t, Len(runs[t])) \subseteq DOMAIN log[t]
      /\ \A i \in Ended(t, Len(runs[t])) : i \in DOMAIN log'[t] /\ log'[t][i].run = k - 1
      /\ \A m \in DOMAIN log'[t] : log'[t][m].run = k => m = n
  <2>1. DOMAIN log'[t] \subseteq DOMAIN log[t] \cup {n}
    BY Lengths DEF Logs
  <2> HIDE DEF n
  <2> QED BY <1>1, <1>2, <2>1 DEF Ended
<1> HIDE DEF n
<1>4. PICK i \in Ended(t, Len(runs[t])) :
        \/ log[t][i].to = "queued"
        \/ \E j \in DOMAIN log[t] : j > i /\ log[t][j].reason \in ResumeReasons
  BY DEF Tale, MovedOn
<1>5. i \in DOMAIN log'[t] /\ log'[t][i].run = k - 1 /\ log'[t][i] = log[t][i]
  BY <1>1, <1>3
<1>6. log[t][i].to = "queued" \/
      \E j \in DOMAIN log'[t] :
        /\ j > i /\ log'[t][j].reason \in ResumeReasons
        /\ \A m \in DOMAIN log'[t] : log'[t][m].run = k => j < m
  BY <1>1, <1>3, <1>4
<1>7. \E e \in DOMAIN log'[t] :
        /\ log'[t][e].run = k - 1
        /\ \/ log'[t][e].to = "queued"
           \/ \E j \in DOMAIN log'[t] :
                 /\ j > e /\ log'[t][j].reason \in ResumeReasons
                 /\ \A m \in DOMAIN log'[t] : log'[t][m].run = k => j < m
  BY <1>5, <1>6
<1>8. ASSUME NEW h PROVE Follows(t, h)' <=>
      \E e \in DOMAIN log'[t] :
        /\ log'[t][e].run = h - 1
        /\ \/ log'[t][e].to = "queued"
           \/ \E j \in DOMAIN log'[t] :
                 /\ j > e /\ log'[t][j].reason \in ResumeReasons
                 /\ \A m \in DOMAIN log'[t] : log'[t][m].run = h => j < m
  BY DEF Follows, Ended
<1> QED BY <1>7, <1>8

\* What a step on t must leave behind for its tale to go on.
LEMMA TaleStep ==
    ASSUME IInv, IInv', NEW t \in Task, Tale(t),
           \/ log' = log
           \/ \E row \in LogRow : Logs(t, row) /\ row.run <= Len(runs'[t]),
           \/ Len(runs'[t]) = Len(runs[t])
           \/ Len(runs'[t]) = Len(runs[t]) + 1 /\ task[t].status = "queued",
           task'[t].status # "absent",
           task'[t].status = "running" => task'[t].lease = Len(runs'[t]),
           task'[t].status # "running" /\ Len(runs'[t]) # 0 =>
               \E i \in DOMAIN log'[t] : log'[t][i].run = Len(runs'[t]),
           task'[t].status = "queued" /\ Len(runs'[t]) # 0 => MovedOn(t)'
    PROVE  Tale(t)'
<1>1. /\ Len(runs[t]) \in Nat /\ Len(runs'[t]) \in Nat /\ TypeOK
      /\ Len(log[t]) \in Nat /\ DOMAIN log[t] = 1..Len(log[t])
  BY SMTT(30), Lengths DEF IInv, TypeOK
<1>2. \A i \in DOMAIN log'[t] : log'[t][i].run <= Len(runs'[t])
  <2>1. \A i \in DOMAIN log[t] : log[t][i].run \in Nat /\ log[t][i].run <= Len(runs[t])
    <3>1. \A i \in DOMAIN log[t] : log[t][i] \in LogRow
      BY <1>1, Lengths
    <3> QED BY <3>1 DEF Tale, LogRow
  <2>2. \A i \in DOMAIN log[t] : log[t][i].run <= Len(runs'[t])
    BY <1>1, <2>1
  <2>3. CASE log' = log
    BY <2>2, <2>3
  <2>4. CASE \E row \in LogRow : Logs(t, row) /\ row.run <= Len(runs'[t])
    <3>1. PICK row \in LogRow : Logs(t, row) /\ row.run <= Len(runs'[t])
      BY <2>4
    <3>2. \A i \in DOMAIN log'[t] : i \in DOMAIN log[t] \/ i = Len(log[t]) + 1
      BY <1>1, <3>1 DEF Logs
    <3>3. log'[t][Len(log[t]) + 1] = row /\ \A i \in DOMAIN log[t] : log'[t][i] = log[t][i]
      BY <1>1, <3>1 DEF Logs
    <3> QED BY <2>2, <3>1, <3>2, <3>3
  <2> QED BY <2>3, <2>4
<1>3. ASSUME NEW k \in 2..Len(runs'[t]) PROVE Follows(t, k)'
  <2>1. k \in Nat
    BY <1>3, <1>1
  <2>2. CASE k <= Len(runs[t])
    <3>1. Follows(t, k)
      BY <1>1, <1>3, <2>2 DEF Tale
    <3>2. CASE log' = log
      BY <3>1, <3>2 DEF Follows, Ended
    <3> QED BY <1>1, <2>1, <3>1, <3>2, FollowsKept
  <2>3. CASE k > Len(runs[t])
    <3>1. k = Len(runs[t]) + 1 /\ task[t].status = "queued" /\ Len(runs[t]) # 0
      BY <1>1, <1>3, <2>3
    <3> QED BY <1>1, <2>1, <3>1, OpenFollows
  <2> QED BY <1>1, <2>1, <2>2, <2>3
<1>4. task'[t].status # "running" /\ Len(runs'[t]) # 0 => (Ended(t, Len(runs[t])))' # {}
  BY DEF Ended
<1> QED BY <1>2, <1>3, <1>4 DEF Tale

LEMMA TaleSame ==
    ASSUME NEW u \in Task, Tale(u), task'[u] = task[u], runs'[u] = runs[u], log'[u] = log[u]
    PROVE  Tale(u)'
<1>1. (Len(runs[u]))' = Len(runs[u])
  OBVIOUS
<1>2. \A k : Ended(u, k)' = Ended(u, k)
  BY DEF Ended
<1>3. \A k \in 2..Len(runs[u]) : Follows(u, k)'
  BY <1>2 DEF Tale, Follows, Ended
<1>4. MovedOn(u)' <=> MovedOn(u)
  BY DEF MovedOn, Ended
<1>5. (Ended(u, Len(runs[u])))' = Ended(u, Len(runs[u]))
  BY DEF Ended
<1> QED BY <1>1, <1>3, <1>4, <1>5 DEF Tale

\* The new row of a log, seen in the next state.
LEMMA NewRow ==
    ASSUME IInv, NEW t \in Task, NEW row, Logs(t, row)
    PROVE  /\ Len(log[t]) + 1 \in DOMAIN log'[t] /\ log'[t][Len(log[t]) + 1] = row
           /\ \A i \in DOMAIN log[t] :
                 i \in DOMAIN log'[t] /\ log'[t][i] = log[t][i] /\ i < Len(log[t]) + 1
BY Lengths DEF Logs, IInv

LEMMA SubmitTold ==
    ASSUME IInv, IInv', NEW t \in Task, Submits(t), Tale(t) PROVE Tale(t)'
<1> DEFINE row == Entry(driver.op, 0, NoEdge, "none", "queued", "submitted")
<1>1. Logs(t, row) /\ row \in LogRow /\ row.run = 0
  BY DEF Submits, Logs, Entry
<1>2. task'[t].status = "queued" /\ runs' = runs /\ runs[t] = <<>>
  BY DEF Submits, Becomes, Tale
<1>3. Len(runs[t]) = 0 /\ Len(runs'[t]) = 0 /\ row.run <= Len(runs'[t])
  BY <1>1, <1>2
<1> HIDE DEF row
<1> QED BY <1>1, <1>2, <1>3, TaleStep

LEMMA CapTold ==
    ASSUME IInv, IInv', NEW t \in Task, Caps(t), Tale(t) PROVE Tale(t)'
<1>1. PICK reason : Logs(t, Entry(NoOp, 0, NoEdge, "queued", "waiting_user", reason))
  BY DEF Caps
<1> DEFINE row == Entry(NoOp, 0, NoEdge, "queued", "waiting_user", reason)
<1>2. Logs(t, row) /\ row \in LogRow /\ row.run = 0
  BY <1>1 DEF Logs, Entry
<1>3. task'[t].status = "waiting_user" /\ runs' = runs /\ task[t].status = "queued"
  BY DEF Caps, Becomes
<1>4. Len(runs'[t]) = Len(runs[t]) /\ row.run <= Len(runs'[t])
  BY <1>2, <1>3, Lengths DEF IInv
<1>5. Len(runs'[t]) # 0 => \E i \in DOMAIN log[t] : log[t][i].run = Len(runs'[t])
  BY <1>3 DEF Tale, Ended
<1>6. Len(runs'[t]) # 0 => \E i \in DOMAIN log'[t] : log'[t][i].run = Len(runs'[t])
  BY <1>2, <1>5, NewRow
<1> HIDE DEF row
<1> QED BY <1>2, <1>3, <1>4, <1>6, TaleStep

LEMMA ResumeTold ==
    ASSUME IInv, IInv', NEW t \in Task, NEW op, Resumes(t, op), Tale(t) PROVE Tale(t)'
<1>1. PICK row \in LogRow : Logs(t, row) /\ row.run = 0 /\ row.reason \in ResumeReasons
  BY DEF Resumes, Logs, Entry
<1>2. task'[t].status = "queued" /\ runs' = runs /\ task[t].status # "running"
  BY DEF Resumes, Becomes, RESUMABLE_STATUSES
<1>3. Len(runs'[t]) = Len(runs[t]) /\ row.run <= Len(runs'[t])
  BY <1>1, <1>2, Lengths DEF IInv
<1>4. Len(runs'[t]) # 0 => \E i \in DOMAIN log[t] : log[t][i].run = Len(runs'[t])
  BY <1>2 DEF Tale, Ended
<1>5. ASSUME Len(runs'[t]) # 0 PROVE MovedOn(t)'
  <2>1. PICK i \in DOMAIN log[t] : log[t][i].run = Len(runs'[t])
    BY <1>4, <1>5
  <2>2. /\ i \in DOMAIN log'[t] /\ log'[t][i].run = Len(runs'[t])
        /\ Len(log[t]) + 1 \in DOMAIN log'[t] /\ Len(log[t]) + 1 > i
        /\ log'[t][Len(log[t]) + 1].reason \in ResumeReasons
    <3>1. \A h \in DOMAIN log[t] : h < Len(log[t]) + 1 /\ h \in Int /\ Len(log[t]) + 1 \in Int
      BY Lengths DEF IInv
    <3> QED BY <1>1, <2>1, <3>1, NewRow
  <2>3. \E h, j \in DOMAIN log'[t] :
            log'[t][h].run = Len(runs'[t]) /\ j > h /\ log'[t][j].reason \in ResumeReasons
    BY <2>2
  <2> QED BY <2>3 DEF MovedOn, Ended
<1>6. Len(runs'[t]) # 0 => \E i \in DOMAIN log'[t] : log'[t][i].run = Len(runs'[t])
  BY <1>1, <1>4, NewRow
<1> QED BY <1>1, <1>2, <1>3, <1>5, <1>6, TaleStep

LEMMA PreflightTold ==
    ASSUME IInv, IInv', NEW t \in Task, Preflights(t), Tale(t) PROVE Tale(t)'
<1>1. PICK status \in {"paused", "blocked"} :
          /\ Opens(t, NewRun(t, status, 0))
          /\ task'[t].status = status
          /\ Logs(t, Entry(NoOp, Len(runs[t]) + 1, NoEdge, "queued", status, "preflight_failed"))
  BY DEF Preflights, Becomes
<1>2. PICK row \in LogRow : Logs(t, row) /\ row.run = Len(runs[t]) + 1
  BY <1>1 DEF Logs, Entry
<1>3. Len(runs'[t]) = Len(runs[t]) + 1 /\ task[t].status = "queued"
  BY <1>1, OpensLength DEF Preflights
<1>4. Len(runs[t]) \in Nat
  BY Lengths DEF IInv
<1>5. \E i \in DOMAIN log'[t] : log'[t][i].run = Len(runs'[t])
  BY <1>2, <1>3, NewRow
<1>6. task'[t].status \notin {"running", "absent", "queued"} /\ row.run <= Len(runs'[t])
  BY <1>1, <1>2, <1>3, <1>4
<1> QED BY <1>2, <1>3, <1>5, <1>6, TaleStep

LEMMA ClaimTold ==
    ASSUME IInv, IInv', NEW t \in Task, Claims(t), Tale(t) PROVE Tale(t)'
<1>1. /\ Len(runs'[t]) = Len(runs[t]) + 1 /\ task[t].status = "queued"
      /\ log' = log /\ task'[t].status = "running" /\ task'[t].lease = Len(runs[t]) + 1
  BY OpensLength DEF Claims, Becomes
<1> QED BY <1>1, TaleStep

LEMMA CloseTold ==
    ASSUME IInv, IInv', NEW t \in Task, Closes(t), Tale(t) PROVE Tale(t)'
<1>1. PICK row \in LogRow :
          /\ Logs(t, row) /\ row.run = task[t].lease /\ row.to = task'[t].status
          /\ task'[t].status # "running" /\ task'[t].status # "absent"
  BY DEF Closes, Becomes
<1>2. Len(runs'[t]) = Len(runs[t]) /\ row.run = Len(runs'[t]) /\ Len(runs'[t]) \in Nat
  BY <1>1, ClosesLength, Lengths DEF Closes, Tale, IInv
<1>3. Len(log[t]) + 1 \in DOMAIN log'[t] /\ log'[t][Len(log[t]) + 1] = row
  BY <1>1, NewRow
<1>4. task'[t].status = "queued" => MovedOn(t)'
  <2>1. task'[t].status = "queued" =>
            \E i \in DOMAIN log'[t] : log'[t][i].run = Len(runs'[t]) /\ log'[t][i].to = "queued"
    BY <1>1, <1>2, <1>3
  <2> QED BY <2>1 DEF MovedOn, Ended
<1>5. \E i \in DOMAIN log'[t] : log'[t][i].run = Len(runs'[t])
  BY <1>2, <1>3
<1>6. row.run <= Len(runs'[t])
  BY <1>2
<1> QED BY <1>1, <1>2, <1>4, <1>5, <1>6, TaleStep

\* The rows of the other tasks.
LEMMA OthersKept ==
    ASSUME IInv, NEW t \in Task, Moves(t), NEW u \in Task, u # t
    PROVE  task'[u] = task[u] /\ runs'[u] = runs[u] /\ log'[u] = log[u] /\ edges'[u] = edges[u]
<1>1. \E new : Becomes(t, new)
  BY DEF Moves, Submits, Caps, Resumes, Preflights, Claims, Closes
<1>2. (\E row : Logs(t, row)) \/ log' = log
  BY DEF Moves, Submits, Caps, Resumes, Preflights, Claims, Closes
<1>3. (\E run : Opens(t, run)) \/ runs' = runs \/ Closes(t)
  BY DEF Moves, Submits, Caps, Resumes, Preflights, Claims
<1>4. edges'[u] = edges[u]
  <2>1. edges \in [Task -> [EdgeSet -> Nat]]
    BY DEF IInv, TypeOK
  <2>2. \A e : [edges EXCEPT ![t][e] = @ + 1][u] = edges[u]
    BY <2>1
  <2>3. \/ Submits(t) \/ edges' = edges \/ \E e : edges' = [edges EXCEPT ![t][e] = @ + 1]
    <3>1. CASE Submits(t) \/ Caps(t) \/ Preflights(t) \/ Claims(t)
      BY <3>1 DEF Caps, Preflights, Claims
    <3>2. CASE \E op \in Op : Resumes(t, op)
      <4> HIDE DEF CappedEdge
      <4> QED BY <3>2 DEF Resumes
    <3>3. CASE Closes(t)
      <4>1. PICK new, row : Crosses(t, row, new)
        BY <3>3 DEF Closes
      <4> QED BY <4>1 DEF Crosses
    <3> QED BY <3>1, <3>2, <3>3 DEF Moves
  <2>4. CASE \E e : edges' = [edges EXCEPT ![t][e] = @ + 1]
    <3>1. PICK e : edges' = [edges EXCEPT ![t][e] = @ + 1]
      BY <2>4
    <3>2. edges'[u] = [edges EXCEPT ![t][e] = @ + 1][u]
      BY <3>1
    <3> QED BY <2>2, <3>2
  <2>5. CASE Submits(t) \/ edges' = edges
    BY <2>5 DEF Submits
  <2> QED BY <2>3, <2>4, <2>5
<1>5. task'[u] = task[u]
  BY <1>1 DEF Becomes
<1>6. log'[u] = log[u]
  BY <1>2 DEF Logs
<1>7. runs'[u] = runs[u]
  BY <1>3 DEF Opens, Closes
<1> QED BY <1>4, <1>5, <1>6, <1>7

LEMMA NextTold == IInv /\ Told /\ [Next]_vars => Told'
<1> SUFFICES ASSUME IInv, Told, [Next]_vars PROVE Told'
  OBVIOUS
<1>1. IInv'
  BY NextIInv
<1>2. CASE RowsKept
  <2>1. \A u \in Task : Tale(u)'
    BY <1>2, TaleSame DEF RowsKept, Told
  <2> QED BY <2>1 DEF Told
<1>3. ASSUME NEW t \in Task, Moves(t) PROVE Told'
  <2>1. Tale(t)'
    BY <1>1, <1>3, SubmitTold, CapTold, ResumeTold, PreflightTold, ClaimTold, CloseTold
       DEF Moves, Told
  <2>2. \A u \in Task \ {t} : Tale(u)'
    BY <1>3, OthersKept, TaleSame DEF Told
  <2> QED BY <2>1, <2>2 DEF Told
<1> QED BY <1>2, <1>3, StepKinds

LEMMA InitTold == Init => Told
BY DEF Init, Told, Tale, NoRow

\* No run opens behind a person's back: the one before it moved the task on,
\* or a resume came between the two.
THEOREM RerunsDecided == Spec => []RerunNeedsPerson
<1>1. IInv /\ Told => RerunNeedsPerson
  <2> SUFFICES ASSUME IInv, Told, NEW t \in Task, NEW k \in DOMAIN runs[t] \ {1}
               PROVE  Follows(t, k)
    BY DEF RerunNeedsPerson, Follows
  <2>1. k \in 2..Len(runs[t])
    BY Lengths DEF IInv
  <2> QED BY <2>1 DEF Told, Tale
<1> QED BY <1>1, InitIInv, NextIInv, InitTold, NextTold, PTL DEF Spec

-----------------------------------------------------------------------------
\* The accounts of a task add up: the keys.

\* One more position after the first n.
LEMMA CountGrows ==
    ASSUME NEW n \in Nat, NEW S \in SUBSET (1..n)
    PROVE  /\ IsFiniteSet(S) /\ Cardinality(S) \in Nat
           /\ Cardinality(S \cup {n + 1}) = Cardinality(S) + 1
<1>1. IsFiniteSet(1..n)
  BY FS_Interval
<1>2. IsFiniteSet(S)
  BY <1>1, FS_Subset
<1>3. Cardinality(S) \in Nat
  BY <1>2, FS_CardinalityType
<1>4. n + 1 \notin S
  OBVIOUS
<1>5. \A x : x \notin S => Cardinality(S \cup {x}) = Cardinality(S) + 1
  BY <1>2, FS_AddElement
<1> QED BY <1>2, <1>3, <1>4, <1>5

\* (cycle, attempt) of a earlier than that of b.
Earlier(a, b) == a.cycle < b.cycle \/ (a.cycle = b.cycle /\ a.attempt < b.attempt)

\* The runs of a stage are numbered in the order they opened.
Ordered(t) ==
    \A j, k \in DOMAIN runs[t] :
        j < k /\ runs[t][j].stage = runs[t][k].stage => Earlier(runs[t][j], runs[t][k])

\* The run that opens is numbered after every run of its stage.
LEMMA NewRunLater ==
    ASSUME TypeOK, NEW t \in Task, NEW status \in RunStatus, NEW lease \in Nat, Ordered(t),
           NEW j \in DOMAIN runs[t], runs[t][j].stage = NewRun(t, status, lease).stage
    PROVE  Earlier(runs[t][j], NewRun(t, status, lease))
<1> DEFINE s == task[t].stage
           ks == RunsOf(t, s)
           k == CHOOSE k \in ks : \A i \in ks : i <= k
           last == runs[t][k]
           run == NewRun(t, status, lease)
<1>1. DOMAIN runs[t] = 1..Len(runs[t]) /\ Len(runs[t]) \in Nat
      /\ \A i \in DOMAIN runs[t] : runs[t][i] \in RunRow
  BY Lengths
<1>2. j \in ks /\ ks \in SUBSET (1..Len(runs[t]))
  BY <1>1, NewRunType DEF RunsOf
<1>3. \E i \in ks : \A h \in ks : h <= i
  <2> HIDE DEF ks
  <2>1. ks # {}
    BY <1>2
  <2> QED BY <1>1, <1>2, <2>1, LatestExists
<1>4. k \in ks /\ j <= k
  BY <1>2, <1>3
<1>5. last \in RunRow /\ last.stage = s /\ k \in DOMAIN runs[t]
  BY <1>1, <1>2, <1>4 DEF RunsOf
<1>6. last.cycle \in Nat /\ last.attempt \in Nat
  BY <1>5 DEF RunRow
<1>7. \/ run.cycle = last.cycle /\ run.attempt = last.attempt + 1
      \/ run.cycle = last.cycle + 1
  <2>1. ks # {}
    BY <1>2
  <2>2. \/ NextAttempt(t, s) = [cycle |-> last.cycle, attempt |-> last.attempt + 1]
        \/ NextAttempt(t, s) = [cycle |-> last.cycle + 1, attempt |-> 1]
    BY <2>1 DEF NextAttempt
  <2>3. run.cycle = NextAttempt(t, s).cycle /\ run.attempt = NextAttempt(t, s).attempt
    BY DEF NewRun
  <2> HIDE DEF last, run
  <2> QED BY <2>2, <2>3
<1>8. runs[t][j].cycle \in Nat /\ runs[t][j].attempt \in Nat /\ run.cycle \in Nat /\ run.attempt \in Nat
  <2>1. runs[t][j] \in RunRow /\ run \in RunRow
    BY <1>1, NewRunType
  <2> HIDE DEF run
  <2> QED BY <2>1 DEF RunRow
<1>9. Earlier(last, run)
  <2> HIDE DEF last, run
  <2> QED BY <1>6, <1>7 DEF Earlier
<1>10. j = k \/ Earlier(runs[t][j], last)
  <2>1. runs[t][j].stage = s
    BY <1>2 DEF RunsOf
  <2>2. j = k \/ j < k
    <3>1. j \in Nat /\ k \in Nat
      BY <1>1, <1>5
    <3> HIDE DEF k
    <3> QED BY <1>4, <3>1
  <2> HIDE DEF k
  <2> QED BY <1>5, <2>1, <2>2 DEF Ordered
<1> HIDE DEF last, run
<1>11. CASE j = k
  BY <1>9, <1>11 DEF last, run
<1>12. CASE Earlier(runs[t][j], last)
  BY <1>6, <1>8, <1>9, <1>12 DEF Earlier, run
<1> QED BY <1>10, <1>11, <1>12

LEMMA OpensOrdered ==
    ASSUME TypeOK, NEW t \in Task, Ordered(t), NEW status \in RunStatus, NEW lease \in Nat,
           Opens(t, NewRun(t, status, lease))
    PROVE  Ordered(t)'
<1> DEFINE n == Len(runs[t]) + 1
           run == NewRun(t, status, lease)
<1>1. /\ DOMAIN runs[t] = 1..Len(runs[t]) /\ Len(runs[t]) \in Nat
      /\ DOMAIN runs'[t] = 1..n
      /\ \A k \in 1..Len(runs[t]) : runs'[t][k] = runs[t][k]
      /\ runs'[t][n] = run
  BY Lengths DEF Opens
<1>2. \A j \in 1..Len(runs[t]) : runs[t][j].stage = run.stage => Earlier(runs[t][j], run)
  BY <1>1, NewRunLater
<1> SUFFICES ASSUME NEW j \in DOMAIN runs'[t], NEW k \in DOMAIN runs'[t], j < k,
                    runs'[t][j].stage = runs'[t][k].stage
             PROVE  Earlier(runs'[t][j], runs'[t][k])
  BY DEF Ordered, Earlier
<1> HIDE DEF run
<1>3. CASE k = n
  BY <1>1, <1>2, <1>3
<1>4. CASE k # n
  BY SMTT(30), <1>1, <1>4 DEF Ordered
<1> QED BY <1>3, <1>4

LEMMA ClosesOrdered ==
    ASSUME NEW t \in Task, Ordered(t), Closes(t) PROVE Ordered(t)'
<1>1. DOMAIN runs'[t] = DOMAIN runs[t]
  BY DEF Closes
<1>2. \A k \in DOMAIN runs[t] :
        /\ runs'[t][k].stage = runs[t][k].stage /\ runs'[t][k].cycle = runs[t][k].cycle
        /\ runs'[t][k].attempt = runs[t][k].attempt
  BY DEF Closes
<1> QED BY <1>1, <1>2 DEF Ordered, Earlier

LEMMA NextOrdered ==
    ASSUME IInv, NEW t \in Task, Ordered(t), Moves(t) PROVE Ordered(t)'
<1>1. CASE runs' = runs
  BY <1>1 DEF Ordered, Earlier
<1>2. CASE Preflights(t)
  <2>1. PICK status \in {"paused", "blocked"} : Opens(t, NewRun(t, status, 0))
    BY <1>2 DEF Preflights
  <2>2. status \in RunStatus
    BY DEF RunStatus
  <2> QED BY <2>1, <2>2, OpensOrdered DEF IInv
<1>3. CASE Claims(t)
  <2>1. Opens(t, NewRun(t, "running", Len(runs[t]) + 1)) /\ "running" \in RunStatus
        /\ Len(runs[t]) + 1 \in Nat
    BY <1>3, Lengths DEF Claims, RunStatus, IInv
  <2> QED BY <2>1, OpensOrdered DEF IInv
<1>4. CASE Closes(t)
  BY <1>4, ClosesOrdered
<1> QED BY <1>1, <1>2, <1>3, <1>4 DEF Moves, Submits, Caps, Resumes

\* An operation id is applied to one transition.
OpsOnce ==
    \A t, u \in Task : \A i \in DOMAIN log[t], j \in DOMAIN log[u] :
        log[t][i].op = log[u][j].op /\ log[t][i].op # NoOp => t = u /\ i = j

\* The operation id of the row being inserted is still free.
InsertFresh == driver.pc = "insert" => driver.op \notin UsedOps

LEMMA FreshOp ==
    ASSUME NEW op, op \notin UsedOps, NEW u \in Task, NEW h \in DOMAIN log[u]
    PROVE  log[u][h].op # op \/ op = NoOp
<1> DEFINE S == {log[u][i].op : i \in DOMAIN log[u]}
           U == {{log[t][i].op : i \in DOMAIN log[t]} : t \in Task}
<1>1. log[u][h].op \in S /\ S \in U
  OBVIOUS
<1>2. UsedOps = (UNION U) \ {NoOp}
  BY Zenon DEF UsedOps
<1> HIDE DEF S, U
<1> QED BY <1>1, <1>2, Zenon

LEMMA OpsStep ==
    ASSUME IInv, OpsOnce, NEW t \in Task, NEW row, Logs(t, row),
           row.op = NoOp \/ row.op \notin UsedOps
    PROVE  OpsOnce'
<1> SUFFICES ASSUME NEW u \in Task, NEW v \in Task,
                    NEW i \in DOMAIN log'[u], NEW j \in DOMAIN log'[v],
                    log'[u][i].op = log'[v][j].op, log'[u][i].op # NoOp
             PROVE  u = v /\ i = j
  BY DEF OpsOnce
<1> DEFINE n == Len(log[t]) + 1
<1>1. \A w \in Task : \A h \in DOMAIN log'[w] :
        \/ h \in DOMAIN log[w] /\ log'[w][h] = log[w][h]
        \/ w = t /\ h = n /\ log'[w][h] = row
  <2> SUFFICES ASSUME NEW w \in Task, NEW h \in DOMAIN log'[w]
               PROVE  \/ h \in DOMAIN log[w] /\ log'[w][h] = log[w][h]
                      \/ w = t /\ h = n /\ log'[w][h] = row
    OBVIOUS
  <2>1. CASE w # t
    BY <2>1 DEF Logs
  <2>2. CASE w = t
    <3>1. DOMAIN log'[t] = DOMAIN log[t] \cup {n}
      BY Lengths DEF Logs, IInv
    <3>2. log'[t][n] = row /\ \A g \in DOMAIN log[t] : log'[t][g] = log[t][g]
      BY NewRow
    <3> HIDE DEF n
    <3> QED BY <2>2, <3>1, <3>2
  <2> QED BY <2>1, <2>2
<1> HIDE DEF n
<1>2. \A w \in Task : \A h \in DOMAIN log[w] : row.op # NoOp => log[w][h].op # row.op
  BY FreshOp
<1> QED BY <1>1, <1>2 DEF OpsOnce

LEMMA MovesOps ==
    ASSUME IInv, OpsOnce, InsertFresh, NEW t \in Task, Moves(t) PROVE OpsOnce'
<1>1. CASE log' = log
  BY <1>1 DEF OpsOnce
<1>2. CASE Submits(t)
  <2>1. PICK row : Logs(t, row) /\ row.op = driver.op
    BY <1>2 DEF Submits, Entry
  <2>2. driver.op \notin UsedOps
    BY <1>2 DEF Submits, InsertFresh
  <2> QED BY <2>1, <2>2, OpsStep
<1>3. CASE \E op \in Op : Resumes(t, op)
  <2>1. PICK op, row : op \in Op /\ Logs(t, row) /\ row.op = op /\ op \notin UsedOps
    BY <1>3 DEF Resumes, Entry
  <2> QED BY <2>1, OpsStep
<1>4. CASE Caps(t) \/ Preflights(t) \/ Closes(t)
  <2>1. \E row : Logs(t, row) /\ row.op = NoOp
    BY <1>4 DEF Caps, Preflights, Closes, Entry
  <2> QED BY <2>1, OpsStep
<1> QED BY <1>1, <1>2, <1>3, <1>4 DEF Moves, Claims

\* Nothing but submit's preparation leads to the insert.
LEMMA InsertStep ==
    ASSUME IInv, InsertFresh, [Next]_vars PROVE InsertFresh'
<1> SUFFICES ASSUME driver'.pc = "insert" PROVE InsertFresh'
  BY DEF InsertFresh
<1>1. ASSUME NEW next, CommitThen(next), next.pc # "insert" PROVE FALSE
  BY <1>1 DEF CommitThen, Raised
<1>2. ASSUME NEW pc, NEW t, pc # "insert", driver' = At(pc, t) \/ CommitThen(At(pc, t)) PROVE FALSE
  <2>1. At(pc, t).pc = pc
    BY DEF At
  <2> QED BY <1>1, <1>2, <2>1
<1>3. ASSUME NEW t, driver' = Raised(t) \/ driver' = Returned(t) \/ CommitThen(Returned(t))
      PROVE  FALSE
  <2>1. Returned(t).pc = "idle"
    BY DEF Returned
  <2> QED BY <1>1, <1>3, <2>1 DEF Raised, Returned
<1>4. CASE UNCHANGED vars
  BY <1>4 DEF vars, InsertFresh, UsedOps
<1>5. ASSUME NEW t \in Task, NEW op \in Op, SubmitPrepare(t, op) PROVE InsertFresh'
  BY <1>5 DEF SubmitPrepare, Inserting, InsertFresh, UsedOps
<1>6. ASSUME NEW t \in Task, \/ SubmitAgain(t)
                             \/ \E op \in Op : ResumeAgain(t, op)
                             \/ \E op \in Op, rerun \in BOOLEAN : Resume(t, op, rerun)
      PROVE  FALSE
  <2>1. driver' = At("loop", t) \/ driver' = Raised(t)
    BY <1>6 DEF SubmitAgain, ResumeAgain, Resume
  <2> QED BY <2>1, <1>2, <1>3
<1>7. CASE Rollback \/ Crash \/ Boot \/ StartupReady \/ RunReturns \/ ClaimRaises
  <2>1. driver' \in {Raised(driver.task), Returned(driver.task), Down, Booting, Idle}
    BY <1>7 DEF Rollback, Crash, Boot, StartupReady, RunReturns, ClaimRaises
  <2> QED BY <1>3, <2>1 DEF Down, Booting, Idle
<1>8. ASSUME NEW t \in Task, ReconcileOrphan(t) PROVE FALSE
  BY <1>8 DEF ReconcileOrphan
<1>9. CASE SubmitInsert \/ CommitRun
  <2>1. CommitThen(At("loop", driver.task))
    BY <1>9 DEF SubmitInsert, CommitRun, CommitFailure, CommitHold, CommitEdge
  <2> QED BY <2>1, <1>2
<1>10. CASE LoopOrphan \/ StopForCap \/ \E status \in {"paused", "blocked"} : PreflightStop(status)
  <2>1. CommitThen(Returned(driver.task))
    BY <1>10 DEF LoopOrphan, StopForCap, PreflightStop
  <2> QED BY <2>1, <1>3
<1>11. CASE ClaimStage
  <2>1. CommitThen(At("provider", driver.task))
    BY <1>11 DEF ClaimStage
  <2> QED BY <2>1, <1>2
<1> QED
  BY <1>4, <1>5, <1>6, <1>7, <1>8, <1>9, <1>10, <1>11 DEF Next, Call, ControllerStep, StartupStep

-----------------------------------------------------------------------------
\* The accounts of a task add up: the budgets.

\* The claimed runs past their stage's attempt cap.
Exceeds(run) == run.lease # 0 /\ run.attempt > Profile.stages[run.stage].attempt_cap
Over(t) == {k \in DOMAIN runs[t] : Exceeds(runs[t][k])}

\* Each step past a budget was paid by a decision; an allowance is one that
\* is not spent yet, and an open run will spend one more transition.
Spent(t) ==
    /\ task[t].status = "running" => task[t].allowance = 0
    /\ Cardinality(Over(t)) + task[t].allowance <= Cardinality(DecisionsFor(t))
    /\ ~Uncapped(t) =>
          task[t].transitions + task[t].allowance + (IF task[t].status = "running" THEN 1 ELSE 0)
              <= Profile.max_transitions + Cardinality(DecisionsFor(t))

LEMMA CountsTyped ==
    ASSUME IInv, NEW t \in Task
    PROVE  /\ Cardinality(Over(t)) \in Nat /\ Cardinality(DecisionsFor(t)) \in Nat
           /\ task[t].transitions \in Nat /\ task[t].allowance \in {0, 1}
           /\ Profile.max_transitions \in Nat
<1>1. Over(t) \in SUBSET (1..Len(runs[t])) /\ DecisionsFor(t) \in SUBSET (1..Len(log[t]))
      /\ Len(runs[t]) \in Nat /\ Len(log[t]) \in Nat
  BY Lengths DEF IInv, Over, DecisionsFor
<1>2. task[t].transitions \in Nat /\ task[t].allowance \in {0, 1}
  BY DriverTask DEF TaskRow
<1>3. Profile.max_transitions \in Nat
  BY ProfileAssumption DEF ValidProfile
<1> QED BY <1>1, <1>2, <1>3, CountGrows

LEMMA DecisionsCounted ==
    ASSUME IInv, NEW t \in Task, NEW row, Logs(t, row)
    PROVE  Cardinality(DecisionsFor(t)') =
               Cardinality(DecisionsFor(t)) + (IF row.from = "waiting_user" THEN 1 ELSE 0)
<1> DEFINE n == Len(log[t]) + 1
<1>1. /\ DOMAIN log[t] = 1..Len(log[t]) /\ Len(log[t]) \in Nat
      /\ DOMAIN log'[t] = DOMAIN log[t] \cup {n} /\ log'[t][n] = row
      /\ \A i \in DOMAIN log[t] : log'[t][i] = log[t][i]
  BY Lengths DEF Logs, IInv
<1>2. DecisionsFor(t) \in SUBSET (1..Len(log[t]))
  BY <1>1 DEF DecisionsFor
<1>3. Cardinality(DecisionsFor(t) \cup {n}) = Cardinality(DecisionsFor(t)) + 1
      /\ Cardinality(DecisionsFor(t)) \in Nat
  BY <1>1, <1>2, CountGrows
<1> HIDE DEF n
<1>4. DecisionsFor(t)' = IF row.from = "waiting_user" THEN DecisionsFor(t) \cup {n} ELSE DecisionsFor(t)
  <2>1. DecisionsFor(t)' = {i \in DOMAIN log'[t] : log'[t][i].from = "waiting_user"}
    BY DEF DecisionsFor
  <2> QED BY <1>1, <2>1 DEF DecisionsFor
<1>5. CASE row.from = "waiting_user"
  BY <1>3, <1>4, <1>5
<1>6. CASE row.from # "waiting_user"
  <2>1. DecisionsFor(t)' = DecisionsFor(t)
    BY <1>4, <1>6
  <2> HIDE DEF Logs
  <2> QED BY <1>3, <1>6, <2>1
<1> QED BY <1>5, <1>6

LEMMA OverOpens ==
    ASSUME IInv, NEW t \in Task, NEW run, Opens(t, run)
    PROVE  Cardinality(Over(t)') = Cardinality(Over(t)) + (IF Exceeds(run) THEN 1 ELSE 0)
<1> DEFINE n == Len(runs[t]) + 1
<1>1. /\ DOMAIN runs[t] = 1..Len(runs[t]) /\ Len(runs[t]) \in Nat
      /\ DOMAIN runs'[t] = DOMAIN runs[t] \cup {n} /\ runs'[t][n] = run
      /\ \A k \in DOMAIN runs[t] : runs'[t][k] = runs[t][k]
  BY Lengths DEF Opens, IInv
<1>2. Over(t) \in SUBSET (1..Len(runs[t]))
  BY <1>1 DEF Over
<1>3. Cardinality(Over(t) \cup {n}) = Cardinality(Over(t)) + 1
      /\ Cardinality(Over(t)) \in Nat
  BY <1>1, <1>2, CountGrows
<1> HIDE DEF n
<1>4. Over(t)' = IF Exceeds(run) THEN Over(t) \cup {n} ELSE Over(t)
  <2>1. Over(t)' = {k \in DOMAIN runs'[t] : Exceeds(runs'[t][k])}
    BY DEF Over, Exceeds
  <2> QED BY <1>1, <2>1 DEF Over
<1>5. CASE Exceeds(run)
  BY <1>3, <1>4, <1>5
<1>6. CASE ~Exceeds(run)
  <2>1. Over(t)' = Over(t)
    BY <1>4, <1>6
  <2> QED BY <1>3, <1>6, <2>1
<1> QED BY <1>5, <1>6

LEMMA OverKept ==
    ASSUME NEW t \in Task, runs' = runs \/ Closes(t)
    PROVE  Over(t)' = Over(t)
<1>1. DOMAIN runs'[t] = DOMAIN runs[t]
  BY DEF Closes
<1>2. \A k \in DOMAIN runs[t] : Exceeds(runs'[t][k]) <=> Exceeds(runs[t][k])
  BY DEF Closes, Exceeds
<1>3. Over(t)' = {k \in DOMAIN runs'[t] : Exceeds(runs'[t][k])}
  BY DEF Over, Exceeds
<1> QED BY <1>1, <1>2, <1>3 DEF Over

\* The step's arithmetic, with the counters before (d, o) and after (D, O).
LEMMA SpentStep ==
    ASSUME IInv, NEW t \in Task, Spent(t),
           NEW new \in TaskRow, task'[t] = new,
           NEW D \in Nat, D = Cardinality(DecisionsFor(t)'),
           NEW O \in Nat, O = Cardinality(Over(t)'),
           new.status = "running" => new.allowance = 0,
           O + new.allowance <= D,
           ~Uncapped(t) =>
               new.transitions + new.allowance + (IF new.status = "running" THEN 1 ELSE 0)
                   <= Profile.max_transitions + D
    PROVE  Spent(t)'
<1>1. Uncapped(t)' <=> Uncapped(t)
  BY DEF Uncapped
<1> QED BY <1>1 DEF Spent

LEMMA MovesSpent ==
    ASSUME IInv, NEW t \in Task, Spent(t), Tale(t), Moves(t) PROVE Spent(t)'
<1> DEFINE d == Cardinality(DecisionsFor(t))
           o == Cardinality(Over(t))
           row == task[t]
<1>1. /\ d \in Nat /\ o \in Nat /\ row.transitions \in Nat /\ row.allowance \in {0, 1}
      /\ Profile.max_transitions \in Nat
  BY CountsTyped
<1>2. /\ row.status = "running" => row.allowance = 0
      /\ o + row.allowance <= d
      /\ ~Uncapped(t) => row.transitions + row.allowance + (IF row.status = "running" THEN 1 ELSE 0)
                            <= Profile.max_transitions + d
  BY DEF Spent
<1>3. CASE Submits(t)
  <2>1. PICK new \in TaskRow : task'[t] = new /\ new.status = "queued" /\ new.transitions = 0
                               /\ new.allowance = 0
    BY <1>3 DEF Submits, Becomes
  <2>2. Over(t)' = Over(t)
    BY <1>3, OverKept DEF Submits
  <2>3. Cardinality(DecisionsFor(t)') = d
    <3>1. PICK entry : Logs(t, entry) /\ entry.from = "none"
      BY <1>3 DEF Submits, Entry
    <3>2. Cardinality(DecisionsFor(t)') = d + (IF entry.from = "waiting_user" THEN 1 ELSE 0)
      BY <3>1, DecisionsCounted
    <3> HIDE DEF d
    <3> QED BY <1>1, <3>1, <3>2
  <2> HIDE DEF d, o, row
  <2>4. o + 0 <= d /\ 0 + 0 + 0 <= Profile.max_transitions + d
    BY <1>1, <1>2
  <2> QED BY <1>1, <1>2, <2>1, <2>2, <2>3, <2>4, SpentStep DEF o
<1>4. CASE Caps(t)
  <2>1. PICK new \in TaskRow : task'[t] = new /\ new.status = "waiting_user"
            /\ new.transitions = row.transitions /\ new.allowance = row.allowance
    BY <1>4 DEF Caps, Becomes
  <2>2. Over(t)' = Over(t) /\ row.status = "queued"
    BY <1>4, OverKept DEF Caps
  <2>3. Cardinality(DecisionsFor(t)') = d
    <3>1. PICK entry : Logs(t, entry) /\ entry.from = "queued"
      BY <1>4 DEF Caps, Entry
    <3>2. Cardinality(DecisionsFor(t)') = d + (IF entry.from = "waiting_user" THEN 1 ELSE 0)
      BY <3>1, DecisionsCounted
    <3> HIDE DEF d
    <3> QED BY <1>1, <3>1, <3>2
  <2> HIDE DEF d, o, row
  <2> QED BY <1>1, <1>2, <2>1, <2>2, <2>3, SpentStep DEF o
<1>5. CASE \E op \in Op : Resumes(t, op)
  <2>1. PICK new \in TaskRow : task'[t] = new /\ new.status = "queued"
            /\ new.transitions = row.transitions
            /\ new.allowance = IF row.status = "waiting_user" THEN 1 ELSE 0
    BY <1>5 DEF Resumes, Becomes
  <2>2. Over(t)' = Over(t) /\ row.status # "running"
    BY <1>5, OverKept DEF Resumes, RESUMABLE_STATUSES
  <2>3. Cardinality(DecisionsFor(t)') = d + (IF row.status = "waiting_user" THEN 1 ELSE 0)
    <3>1. PICK entry : Logs(t, entry) /\ entry.from = row.status
      BY <1>5 DEF Resumes, Entry
    <3>2. Cardinality(DecisionsFor(t)') = d + (IF entry.from = "waiting_user" THEN 1 ELSE 0)
      BY <3>1, DecisionsCounted
    <3> HIDE DEF d, row
    <3> QED BY <1>1, <3>1, <3>2
  <2> HIDE DEF d, o, row
  <2>4. CASE row.status = "waiting_user"
    <3>1. d + 1 \in Nat /\ Cardinality(DecisionsFor(t)') = d + 1 /\ new.allowance = 1
      BY <1>1, <2>1, <2>3, <2>4
    <3>2. o + 1 <= d + 1 /\ (~Uncapped(t) => new.transitions + 1 + 0 <= Profile.max_transitions + (d + 1))
      BY <1>1, <1>2, <2>1, <2>2
    <3> QED BY <1>1, <2>1, <2>2, <3>1, <3>2, SpentStep DEF o
  <2>5. CASE row.status # "waiting_user"
    <3>1. Cardinality(DecisionsFor(t)') = d /\ new.allowance = 0
      BY <1>1, <2>1, <2>3, <2>5
    <3>2. o + 0 <= d /\ (~Uncapped(t) => new.transitions + 0 + 0 <= Profile.max_transitions + d)
      BY <1>1, <1>2, <2>1, <2>2
    <3> QED BY <1>1, <2>1, <2>2, <3>1, <3>2, SpentStep DEF o
  <2> QED BY <2>4, <2>5
<1>6. CASE Preflights(t)
  <2>1. PICK status \in {"paused", "blocked"}, new \in TaskRow :
            /\ task'[t] = new /\ new.status = status
            /\ new.transitions = row.transitions /\ new.allowance = row.allowance
            /\ Opens(t, NewRun(t, status, 0))
            /\ Logs(t, Entry(NoOp, Len(runs[t]) + 1, NoEdge, "queued", status, "preflight_failed"))
    BY <1>6 DEF Preflights, Becomes
  <2>2. Cardinality(Over(t)') = o /\ row.status = "queued"
    <3>1. NewRun(t, status, 0).lease = 0
      BY DEF NewRun
    <3>2. ~Exceeds(NewRun(t, status, 0))
      BY <3>1 DEF Exceeds
    <3>3. Cardinality(Over(t)') = o + (IF Exceeds(NewRun(t, status, 0)) THEN 1 ELSE 0)
      BY <2>1, OverOpens
    <3> HIDE DEF o
    <3> QED BY <1>1, <1>6, <3>2, <3>3 DEF Preflights
  <2>3. Cardinality(DecisionsFor(t)') = d
    <3>1. PICK entry : Logs(t, entry) /\ entry.from = "queued"
      BY <2>1 DEF Entry
    <3>2. Cardinality(DecisionsFor(t)') = d + (IF entry.from = "waiting_user" THEN 1 ELSE 0)
      BY <3>1, DecisionsCounted
    <3> HIDE DEF d
    <3> QED BY <1>1, <3>1, <3>2
  <2>4. new.status # "running"
    BY <2>1
  <2> HIDE DEF d, o, row
  <2> QED BY <1>1, <1>2, <2>1, <2>2, <2>3, <2>4, SpentStep
<1>7. CASE Claims(t)
  <2> DEFINE run == NewRun(t, "running", Len(runs[t]) + 1)
  <2>1. PICK new \in TaskRow :
            /\ task'[t] = new /\ new.status = "running"
            /\ new.transitions = row.transitions /\ new.allowance = 0
    BY <1>7 DEF Claims, Becomes
  <2>2. DecisionsFor(t)' = DecisionsFor(t) /\ row.status = "queued"
    BY <1>7 DEF Claims, DecisionsFor
  <2>3. Exceeds(run) => row.allowance = 1
    <3>1. ~AttemptCapHit(t)
      BY <1>7 DEF Claims
    <3>2. run.attempt = NextAttempt(t, task[t].stage).attempt /\ run.stage = task[t].stage
      BY DEF NewRun
    <3>3. Exceeds(run) => row.allowance # 0
      BY <3>1, <3>2 DEF AttemptCapHit, Exceeds
    <3> QED BY <1>1, <3>3
  <2>4. Cardinality(Over(t)') = o + (IF Exceeds(run) THEN 1 ELSE 0)
    BY <1>7, OverOpens DEF Claims
  <2>5. ~Uncapped(t) => row.transitions < Profile.max_transitions \/ row.allowance = 1
    <3>1. ~TransitionCapHit(t)
      BY <1>7 DEF Claims
    <3> QED BY <1>1, <3>1 DEF TransitionCapHit
  <2> HIDE DEF d, o, row, run
  <2>6. o + (IF Exceeds(run) THEN 1 ELSE 0) <= d /\ o + (IF Exceeds(run) THEN 1 ELSE 0) \in Nat
    BY <1>1, <1>2, <2>3
  <2>7. ~Uncapped(t) => row.transitions + 0 + 1 <= Profile.max_transitions + d
    BY <1>1, <1>2, <2>2, <2>5
  <2> DEFINE O == o + (IF Exceeds(run) THEN 1 ELSE 0)
  <2>8. O + 0 <= d /\ O \in Nat /\ O = Cardinality(Over(t)')
    BY <2>4, <2>6
  <2>9. Cardinality(DecisionsFor(t)') = d
    BY <2>2 DEF d
  <2> HIDE DEF O
  <2> QED BY <1>1, <2>1, <2>7, <2>8, <2>9, SpentStep
<1>8. CASE Closes(t)
  <2>1. PICK new \in TaskRow, entry \in LogRow :
            /\ task'[t] = new /\ new.status # "running" /\ new.allowance = row.allowance
            /\ Logs(t, entry) /\ entry.from = "running" /\ Crosses(t, entry, new)
    BY <1>8 DEF Closes, Becomes
  <2>2. Over(t)' = Over(t) /\ row.status = "running"
    BY <1>8, OverKept DEF Closes
  <2>3. Cardinality(DecisionsFor(t)') = d
    <3>1. Cardinality(DecisionsFor(t)') = d + (IF entry.from = "waiting_user" THEN 1 ELSE 0)
      BY <2>1, DecisionsCounted
    <3> HIDE DEF d
    <3> QED BY <1>1, <2>1, <3>1
  <2>4. new.transitions = row.transitions \/ new.transitions = row.transitions + 1
    BY <2>1 DEF Crosses
  <2> HIDE DEF d, o, row
  <2>5. ~Uncapped(t) => new.transitions + new.allowance + 0 <= Profile.max_transitions + d
    BY <1>1, <1>2, <2>1, <2>2, <2>4
  <2>6. o + new.allowance <= d
    BY <1>2, <2>1
  <2> QED BY <1>1, <2>1, <2>2, <2>3, <2>5, <2>6, SpentStep DEF o
<1> QED BY <1>3, <1>4, <1>5, <1>6, <1>7, <1>8 DEF Moves

-----------------------------------------------------------------------------
\* The accounts of a task add up: the edge counters.

Crossings(t, e) == {i \in DOMAIN log[t] : log[t][i].edge = e /\ log[t][i].reason # "edge_cap"}
Charged(t, e) == {i \in Crossings(t, e) : log[t][i].reason \in ResumeReasons}

\* A stop at an edge cap names the edge.
CapRows(t) == \A i \in DOMAIN log[t] : log[t][i].reason = "edge_cap" => log[t][i].edge \in EdgeSet

Counted(t) ==
    Exists(t) => \A e \in EdgeSet :
        /\ edges[t][e] = Cardinality(Crossings(t, e))
        /\ ~Uncapped(t) => edges[t][e] <= Profile.edge_caps[e] + Cardinality(Charged(t, e))

Crossing(row, e) == row.edge = e /\ row.reason # "edge_cap"

LEMMA CrossingsCounted ==
    ASSUME IInv, NEW t \in Task, NEW row, Logs(t, row), NEW e
    PROVE  /\ Cardinality(Crossings(t, e)) \in Nat /\ Cardinality(Charged(t, e)) \in Nat
           /\ Cardinality(Crossings(t, e)') =
                Cardinality(Crossings(t, e)) + (IF Crossing(row, e) THEN 1 ELSE 0)
           /\ Cardinality(Charged(t, e)') =
                Cardinality(Charged(t, e))
                  + (IF Crossing(row, e) /\ row.reason \in ResumeReasons THEN 1 ELSE 0)
<1> DEFINE n == Len(log[t]) + 1
           a == Crossings(t, e)
           b == Charged(t, e)
<1>1. /\ DOMAIN log[t] = 1..Len(log[t]) /\ Len(log[t]) \in Nat
      /\ DOMAIN log'[t] = DOMAIN log[t] \cup {n} /\ log'[t][n] = row
      /\ \A i \in DOMAIN log[t] : log'[t][i] = log[t][i]
  BY Lengths DEF Logs, IInv
<1>2. a \in SUBSET (1..Len(log[t])) /\ b \in SUBSET (1..Len(log[t]))
  BY <1>1 DEF Crossings, Charged
<1>3. /\ Cardinality(a) \in Nat /\ Cardinality(b) \in Nat
      /\ Cardinality(a \cup {n}) = Cardinality(a) + 1
      /\ Cardinality(b \cup {n}) = Cardinality(b) + 1
  <2> HIDE DEF a, b
  <2> QED BY <1>1, <1>2, CountGrows
<1>4. Crossings(t, e)' = IF Crossing(row, e) THEN a \cup {n} ELSE a
  <2>1. Crossings(t, e)' = {i \in DOMAIN log'[t] : Crossing(log'[t][i], e)}
        /\ a = {i \in DOMAIN log[t] : Crossing(log[t][i], e)}
    BY DEF Crossings, Crossing
  <2> HIDE DEF n, a
  <2> QED BY <1>1, <2>1
<1>5. Charged(t, e)' = IF Crossing(row, e) /\ row.reason \in ResumeReasons THEN b \cup {n} ELSE b
  <2>1. Charged(t, e)' = {i \in DOMAIN log'[t] : Crossing(log'[t][i], e) /\ log'[t][i].reason \in ResumeReasons}
        /\ b = {i \in DOMAIN log[t] : Crossing(log[t][i], e) /\ log[t][i].reason \in ResumeReasons}
    BY DEF Crossings, Charged, Crossing, ResumeReasons
  <2> HIDE DEF n, b
  <2> QED BY <1>1, <2>1
<1>6. Cardinality(Crossings(t, e)') = Cardinality(a) + (IF Crossing(row, e) THEN 1 ELSE 0)
  <2> HIDE DEF a, n
  <2>1. CASE Crossing(row, e)
    BY <1>3, <1>4, <2>1
  <2>2. CASE ~Crossing(row, e)
    <3>1. Cardinality(Crossings(t, e)') = Cardinality(a)
      BY <1>4, <2>2
    <3> QED BY <1>3, <2>2, <3>1
  <2> QED BY <2>1, <2>2
<1>7. Cardinality(Charged(t, e)')
        = Cardinality(b) + (IF Crossing(row, e) /\ row.reason \in ResumeReasons THEN 1 ELSE 0)
  <2> HIDE DEF b, n
  <2>1. CASE Crossing(row, e) /\ row.reason \in ResumeReasons
    BY <1>3, <1>5, <2>1
  <2>2. CASE ~(Crossing(row, e) /\ row.reason \in ResumeReasons)
    <3>1. Cardinality(Charged(t, e)') = Cardinality(b)
      BY <1>5, <2>2
    <3> QED BY <1>3, <2>2, <3>1
  <2> QED BY <2>1, <2>2
<1> QED BY <1>3, <1>6, <1>7

\* A row that takes no edge and a counter that stays.
LEMMA LedgerSame ==
    ASSUME IInv, NEW t \in Task, Counted(t), Exists(t), NEW row, Logs(t, row),
           row.edge = NoEdge \/ row.reason = "edge_cap", edges'[t] = edges[t]
    PROVE  Counted(t)'
<1>1. Uncapped(t)' <=> Uncapped(t)
  BY DEF Uncapped
<1>2. ASSUME NEW e \in EdgeSet
      PROVE  /\ Cardinality(Crossings(t, e)') = Cardinality(Crossings(t, e))
             /\ Cardinality(Charged(t, e)') = Cardinality(Charged(t, e))
  <2>1. ~Crossing(row, e)
    BY NoEdgeAssumption DEF Crossing
  <2>2. /\ Cardinality(Crossings(t, e)) \in Nat /\ Cardinality(Charged(t, e)) \in Nat
        /\ Cardinality(Crossings(t, e)') = Cardinality(Crossings(t, e)) + 0
        /\ Cardinality(Charged(t, e)') = Cardinality(Charged(t, e)) + 0
    BY <2>1, CrossingsCounted
  <2> QED BY <2>2
<1>3. \A e \in EdgeSet :
        /\ edges'[t][e] = Cardinality(Crossings(t, e)')
        /\ ~Uncapped(t)' => edges'[t][e] <= Profile.edge_caps[e] + Cardinality(Charged(t, e)')
  BY <1>1, <1>2 DEF Counted
<1>4. EdgeSet' = EdgeSet
  BY DEF EdgeSet
<1> QED BY <1>3, <1>4 DEF Counted

LEMMA LedgerCrosses ==
    ASSUME IInv, NEW t \in Task, Counted(t), Exists(t), NEW row, Logs(t, row),
           row.edge \in EdgeSet, row.reason # "edge_cap",
           row.reason \in ResumeReasons \/ ~EdgeCapHit(t, row.edge),
           edges' = [edges EXCEPT ![t][row.edge] = @ + 1]
    PROVE  Counted(t)'
<1>1. Uncapped(t)' <=> Uncapped(t)
  BY DEF Uncapped
<1>2. \A e \in EdgeSet : edges'[t][e] = IF e = row.edge THEN edges[t][e] + 1 ELSE edges[t][e]
  BY DEF IInv, TypeOK
<1>3. \A e \in EdgeSet : edges[t][e] \in Nat /\ Profile.edge_caps[e] \in Nat
  <2>1. \A e \in EdgeSet : edges[t][e] \in Nat
    BY DEF IInv, TypeOK
  <2>2. Profile.edge_caps \in [EdgeSet -> Nat \ {0}]
    BY ProfileAssumption DEF ValidProfile, EdgeSet
  <2> QED BY <2>1, <2>2
<1>4. ASSUME NEW e \in EdgeSet
      PROVE  /\ edges'[t][e] = Cardinality(Crossings(t, e)')
             /\ ~Uncapped(t)' => edges'[t][e] <= Profile.edge_caps[e] + Cardinality(Charged(t, e)')
  <2>1. /\ Cardinality(Crossings(t, e)) \in Nat /\ Cardinality(Charged(t, e)) \in Nat
        /\ Cardinality(Crossings(t, e)') =
             Cardinality(Crossings(t, e)) + (IF e = row.edge THEN 1 ELSE 0)
        /\ Cardinality(Charged(t, e)') =
             Cardinality(Charged(t, e)) + (IF e = row.edge /\ row.reason \in ResumeReasons THEN 1 ELSE 0)
    <3>1. Crossing(row, e) <=> e = row.edge
      BY DEF Crossing
    <3> QED BY <3>1, CrossingsCounted
  <2>2. /\ edges[t][e] = Cardinality(Crossings(t, e))
        /\ ~Uncapped(t) => edges[t][e] <= Profile.edge_caps[e] + Cardinality(Charged(t, e))
    BY DEF Counted
  <2>3. CASE e # row.edge
    <3>1. edges'[t][e] = edges[t][e] /\ edges[t][e] \in Nat
      BY <1>2, <1>3, <2>3
    <3>2. Cardinality(Crossings(t, e)') = Cardinality(Crossings(t, e))
          /\ Cardinality(Charged(t, e)') = Cardinality(Charged(t, e))
      BY <2>1, <2>3
    <3> QED BY <1>1, <2>2, <3>1, <3>2
  <2>4. CASE e = row.edge
    <3>1. edges'[t][e] = edges[t][e] + 1
      BY <1>2, <2>4
    <3>2. Cardinality(Crossings(t, e)') = Cardinality(Crossings(t, e)) + 1
      BY <2>1, <2>4
    <3>3. CASE row.reason \in ResumeReasons
      <4>1. Cardinality(Charged(t, e)') = Cardinality(Charged(t, e)) + 1
        BY <2>1, <2>4, <3>3
      <4> QED BY <1>1, <1>3, <2>1, <2>2, <3>1, <3>2, <4>1
    <3>4. CASE row.reason \notin ResumeReasons
      <4>1. Cardinality(Charged(t, e)') = Cardinality(Charged(t, e))
        BY <2>1, <2>4, <3>4
      <4>2. ~Uncapped(t) => ~(edges[t][e] >= Profile.edge_caps[e])
        BY <2>4, <3>4 DEF EdgeCapHit
      <4> QED BY <1>1, <1>3, <2>1, <2>2, <3>1, <3>2, <4>1, <4>2
    <3> QED BY <3>3, <3>4
  <2> QED BY <2>3, <2>4
<1>5. EdgeSet' = EdgeSet
  BY DEF EdgeSet
<1> QED BY <1>4, <1>5 DEF Counted

LEMMA LedgerOpens ==
    ASSUME IInv, NEW t \in Task, Tale(t), Submits(t) PROVE Counted(t)'
<1>1. PICK row : Logs(t, row) /\ row.edge = NoEdge
  BY DEF Submits, Entry
<1>2. log[t] = <<>> /\ edges'[t] = [e \in EdgeSet |-> 0]
  BY DEF Submits, Tale
<1>3. ASSUME NEW e \in EdgeSet
      PROVE  /\ Cardinality(Crossings(t, e)') = 0 /\ Cardinality(Charged(t, e)') = 0
             /\ Profile.edge_caps[e] \in Nat /\ edges'[t][e] = 0
  <2>1. Crossings(t, e) = {} /\ Charged(t, e) = {}
    BY <1>2 DEF Crossings, Charged
  <2>2. Cardinality(Crossings(t, e)) = 0 /\ Cardinality(Charged(t, e)) = 0
    <3>1. \A S : S = {} => Cardinality(S) = 0
      BY FS_EmptySet
    <3> QED BY <2>1, <3>1
  <2>3. ~Crossing(row, e)
    BY <1>1, NoEdgeAssumption DEF Crossing
  <2>4. Cardinality(Crossings(t, e)') = 0 + 0 /\ Cardinality(Charged(t, e)') = 0 + 0
    BY <1>1, <2>2, <2>3, CrossingsCounted
  <2>5. Profile.edge_caps \in [EdgeSet -> Nat \ {0}]
    BY ProfileAssumption DEF ValidProfile, EdgeSet
  <2> QED BY <1>2, <2>4, <2>5
<1>4. \A e \in EdgeSet :
        /\ edges'[t][e] = Cardinality(Crossings(t, e)')
        /\ edges'[t][e] <= Profile.edge_caps[e] + Cardinality(Charged(t, e)')
  BY <1>3
<1>5. EdgeSet' = EdgeSet
  BY DEF EdgeSet
<1> QED BY <1>4, <1>5 DEF Counted

LEMMA CapRowsStep ==
    ASSUME IInv, NEW t \in Task, CapRows(t), NEW row, Logs(t, row),
           row.reason = "edge_cap" => row.edge \in EdgeSet
    PROVE  CapRows(t)'
<1>1. /\ DOMAIN log'[t] = DOMAIN log[t] \cup {Len(log[t]) + 1}
      /\ log'[t][Len(log[t]) + 1] = row
      /\ \A i \in DOMAIN log[t] : log'[t][i] = log[t][i]
  BY Lengths, NewRow DEF Logs, IInv
<1>2. EdgeSet' = EdgeSet
  BY DEF EdgeSet
<1> QED BY <1>1, <1>2 DEF CapRows

LEMMA MovesCapRows ==
    ASSUME IInv, NEW t \in Task, CapRows(t), Moves(t) PROVE CapRows(t)'
<1>1. CASE log' = log
  <2>1. EdgeSet' = EdgeSet
    BY DEF EdgeSet
  <2> QED BY <1>1, <2>1 DEF CapRows
<1>2. CASE Submits(t) \/ Caps(t) \/ Preflights(t)
  <2>1. \E row : Logs(t, row) /\ row.reason # "edge_cap"
    BY <1>2 DEF Submits, Caps, Preflights, Entry
  <2> QED BY <2>1, CapRowsStep
<1>3. CASE \E op \in Op : Resumes(t, op)
  <2>1. \E row : Logs(t, row) /\ row.reason # "edge_cap"
    BY <1>3 DEF Resumes, Entry, ResumeReasons
  <2> QED BY <2>1, CapRowsStep
<1>4. CASE Closes(t)
  <2>1. \E row : Logs(t, row) /\ (row.reason = "edge_cap" => row.edge \in EdgeSet)
    BY <1>4 DEF Closes, Crosses
  <2> QED BY <2>1, CapRowsStep
<1> QED BY <1>1, <1>2, <1>3, <1>4 DEF Moves, Claims

LEMMA MovesLedger ==
    ASSUME IInv, NEW t \in Task, Tale(t), CapRows(t), Counted(t), Moves(t) PROVE Counted(t)'
<1>1. CASE Submits(t)
  BY <1>1, LedgerOpens
<1>2. CASE Caps(t) \/ Preflights(t)
  <2>1. \E row : Logs(t, row) /\ row.edge = NoEdge
    BY <1>2 DEF Caps, Preflights, Entry
  <2>2. Exists(t) /\ edges'[t] = edges[t]
    BY <1>2 DEF Caps, Preflights, Exists
  <2> QED BY <2>1, <2>2, LedgerSame
<1>3. ASSUME NEW op \in Op, Resumes(t, op) PROVE Counted(t)'
  <2> DEFINE atEdgeCap == task[t].status = "waiting_user" /\ task[t].stop = "edge_cap"
  <2>1. Exists(t)
    BY <1>3 DEF Resumes, Exists, RESUMABLE_STATUSES
  <2>2. CASE ~atEdgeCap
    <3>1. \E row : Logs(t, row) /\ row.edge = NoEdge
      BY <1>3, <2>2 DEF Resumes, Entry
    <3>2. edges'[t] = edges[t]
      BY <1>3, <2>2 DEF Resumes
    <3> QED BY <2>1, <3>1, <3>2, LedgerSame
  <2>3. CASE atEdgeCap
    <3>1. PICK reason \in ResumeReasons :
              Logs(t, Entry(op, 0, CappedEdge(t), task[t].status, "queued", reason))
      BY <1>3, <2>3 DEF Resumes
    <3>2. PICK row : /\ Logs(t, row) /\ row.edge = CappedEdge(t)
                     /\ row.reason \in ResumeReasons /\ row.reason # "edge_cap"
      BY <3>1 DEF Entry, ResumeReasons
    <3>3. CappedEdge(t) \in EdgeSet
      <4>1. PICK i \in DOMAIN log[t] :
                log[t][i].reason = "edge_cap" /\ CappedEdge(t) = log[t][i].edge
        BY <2>3, CappedEdgeLogged
      <4> QED BY <4>1 DEF CapRows
    <3>4. edges' = [edges EXCEPT ![t][CappedEdge(t)] = @ + 1]
      BY <1>3, <2>3 DEF Resumes
    <3>5. edges' = [edges EXCEPT ![t][row.edge] = @ + 1] /\ row.edge \in EdgeSet
      BY <3>2, <3>3, <3>4
    <3> QED BY <2>1, <3>2, <3>5, LedgerCrosses
  <2> QED BY <2>2, <2>3
<1>4. CASE Claims(t)
  <2>1. log' = log /\ edges' = edges /\ Exists(t) /\ (Uncapped(t)' <=> Uncapped(t))
        /\ EdgeSet' = EdgeSet
    BY <1>4 DEF Claims, Exists, Uncapped, EdgeSet
  <2>2. \A e \in EdgeSet : Crossings(t, e)' = Crossings(t, e) /\ Charged(t, e)' = Charged(t, e)
    BY <2>1 DEF Crossings, Charged, ResumeReasons
  <2> QED BY <2>1, <2>2 DEF Counted
<1>5. CASE Closes(t)
  <2>1. PICK row, new : Logs(t, row) /\ Crosses(t, row, new) /\ row.reason \notin ResumeReasons
    BY <1>5 DEF Closes
  <2>2. Exists(t)
    BY <1>5 DEF Closes, Exists
  <2>3. CASE row.edge = NoEdge /\ edges' = edges
    BY <2>1, <2>2, <2>3, LedgerSame
  <2>4. CASE row.edge \in EdgeSet /\ EdgeCapHit(t, row.edge)
    <3>1. row.reason = "edge_cap" /\ edges' = edges
      BY <2>1, <2>4, NoEdgeAssumption DEF Crosses
    <3> QED BY <2>1, <2>2, <3>1, LedgerSame
  <2>5. CASE row.edge \in EdgeSet /\ ~EdgeCapHit(t, row.edge)
    <3>1. row.reason # "edge_cap" /\ edges' = [edges EXCEPT ![t][row.edge] = @ + 1]
      BY <2>1, <2>5, NoEdgeAssumption DEF Crosses
    <3> QED BY <2>1, <2>2, <2>5, <3>1, LedgerCrosses
  <2> QED BY <2>1, <2>3, <2>4, <2>5 DEF Crosses
<1> QED BY <1>1, <1>2, <1>3, <1>4, <1>5 DEF Moves

-----------------------------------------------------------------------------
\* The accounts of a task add up: the theorem.

Book(t) == Ordered(t) /\ Spent(t) /\ CapRows(t) /\ Counted(t)
Books == OpsOnce /\ InsertFresh /\ \A t \in Task : Book(t)

\* The book of a task whose rows stay.
LEMMA BookSame ==
    ASSUME NEW u \in Task, Book(u), task'[u] = task[u], runs'[u] = runs[u],
           log'[u] = log[u], edges'[u] = edges[u]
    PROVE  Book(u)'
<1>1. (Uncapped(u)' <=> Uncapped(u)) /\ EdgeSet' = EdgeSet
  BY DEF Uncapped, EdgeSet
<1>2. Ordered(u)'
  BY DEF Book, Ordered, Earlier
<1>3. Over(u)' = Over(u) /\ DecisionsFor(u)' = DecisionsFor(u)
  BY DEF Over, Exceeds, DecisionsFor
<1>4. Spent(u)'
  BY <1>1, <1>3 DEF Book, Spent
<1>5. CapRows(u)'
  BY <1>1 DEF Book, CapRows
<1>6. \A e : Crossings(u, e)' = Crossings(u, e) /\ Charged(u, e)' = Charged(u, e)
  BY DEF Crossings, Charged, ResumeReasons
<1>7. Counted(u)'
  BY <1>1, <1>6 DEF Book, Counted, Exists
<1> QED BY <1>2, <1>4, <1>5, <1>7 DEF Book

LEMMA NextBooks == IInv /\ Told /\ Books /\ [Next]_vars => Books'
<1> SUFFICES ASSUME IInv, Told, Books, [Next]_vars PROVE Books'
  OBVIOUS
<1>1. InsertFresh'
  BY InsertStep DEF Books
<1>2. CASE RowsKept
  <2>1. OpsOnce'
    BY <1>2 DEF RowsKept, Books, OpsOnce
  <2>2. \A u \in Task : Book(u)'
    BY <1>2, BookSame DEF RowsKept, Books
  <2> QED BY <1>1, <2>1, <2>2 DEF Books
<1>3. ASSUME NEW t \in Task, Moves(t) PROVE Books'
  <2>1. OpsOnce'
    BY <1>3, MovesOps DEF Books
  <2>2. Book(t) /\ Tale(t)
    BY DEF Books, Told
  <2>3. Book(t)'
    BY <1>3, <2>2, NextOrdered, MovesSpent, MovesCapRows, MovesLedger DEF Book
  <2>4. \A u \in Task \ {t} : Book(u)'
    BY <1>3, OthersKept, BookSame DEF Books
  <2> QED BY <1>1, <2>1, <2>3, <2>4 DEF Books
<1> QED BY <1>2, <1>3, StepKinds

LEMMA InitBooks == Init => Books
<1> SUFFICES ASSUME Init PROVE Books
  OBVIOUS
<1>1. OpsOnce
  BY DEF Init, OpsOnce
<1>2. InsertFresh
  BY DEF Init, InsertFresh, Idle
<1>3. ASSUME NEW t \in Task PROVE Book(t)
  <2>1. /\ task[t].status = "absent" /\ task[t].allowance = 0 /\ task[t].transitions = 0
        /\ runs[t] = <<>> /\ log[t] = <<>>
    BY DEF Init, NoRow
  <2>2. Over(t) = {} /\ DecisionsFor(t) = {}
    BY <2>1 DEF Over, DecisionsFor
  <2>3. Cardinality(Over(t)) = 0 /\ Cardinality(DecisionsFor(t)) = 0
    <3>1. \A S : S = {} => Cardinality(S) = 0
      BY FS_EmptySet
    <3> QED BY <2>2, <3>1
  <2>4. Profile.max_transitions \in Nat
    BY ProfileAssumption DEF ValidProfile
  <2>5. Spent(t)
    BY <2>1, <2>3, <2>4 DEF Spent
  <2>6. Ordered(t) /\ CapRows(t) /\ Counted(t)
    BY <2>1 DEF Ordered, CapRows, Counted, Exists
  <2> QED BY <2>5, <2>6 DEF Book
<1> QED BY <1>1, <1>2, <1>3 DEF Books

LEMMA BooksBalance == IInv /\ Books => RunsAccounted
<1> SUFFICES ASSUME IInv, Books PROVE RunsAccounted
  OBVIOUS
<1>1. KeysUnique
  <2>1. ASSUME NEW t \in Task, NEW j \in DOMAIN runs[t], NEW k \in DOMAIN runs[t],
               runs[t][j].stage = runs[t][k].stage, runs[t][j].cycle = runs[t][k].cycle,
               runs[t][j].attempt = runs[t][k].attempt
        PROVE  j = k
    <3>1. /\ j \in Nat /\ k \in Nat
          /\ runs[t][k].cycle \in Nat /\ runs[t][k].attempt \in Nat
      <4>1. runs[t][k] \in RunRow /\ j \in Nat /\ k \in Nat
        BY Lengths DEF IInv
      <4> QED BY <4>1 DEF RunRow
    <3>2. ~Earlier(runs[t][j], runs[t][k]) /\ ~Earlier(runs[t][k], runs[t][j])
      BY <2>1, <3>1 DEF Earlier
    <3>3. ~(j < k) /\ ~(k < j)
      BY <2>1, <3>2 DEF Books, Book, Ordered
    <3> QED BY <3>1, <3>3
  <2>2. OpsOnce
    BY DEF Books
  <2> QED BY <2>1, <2>2 DEF KeysUnique, OpsOnce
<1>2. TransitionBudget
  <2> SUFFICES ASSUME NEW t \in Task, ~Uncapped(t)
               PROVE  task[t].transitions <= Profile.max_transitions + Cardinality(DecisionsFor(t))
    BY DEF TransitionBudget
  <2> QED BY CountsTyped DEF Books, Book, Spent
<1>3. AttemptBudget
  <2> SUFFICES ASSUME NEW t \in Task
               PROVE  Cardinality(Over(t)) <= Cardinality(DecisionsFor(t))
    BY DEF AttemptBudget, Over, Exceeds
  <2> QED BY CountsTyped DEF Books, Book, Spent
<1>4. EdgeLedger
  BY DEF Books, Book, Counted, EdgeLedger, Crossings, Charged
<1> QED BY <1>1, <1>2, <1>3, <1>4 DEF RunsAccounted

\* No key is reused, no budget is passed without a decision that paid for it
\* and no crossing is lost, over every interleaving of stops, resumes,
\* replays and crashes.
THEOREM AccountsBalance == Spec => []RunsAccounted
<1> QED
  BY InitIInv, NextIInv, InitTold, NextTold, InitBooks, NextBooks, BooksBalance, PTL DEF Spec

-----------------------------------------------------------------------------
\* A review is a person's decision.

\* The reviewer's word ready ends the task: the shape of a single-review
\* profile (its audit stage leads to done when it is ready).
ReviewEnds ==
    \A s \in Reviewers :
        "ready" \in OutcomesOf(Profile, s) => IsTerminal(Profile, Target(Profile, s, "ready"))

\* The row that ended a reviewer's run did not queue the next one.
ReviewTold ==
    \A t \in Task : \A i \in DOMAIN log[t], k \in DOMAIN runs[t] :
        log[t][i].run = k /\ runs[t][k].stage \in Reviewers => log[t][i].to # "queued"

LEMMA RunStagesKept ==
    ASSUME IInv, NEW t \in Task, Moves(t), NEW u \in Task, NEW k \in DOMAIN runs[u]
    PROVE  runs'[u][k].stage = runs[u][k].stage
<1>1. CASE \E run : Opens(t, run)
  BY <1>1, RunKept DEF IInv
<1>2. CASE runs' = runs
  BY <1>2
<1>3. CASE Closes(t)
  BY <1>3 DEF Closes
<1> QED BY <1>1, <1>2, <1>3 DEF Moves, Submits, Caps, Resumes, Preflights, Claims

LEMMA NextReviewTold ==
    ReviewEnds /\ IInv /\ Told /\ ReviewTold /\ [Next]_vars => ReviewTold'
<1> SUFFICES ASSUME ReviewEnds, IInv, Told, ReviewTold, [Next]_vars PROVE ReviewTold'
  OBVIOUS
<1>1. CASE RowsKept
  BY <1>1 DEF RowsKept, ReviewTold
<1>2. ASSUME NEW t \in Task, Moves(t) PROVE ReviewTold'
  <2>1. IInv'
    BY NextIInv
  <2> SUFFICES ASSUME NEW u \in Task, NEW i \in DOMAIN log'[u], NEW k \in DOMAIN runs'[u],
                      log'[u][i].run = k, runs'[u][k].stage \in Reviewers
               PROVE  log'[u][i].to # "queued"
    BY DEF ReviewTold
  <2>2. CASE i \in DOMAIN log[u]
    <3>1. log'[u][i] = log[u][i]
      BY <1>2, <2>2, MovesFreeze DEF Frozen
    <3>2. k \in DOMAIN runs[u]
      <4>1. log[u][i] \in LogRow /\ log[u][i].run <= Len(runs[u]) /\ Len(runs[u]) \in Nat
            /\ DOMAIN runs[u] = 1..Len(runs[u])
        BY <2>2, Lengths DEF Told, Tale, IInv
      <4>2. k \in Nat /\ 1 <= k
        <5>1. DOMAIN runs'[u] = 1..Len(runs'[u]) /\ Len(runs'[u]) \in Nat
          BY <2>1 DEF IInv, TypeOK
        <5> QED BY <5>1
      <4> QED BY <3>1, <4>1, <4>2
    <3>3. runs[u][k].stage \in Reviewers
      BY <1>2, <3>2, RunStagesKept
    <3> QED BY <2>2, <3>1, <3>2, <3>3 DEF ReviewTold
  <2>3. CASE i \notin DOMAIN log[u]
    <3>1. u = t
      BY <1>2, <2>3, OthersKept
    <3>2. \A row : Logs(t, row) => log'[t][i] = row
      <4>1. DOMAIN log[t] = 1..Len(log[t]) /\ Len(log[t]) \in Nat
        BY Lengths DEF IInv
      <4> QED BY <2>3, <3>1, <4>1 DEF Logs
    <3>3. k # 0
      <4>1. DOMAIN runs'[u] = 1..Len(runs'[u]) /\ Len(runs'[u]) \in Nat
        BY <2>1 DEF IInv, TypeOK
      <4> QED BY <4>1
    <3>4. CASE Submits(t) \/ Caps(t) \/ \E op \in Op : Resumes(t, op)
      <4>1. \E row : Logs(t, row) /\ row.run = 0
        <5>1. CASE Submits(t) \/ Caps(t)
          BY <5>1 DEF Submits, Caps, Entry
        <5>2. CASE \E op \in Op : Resumes(t, op)
          BY <5>2 DEF Resumes, Entry
        <5> QED BY <3>4, <5>1, <5>2
      <4> QED BY <3>1, <3>2, <3>3, <4>1
    <3>5. CASE Preflights(t)
      <4>1. \E row : Logs(t, row) /\ row.to # "queued"
        BY <3>5 DEF Preflights, Entry
      <4> QED BY <3>1, <3>2, <4>1
    <3>6. CASE Claims(t)
      BY <2>3, <3>1, <3>6 DEF Claims
    <3>7. CASE Closes(t)
      <4>1. PICK row, new : Logs(t, row) /\ row.run = task[t].lease /\ Crosses(t, row, new)
        BY <3>7 DEF Closes
      <4>2. k = task[t].lease /\ k \in DOMAIN runs[t] /\ runs[t][k].stage = task[t].stage
        BY <3>1, <3>2, <3>7, <4>1 DEF Closes, IInv, OneLeasedRun
      <4>3. task[t].stage \in Reviewers
        BY <1>2, <3>1, <4>2, RunStagesKept
      <4>4. \A o \in OutcomesOf(Profile, task[t].stage) :
              Takes(t, row, new, o) => row.to # "queued"
        BY <4>3 DEF Takes, ReviewEnds
      <4> QED BY <3>1, <3>2, <4>1, <4>4 DEF Crosses
    <3> QED BY <1>2, <3>4, <3>5, <3>6, <3>7 DEF Moves
  <2> QED BY <2>2, <2>3
<1> QED BY <1>1, <1>2, StepKinds

\* Where the reviewer's ready ends the task, whatever else it said leaves the
\* next stage run to a person.
THEOREM ReviewsDecided == ReviewEnds => (Spec => []ReviewGoesToPerson)
<1> SUFFICES ASSUME ReviewEnds PROVE Spec => []ReviewGoesToPerson
  OBVIOUS
<1>1. Init => ReviewTold
  BY DEF Init, ReviewTold
<1>2. ReviewTold /\ IInv /\ Told /\ [Next]_vars => ReviewTold'
  BY NextReviewTold
<1>3. IInv /\ Told /\ ReviewTold => ReviewGoesToPerson
  <2> SUFFICES ASSUME IInv, Told, ReviewTold, NEW t \in Task, NEW k \in DOMAIN runs[t] \ {1},
                      runs[t][k - 1].stage \in Reviewers
               PROVE  \E i \in Ended(t, k - 1), j \in DOMAIN log[t] :
                          /\ j > i /\ log[t][j].reason \in ResumeReasons
                          /\ \A m \in Ended(t, k) : j < m
    BY DEF ReviewGoesToPerson
  <2>1. k \in 2..Len(runs[t]) /\ k - 1 \in DOMAIN runs[t]
    BY Lengths DEF IInv
  <2>2. Follows(t, k)
    BY <2>1 DEF Told, Tale
  <2>3. \A i \in Ended(t, k - 1) : log[t][i].to # "queued"
    BY <2>1 DEF ReviewTold, Ended
  <2> QED BY <2>2, <2>3 DEF Follows
<1> QED BY <1>1, <1>2, <1>3, InitIInv, NextIInv, InitTold, NextTold, PTL DEF Spec

-----------------------------------------------------------------------------
\* A task that is not finished stands at a working stage.

\* An outcome that asks for the user leads to a working stage, as in every
\* profile that ships: claim_stage can then never meet a terminal one.
HoldsInside ==
    \A s \in StageNames(Profile) :
        HOLD_OUTCOME \in OutcomesOf(Profile, s) =>
            ~IsTerminal(Profile, Target(Profile, s, HOLD_OUTCOME))

\* The edge leads to a terminal stage.
Final(e) == IsTerminal(Profile, Target(Profile, e[1], e[2]))

\* No final edge was counted yet, so none was at its cap.
AtWork(t) ==
    /\ task[t].status \notin TERMINAL_STATUSES =>
          /\ ~IsTerminal(Profile, task[t].stage)
          /\ \A e \in EdgeSet : edges[t][e] # 0 => ~Final(e)
    /\ \A i \in DOMAIN log[t] : log[t][i].reason = "edge_cap" => ~Final(log[t][i].edge)

LEMMA AtWorkStep ==
    ASSUME IInv, NEW t \in Task, AtWork(t),
           \/ log' = log
           \/ \E row : Logs(t, row) /\ (row.reason = "edge_cap" => ~Final(row.edge)),
           task'[t].status \notin TERMINAL_STATUSES =>
              /\ ~IsTerminal(Profile, task'[t].stage)
              /\ \A e \in EdgeSet : edges'[t][e] # 0 => ~Final(e)
    PROVE  AtWork(t)'
<1>1. /\ DOMAIN log[t] = 1..Len(log[t]) /\ Len(log[t]) \in Nat
      /\ EdgeSet' = EdgeSet
  BY Lengths DEF IInv, EdgeSet
<1>2. \A i \in DOMAIN log'[t] : log'[t][i].reason = "edge_cap" => ~Final(log'[t][i].edge)
  <2>1. CASE log' = log
    BY <2>1 DEF AtWork
  <2>2. CASE \E row : Logs(t, row) /\ (row.reason = "edge_cap" => ~Final(row.edge))
    <3>1. PICK row : Logs(t, row) /\ (row.reason = "edge_cap" => ~Final(row.edge))
      BY <2>2
    <3>2. /\ \A i \in DOMAIN log'[t] : i \in DOMAIN log[t] \/ i = Len(log[t]) + 1
          /\ \A i \in DOMAIN log[t] : log'[t][i] = log[t][i]
          /\ log'[t][Len(log[t]) + 1] = row
      BY <1>1, <3>1 DEF Logs
    <3> QED BY <3>1, <3>2 DEF AtWork
  <2> QED BY <2>1, <2>2
<1> QED BY <1>1, <1>2 DEF AtWork, Final

LEMMA MovesAtWork ==
    ASSUME IInv, HoldsInside, NEW t \in Task, CapRows(t), AtWork(t), Moves(t) PROVE AtWork(t)'
<1>1. /\ RESUMABLE_STATUSES \cap TERMINAL_STATUSES = {} /\ "queued" \notin TERMINAL_STATUSES
      /\ "running" \notin TERMINAL_STATUSES /\ "absent" \notin TERMINAL_STATUSES
  BY DEF RESUMABLE_STATUSES, TERMINAL_STATUSES
<1>2. /\ ~IsTerminal(Profile, task[t].stage)
      /\ \A e \in EdgeSet : edges[t][e] # 0 => ~Final(e)
  BY <1>1 DEF AtWork, Moves, Submits, Caps, Resumes, Preflights, Claims, Closes
<1>3. CASE Submits(t)
  <2>1. \E row : Logs(t, row) /\ row.reason # "edge_cap"
    BY <1>3 DEF Submits, Entry
  <2>2. task'[t].stage = Profile.initial /\ edges'[t] = [e \in EdgeSet |-> 0]
    BY <1>3 DEF Submits, Becomes
  <2>3. ~IsTerminal(Profile, Profile.initial)
    BY ProfileAssumption DEF ValidProfile
  <2> QED BY <2>1, <2>2, <2>3, AtWorkStep
<1>4. CASE Caps(t) \/ Preflights(t) \/ Claims(t)
  <2>1. log' = log \/ \E row : Logs(t, row) /\ row.reason # "edge_cap"
    BY <1>4 DEF Caps, Preflights, Claims, Entry
  <2>2. task'[t].stage = task[t].stage /\ edges' = edges
    BY <1>4 DEF Caps, Preflights, Claims, Becomes
  <2> QED BY <1>2, <2>1, <2>2, AtWorkStep
<1>5. ASSUME NEW op \in Op, Resumes(t, op) PROVE AtWork(t)'
  <2> DEFINE atEdgeCap == task[t].status = "waiting_user" /\ task[t].stop = "edge_cap"
  <2>1. \E row : Logs(t, row) /\ row.reason # "edge_cap"
    BY <1>5 DEF Resumes, Entry, ResumeReasons
  <2>2. task'[t].stage = task[t].stage
    BY <1>5 DEF Resumes, Becomes
  <2>3. \A e \in EdgeSet : edges'[t][e] # 0 => ~Final(e)
    <3>1. CASE ~atEdgeCap
      <4>1. edges' = edges
        BY <1>5, <3>1 DEF Resumes
      <4> QED BY <1>2, <4>1
    <3>2. CASE atEdgeCap
      <4>1. PICK i \in DOMAIN log[t] :
                log[t][i].reason = "edge_cap" /\ CappedEdge(t) = log[t][i].edge
        BY <3>2, CappedEdgeLogged
      <4>2. ~Final(CappedEdge(t))
        BY <4>1 DEF AtWork
      <4>3. edges' = [edges EXCEPT ![t][CappedEdge(t)] = @ + 1]
        BY <1>5, <3>2 DEF Resumes
      <4>4. \A e \in EdgeSet : e # CappedEdge(t) => edges'[t][e] = edges[t][e]
        BY <4>3 DEF IInv, TypeOK
      <4> QED BY <1>2, <4>2, <4>4
    <3> QED BY <3>1, <3>2
  <2> QED BY <1>2, <2>1, <2>2, <2>3, AtWorkStep
<1>6. CASE Closes(t)
  <2>1. PICK row, new : Logs(t, row) /\ Becomes(t, new) /\ Crosses(t, row, new)
    BY <1>6 DEF Closes
  <2>2. task'[t] = new
    BY <2>1 DEF Becomes
  <2>3. CASE row.edge = NoEdge /\ edges' = edges /\ new.stage = task[t].stage
             /\ row.reason # "edge_cap"
    BY <1>2, <2>1, <2>2, <2>3, AtWorkStep
  <2>4. CASE row.edge \in EdgeSet
             /\ \E o \in OutcomesOf(Profile, task[t].stage) : Takes(t, row, new, o)
    <3>1. PICK o \in OutcomesOf(Profile, task[t].stage) : Takes(t, row, new, o)
      BY <2>4
    <3> DEFINE s == task[t].stage
               e == row.edge
    <3>2. s \in StageNames(Profile) /\ e = <<s, o>> /\ new.stage = Target(Profile, s, o)
      BY <3>1, DriverTask DEF Takes, TaskRow
    <3>3. Final(e) <=> IsTerminal(Profile, new.stage)
      BY <3>2 DEF Final
    <3>4. Final(e) => ~EdgeCapHit(t, e)
      <4>1. e \in EdgeSet /\ Profile.edge_caps \in [EdgeSet -> Nat \ {0}]
        BY <2>4, ProfileAssumption DEF ValidProfile, EdgeSet
      <4>2. Profile.edge_caps[e] \in Nat \ {0} /\ edges[t][e] \in Nat
        BY <4>1 DEF IInv, TypeOK
      <4>3. EdgeCapHit(t, e) => edges[t][e] # 0
        BY <4>2 DEF EdgeCapHit
      <4> QED BY <1>2, <4>1, <4>3
    <3>5. Final(e) => o # HOLD_OUTCOME
      BY <3>2, <3>3 DEF HoldsInside
    <3>6. Final(e) => new.status \in TERMINAL_STATUSES
      BY <3>1, <3>2, <3>3, <3>4, <3>5 DEF Takes
    <3>7. row.reason = "edge_cap" => ~Final(e)
      BY <2>1, <2>4, <3>4, NoEdgeAssumption DEF Crosses
    <3>8. \A f \in EdgeSet : f # e => edges'[t][f] = edges[t][f]
      <4>1. edges' = edges \/ edges' = [edges EXCEPT ![t][e] = @ + 1]
        BY <2>1, <2>4, NoEdgeAssumption DEF Crosses
      <4> HIDE DEF e
      <4> QED BY <4>1 DEF IInv, TypeOK
    <3> HIDE DEF e
    <3>9. new.status \notin TERMINAL_STATUSES =>
              ~IsTerminal(Profile, new.stage) /\ \A f \in EdgeSet : edges'[t][f] # 0 => ~Final(f)
      BY <1>2, <3>3, <3>6, <3>8
    <3> QED BY <2>1, <2>2, <3>7, <3>9, AtWorkStep DEF e
  <2> QED BY <2>1, <2>3, <2>4 DEF Crosses
<1> QED BY <1>3, <1>4, <1>5, <1>6 DEF Moves

LEMMA NextAtWork ==
    ASSUME IInv, HoldsInside, Books, \A t \in Task : AtWork(t), [Next]_vars
    PROVE  \A t \in Task : AtWork(t)'
<1>1. ASSUME NEW u \in Task, task'[u] = task[u], log'[u] = log[u], edges'[u] = edges[u]
      PROVE  AtWork(u)'
  <2>1. EdgeSet' = EdgeSet
    BY DEF EdgeSet
  <2> QED BY <1>1, <2>1 DEF AtWork, Final
<1>2. CASE RowsKept
  BY <1>1, <1>2 DEF RowsKept
<1>3. ASSUME NEW t \in Task, Moves(t) PROVE \A u \in Task : AtWork(u)'
  <2>1. AtWork(t)'
    BY <1>3, MovesAtWork DEF Books, Book
  <2>2. \A u \in Task \ {t} : AtWork(u)'
    BY <1>1, <1>3, OthersKept
  <2> QED BY <2>1, <2>2
<1> QED BY <1>2, <1>3, StepKinds

LEMMA InitAtWork == Init => \A t \in Task : AtWork(t)
<1>1. ~IsTerminal(Profile, Profile.initial)
  BY ProfileAssumption DEF ValidProfile
<1> QED BY <1>1 DEF Init, AtWork, NoRow

-----------------------------------------------------------------------------
\* The daemon drives the controller.

LEMMA AskTypes ==
    ASSUME NEW op \in Op
    PROVE  Asks[op].task \in Task /\ Asks[op].action \in Actions /\ Asks[op].rerun \in BOOLEAN
BY AsksAssumption

\* A dispatched request is a call of the controller.
LEMMA DispatchCalls ==
    ASSUME NEW op \in Op, Dispatch(op)
    PROVE  LET t == Asks[op].task IN
           \/ Asks[op].action = "run" /\ (SubmitPrepare(t, op) \/ SubmitAgain(t))
           \/ Asks[op].action = "resume" /\ Known(op, t) /\ ResumeAgain(t, op)
           \/ Asks[op].action = "resume" /\ ~Known(op, t) /\ Resume(t, op, Asks[op].rerun)
BY AskTypes DEF Dispatch, Run, ResumeTask, Actions

LEMMA IntakeStep ==
    ASSUME [IntakeNext]_allvars PROVE [Next]_vars
<1>1. CASE UNCHANGED allvars
  BY <1>1 DEF allvars
<1>2. ASSUME NEW op \in Op,
             \/ Enqueue(op) \/ PickUp(op) \/ Refuse(op) \/ CallReturned(op) \/ MoveRequest(op)
             \/ AlreadyProcessed(op)
      PROVE  UNCHANGED vars
  BY <1>2 DEF Enqueue, PickUp, Refuse, CallReturned, Publish, MoveRequest, AlreadyProcessed
<1>3. ASSUME NEW op \in Op, Dispatch(op) PROVE Next
  <2>1. Asks[op].task \in Task /\ Asks[op].rerun \in BOOLEAN
    BY AskTypes
  <2>2. Call
    BY <1>3, <2>1, DispatchCalls DEF Call
  <2> QED BY <2>2 DEF Next
<1>4. CASE Work \/ Fail \/ Die \/ Restart
  BY <1>4 DEF Work, Fail, Die, Restart, Next
<1>5. CASE Ready
  BY <1>5 DEF Ready
<1> QED BY <1>1, <1>2, <1>3, <1>4, <1>5 DEF IntakeNext, DaemonStep

\* Whatever the queue does, the controller's part of it is a behaviour of
\* TaskLifecycle: every invariant proved there holds behind the daemon too.
THEOREM IntakeDrivesController == IntakeSpec => Spec
<1>1. IntakeInit => Init
  BY DEF IntakeInit
<1>2. [IntakeNext]_allvars => [Next]_vars
  BY IntakeStep
<1> QED BY <1>1, <1>2, PTL DEF IntakeSpec, Spec

-----------------------------------------------------------------------------
\* What a controller step does to the call in progress.

LEMMA CommitThenGoes ==
    ASSUME NEW next, CommitThen(next), next.task = driver.task
    PROVE  /\ driver'.task = driver.task
           /\ \/ driver' = next /\ faults' = faults
              \/ driver'.pc = "idle" /\ faults' = faults + 1
BY DEF CommitThen, Raised

\* A call that ends, without a failed transaction, leaves its task stopped
\* or finished, unless claim_stage raised.
LEMMA ControllerDriver ==
    ASSUME IInv, ControllerStep
    PROVE  /\ driver.task \in Task
           /\ driver.pc \in {"insert", "loop", "provider"}
           /\ driver.pc = "insert" => SubmitInsert
           /\ driver'.task = driver.task
           /\ driver'.pc \in {"idle", "loop", "provider"}
           /\ faults' = faults \/ faults' = faults + 1
           /\ driver'.pc = "idle" /\ faults' = faults =>
                 ClaimRaises \/ task'[driver.task].status \notin ACTIVE_STATUSES
<1> DEFINE t == driver.task
<1>1. /\ \A pc : At(pc, t).task = t /\ At(pc, t).pc = pc
      /\ Returned(t).task = t /\ Returned(t).pc = "idle"
      /\ Raised(t).task = t /\ Raised(t).pc = "idle"
  BY DEF At, Returned, Raised
<1>2. t \in Task /\ driver.pc \in {"insert", "loop", "provider"}
  <2>1. driver.pc \in {"insert", "loop", "provider"}
    BY DEF ControllerStep, SubmitInsert, RunReturns, LoopOrphan, PreflightStop, ClaimRaises,
           StopForCap, ClaimStage, ClaimReady, Claimable
  <2> QED BY <2>1, DriverTask
<1>3. driver.pc = "insert" => SubmitInsert
  BY DEF ControllerStep, RunReturns, LoopOrphan, PreflightStop, ClaimRaises, StopForCap,
         ClaimStage, ClaimReady, Claimable
<1>4. task \in [Task -> TaskRow] /\ "blocked" \notin ACTIVE_STATUSES
      /\ "paused" \notin ACTIVE_STATUSES /\ "waiting_user" \notin ACTIVE_STATUSES
  BY DEF IInv, TypeOK, ACTIVE_STATUSES
<1>5. CASE SubmitInsert \/ CommitRun
  <2>1. CommitThen(At("loop", t))
    BY <1>5 DEF SubmitInsert, CommitRun, CommitFailure, CommitHold, CommitEdge
  <2>2. /\ driver'.task = t /\ driver'.pc \in {"idle", "loop"}
        /\ faults' = faults \/ faults' = faults + 1
        /\ driver'.pc = "idle" => faults' = faults + 1
    BY <1>1, <2>1, CommitThenGoes
  <2>3. faults + 1 # faults
    BY DriverTask
  <2> QED BY <1>2, <1>3, <2>2, <2>3
<1>6. CASE ClaimStage
  <2>1. CommitThen(At("provider", t))
    BY <1>6 DEF ClaimStage
  <2>2. /\ driver'.task = t /\ driver'.pc \in {"idle", "provider"}
        /\ faults' = faults \/ faults' = faults + 1
        /\ driver'.pc = "idle" => faults' = faults + 1
    BY <1>1, <2>1, CommitThenGoes
  <2>3. faults + 1 # faults
    BY DriverTask
  <2> QED BY <1>2, <1>3, <2>2, <2>3
<1>7. CASE LoopOrphan \/ StopForCap \/ \E status \in {"paused", "blocked"} : PreflightStop(status)
  <2>1. CommitThen(Returned(t))
    BY <1>7 DEF LoopOrphan, StopForCap, PreflightStop
  <2>2. /\ driver'.task = t /\ driver'.pc = "idle"
        /\ faults' = faults \/ faults' = faults + 1
    BY <1>1, <2>1, CommitThenGoes
  <2>3. task'[t].status \notin ACTIVE_STATUSES
    <3>1. CASE LoopOrphan
      BY <1>2, <1>4, <3>1 DEF LoopOrphan, BlockOrphanedRunning, Stopped, TaskRow
    <3>2. CASE StopForCap
      <4>1. Caps(t)
        BY <3>2, KindCap
      <4> QED BY <1>4, <4>1 DEF Caps, Becomes
    <3>3. CASE \E status \in {"paused", "blocked"} : PreflightStop(status)
      <4>1. Preflights(t)
        BY <3>3, KindPreflight
      <4> QED BY <1>4, <4>1 DEF Preflights, Becomes
    <3> QED BY <1>7, <3>1, <3>2, <3>3
  <2> QED BY <1>2, <1>3, <2>2, <2>3
<1>8. CASE RunReturns
  BY <1>1, <1>2, <1>3, <1>8 DEF RunReturns
<1>9. CASE ClaimRaises
  BY <1>1, <1>2, <1>3, <1>9 DEF ClaimRaises
<1> QED BY <1>5, <1>6, <1>7, <1>8, <1>9 DEF ControllerStep

-----------------------------------------------------------------------------
\* The inductive invariant of the queue.

Directory == {"client", "inbox", "processing", "processed"}
Answer == Status \cup {"absent", "error"}
HandlerPc == {"dispatch", "call", "move"}

QueueTypes ==
    /\ place \in [Op -> Directory]
    /\ answers \in [Op -> Seq(Answer)]
    /\ \/ handler \in {Scanning, Starting}
       \/ \E pc \in HandlerPc, op \in Op : handler = Handling(pc, op)

\* A request in hand is in processing; it has its answer exactly when it is
\* about to be moved.  No other request of the queue has one, but for what a
\* crash left, which the startup looks through.
Unanswered ==
    /\ \A op \in Op : Answered(op) => place[op] # "client"
    /\ \A op \in Op : place[op] \in {"inbox", "processing"} /\ Answered(op) =>
          handler = Starting \/ handler = Handling("move", op)
    /\ \A op \in Op, pc \in HandlerPc : handler = Handling(pc, op) =>
          place[op] = "processing" /\ (pc = "move" => Answered(op))

\* The controller is inside the call of the request in hand, or is dead or
\* starting while the daemon starts.
CallFits ==
    /\ driver.pc \in {"insert", "loop", "provider"} =>
          \E op \in Op :
             /\ handler = Handling("call", op)
             /\ driver.task = Asks[op].task
             /\ IF driver.pc = "insert"
                THEN driver.op = op /\ Asks[op].action = "run"
                ELSE Asks[op].action = "run" \/ Known(op, Asks[op].task)
    /\ driver.pc \in {"down", "reconcile"} => handler = Starting

QInv == QueueTypes /\ Unanswered /\ CallFits

LEMMA HandlingPc ==
    /\ Scanning.pc = "scan" /\ Starting.pc = "startup"
    /\ \A pc, op : Handling(pc, op).pc = pc /\ Handling(pc, op).op = op
BY DEF Scanning, Starting, Handling

LEMMA HandlingOne ==
    /\ \A pc, op, qc, oq : Handling(pc, op) = Handling(qc, oq) => pc = qc /\ op = oq
    /\ \A op : \A pc \in HandlerPc : Handling(pc, op) # Scanning /\ Handling(pc, op) # Starting
    /\ Scanning # Starting
BY HandlingPc DEF HandlerPc

\* Publishing answers the request and no other.
LEMMA Published ==
    ASSUME QueueTypes, NEW op \in Op, NEW answer \in Answer,
           answers' = [answers EXCEPT ![op] = Append(@, answer)]
    PROVE  /\ answers' \in [Op -> Seq(Answer)]
           /\ Answered(op)'
           /\ \A other \in Op \ {op} : answers'[other] = answers[other]
<1>1. answers \in [Op -> Seq(Answer)] /\ answers[op] \in Seq(Answer)
  BY DEF QueueTypes
<1>2. answers'[op] = Append(answers[op], answer)
  BY <1>1
<1>3. answers'[op] \in Seq(Answer) /\ Len(answers'[op]) = Len(answers[op]) + 1
      /\ Len(answers[op]) \in Nat
  BY <1>1, <1>2, AppendProperties
<1>4. answers'[op] # <<>>
  BY <1>3
<1>5. \A other \in Op \ {op} : answers'[other] = answers[other]
  BY <1>1
<1>6. answers' \in [Op -> Seq(Answer)]
  BY <1>1, <1>3
<1> QED BY <1>4, <1>5, <1>6 DEF Answered

\* A transition on record stays on record.
LEMMA KnownKept ==
    ASSUME IInv, [Next]_vars, NEW op, NEW t \in Task, Known(op, t) PROVE Known(op, t)'
<1>1. Frozen(t)
  BY StepFreezes
<1> QED BY <1>1 DEF Frozen, Known

\* The queue's own steps leave the controller alone.
LEMMA CallFitsKept ==
    ASSUME CallFits, UNCHANGED vars, handler' = handler \/ driver.pc = "idle"
    PROVE  CallFits'
BY DEF CallFits, Known, vars

LEMMA UnansweredMoves ==
    ASSUME QueueTypes, Unanswered, answers' = answers, NEW op \in Op, NEW dir2 \in Directory \ {"client"},
           place' = [place EXCEPT ![op] = dir2],
           dir2 \in {"inbox", "processing"} => ~Answered(op),
           \/ handler' = handler /\ (\A pc \in HandlerPc : handler # Handling(pc, op))
           \/ handler' = Scanning /\ handler = Handling("move", op)
           \/ handler' = Handling("dispatch", op) /\ handler = Scanning /\ dir2 = "processing"
    PROVE  Unanswered'
<1>1. /\ place'[op] = dir2 /\ \A other \in Op \ {op} : place'[other] = place[other]
      /\ \A other \in Op : Answered(other)' <=> Answered(other)
  BY DEF QueueTypes, Answered
<1>2. \A other \in Op : Answered(other)' => place'[other] # "client"
  BY <1>1 DEF Unanswered
<1>3. ASSUME NEW other \in Op, place'[other] \in {"inbox", "processing"}, Answered(other)'
      PROVE  handler' = Starting \/ handler' = Handling("move", other)
  <2>1. other # op
    BY <1>1, <1>3
  <2>2. handler = Starting \/ handler = Handling("move", other)
    BY <1>1, <1>3, <2>1 DEF Unanswered
  <2>3. handler = Handling("move", other) => handler # Handling("move", op) /\ handler # Scanning
    BY <2>1, HandlingOne DEF HandlerPc
  <2>4. handler = Starting => handler # Handling("move", op) /\ handler # Scanning
    BY HandlingOne DEF HandlerPc
  <2> QED BY <2>2, <2>3, <2>4
<1>4. ASSUME NEW other \in Op, NEW pc \in HandlerPc, handler' = Handling(pc, other)
      PROVE  place'[other] = "processing" /\ (pc = "move" => Answered(other)')
  <2>1. CASE handler' = handler /\ (\A qc \in HandlerPc : handler # Handling(qc, op))
    <3>1. other # op
      BY <1>4, <2>1
    <3> QED BY <1>1, <1>4, <2>1, <3>1 DEF Unanswered
  <2>2. CASE handler' = Scanning
    BY <1>4, <2>2, HandlingOne
  <2>3. CASE handler' = Handling("dispatch", op) /\ dir2 = "processing"
    <3>1. other = op /\ pc = "dispatch"
      <4>1. Handling(pc, other) = Handling("dispatch", op)
        BY <1>4, <2>3
      <4> QED BY <4>1, HandlingOne
    <3> QED BY <1>1, <2>3, <3>1
  <2> QED BY <2>1, <2>2, <2>3
<1> QED BY <1>2, <1>3, <1>4 DEF Unanswered

\* The steps that publish a result.
LEMMA PublishQ ==
    ASSUME IInv, QInv, NEW op \in Op, NEW pc \in {"dispatch", "call"}, handler = Handling(pc, op),
           driver.pc = "idle", NEW answer \in Answer, Publish(op, answer)
    PROVE  QInv'
<1>1. /\ answers' = [answers EXCEPT ![op] = Append(@, answer)]
      /\ handler' = Handling("move", op) /\ UNCHANGED vars /\ place' = place
  BY DEF Publish
<1>2. /\ answers' \in [Op -> Seq(Answer)] /\ Answered(op)'
      /\ \A other \in Op \ {op} : Answered(other)' <=> Answered(other)
  BY <1>1, Published DEF QInv, Answered
<1>3. place[op] = "processing" /\ handler # Starting
  <2>1. pc \in HandlerPc
    BY DEF HandlerPc
  <2> QED BY <2>1, HandlingOne DEF QInv, Unanswered
<1>4. QueueTypes'
  BY <1>1, <1>2 DEF QInv, QueueTypes, HandlerPc
<1>5. Unanswered'
  <2>1. \A other \in Op : Answered(other)' => place'[other] # "client"
    BY <1>1, <1>2, <1>3 DEF QInv, Unanswered
  <2>2. ASSUME NEW other \in Op, place'[other] \in {"inbox", "processing"}, Answered(other)'
        PROVE  handler' = Handling("move", other)
    <3>1. CASE other = op
      BY <1>1, <3>1
    <3>2. CASE other # op
      <4>1. handler = Handling("move", other)
        BY <1>1, <1>2, <1>3, <2>2, <3>2 DEF QInv, Unanswered
      <4>2. Handling("move", other) = Handling(pc, op)
        BY <4>1
      <4> QED BY <3>2, <4>2, HandlingOne
    <3> QED BY <3>1, <3>2
  <2>3. ASSUME NEW other \in Op, NEW qc \in HandlerPc, handler' = Handling(qc, other)
        PROVE  place'[other] = "processing" /\ (qc = "move" => Answered(other)')
    <3>1. Handling(qc, other) = Handling("move", op)
      BY <1>1, <2>3
    <3>2. other = op
      BY <3>1, HandlingOne
    <3> QED BY <1>1, <1>2, <1>3, <3>2
  <2> QED BY <2>1, <2>2, <2>3 DEF Unanswered
<1>6. CallFits'
  BY <1>1, CallFitsKept DEF QInv
<1> QED BY <1>4, <1>5, <1>6 DEF QInv

\* The steps that only move a request or the handler.
LEMMA MoveQ ==
    ASSUME IInv, QInv, NEW op \in Op,
           Enqueue(op) \/ PickUp(op) \/ MoveRequest(op) \/ AlreadyProcessed(op)
    PROVE  QInv'
<1> DEFINE Still == handler' = handler /\ (\A pc \in HandlerPc : handler # Handling(pc, op))
           Moved == handler' = Scanning /\ handler = Handling("move", op)
           Taken == handler' = Handling("dispatch", op) /\ handler = Scanning
<1>1. UNCHANGED vars /\ answers' = answers
  BY DEF Enqueue, PickUp, MoveRequest, AlreadyProcessed
<1>2. handler' = handler \/ driver.pc = "idle"
  BY DEF Enqueue, PickUp, MoveRequest, AlreadyProcessed
<1>3. CallFits'
  BY <1>1, <1>2, CallFitsKept DEF QInv
<1>4. ASSUME NEW dir2 \in Directory \ {"client"}, place' = [place EXCEPT ![op] = dir2],
             dir2 \in {"inbox", "processing"} => ~Answered(op),
             Still \/ Moved \/ (Taken /\ dir2 = "processing")
      PROVE  QInv'
  <2>1. Unanswered'
    <3>1. \/ handler' = handler /\ (\A pc \in HandlerPc : handler # Handling(pc, op))
          \/ handler' = Scanning /\ handler = Handling("move", op)
          \/ handler' = Handling("dispatch", op) /\ handler = Scanning /\ dir2 = "processing"
      BY <1>4
    <3> QED BY <1>1, <1>4, <3>1, UnansweredMoves DEF QInv
  <2>2. place' \in [Op -> Directory] /\ answers' \in [Op -> Seq(Answer)]
    BY <1>1, <1>4 DEF QInv, QueueTypes
  <2>3. \/ handler' \in {Scanning, Starting}
        \/ \E pc \in HandlerPc, o \in Op : handler' = Handling(pc, o)
    <3>1. "dispatch" \in HandlerPc
      BY DEF HandlerPc
    <3> QED BY <1>4, <3>1 DEF QInv, QueueTypes
  <2> QED BY <1>3, <2>1, <2>2, <2>3 DEF QInv, QueueTypes
<1>5. {"inbox", "processing", "processed"} \subseteq Directory \ {"client"}
  BY DEF Directory
<1>6. CASE Enqueue(op)
  <2>1. place' = [place EXCEPT ![op] = "inbox"] /\ handler' = handler /\ place[op] = "client"
    BY <1>6 DEF Enqueue
  <2>2. ~Answered(op) /\ (\A pc \in HandlerPc : handler # Handling(pc, op))
    BY <2>1 DEF QInv, Unanswered
  <2> HIDE DEF Moved, Taken
  <2> QED BY <1>4, <1>5, <2>1, <2>2
<1>7. CASE PickUp(op)
  <2>1. /\ place' = [place EXCEPT ![op] = "processing"] /\ handler = Scanning
        /\ handler' = Handling("dispatch", op) /\ place[op] \in {"inbox", "processing"}
    BY <1>7 DEF PickUp, In
  <2>2. ~Answered(op)
    <3>1. handler # Starting /\ handler # Handling("move", op)
      BY <2>1, HandlingOne DEF HandlerPc
    <3> QED BY <2>1, <3>1 DEF QInv, Unanswered
  <2>3. Taken
    BY <2>1
  <2> HIDE DEF Still, Moved, Taken
  <2> QED BY <1>4, <1>5, <2>1, <2>2, <2>3
<1>8. CASE MoveRequest(op)
  <2>1. place' = [place EXCEPT ![op] = "processed"] /\ Moved
    BY <1>8 DEF MoveRequest
  <2> HIDE DEF Still, Moved, Taken
  <2> QED BY <1>4, <1>5, <2>1
<1>9. CASE AlreadyProcessed(op)
  <2>1. /\ place' = [place EXCEPT ![op] = "processed"] /\ handler = Starting /\ handler' = handler
    BY <1>9 DEF AlreadyProcessed
  <2>2. Still
    BY <2>1, HandlingOne
  <2> HIDE DEF Still, Moved, Taken
  <2> QED BY <1>4, <1>5, <2>1, <2>2
<1> QED BY <1>6, <1>7, <1>8, <1>9

\* The steps that leave the requests where they are and answer none.
LEMMA StillQ ==
    ASSUME QInv, place' = place, answers' = answers,
           \/ handler' = handler
           \/ handler' = Starting
           \/ handler' = Scanning /\ handler = Starting
              /\ (\A op \in In("inbox") \cup In("processing") : ~Answered(op))
           \/ \E op \in Op : handler = Handling("dispatch", op) /\ handler' = Handling("call", op)
    PROVE  QueueTypes' /\ Unanswered'
<1>1. \A op \in Op : Answered(op)' <=> Answered(op)
  BY DEF Answered
<1>2. "call" \in HandlerPc /\ "dispatch" \in HandlerPc /\ "move" \in HandlerPc
  BY DEF HandlerPc
<1>3. QueueTypes'
  BY <1>2 DEF QInv, QueueTypes
<1>4. ASSUME NEW op \in Op, place'[op] \in {"inbox", "processing"}, Answered(op)'
      PROVE  handler' = Starting \/ handler' = Handling("move", op)
  <2>1. handler = Starting \/ handler = Handling("move", op)
    BY <1>1, <1>4 DEF QInv, Unanswered
  <2>2. CASE handler' = Scanning /\ handler = Starting
              /\ (\A o \in In("inbox") \cup In("processing") : ~Answered(o))
    BY <1>1, <1>4, <2>2 DEF In
  <2>3. ASSUME NEW o \in Op, handler = Handling("dispatch", o) PROVE FALSE
    <3>1. Handling("dispatch", o) # Starting
      BY <1>2, HandlingOne
    <3>2. Handling("dispatch", o) = Handling("move", op) => "dispatch" = "move"
      BY HandlingOne
    <3> QED BY <2>1, <2>3, <3>1, <3>2
  <2> QED BY <2>1, <2>2, <2>3
<1>5. ASSUME NEW op \in Op, NEW pc \in HandlerPc, handler' = Handling(pc, op)
      PROVE  place'[op] = "processing" /\ (pc = "move" => Answered(op)')
  <2>1. CASE handler' = handler
    BY <1>1, <1>5, <2>1 DEF QInv, Unanswered
  <2>2. CASE handler' \in {Starting, Scanning}
    BY <1>5, <2>2, HandlingOne
  <2>3. ASSUME NEW o \in Op, handler = Handling("dispatch", o), handler' = Handling("call", o)
        PROVE  place'[op] = "processing" /\ (pc = "move" => Answered(op)')
    <3>1. Handling("call", o) = Handling(pc, op)
      BY <1>5, <2>3
    <3>2. o = op /\ pc = "call"
      BY <3>1, HandlingOne
    <3> QED BY <1>2, <2>3, <3>2 DEF QInv, Unanswered
  <2> QED BY <2>1, <2>2, <2>3
<1>6. \A op \in Op : Answered(op)' => place'[op] # "client"
  BY <1>1 DEF QInv, Unanswered
<1> QED BY <1>3, <1>4, <1>5, <1>6 DEF Unanswered

\* The driver's values, field by field.
LEMMA DriverPcs ==
    /\ \A pc, t : At(pc, t).pc = pc /\ At(pc, t).task = t
    /\ \A t, op : Inserting(t, op).pc = "insert" /\ Inserting(t, op).task = t /\ Inserting(t, op).op = op
    /\ \A t : Raised(t).pc = "idle" /\ Returned(t).pc = "idle"
    /\ Idle.pc = "idle" /\ Down.pc = "down" /\ Booting.pc = "reconcile"
BY DEF At, Inserting, Raised, Returned, Idle, Down, Booting

\* A call that begins: the request in hand is its request.
LEMMA CallBegins ==
    ASSUME NEW op \in Op, handler' = Handling("call", op),
           \/ driver'.pc = "idle"
           \/ /\ driver'.pc = "insert" /\ driver'.task = Asks[op].task
              /\ driver'.op = op /\ Asks[op].action = "run"
           \/ /\ driver'.pc \in {"loop", "provider"} /\ driver'.task = Asks[op].task
              /\ Asks[op].action = "run" \/ Known(op, Asks[op].task)'
    PROVE  CallFits'
BY DEF CallFits

\* A resume is on record.
LEMMA ResumeKnown ==
    ASSUME IInv, NEW t \in Task, NEW op \in Op, NEW rerun \in BOOLEAN, Resume(t, op, rerun)
    PROVE  Known(op, t)'
<1>1. Resumes(t, op)
  BY KindResume
<1>2. PICK row : Logs(t, row) /\ row.op = op
  BY <1>1 DEF Resumes, Entry
<1> QED BY <1>2, NewRow DEF Known

LEMMA DispatchQ ==
    ASSUME IInv, QInv, NEW op \in Op, Dispatch(op) PROVE QInv'
<1> DEFINE t == Asks[op].task
<1>1. /\ handler = Handling("dispatch", op) /\ handler' = Handling("call", op)
      /\ place' = place /\ answers' = answers
  BY DEF Dispatch
<1>2. QueueTypes' /\ Unanswered'
  BY <1>1, StillQ
<1>3. t \in Task /\ Asks[op].rerun \in BOOLEAN
  BY AskTypes
<1>4. CASE Asks[op].action = "run" /\ SubmitPrepare(t, op)
  <2>1. driver' = Inserting(t, op)
    BY <1>4 DEF SubmitPrepare
  <2> QED BY <1>1, <1>2, <1>4, <2>1, DriverPcs, CallBegins DEF QInv
<1>5. CASE Asks[op].action = "run" /\ SubmitAgain(t)
  <2>1. driver' = At("loop", t)
    BY <1>5 DEF SubmitAgain
  <2> QED BY <1>1, <1>2, <1>5, <2>1, DriverPcs, CallBegins DEF QInv
<1>6. CASE Known(op, t) /\ ResumeAgain(t, op)
  <2>1. driver' = At("loop", t) /\ Known(op, t)'
    BY <1>6 DEF ResumeAgain, Known
  <2> QED BY <1>1, <1>2, <2>1, DriverPcs, CallBegins DEF QInv
<1>7. CASE Resume(t, op, Asks[op].rerun)
  <2>1. Known(op, t)'
    BY <1>3, <1>7, ResumeKnown
  <2>2. driver' = At("loop", t) \/ driver' = Raised(t)
    BY <1>7 DEF Resume
  <2> QED BY <1>1, <1>2, <2>1, <2>2, DriverPcs, CallBegins DEF QInv
<1> QED BY <1>4, <1>5, <1>6, <1>7, DispatchCalls

LEMMA WorkQ ==
    ASSUME IInv, QInv, Work PROVE QInv'
<1>1. ControllerStep /\ UNCHANGED queue
  BY DEF Work
<1>2. QueueTypes' /\ Unanswered'
  BY <1>1, StillQ DEF queue
<1>3. /\ driver.task \in Task /\ driver.pc \in {"insert", "loop", "provider"}
      /\ driver'.task = driver.task /\ driver'.pc \in {"idle", "loop", "provider"}
  BY <1>1, ControllerDriver
<1>4. PICK op \in Op :
        /\ handler = Handling("call", op) /\ driver.task = Asks[op].task
        /\ IF driver.pc = "insert" THEN driver.op = op /\ Asks[op].action = "run"
                                   ELSE Asks[op].action = "run" \/ Known(op, Asks[op].task)
  BY <1>3 DEF QInv, CallFits
<1>5. [Next]_vars
  BY <1>1 DEF Next
<1>6. Asks[op].action = "run" \/ Known(op, Asks[op].task)'
  BY <1>3, <1>4, <1>5, KnownKept
<1>7. handler' = Handling("call", op)
  BY <1>1, <1>4 DEF queue
<1>8. CallFits'
  BY <1>3, <1>4, <1>6, <1>7, CallBegins
<1> QED BY <1>2, <1>8 DEF QInv

\* Where no call is open, and the daemon starts while the controller does.
LEMMA CallOver ==
    ASSUME driver'.pc = "idle" \/ (driver'.pc \in {"down", "reconcile"} /\ handler' = Starting)
    PROVE  CallFits'
BY DEF CallFits

LEMMA OtherQ ==
    ASSUME IInv, QInv, Fail \/ Die \/ Restart \/ Ready PROVE QInv'
<1>1. CASE Fail
  <2>1. UNCHANGED queue /\ driver' = Raised(driver.task)
    BY <1>1 DEF Fail, Rollback
  <2>2. QueueTypes' /\ Unanswered'
    BY <2>1, StillQ DEF queue
  <2> QED BY <2>1, <2>2, DriverPcs, CallOver DEF QInv
<1>2. CASE Die
  <2>1. handler' = Starting /\ place' = place /\ answers' = answers /\ driver' = Down
    BY <1>2 DEF Die, Crash
  <2>2. QueueTypes' /\ Unanswered'
    BY <2>1, StillQ
  <2> QED BY <2>1, <2>2, DriverPcs, CallOver DEF QInv
<1>3. CASE Restart
  <2>1. UNCHANGED queue /\ StartupStep
    BY <1>3 DEF Restart
  <2>2. QueueTypes' /\ Unanswered'
    BY <2>1, StillQ DEF queue
  <2>3. driver.pc \in {"down", "reconcile"} /\ driver' \in {driver, Idle, Booting}
    BY <2>1 DEF StartupStep, Boot, StartupReady, ReconcileOrphan
  <2>4. handler' = Starting
    BY <2>1, <2>3 DEF QInv, CallFits, queue
  <2> QED BY <2>2, <2>3, <2>4, DriverPcs, CallOver DEF QInv
<1>4. CASE Ready
  <2>1. /\ place' = place /\ answers' = answers /\ handler' = Scanning /\ handler = Starting
        /\ \A op \in In("inbox") \cup In("processing") : ~Answered(op)
        /\ driver' = driver /\ driver.pc = "idle"
    BY <1>4 DEF Ready, vars
  <2>2. QueueTypes' /\ Unanswered'
    BY <2>1, StillQ
  <2> QED BY <2>1, <2>2, CallOver DEF QInv
<1> QED BY <1>1, <1>2, <1>3, <1>4

LEMMA NextQ == IInv /\ QInv /\ [IntakeNext]_allvars => QInv'
<1> SUFFICES ASSUME IInv, QInv, [IntakeNext]_allvars PROVE QInv'
  OBVIOUS
<1>1. CASE UNCHANGED allvars
  <2>1. UNCHANGED vars /\ place' = place /\ answers' = answers /\ handler' = handler
    BY <1>1 DEF allvars, queue
  <2>2. QueueTypes' /\ Unanswered'
    BY <2>1, StillQ
  <2> QED BY <2>1, <2>2, CallFitsKept DEF QInv
<1>2. ASSUME NEW op \in Op, Enqueue(op) \/ PickUp(op) \/ MoveRequest(op) \/ AlreadyProcessed(op)
      PROVE  QInv'
  BY <1>2, MoveQ
<1>3. ASSUME NEW op \in Op, Refuse(op) PROVE QInv'
  <2>1. /\ "error" \in Answer /\ "dispatch" \in {"dispatch", "call"}
        /\ handler = Handling("dispatch", op) /\ driver.pc = "idle" /\ Publish(op, "error")
    BY <1>3 DEF Refuse, Answer
  <2> QED BY <2>1, PublishQ
<1>4. ASSUME NEW op \in Op, CallReturned(op) PROVE QInv'
  <2> DEFINE answer == IF driver.error = "raised" THEN "error" ELSE task[Asks[op].task].status
  <2>1. Asks[op].task \in Task
    BY AskTypes
  <2>2. answer \in Answer
    BY <2>1 DEF IInv, TypeOK, TaskRow, Answer
  <2>3. /\ "call" \in {"dispatch", "call"} /\ handler = Handling("call", op)
        /\ driver.pc = "idle" /\ Publish(op, answer)
    BY <1>4 DEF CallReturned
  <2> HIDE DEF answer
  <2> QED BY <2>2, <2>3, PublishQ
<1>5. ASSUME NEW op \in Op, Dispatch(op) PROVE QInv'
  BY <1>5, DispatchQ
<1> QED BY <1>1, <1>2, <1>3, <1>4, <1>5, WorkQ, OtherQ DEF IntakeNext, DaemonStep

LEMMA InitQ == IntakeInit => QInv
<1> SUFFICES ASSUME IntakeInit PROVE QInv
  OBVIOUS
<1>1. QueueTypes
  BY DEF IntakeInit, QueueTypes, Directory
<1>2. Unanswered
  BY HandlingOne DEF IntakeInit, Unanswered, Answered
<1>3. CallFits
  BY DEF IntakeInit, Init, Idle, CallFits
<1> QED BY <1>1, <1>2, <1>3 DEF QInv

-----------------------------------------------------------------------------
\* The queue implements the ledger.

\* The operation ids on record, and what a new row adds to them.
Used(op) == op # NoOp /\ \E t \in Task : \E i \in DOMAIN log[t] : log[t][i].op = op

LEMMA UsedWhen == \A op : op \in UsedOps <=> Used(op)
<1> SUFFICES ASSUME NEW op PROVE op \in UsedOps <=> Used(op)
  OBVIOUS
<1> DEFINE S(t) == {log[t][i].op : i \in DOMAIN log[t]}
           U == {{log[t][i].op : i \in DOMAIN log[t]} : t \in Task}
<1>1. UsedOps = (UNION U) \ {NoOp}
  BY Zenon DEF UsedOps
<1>2. op \in UNION U <=> \E t \in Task : op \in S(t)
  OBVIOUS
<1>3. \A t \in Task : op \in S(t) <=> \E i \in DOMAIN log[t] : log[t][i].op = op
  OBVIOUS
<1> HIDE DEF S, U
<1> QED BY <1>1, <1>2, <1>3 DEF Used

LEMMA UsedNext == (\A op : op \in UsedOps <=> Used(op))'
BY UsedWhen, PTL

LEMMA LogsUsed ==
    ASSUME IInv, NEW t \in Task, NEW row, Logs(t, row), NEW op
    PROVE  (op \in UsedOps)' <=> op \in UsedOps \/ (op # NoOp /\ row.op = op)
<1> DEFINE On(u) == \E i \in DOMAIN log[u] : log[u][i].op = op
           n == Len(log[t]) + 1
<1>1. \A u \in Task \ {t} : On(u)' <=> On(u)
  BY DEF Logs
<1>2. On(t)' <=> On(t) \/ row.op = op
  <2>1. /\ DOMAIN log'[t] = DOMAIN log[t] \cup {n} /\ log'[t][n] = row
        /\ \A i \in DOMAIN log[t] : log'[t][i] = log[t][i]
    BY SMTT(30), Lengths DEF Logs, IInv
  <2> HIDE DEF n
  <2> QED BY <2>1
<1>3. op \in UsedOps <=> op # NoOp /\ \E u \in Task : On(u)
  BY UsedWhen DEF Used
<1>4. (op \in UsedOps)' <=> op # NoOp /\ \E u \in Task : On(u)'
  BY UsedNext DEF Used
<1> HIDE DEF On
<1> QED BY <1>1, <1>2, <1>3, <1>4

\* The request in hand has no answer yet.
LEMMA InHand ==
    ASSUME QInv, NEW op \in Op, NEW pc \in {"dispatch", "call"}, handler = Handling(pc, op)
    PROVE  ~Answered(op)
<1>1. pc \in HandlerPc
  BY DEF HandlerPc
<1>2. place[op] = "processing"
  BY <1>1 DEF QInv, Unanswered
<1>3. handler # Starting
  BY <1>1, HandlingOne
<1>4. handler # Handling("move", op)
  <2>1. Handling(pc, op) = Handling("move", op) => pc = "move"
    BY HandlingOne
  <2> QED BY <2>1
<1> QED BY <1>2, <1>3, <1>4 DEF QInv, Unanswered

\* The ledger's two columns, and its steps over them.
Applied == UsedOps \cap Op
Closed == {op \in Op : Answered(op)}

LedgerStep ==
    \/ \E r \in Op : /\ r \notin Applied /\ r \notin Closed
                     /\ Applied' = Applied \cup {r} /\ Closed' = Closed
    \/ \E r \in Op : r \notin Closed /\ Closed' = Closed \cup {r} /\ Applied' = Applied
    \/ Applied' = Applied /\ Closed' = Closed

LEMMA ClosedSame == ASSUME answers' = answers PROVE Closed' = Closed
BY DEF Closed, Answered

LEMMA AppliedSame == ASSUME log' = log PROVE Applied' = Applied
BY DEF Applied, UsedOps

\* A new row applies the request it names.
LEMMA RowApplies ==
    ASSUME IInv, NEW t \in Task, NEW row, Logs(t, row), answers' = answers,
           row.op = NoOp \/ (row.op \in Op /\ row.op \notin UsedOps /\ ~Answered(row.op))
    PROVE  LedgerStep
<1>1. \A op : (op \in UsedOps)' <=> op \in UsedOps \/ (op # NoOp /\ row.op = op)
  BY LogsUsed
<1>2. Closed' = Closed
  BY ClosedSame
<1>3. CASE row.op = NoOp
  <2>1. Applied' = Applied
    BY <1>1, <1>3 DEF Applied
  <2> QED BY <1>2, <2>1 DEF LedgerStep
<1>4. CASE row.op # NoOp /\ row.op \in Op /\ row.op \notin UsedOps /\ ~Answered(row.op)
  <2>1. Applied' = Applied \cup {row.op}
    BY <1>1, <1>4 DEF Applied
  <2>2. row.op \notin Applied /\ row.op \notin Closed
    BY <1>4 DEF Applied, Closed
  <2> QED BY <1>2, <1>4, <2>1, <2>2 DEF LedgerStep
<1> QED BY <1>3, <1>4

LEMMA DispatchLedger ==
    ASSUME IInv, QInv, NEW op \in Op, Dispatch(op) PROVE LedgerStep
<1> DEFINE t == Asks[op].task
<1>1. answers' = answers /\ handler = Handling("dispatch", op)
  BY DEF Dispatch
<1>2. CASE SubmitPrepare(t, op) \/ SubmitAgain(t) \/ ResumeAgain(t, op)
  <2>1. log' = log
    BY <1>2 DEF SubmitPrepare, SubmitAgain, ResumeAgain
  <2> QED BY <1>1, <2>1, AppliedSame, ClosedSame DEF LedgerStep
<1>3. CASE Resume(t, op, Asks[op].rerun)
  <2>1. t \in Task /\ Asks[op].rerun \in BOOLEAN
    BY AskTypes
  <2>2. Resumes(t, op)
    BY <1>3, <2>1, KindResume
  <2>3. PICK row : Logs(t, row) /\ row.op = op
    BY <2>2 DEF Resumes, Entry
  <2>4. op \notin UsedOps
    BY <2>2 DEF Resumes
  <2>5. ~Answered(op)
    BY <1>1, InHand
  <2> QED BY <1>1, <2>1, <2>3, <2>4, <2>5, RowApplies
<1> QED BY <1>2, <1>3, DispatchCalls

LEMMA WorkLedger ==
    ASSUME IInv, QInv, InsertFresh, ControllerStep, answers' = answers PROVE LedgerStep
<1> DEFINE t == driver.task
<1>1. CASE log' = log
  BY <1>1, AppliedSame, ClosedSame DEF LedgerStep
<1>2. CASE t \in Task /\ Submits(t)
  <2>1. PICK row : Logs(t, row) /\ row.op = driver.op
    BY <1>2 DEF Submits, Entry
  <2>2. driver.pc = "insert"
    BY <1>2 DEF Submits
  <2>3. PICK op \in Op : handler = Handling("call", op) /\ driver.op = op
    BY <2>2 DEF QInv, CallFits
  <2>4. ~Answered(driver.op)
    BY <2>3, InHand
  <2> QED BY <1>2, <2>1, <2>2, <2>3, <2>4, RowApplies DEF InsertFresh
<1>3. CASE t \in Task /\ (Caps(t) \/ Preflights(t) \/ Closes(t))
  <2>1. \A run, edge, from, to, reason : Entry(NoOp, run, edge, from, to, reason).op = NoOp
    BY DEF Entry
  <2>2. CASE Caps(t)
    <3>1. PICK row : Logs(t, row) /\ row.op = NoOp
      BY <2>1, <2>2 DEF Caps
    <3> QED BY <1>3, <3>1, RowApplies
  <2>3. CASE Preflights(t)
    <3>1. PICK row : Logs(t, row) /\ row.op = NoOp
      BY <2>1, <2>3 DEF Preflights
    <3> QED BY <1>3, <3>1, RowApplies
  <2>4. CASE Closes(t)
    <3>1. PICK row : Logs(t, row) /\ row.op = NoOp
      BY <2>4, Zenon DEF Closes
    <3> QED BY <1>3, <3>1, RowApplies
  <2> QED BY <1>3, <2>2, <2>3, <2>4
<1> QED BY <1>1, <1>2, <1>3, ControllerKinds DEF RowsKept, Claims

LEMMA StartupLedger ==
    ASSUME IInv, StartupStep, answers' = answers PROVE LedgerStep
<1>1. CASE RowsKept
  BY <1>1, AppliedSame, ClosedSame DEF LedgerStep, RowsKept
<1>2. ASSUME NEW t \in Task, Closes(t) PROVE LedgerStep
  <2>1. PICK row : Logs(t, row) /\ row.op = NoOp
    BY <1>2 DEF Closes
  <2> QED BY <2>1, RowApplies
<1> QED BY <1>1, <1>2, StartupKinds

\* A result is published for the request in hand, once.
LEMMA PublishLedger ==
    ASSUME QInv, NEW op \in Op, NEW pc \in {"dispatch", "call"}, handler = Handling(pc, op),
           NEW answer \in Answer, Publish(op, answer)
    PROVE  LedgerStep
<1>1. ~Answered(op)
  BY InHand
<1>2. /\ Answered(op)' /\ \A other \in Op \ {op} : answers'[other] = answers[other]
      /\ log' = log
  BY Published DEF Publish, QInv, vars
<1>3. Closed' = Closed \cup {op} /\ op \notin Closed
  BY <1>1, <1>2 DEF Closed, Answered
<1> QED BY <1>2, <1>3, AppliedSame DEF LedgerStep

LEMMA NextLedger == IInv /\ InsertFresh /\ QInv /\ [IntakeNext]_allvars => LedgerStep
<1> SUFFICES ASSUME IInv, InsertFresh, QInv, [IntakeNext]_allvars PROVE LedgerStep
  OBVIOUS
<1>1. ASSUME log' = log, answers' = answers PROVE LedgerStep
  BY <1>1, AppliedSame, ClosedSame DEF LedgerStep
<1>2. CASE UNCHANGED allvars \/ Fail \/ Die \/ Ready
  BY <1>1, <1>2 DEF allvars, vars, queue, Fail, Rollback, Die, Crash, Ready
<1>3. ASSUME NEW op \in Op, Enqueue(op) \/ PickUp(op) \/ MoveRequest(op) \/ AlreadyProcessed(op)
      PROVE  LedgerStep
  BY <1>1, <1>3 DEF vars, Enqueue, PickUp, MoveRequest, AlreadyProcessed
<1>4. ASSUME NEW op \in Op, Refuse(op) PROVE LedgerStep
  <2>1. /\ "error" \in Answer /\ "dispatch" \in {"dispatch", "call"}
        /\ handler = Handling("dispatch", op) /\ Publish(op, "error")
    BY <1>4 DEF Refuse, Answer
  <2> QED BY <2>1, PublishLedger
<1>5. ASSUME NEW op \in Op, CallReturned(op) PROVE LedgerStep
  <2> DEFINE answer == IF driver.error = "raised" THEN "error" ELSE task[Asks[op].task].status
  <2>1. Asks[op].task \in Task
    BY AskTypes
  <2>2. answer \in Answer
    BY <2>1 DEF IInv, TypeOK, TaskRow, Answer
  <2>3. "call" \in {"dispatch", "call"} /\ handler = Handling("call", op) /\ Publish(op, answer)
    BY <1>5 DEF CallReturned
  <2> HIDE DEF answer
  <2> QED BY <2>2, <2>3, PublishLedger
<1>6. CASE Work
  BY <1>6, WorkLedger DEF Work, queue
<1>7. CASE Restart
  BY <1>7, StartupLedger DEF Restart, queue
<1> QED BY <1>2, <1>3, <1>4, <1>5, <1>6, <1>7, DispatchLedger DEF IntakeNext, DaemonStep

\* The invariants of the controller hold behind the queue, and the queue's own.
LEMMA IntakeInvariant == IntakeSpec => [](IInv /\ Told /\ Books /\ QInv)
<1>1. IntakeInit => IInv /\ Told /\ Books /\ QInv
  BY InitIInv, InitTold, InitBooks, InitQ DEF IntakeInit
<1>2. IInv /\ Told /\ Books /\ QInv /\ [IntakeNext]_allvars => (IInv /\ Told /\ Books /\ QInv)'
  BY IntakeStep, NextIInv, NextTold, NextBooks, NextQ
<1> QED BY <1>1, <1>2, PTL DEF IntakeSpec

\* Through crashes, replays and failed transactions, a request takes effect at
\* most once, is answered at most once, and never takes effect once answered.
THEOREM LedgerImplemented == IntakeSpec => ImplementsLedger
<1>1. IntakeInit => Ledger!Init
  <2> SUFFICES ASSUME IntakeInit PROVE UsedOps \cap Op = {} /\ {op \in Op : Answered(op)} = {}
    BY DEF Ledger!Init
  <2>1. \A op : ~Used(op)
    BY DEF IntakeInit, Init, Used
  <2> QED BY <2>1, UsedWhen DEF IntakeInit, Answered
<1>2. LedgerStep => [Ledger!Next]_<<UsedOps \cap Op, {op \in Op : Answered(op)}>>
  BY DEF LedgerStep, Ledger!Next, Ledger!Apply, Ledger!Answer, Applied, Closed
<1>3. IInv /\ Told /\ Books /\ QInv /\ [IntakeNext]_allvars => LedgerStep
  BY NextLedger DEF Books
<1> QED BY <1>1, <1>2, <1>3, IntakeInvariant, PTL DEF IntakeSpec, ImplementsLedger, Ledger!Spec

-----------------------------------------------------------------------------
\* A crash strands no task.

\* op is the request that drives t on: it is in processing without an answer,
\* asks for t and would be accepted again; while its own call is open the
\* controller is still working in it.
Owned(op, t) ==
    /\ Asks[op].task = t
    /\ place[op] = "processing" /\ ~Answered(op)
    /\ Asks[op].action = "run" \/ Known(op, t)
    /\ handler = Handling("call", op) => driver.pc \in {"loop", "provider"}

Active(t) == Framing[t] # "malformed" /\ task[t].status \in ACTIVE_STATUSES

Owners == faults = 0 => \A t \in Task : Active(t) => \E op \in Op : Owned(op, t)

LEMMA OwnedKept ==
    ASSUME IInv, [Next]_vars, NEW op \in Op, NEW t \in Task, Owned(op, t),
           place'[op] = place[op], answers'[op] = answers[op],
           handler' = Handling("call", op) => driver'.pc \in {"loop", "provider"}
    PROVE  Owned(op, t)'
<1>1. Known(op, t) => Known(op, t)'
  BY KnownKept
<1> QED BY <1>1 DEF Owned, Answered

\* The step neither touches an active task nor a request that drives one.
LEMMA OwnersKept ==
    ASSUME IInv, Owners, [Next]_vars, faults' = faults,
           \A t \in Task : Active(t)' => Active(t),
           \A t \in Task, op \in Op : Owned(op, t) /\ Active(t)' =>
              /\ place'[op] = place[op] /\ answers'[op] = answers[op]
              /\ handler' = Handling("call", op) => driver'.pc \in {"loop", "provider"}
    PROVE  Owners'
<1> SUFFICES ASSUME faults' = 0, NEW t \in Task, Active(t)' PROVE \E op \in Op : Owned(op, t)'
  BY DEF Owners
<1>1. PICK op \in Op : Owned(op, t)
  BY DEF Owners
<1>2. /\ place'[op] = place[op] /\ answers'[op] = answers[op]
      /\ handler' = Handling("call", op) => driver'.pc \in {"loop", "provider"}
  BY <1>1
<1>3. Owned(op, t)'
  BY <1>1, <1>2, OwnedKept
<1> QED BY <1>3

LEMMA ActiveSame ==
    ASSUME NEW t \in Task, task'[t] = task[t] PROVE Active(t)' => Active(t)
BY DEF Active

\* The queue's own steps: an answered request drives no task.
LEMMA QueueOwners ==
    ASSUME IInv, QInv, Owners, NEW op \in Op,
           Enqueue(op) \/ PickUp(op) \/ MoveRequest(op) \/ AlreadyProcessed(op)
    PROVE  Owners'
<1>1. UNCHANGED vars /\ answers' = answers
  BY DEF Enqueue, PickUp, MoveRequest, AlreadyProcessed
<1>2. faults' = faults /\ [Next]_vars /\ \A t \in Task : Active(t)' => Active(t)
  BY <1>1 DEF vars, Active
<1>3. ASSUME NEW t \in Task, NEW o \in Op, Owned(o, t)
      PROVE  /\ place'[o] = place[o]
             /\ handler' = Handling("call", o) => driver'.pc \in {"loop", "provider"}
  <2>1. place[o] = "processing" /\ ~Answered(o)
        /\ (handler = Handling("call", o) => driver.pc \in {"loop", "provider"})
    BY <1>3 DEF Owned
  <2>2. place \in [Op -> Directory]
    BY DEF QInv, QueueTypes
  <2>3. CASE Enqueue(op)
    <3>1. o # op /\ place' = [place EXCEPT ![op] = "inbox"] /\ handler' = handler
      BY <2>1, <2>3 DEF Enqueue
    <3> QED BY <1>1, <2>1, <2>2, <3>1 DEF vars
  <2>4. CASE PickUp(op)
    <3>1. place' = [place EXCEPT ![op] = "processing"] /\ handler' = Handling("dispatch", op)
      BY <2>4 DEF PickUp
    <3>2. Handling("dispatch", op) # Handling("call", o)
      <4>1. Handling("dispatch", op) = Handling("call", o) => "dispatch" = "call"
        BY HandlingOne
      <4> QED BY <4>1
    <3> QED BY <2>1, <2>2, <3>1, <3>2
  <2>5. CASE MoveRequest(op)
    <3>1. handler = Handling("move", op) /\ handler' = Scanning
          /\ place' = [place EXCEPT ![op] = "processed"]
      BY <2>5 DEF MoveRequest
    <3>2. Answered(op)
      BY <3>1 DEF QInv, Unanswered, HandlerPc
    <3>3. Handling("call", o) # Scanning
      BY HandlingOne DEF HandlerPc
    <3> QED BY <2>1, <2>2, <3>1, <3>2, <3>3
  <2>6. CASE AlreadyProcessed(op)
    <3>1. Answered(op) /\ handler' = handler /\ place' = [place EXCEPT ![op] = "processed"]
      BY <2>6 DEF AlreadyProcessed
    <3> QED BY <1>1, <2>1, <2>2, <3>1 DEF vars
  <2> QED BY <2>3, <2>4, <2>5, <2>6
<1> QED BY <1>1, <1>2, <1>3, OwnersKept

\* A published result closes a request that drives no task: a refused one
\* never did, and the call of one that did has stopped its task.
LEMMA PublishOwners ==
    ASSUME IInv, QInv, Owners, NEW op \in Op, Refuse(op) \/ CallReturned(op)
    PROVE  Owners'
<1>1. UNCHANGED vars /\ place' = place /\ handler' = Handling("move", op)
  BY DEF Refuse, CallReturned, Publish
<1>2. faults' = faults /\ [Next]_vars /\ \A t \in Task : Active(t)' => Active(t)
  BY <1>1 DEF vars, Active
<1>3. \A o \in Op \ {op} : answers'[o] = answers[o]
  BY DEF Refuse, CallReturned, Publish, QInv, QueueTypes
<1>4. \A t \in Task : ~Owned(op, t)
  <2>1. CASE Refuse(op)
    BY <2>1 DEF Refuse, Refused, Owned
  <2>2. CASE CallReturned(op)
    BY <2>2 DEF CallReturned, Owned
  <2> QED BY <2>1, <2>2
<1>5. \A o \in Op : handler' # Handling("call", o)
  <2> SUFFICES ASSUME NEW o \in Op, Handling("move", op) = Handling("call", o) PROVE FALSE
    BY <1>1
  <2>1. "move" = "call"
    BY HandlingOne
  <2> QED BY <2>1
<1> QED BY <1>1, <1>2, <1>3, <1>4, <1>5, OwnersKept

LEMMA DispatchOwners ==
    ASSUME IInv, QInv, Owners, NEW op \in Op, Dispatch(op) PROVE Owners'
<1> SUFFICES ASSUME faults' = 0, NEW u \in Task, Active(u)' PROVE \E o \in Op : Owned(o, u)'
  BY DEF Owners
<1> DEFINE t == Asks[op].task
<1>1. /\ handler = Handling("dispatch", op) /\ handler' = Handling("call", op)
      /\ place' = place /\ answers' = answers
  BY DEF Dispatch
<1>2. t \in Task /\ Asks[op].rerun \in BOOLEAN
  BY AskTypes
<1>3. [Next]_vars
  <2>1. Call
    BY <1>2, DispatchCalls DEF Call
  <2> QED BY <2>1 DEF Next
<1>4. CASE u = t /\ Resume(t, op, Asks[op].rerun)
  <2>1. Known(op, t)'
    BY <1>2, <1>4, ResumeKnown
  <2>2. driver' = At("loop", t)
    BY <1>4, DriverTask DEF Resume
  <2>3. place[op] = "processing" /\ ~Answered(op)
    BY <1>1, InHand DEF QInv, Unanswered, HandlerPc
  <2>4. Owned(op, t)'
    BY <1>1, <2>1, <2>2, <2>3, DriverPcs DEF Owned, Answered
  <2> QED BY <1>4, <2>4
<1>5. CASE ~(u = t /\ Resume(t, op, Asks[op].rerun))
  <2>1. task'[u] = task[u] /\ (faults' = faults \/ faults' = faults + 1)
    BY <1>2, <1>5, DispatchCalls DEF SubmitPrepare, SubmitAgain, ResumeAgain, Resume, IInv, TypeOK
  <2>2. faults = 0
    BY <2>1, DriverTask
  <2>3. Active(u)
    BY <2>1, ActiveSame
  <2>4. PICK o \in Op : Owned(o, u)
    BY <2>2, <2>3 DEF Owners
  <2>5. ASSUME handler' = Handling("call", o) PROVE driver'.pc \in {"loop", "provider"}
    <3>1. o = op
      <4>1. Handling("call", op) = Handling("call", o)
        BY <1>1, <2>5
      <4> QED BY <4>1, HandlingOne
    <3>2. u = t
      BY <2>4, <3>1 DEF Owned
    <3>3. ~SubmitPrepare(t, op)
      <4>1. task[u].status # "absent"
        BY <2>3 DEF Active, ACTIVE_STATUSES
      <4> QED BY <3>2, <4>1 DEF SubmitPrepare, Exists
    <3>4. driver' = At("loop", t)
      BY <1>5, <3>2, <3>3, DispatchCalls DEF SubmitAgain, ResumeAgain
    <3> QED BY <3>4, DriverPcs
  <2>6. Owned(o, u)'
    BY <1>1, <1>3, <2>4, <2>5, OwnedKept
  <2> QED BY <2>6
<1> QED BY <1>4, <1>5

\* The controller works: the task of the call is the request's in hand, and a
\* call that ends without a fault leaves it stopped or finished.
LEMMA WorkOwners ==
    ASSUME IInv, QInv, Owners, \A t \in Task : AtWork(t), Work PROVE Owners'
<1> SUFFICES ASSUME faults' = 0, NEW u \in Task, Active(u)' PROVE \E o \in Op : Owned(o, u)'
  BY DEF Owners
<1> DEFINE t == driver.task
<1>1. ControllerStep /\ UNCHANGED queue /\ [Next]_vars
  BY DEF Work, Next
<1>2. /\ t \in Task /\ driver.pc \in {"insert", "loop", "provider"}
      /\ driver'.pc \in {"idle", "loop", "provider"}
      /\ faults' = faults \/ faults' = faults + 1
      /\ driver'.pc = "idle" /\ faults' = faults =>
            ClaimRaises \/ task'[t].status \notin ACTIVE_STATUSES
  BY <1>1, ControllerDriver
<1>3. faults = 0
  BY <1>2, DriverTask
<1>4. PICK op \in Op :
        /\ handler = Handling("call", op) /\ t = Asks[op].task
        /\ Asks[op].action = "run" \/ Known(op, t)
  BY <1>2 DEF QInv, CallFits
<1>5. CASE u = t
  <2>1. driver'.pc \in {"loop", "provider"}
    <3> SUFFICES ASSUME driver'.pc = "idle" PROVE FALSE
      BY <1>2
    <3>1. ClaimRaises
      BY <1>2, <1>3, <1>5 DEF Active
    <3>2. task[t].status \notin TERMINAL_STATUSES
      BY <3>1 DEF ClaimRaises, Claimable, TERMINAL_STATUSES
    <3>3. ~IsTerminal(Profile, task[t].stage)
      BY <1>2, <3>2 DEF AtWork
    <3>4. Framing[t] = "malformed"
      BY <3>1, <3>3 DEF ClaimRaises
    <3> QED BY <1>5, <3>4 DEF Active
  <2>2. Asks[op].task = u /\ (Asks[op].action = "run" \/ Known(op, u)')
    <3>1. Known(op, u) => Known(op, u)'
      BY <1>1, KnownKept
    <3>2. Asks[op].action = "run" \/ Known(op, u)
      BY <1>4, <1>5
    <3> QED BY <1>4, <1>5, <3>1, <3>2
  <2>3. place[op] = "processing" /\ ~Answered(op)
    BY <1>4, InHand DEF QInv, Unanswered, HandlerPc
  <2>4. Owned(op, u)'
    BY <1>1, <2>1, <2>2, <2>3 DEF Owned, Answered, queue
  <2> QED BY <2>4
<1>6. CASE u # t
  <2>1. task'[u] = task[u]
    <3>1. RowsKept \/ Moves(t)
      BY <1>1, ControllerKinds DEF Moves
    <3> QED BY <1>2, <1>6, <3>1, OthersKept DEF RowsKept
  <2>2. PICK o \in Op : Owned(o, u)
    BY <1>3, <2>1, ActiveSame DEF Owners
  <2>3. o # op
    BY <1>4, <1>6, <2>2 DEF Owned
  <2>4. handler' # Handling("call", o)
    <3> SUFFICES ASSUME Handling("call", op) = Handling("call", o) PROVE FALSE
      BY <1>1, <1>4 DEF queue
    <3> QED BY <2>3, HandlingOne
  <2>5. Owned(o, u)'
    BY <1>1, <2>2, <2>4, OwnedKept DEF queue
  <2> QED BY <2>5
<1> QED BY <1>5, <1>6

LEMMA OtherOwners ==
    ASSUME IInv, QInv, Owners, Fail \/ Die \/ Restart \/ Ready \/ UNCHANGED allvars PROVE Owners'
<1>1. CASE Fail
  <2>1. faults' # 0
    BY <1>1, DriverTask DEF Fail, Rollback
  <2> QED BY <2>1 DEF Owners
<1>2. ASSUME [Next]_vars, faults' = faults, place' = place, answers' = answers,
             \A t \in Task : Active(t)' => Active(t),
             \A o \in Op : handler' = Handling("call", o) => driver' = driver /\ handler' = handler
      PROVE  Owners'
  <2>1. \A t \in Task, o \in Op : Owned(o, t) /\ Active(t)' =>
          /\ place'[o] = place[o] /\ answers'[o] = answers[o]
          /\ handler' = Handling("call", o) => driver'.pc \in {"loop", "provider"}
    BY <1>2 DEF Owned
  <2> QED BY <1>2, <2>1, OwnersKept
<1>3. \A o \in Op : Starting # Handling("call", o) /\ Scanning # Handling("call", o)
  BY HandlingOne DEF HandlerPc
<1>4. CASE Die
  BY <1>2, <1>3, <1>4 DEF Die, Crash, Active, Next
<1>5. CASE Restart
  <2>1. UNCHANGED queue /\ StartupStep /\ faults' = faults
    BY <1>5 DEF Restart, queue, StartupStep, Boot, StartupReady, ReconcileOrphan
  <2>2. handler = Starting
    <3>1. driver.pc \in {"down", "reconcile"}
      BY <2>1 DEF StartupStep, Boot, StartupReady, ReconcileOrphan
    <3> QED BY <3>1 DEF QInv, CallFits
  <2>3. ASSUME NEW t \in Task, Active(t)' PROVE Active(t)
    <3>1. CASE task' = task
      BY <2>3, <3>1 DEF Active
    <3>2. ASSUME NEW u \in Task, ReconcileOrphan(u) PROVE Active(t)
      <4>1. task' = [task EXCEPT ![u] = Stopped(@, "blocked", "orphaned_running")]
        BY <3>2 DEF ReconcileOrphan, BlockOrphanedRunning
      <4>2. task \in [Task -> TaskRow]
        BY DEF IInv, TypeOK
      <4>3. t # u
        BY <2>3, <4>1, <4>2 DEF Active, Stopped, TaskRow, ACTIVE_STATUSES
      <4> QED BY <2>3, <4>1, <4>2, <4>3 DEF Active
    <3> QED BY <2>1, <3>1, <3>2 DEF StartupStep, Boot, StartupReady
  <2>4. place' = place /\ answers' = answers /\ handler' = Starting
    BY <2>1, <2>2 DEF queue
  <2>5. [Next]_vars
    BY <2>1 DEF Next
  <2> QED BY <1>2, <1>3, <2>1, <2>3, <2>4, <2>5
<1>6. CASE Ready
  BY <1>2, <1>3, <1>6 DEF Ready, vars, Active
<1>7. CASE UNCHANGED allvars
  BY <1>2, <1>7 DEF allvars, vars, queue, Active
<1> QED BY <1>1, <1>4, <1>5, <1>6, <1>7

LEMMA NextOwners ==
    IInv /\ QInv /\ Owners /\ (\A t \in Task : AtWork(t)) /\ [IntakeNext]_allvars => Owners'
<1> SUFFICES ASSUME IInv, QInv, Owners, \A t \in Task : AtWork(t), [IntakeNext]_allvars
             PROVE  Owners'
  OBVIOUS
<1>1. ASSUME NEW op \in Op, Enqueue(op) \/ PickUp(op) \/ MoveRequest(op) \/ AlreadyProcessed(op)
      PROVE  Owners'
  BY <1>1, QueueOwners
<1>2. ASSUME NEW op \in Op, Refuse(op) \/ CallReturned(op) PROVE Owners'
  BY <1>2, PublishOwners
<1>3. ASSUME NEW op \in Op, Dispatch(op) PROVE Owners'
  BY <1>3, DispatchOwners
<1> QED BY <1>1, <1>2, <1>3, WorkOwners, OtherOwners DEF IntakeNext, DaemonStep

\* When every request has been handled and no transaction failed, no task with
\* a readable envelope is left queued or running, wherever the daemon died.
\* The hypothesis HoldsInside keeps claim_stage from meeting a terminal stage.
THEOREM CrashesStrandNone == HoldsInside => (IntakeSpec => []CrashStrandsNoTask)
<1> SUFFICES ASSUME HoldsInside PROVE IntakeSpec => []CrashStrandsNoTask
  OBVIOUS
<1> DEFINE Inv == Owners /\ \A t \in Task : AtWork(t)
<1>1. IntakeInit => Inv
  <2> SUFFICES ASSUME IntakeInit PROVE Inv
    OBVIOUS
  <2>1. Owners
    BY DEF IntakeInit, Init, Owners, Active, NoRow, ACTIVE_STATUSES
  <2> QED BY <2>1, InitAtWork DEF IntakeInit
<1>2. IInv /\ Told /\ Books /\ QInv /\ Inv /\ [IntakeNext]_allvars => Inv'
  BY IntakeStep, NextOwners, NextAtWork
<1>3. QInv /\ Inv => CrashStrandsNoTask
  <2> SUFFICES ASSUME Owners, NEW t \in Task, Active(t), faults = 0, In("processing") = {}
               PROVE  FALSE
    BY DEF CrashStrandsNoTask, Active
  <2>1. PICK op \in Op : Owned(op, t)
    BY DEF Owners
  <2> QED BY <2>1 DEF Owned, In
<1> HIDE DEF Inv
<1> QED BY <1>1, <1>2, <1>3, IntakeInvariant, PTL DEF IntakeSpec
=============================================================================
