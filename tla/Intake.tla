------------------------------- MODULE Intake -------------------------------
(***************************************************************************)
(* The daemon's file queue (orchestrator/daemon.py, orchestrator/ipc.py)   *)
(* in front of the controller of TaskLifecycle.  A client publishes one    *)
(* request file in inbox/; the daemon moves it to processing/, makes the   *)
(* controller call it asks for, publishes a result in processed/ and moves *)
(* the request there.  A crash may fall between any two of these steps;    *)
(* the next start of the daemon classifies what it finds in the queue.     *)
(*                                                                         *)
(* The controller's calls are those of TaskLifecycle, the operation id of  *)
(* each being the request id.  Requests that are not JSON or carry no uuid *)
(* (quarantined), and the kanban commands, are left out.                   *)
(***************************************************************************)
EXTENDS TaskLifecycle

CONSTANT Asks      \* request id -> [action, task, rerun]

Actions == {"run", "resume"}
ASSUME AsksAssumption ==
    Asks \in [Op -> [action : Actions, task : Task, rerun : BOOLEAN]]

VARIABLES
    place,      \* request -> the directory its file is in
    answers,    \* request -> the results published for it
    handler     \* what the daemon's loop is doing, and for which request

queue == <<place, answers, handler>>

Scanning == [pc |-> "scan", op |-> NoOp]
Starting == [pc |-> "startup", op |-> NoOp]
Handling(pc, op) == [pc |-> pc, op |-> op]

In(directory) == {op \in Op : place[op] = directory}
Answered(op) == answers[op] # <<>>

-----------------------------------------------------------------------------
\* The client: enqueue_request writes under a name no other request has.
Enqueue(op) ==
    /\ place[op] = "client"
    /\ place' = [place EXCEPT ![op] = "inbox"]
    /\ UNCHANGED <<vars, answers, handler>>

\* Mutant: only the inbox is looked at.
MutantPickUp(op) ==
    /\ driver.pc = "idle"
    /\ handler = Scanning
    /\ op \in In("inbox")
    /\ place' = [place EXCEPT ![op] = "processing"]
    /\ handler' = Handling("dispatch", op)
    /\ UNCHANGED <<vars, answers>>

\* The loop takes what a crash left in processing first, then the inbox.
PickUp(op) ==
    /\ driver.pc = "idle"
    /\ handler = Scanning
    /\ \/ op \in In("processing")
       \/ In("processing") = {} /\ op \in In("inbox")
    /\ place' = [place EXCEPT ![op] = "processing"]
    /\ handler' = Handling("dispatch", op)
    /\ UNCHANGED <<vars, answers>>

-----------------------------------------------------------------------------
\* The controller call a request asks for.

Known(op, t) == \E i \in DOMAIN log[t] : log[t][i].op = op

Run(op, t) == SubmitPrepare(t, op) \/ SubmitAgain(t)

ResumeTask(op, t) ==
    IF Known(op, t) THEN ResumeAgain(t, op)
                    ELSE Resume(t, op, Asks[op].rerun)

Dispatch(op) ==
    /\ handler = Handling("dispatch", op)
    /\ IF Asks[op].action = "run" THEN Run(op, Asks[op].task)
                                  ELSE ResumeTask(op, Asks[op].task)
    /\ handler' = Handling("call", op)
    /\ UNCHANGED <<place, answers>>

\* resume raises before it writes: there is no such task, it is not stopped,
\* or a containment stop needs an explicit new attempt.
Refused(op) ==
    LET t == Asks[op].task IN
    /\ Asks[op].action = "resume"
    /\ ~Known(op, t)
    /\ \/ task[t].status \notin RESUMABLE_STATUSES
       \/ task[t].stop \in ContainmentStops /\ ~Asks[op].rerun

Publish(op, answer) ==
    /\ answers' = [answers EXCEPT ![op] = Append(@, answer)]
    /\ handler' = Handling("move", op)
    /\ UNCHANGED <<vars, place>>

Refuse(op) ==
    /\ handler = Handling("dispatch", op)
    /\ driver.pc = "idle"
    /\ Refused(op)
    /\ Publish(op, "error")

\* The call is over: its result is published before the request is moved.
CallReturned(op) ==
    /\ handler = Handling("call", op)
    /\ driver.pc = "idle"
    /\ Publish(op, IF driver.error = "raised" THEN "error" ELSE task[Asks[op].task].status)

MoveRequest(op) ==
    /\ handler = Handling("move", op)
    /\ driver.pc = "idle"
    /\ place' = [place EXCEPT ![op] = "processed"]
    /\ handler' = Scanning
    /\ UNCHANGED <<vars, answers>>

-----------------------------------------------------------------------------
\* The controller works; the daemon's loop waits for it.
Work == handler.pc = "call" /\ ControllerStep /\ UNCHANGED queue

Fail == handler.pc = "call" /\ Rollback /\ UNCHANGED queue

Die ==
    /\ Crash
    /\ handler' = Starting
    /\ UNCHANGED <<place, answers>>

\* The lock is taken again and the controller is built, which blocks orphans.
Restart == StartupStep /\ UNCHANGED queue

\* Mutant: whatever is still in the queue is taken for processed.
MutantAlreadyProcessed(op) ==
    /\ handler = Starting
    /\ driver.pc = "idle"
    /\ op \in In("inbox") \cup In("processing")
    /\ place' = [place EXCEPT ![op] = "processed"]
    /\ UNCHANGED <<vars, answers, handler>>

\* _reconcile_startup_requests: a request whose result is there is done.
AlreadyProcessed(op) ==
    /\ handler = Starting
    /\ driver.pc = "idle"
    /\ op \in In("inbox") \cup In("processing")
    /\ Answered(op)
    /\ place' = [place EXCEPT ![op] = "processed"]
    /\ UNCHANGED <<vars, answers, handler>>

\* Mutant: queue residue is not compared with the results.
MutantReady ==
    /\ handler = Starting
    /\ driver.pc = "idle"
    /\ handler' = Scanning
    /\ UNCHANGED <<vars, place, answers>>

Ready ==
    /\ handler = Starting
    /\ driver.pc = "idle"
    /\ \A op \in In("inbox") \cup In("processing") : ~Answered(op)
    /\ handler' = Scanning
    /\ UNCHANGED <<vars, place, answers>>

-----------------------------------------------------------------------------
IntakeInit ==
    /\ Init
    /\ place = [op \in Op |-> "client"]
    /\ answers = [op \in Op |-> <<>>]
    /\ handler = Scanning

DaemonStep ==
    \/ \E op \in Op :
          \/ PickUp(op)
          \/ Dispatch(op)
          \/ Refuse(op)
          \/ CallReturned(op)
          \/ MoveRequest(op)
          \/ AlreadyProcessed(op)
    \/ Work
    \/ Restart
    \/ Ready

IntakeNext ==
    \/ \E op \in Op : Enqueue(op)
    \/ DaemonStep
    \/ Fail
    \/ Die

allvars == <<vars, queue>>

IntakeSpec == IntakeInit /\ [][IntakeNext]_allvars

\* The daemon's loop keeps running and a service manager restarts it.
FairIntakeSpec == IntakeSpec /\ WF_allvars(DaemonStep)
-----------------------------------------------------------------------------
\* A crash strands no task: when every request has been handled and no
\* transaction failed, each task is finished or stopped where a person can
\* resume it, because the request that drove it is replayed.  (A task whose
\* envelope does not parse is left queued by claim_stage, crash or not.)
CrashStrandsNoTask ==
    /\ driver.pc = "idle"
    /\ handler = Scanning
    /\ In("inbox") \cup In("processing") = {}
    /\ faults = 0
    => \A t \in Task : Framing[t] # "malformed" => task[t].status \notin ACTIVE_STATUSES

\* The queue implements the ledger: at-most-once effect, at most one answer,
\* nothing after the answer, through crashes and replays.
Ledger == INSTANCE RequestLedger WITH
    Request <- Op, applied <- UsedOps \cap Op, answered <- {op \in Op : Answered(op)}
ImplementsLedger == Ledger!Spec

\* Every published request is answered, however often the daemon dies.
RequestsAnswered == \A op \in Op : place[op] = "inbox" ~> place[op] = "processed"
=============================================================================
