------------------------------ MODULE MCIntake ------------------------------
(***************************************************************************)
(* Three requests: the run of one task and a resume of it, and the run of  *)
(* a task whose input is damaged.                                          *)
(* The first task is audited in a loop that only its caps bound, and then  *)
(* checked by an opt-in reviewer.                                          *)
(***************************************************************************)
EXTENDS Intake, TLC

CONSTANTS r1, r2, r3, t1, t2

Working(cap, outcomes) == [terminal |-> "none", attempt_cap |-> cap, outcomes |-> outcomes]
Final(status) == [terminal |-> status, attempt_cap |-> 0, outcomes |-> [o \in {} |-> ""]]

\* A loop without a correction stage: convergence cannot score it, so the
\* caps of an envelope task stay in force.
AuditProfile ==
    [initial |-> "audit", max_transitions |-> 2,
     stages |-> "audit" :> Working(1, "block" :> "audit" @@ "allow" :> "check")
             @@ "check" :> Working(1, "ready" :> "done" @@ "needs_repair" :> "audit")
             @@ "done" :> Final("done"),
     edge_caps |-> <<"audit", "block">> :> 1 @@ <<"audit", "allow">> :> 1
                @@ <<"check", "ready">> :> 1 @@ <<"check", "needs_repair">> :> 1]

Inputs == t1 :> "envelope" @@ t2 :> "malformed"
Ask(action, t, rerun) == [action |-> action, task |-> t, rerun |-> rerun]
ThreeAsks == r1 :> Ask("run", t1, FALSE) @@ r2 :> Ask("resume", t1, FALSE)
          @@ r3 :> Ask("run", t2, FALSE)
=============================================================================
