--------------------------- MODULE MCTaskLifecycle ---------------------------
(***************************************************************************)
(* A small instance of TaskLifecycle: a shipped profile shape with tight   *)
(* caps, so that every budget is met within a few steps.                   *)
(***************************************************************************)
EXTENDS TaskLifecycle, TLC

CONSTANTS t1, t2

Working(cap, outcomes) == [terminal |-> "none", attempt_cap |-> cap, outcomes |-> outcomes]
Final(status) == [terminal |-> status, attempt_cap |-> 0, outcomes |-> [o \in {} |-> ""]]

\* orchestrator/examples/demo-loop.yaml: draft and review, a block loops back.
\* As in orchestrator/profiles/propose.yaml, the review may declare a user
\* decision, which sends the task back to its draft.
LoopProfile ==
    [initial |-> "draft", max_transitions |-> 3,
     stages |-> "draft" :> Working(1, "submit" :> "review")
             @@ "review" :> Working(1, "block" :> "draft" @@ "allow" :> "done"
                                       @@ HOLD_OUTCOME :> "draft")
             @@ "done" :> Final("done"),
     edge_caps |-> <<"draft", "submit">> :> 2 @@ <<"review", "block">> :> 1
                @@ <<"review", "allow">> :> 1 @@ <<"review", HOLD_OUTCOME>> :> 1]

\* The envelope of the second task does not parse.
Inputs == t1 :> "legacy" @@ t2 :> "malformed"
Ops == Permutations(Op)
=============================================================================
