--------------------------- MODULE MCConvergence ---------------------------
(***************************************************************************)
(* Two branching stages in one loop, so that one review can follow another *)
(* without a correction between them.                                      *)
(***************************************************************************)
EXTENDS Convergence, TLC

WorkingStage(outcomes) == [terminal |-> "none", attempt_cap |-> 1, outcomes |-> outcomes]
Done == [terminal |-> "done", attempt_cap |-> 0, outcomes |-> [o \in {} |-> "done"]]

ReviewLoop == [
    initial |-> "review", max_transitions |-> 1,
    stages |-> [review |-> WorkingStage([ready |-> "audit", fix |-> "repair"]),
                audit  |-> WorkingStage([ready |-> "done", fix |-> "repair"]),
                repair |-> WorkingStage([ready |-> "review"]),
                done   |-> Done],
    edge_caps |-> [e \in {<<"review", "ready">>, <<"review", "fix">>, <<"audit", "ready">>,
                          <<"audit", "fix">>, <<"repair", "ready">>} |-> 1]]

Interchangeable == Permutations(Identity)
NoReviewers == {}
AuditReviewer == {"audit"}
=============================================================================
