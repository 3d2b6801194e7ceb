--------------------------- MODULE MCProviderRun ---------------------------
(* ProviderRun for TLC: a run that has ended is of no further interest once  *)
(* its stream has, so what a child left behind may still do is cut off.      *)
EXTENDS ProviderRun

MCNext ==
    \/ Run \/ SpawnFails \/ ReadFails \/ Interrupt
    \/ Write \/ WriteFails
    \/ pc # "returned" /\ (Environment \/ Dies \/ Lets)
    \/ DeadlinePasses
MCFairness ==
    /\ WF_vars(Run) /\ WF_vars(Write) /\ WF_vars(DeadlinePasses)
    /\ WF_vars(pc # "returned" /\ Dies) /\ WF_vars(pc # "returned" /\ Lets)
MCSpec == Init /\ [][MCNext]_vars /\ MCFairness
=============================================================================
