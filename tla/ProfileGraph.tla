---------------------------- MODULE ProfileGraph ----------------------------
(***************************************************************************)
(* The frozen workflow profile of a task, and the questions the controller *)
(* asks of its stage graph (orchestrator/profile.py and the static graph   *)
(* helpers of orchestrator/controller.py).                                 *)
(*                                                                         *)
(* A profile is a record                                                   *)
(*   initial          the initial stage                                    *)
(*   max_transitions  the lifetime transition budget                       *)
(*   stages           stage -> [terminal, attempt_cap, outcomes], where    *)
(*                    terminal is "none" for a working stage and outcomes  *)
(*                    maps each typed outcome to its target stage          *)
(*   edge_caps        <<stage, outcome>> -> cap                            *)
(* Owners, prompts, timeouts, the version and the type are data no         *)
(* property distinguishes.                                                 *)
(***************************************************************************)
EXTENDS Naturals, FiniteSets

\* The reserved outcome that parks a task for a user decision.
HOLD_OUTCOME == "needs_user_decision"

TERMINAL_STATUSES == {"done", "failed"}

StageNames(p) == DOMAIN p.stages
OutcomesOf(p, s) == DOMAIN p.stages[s].outcomes
Target(p, s, o) == p.stages[s].outcomes[o]
IsTerminal(p, s) == p.stages[s].terminal # "none"
Edges(p) == UNION {{<<s, o>> : o \in OutcomesOf(p, s)} : s \in StageNames(p)}

\* What validate_profile accepts: an initial working stage, at least one
\* terminal stage, every outcome aimed at a stage that exists, every cap
\* positive and the edge caps covering the edges exactly.
ValidProfile(p) ==
    /\ p.max_transitions \in Nat \ {0}
    /\ p.initial \in StageNames(p)
    /\ ~IsTerminal(p, p.initial)
    /\ \E s \in StageNames(p) : IsTerminal(p, s)
    /\ \A s \in StageNames(p) :
          IF IsTerminal(p, s)
          THEN p.stages[s].terminal \in TERMINAL_STATUSES /\ OutcomesOf(p, s) = {}
          ELSE /\ p.stages[s].attempt_cap \in Nat \ {0}
               /\ OutcomesOf(p, s) # {}
               /\ \A o \in OutcomesOf(p, s) : Target(p, s, o) \in StageNames(p)
    /\ p.edge_caps \in [Edges(p) -> Nat \ {0}]

-----------------------------------------------------------------------------
\* The graph questions.

Successors(p, s) == {Target(p, s, o) : o \in OutcomesOf(p, s)}

\* branching: a working stage with several outcomes; correction: with one.
StageArity(p, s) ==
    CASE IsTerminal(p, s)                    -> "neither"
      [] Cardinality(OutcomesOf(p, s)) > 1   -> "branching"
      [] Cardinality(OutcomesOf(p, s)) = 1   -> "correction"
      [] OTHER                               -> "neither"

\* The stages an execution can enter: the least set that holds the initial
\* stage and is closed under the outcomes.
ReachableStages(p) ==
    LET Closed(S) == p.initial \in S /\ \A s \in S : Successors(p, s) \subseteq S
    IN  {s \in StageNames(p) : \A S \in SUBSET StageNames(p) : Closed(S) => s \in S}

\* There is a cycle inside the node set: a non-empty part of it in which
\* every stage has a successor in that part.
HasCycle(p, nodes) ==
    \E C \in (SUBSET nodes) \ {{}} : \A s \in C : Successors(p, s) \cap C # {}

\* Can convergence score every loop: each reachable cycle holds both a
\* correction stage and a branching stage.
GateReachable(p) ==
    LET reachable == ReachableStages(p)
    IN  /\ ~HasCycle(p, {s \in reachable : StageArity(p, s) # "correction"})
        /\ ~HasCycle(p, {s \in reachable : StageArity(p, s) # "branching"})
=============================================================================
