---------------------------- MODULE CycleSearch ----------------------------
(***************************************************************************)
(* How the controller decides that convergence can score every loop of a   *)
(* frozen profile: _gate_reachable, with its two helpers, as it runs.      *)
(* First the reachable stages are collected, then a three-colour depth-    *)
(* first search looks for a cycle among those that are not corrections,    *)
(* and a second one among those that do not branch.                        *)
(*                                                                         *)
(* Lists of names still to be visited are sets here: their order only      *)
(* picks the next name, and any order is allowed.                          *)
(***************************************************************************)
EXTENDS ProfileGraph, Sequences

CONSTANT Profiles       \* the profiles the question is asked of

ASSUME ProfilesAssumption == \A p \in Profiles : ValidProfile(p)

VARIABLES
    profile,    \* the frozen profile
    phase,      \* "reach", "corrections", "branchings", then "answered"
    seen,       \* _reachable_stages: names collected so far
    frontier,   \* _reachable_stages: names still to look at
    nodes,      \* _has_cycle: the stages the search is confined to
    colour,     \* _has_cycle: nodes -> "white", "grey", "black"
    stack,      \* _has_cycle: the path of [name, pending] frames
    gate        \* the answer

vars == <<profile, phase, seen, frontier, nodes, colour, stack, gate>>

Searching == phase \in {"corrections", "branchings"}
Inside(name) == Successors(profile, name) \cap nodes
Top == stack[Len(stack)]
White == {n \in nodes : colour[n] = "white"}

-----------------------------------------------------------------------------
\* Mutant: a name is not remembered, and looked at again.
MutantCollect ==
    /\ phase = "reach"
    /\ \E name \in frontier :
          /\ seen' = IF frontier = {name} THEN seen \cup {name} ELSE seen
          /\ frontier' = (frontier \ {name}) \cup Successors(profile, name)
    /\ UNCHANGED <<profile, phase, nodes, colour, stack, gate>>

Collect ==
    /\ phase = "reach"
    /\ \E name \in frontier :
          /\ seen' = seen \cup {name}
          /\ frontier' = (frontier \ {name}) \cup
                (IF name \in seen THEN {} ELSE Successors(profile, name))
    /\ UNCHANGED <<profile, phase, nodes, colour, stack, gate>>

\* A search starts with every stage of its node set white.
Confine(next, arity) ==
    /\ phase' = next
    /\ nodes' = {n \in seen : StageArity(profile, n) # arity}
    /\ colour' = [n \in nodes' |-> "white"]
    /\ stack' = <<>>

SearchCorrectionFree ==
    /\ phase = "reach"
    /\ frontier = {}
    /\ Confine("corrections", "correction")
    /\ UNCHANGED <<profile, seen, frontier, gate>>

Paint(name, c) == colour' = [colour EXCEPT ![name] = c]

Root(name) ==
    /\ Searching
    /\ stack = <<>>
    /\ name \in White
    /\ Paint(name, "grey")
    /\ stack' = <<[name |-> name, pending |-> Inside(name)]>>
    /\ UNCHANGED <<profile, phase, seen, frontier, nodes, gate>>

\* Everything below the top of the path has been looked at.
Finish ==
    /\ Searching
    /\ stack # <<>>
    /\ Top.pending = {}
    /\ Paint(Top.name, "black")
    /\ stack' = SubSeq(stack, 1, Len(stack) - 1)
    /\ UNCHANGED <<profile, phase, seen, frontier, nodes, gate>>

\* Mutant: any stage met before closes a cycle.
MutantClosesCycle(target) == colour[target] # "white"
ClosesCycle(target) == colour[target] = "grey"

Rest(target) == [stack EXCEPT ![Len(stack)].pending = @ \ {target}]

\* The next successor of the top: it closes a cycle, and the answer is no;
\* it is new, and becomes the top; or it was finished before.
Look(target) ==
    /\ Searching
    /\ stack # <<>>
    /\ target \in Top.pending
    /\ IF ClosesCycle(target)
       THEN /\ phase' = "answered"
            /\ gate' = "caps"
            /\ UNCHANGED <<colour, stack>>
       ELSE /\ UNCHANGED <<phase, gate>>
            /\ IF colour[target] = "white"
               THEN /\ Paint(target, "grey")
                    /\ stack' = Append(Rest(target),
                                       [name |-> target, pending |-> Inside(target)])
               ELSE stack' = Rest(target) /\ UNCHANGED colour
    /\ UNCHANGED <<profile, seen, frontier, nodes>>

\* The first search found nothing: the second one follows.
SearchBranchFree ==
    /\ phase = "corrections"
    /\ stack = <<>>
    /\ White = {}
    /\ Confine("branchings", "branching")
    /\ UNCHANGED <<profile, seen, frontier, gate>>

Answer ==
    /\ phase = "branchings"
    /\ stack = <<>>
    /\ White = {}
    /\ phase' = "answered"
    /\ gate' = "convergence"
    /\ UNCHANGED <<profile, seen, frontier, nodes, colour, stack>>

-----------------------------------------------------------------------------
Init ==
    /\ profile \in Profiles
    /\ phase = "reach"
    /\ seen = {}
    /\ frontier = {profile.initial}
    /\ nodes = {}
    /\ colour = [n \in {} |-> "white"]
    /\ stack = <<>>
    /\ gate = "open"

Next ==
    \/ Collect
    \/ SearchCorrectionFree
    \/ \E name \in nodes : Root(name)
    \/ Finish
    \/ \E target \in nodes : Look(target)
    \/ SearchBranchFree
    \/ Answer

Spec == Init /\ [][Next]_vars

\* One uninterrupted computation of one thread.
FairSpec == Spec /\ WF_vars(Next)
-----------------------------------------------------------------------------
\* The answer is the one the graph dictates: caps are lifted exactly when
\* every reachable cycle carries both a correction and a branching stage.
\* _gate_reachable's colours, pending lists and node sets must cooperate for
\* every profile shape, self-loops and shared targets included.
GateRight ==
    phase = "answered" =>
        gate = IF GateReachable(profile) THEN "convergence" ELSE "caps"

\* The search returns on every profile: no loop of the graph is followed round
\* and round, however the sets of names are walked.
SearchDecides == <>(phase = "answered")
=============================================================================
