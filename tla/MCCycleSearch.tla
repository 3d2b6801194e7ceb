--------------------------- MODULE MCCycleSearch ---------------------------
(***************************************************************************)
(* Every stage graph over a working stage "a" and two further stages, each *)
(* with at most two outcomes, aimed anywhere: self-loops, two outcomes with*)
(* one target, unreachable stages and nested loops included.               *)
(***************************************************************************)
EXTENDS CycleSearch

Names == {"a", "b", "c", "end"}
OutcomeSets == {{"x"}, {"x", "y"}}
Stages == {[terminal |-> "none", attempt_cap |-> 1, outcomes |-> f] :
              f \in UNION {[os -> Names] : os \in OutcomeSets}}
End == [terminal |-> "done", attempt_cap |-> 0, outcomes |-> [o \in {} |-> "end"]]

\* x and y are interchangeable.
Ordered(s) == Cardinality(DOMAIN s.outcomes) = 2 =>
    CASE s.outcomes["x"] = "a" -> TRUE
      [] s.outcomes["x"] = "b" -> s.outcomes["y"] # "a"
      [] s.outcomes["x"] = "c" -> s.outcomes["y"] \in {"c", "end"}
      [] OTHER -> s.outcomes["y"] = "end"
Shapes == {s \in Stages : Ordered(s)}

GraphOf(a, b, c) ==
    LET stages == [n \in Names |-> CASE n = "a" -> a [] n = "b" -> b [] n = "c" -> c [] OTHER -> End]
        p == [initial |-> "a", max_transitions |-> 1, stages |-> stages, edge_caps |-> <<>>]
    IN  [p EXCEPT !.edge_caps = [e \in Edges(p) |-> 1]]

AllGraphs == {GraphOf(a, b, c) : a \in Shapes, b \in Shapes, c \in Shapes \cup {End}}
=============================================================================
