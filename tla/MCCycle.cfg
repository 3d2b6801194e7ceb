\* _gate_reachable on every small stage graph.
SPECIFICATION FairSpec
CONSTANTS
    Profiles <- AllGraphs
CHECK_DEADLOCK FALSE
INVARIANT GateRight
PROPERTY SearchDecides
