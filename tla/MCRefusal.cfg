CONSTANTS
    Sessions = {s1, s2}
    MaxRuns = 3
    MaxTransitions = 5
    MaxFlips = 2
    MaxDamage = 1
    None = None
SPECIFICATION Spec
SYMMETRY Symmetry
INVARIANTS NothingRefused
CHECK_DEADLOCK FALSE
