\* One legacy task on the looping profile and one whose envelope does not
\* parse; three operator requests, one process death, one failed transaction.
SPECIFICATION Spec
CONSTANTS
    t1 = t1
    t2 = t2
    Task = {t1, t2}
    Op = {o1, o2, o3}
    Profile <- LoopProfile
    Framing <- Inputs
    Reviewers = {}
    MaxRuns = 7
    MaxCrashes = 1
    MaxFaults = 1
SYMMETRY Ops
CHECK_DEADLOCK FALSE
INVARIANTS OneLeasedRun RerunNeedsPerson RunsAccounted SnapshotsKept
PROPERTIES HistoryFrozen
