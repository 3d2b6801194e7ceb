\* Crashes between any two steps of the queue and of the controller, under a
\* daemon loop that keeps running.
SPECIFICATION FairIntakeSpec
CONSTANTS
    t1 = t1
    t2 = t2
    r1 = r1
    r2 = r2
    r3 = r3
    Task = {t1, t2}
    Op = {r1, r2, r3}
    Profile <- AuditProfile
    Framing <- Inputs
    Reviewers = {"check"}
    Asks <- ThreeAsks
    MaxRuns = 6
    MaxCrashes = 2
    MaxFaults = 1
CHECK_DEADLOCK FALSE
INVARIANTS TypeOK CrashStrandsNoTask ReviewGoesToPerson
PROPERTIES  RequestsAnswered RunningEnds
