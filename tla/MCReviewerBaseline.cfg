SPECIFICATION Spec
CONSTANTS
    Profile <- ReviewLoop
    Reviewers <- AuditReviewer
    Identity = {x}
    MaxRuns = 6
    MaxResumes = 2
    MaxTampers = 0
CHECK_DEADLOCK FALSE
INVARIANTS HoldsStayReadable
