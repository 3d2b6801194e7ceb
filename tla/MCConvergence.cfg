\* Two identities, one decision of the user.
SPECIFICATION Spec
CONSTANTS
    Profile <- ReviewLoop
    Reviewers <- NoReviewers
    Identity = {x, y}
    MaxRuns = 24
    MaxResumes = 1
    MaxTampers = 1
SYMMETRY Interchangeable
CHECK_DEADLOCK FALSE
INVARIANTS LoopProgresses ResolvedStaysResolved BaselineAccepted HoldsStayReadable
