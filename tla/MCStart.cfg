CONSTANTS
    PathOf <- MCPathOf
    NotAPath = "not a path"
    Marked = {"marked"}
    MAX_MEMBERS = 2
    Ask <- MCAsk
    Facts <- MCFacts
    Reply <- MCReply
    Says <- MCSays
    Statuses = {"done", "paused", "waiting_user", "error"}
    MaxRequests = 3
    MaxDeaths = 1
    None = None
SPECIFICATION MCSpec
INVARIANTS  AuthorityGrounded EmittedReadsBack RecommendationFits
PROPERTIES DecisionSticks
CHECK_DEADLOCK FALSE
