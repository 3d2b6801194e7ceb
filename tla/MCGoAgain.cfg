CONSTANTS
    PathOf <- MCPathOf
    NotAPath = "not a path"
    Marked = {"marked"}
    MAX_MEMBERS = 2
    Ask <- MCAsk
    Facts <- MCFacts
    Reply <- MCReply
    Says <- MCSays
    Statuses = {"done", "waiting_user"}
    MaxRequests = 3
    MaxDeaths = 0
    None = None
SPECIFICATION MCSpec
INVARIANT OnlyFirstGo
CHECK_DEADLOCK FALSE
