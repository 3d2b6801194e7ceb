\* Two scenes: cards approved, edited and closed; and a worker's reports.
SPECIFICATION MCSpec
CONSTANTS
    c1 = c1
    c2 = c2
    gated = gated
    plain = plain
    v1 = v1
    draft = draft
    x = x
    att1 = att1
    att2 = att2
    None = None
    Malformed = Malformed
    Card = {c1, c2}
    Op <- Ops
    Scope = {gated, plain}
    GateScope = {gated}
    Content = {v1, draft}
    Approvable = {v1}
    Closeout = {x}
    Request <- Requests
    Ask <- MCAsk
    MaxRevision = 6
    MaxRefused = 2
    MaxLost = 1
INVARIANTS
    KanbanTypeOK
    CardsRestOnApproval
    JournalTellsOnce
    CloseoutClosesOneCard
    WorkersHandOver
PROPERTIES
    TerminalStays
    ReportsStayHonest
CHECK_DEADLOCK FALSE
