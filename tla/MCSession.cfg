CONSTANTS
    Series = {"a", "b"}
    Task = {"spec", "impl", "other"}
    SeriesOf <- MCSeriesOf
    KindOf <- MCKindOf
    Imported = {101}
    Answer <- MCAnswer
    Says <- MCSays
    MaxSessions = 2
    MaxRuns = 3
    MaxEdits = 1
    None = None
SPECIFICATION MCSpec
INVARIANTS OneCallOutstanding OpenedOnceThenResumed
PROPERTIES ReadyOnUnchanged
CHECK_DEADLOCK FALSE
