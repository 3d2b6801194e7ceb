CONSTANTS
    QUEUE_MAX = 2
    MAX_BYTES = 8
    RESERVE = 2
    RECORD = 2
    END = 1
    MaxChunks = 2
    MaxBeats = 1
    MaxFaults = 1
    None = None
SPECIFICATION MCSpec
INVARIANTS CompleteMeansAll EndFits SuccessIsWhole EveryResultSeals
PROPERTIES RunAndStreamEnd
CHECK_DEADLOCK FALSE
