SPECIFICATION SchedSpec
CONSTANTS
    r1 = r1 r2 = r2 r3 = r3
    Requests = {r1, r2, r3}
    Long = {r3}
    Chunks = 2
    MaxSeqs = 2
    GateCap = 2
    MaxTokens = 2
    MaxRetries = 1
    MaxFaults = 1
    MaxAborts = 1
    FaultSets <- MCFaultSets
    NoRequest = NoRequest
INVARIANT RowsKept
CHECK_DEADLOCK FALSE
