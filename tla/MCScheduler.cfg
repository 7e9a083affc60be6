SPECIFICATION FairSchedSpec
CONSTANTS
    r1 = r1 r2 = r2 r3 = r3
    Requests = {r1, r2, r3}
    Long = {r3}
    Chunks = 2
    MaxSeqs = 2
    GateCap = 1
    MaxTokens = 2
    MaxRetries = 1
    MaxFaults = 1
    MaxAborts = 1
    FaultSets <- MCFaultSets
    NoRequest = NoRequest
INVARIANTS SchedTypeOK Accounted UidsAgree CapRespected RetryAlone
PROPERTIES AbortSilences RequestsAnswered StoresSettle
CHECK_DEADLOCK FALSE
