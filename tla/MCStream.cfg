CONSTANTS
    MaxLen = 2
    Steps = 5
    TokenCounts = {1, 2}
    Interval = 3
    MaxPuts = 3
SPECIFICATION FairStreamSpec
CHECK_DEADLOCK FALSE
INVARIANTS
    StreamTypeOK
    WakeupExact
    LossReported
    NoSilentTruncation
    FinalCountComplete
PROPERTIES
    ConsumerEnds
