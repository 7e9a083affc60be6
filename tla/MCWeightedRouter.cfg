CONSTANTS
    b1 = b1
    b2 = b2
    b3 = b3
    t1 = t1
    t2 = t2
    NoBackend = NoBackend
    Order <- ThreeBackends
    Weight <- HeavyFirst
    MaxFailures = 2
    MaxAttempts = 2
    Tasks = {t1, t2}
    MaxRequests = 4
SPECIFICATION RouterSpec
CHECK_DEADLOCK FALSE
INVARIANTS
    Proportional
    OutOnlyWhenFailing
PROPERTIES
    DispatchEnds
