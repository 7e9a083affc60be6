CONSTANTS
    ma = ma
    mb = mb
    mc = mc
    t1 = t1
    t2 = t2
    t3 = t3
    o1 = o1
    Models = {ma}
    Tasks = {t1, t2}
    Ops = {o1}
    Size <- UnitSizes
    Ceiling = 1
    Pinned = {}
    MaxLoads = 1
    Rounds = 20
    MaxCalls = 1
    SweepSize = 1
    Variants = {"base"}
    Callers = {"ttl", "idle", "busy"}
    LoadFaults = {"start"}
SPECIFICATION PoolSpec
CHECK_DEADLOCK FALSE
INVARIANTS
    EngineServes
