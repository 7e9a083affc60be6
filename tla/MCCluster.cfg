CONSTANTS
    n1 = n1
    n2 = n2
    t1 = t1
    t2 = t2
    NoNode = NoNode
    Nodes = {n1, n2}
    Tasks = {t1, t2}
    MaxMissed = 2
    MaxRetries = 1
    MaxInflight = 1
    Evictable = {n1, n2}
SPECIFICATION ClusterSpec
INVARIANTS
    ClusterTypeOK
    RetriedElsewhere
    AliveForgiven
PROPERTIES
    EvictionSticky
    HealthyNotDead
