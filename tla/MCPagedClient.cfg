CONSTANTS
    MaxBlocks = 3
    InitialBlocks = 2
    GrowChunk = 1
    GrowExtra = 1
    Req = {r1, r2}
    Tok = {ta}
    MaxDepth = 2
    Thread = {t1, t2}
    NoThread = nobody
    MaxRef = 2
    MaxTable = 1
SPECIFICATION Spec
SYMMETRY Symmetry
INVARIANTS
    ClientTypeOK
    Conservation
    FreeIsDead
    IndexSound
PROPERTIES
    HeldEntryStays
    InvalidationsQueued
