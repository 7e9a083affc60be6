CONSTANTS
    MaxBlocks = 3
    InitialBlocks = 2
    GrowChunk = 2
    GrowExtra = 1
    MaxDepth = 2
    r1 = r1
    r2 = r2
    r3 = r3
    ta = ta
    tb = tb
    tx = tx
    Req = {r1, r2, r3}
    Tok = {ta, tb, tx}
    Prompt <- NestedPrompts
    Env = {"ssd_loss", "save_fail", "demote", "timeout", "stateful", "reject"}
SPECIFICATION FairPrefixSpec
CHECK_DEADLOCK FALSE
INVARIANTS
    PrefixTypeOK
    NoPrematureRelease
    NoLeakedRef
    PrefixCorrect
    LastBlockFresh
PROPERTIES
    Completion
