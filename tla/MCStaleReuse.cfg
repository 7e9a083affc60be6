CONSTANTS
    MaxBlocks = 3
    InitialBlocks = 2
    GrowChunk = 2
    GrowExtra = 1
    MaxDepth = 2
    r1 = r1
    r2 = r2
    r3 = r3
    ta = ta
    tb = tb
    tx = tx
    Req = {r1, r2, r3}
    Tok = {ta, tb, tx}
    Prompt <- NestedPrompts
    Env = {"ssd_loss"}
SPECIFICATION PrefixSpec
CHECK_DEADLOCK FALSE
INVARIANTS
    HoldersCovered
