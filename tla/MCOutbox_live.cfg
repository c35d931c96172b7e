CONSTANTS
    u1 = u1
    u2 = u2
    play = play
    other = other
    old = old
    older = older
    Nobody = Nobody
    Users = {u1}
    Items = {play}
    Owner <- OnePlay
    Imports = {}
    Refused = {}
    NumFixes = 2
    MaxDefer = 1
    BatchMax = 1
    MaxCat = 2
    MaxChain = 1
    MaxFaults = 2
    StoreFaults = FALSE
SPECIFICATION FairSpec
INVARIANTS
    ReplaysIdentical
PROPERTIES
    EveryPlaySettles
CHECK_DEADLOCK FALSE
