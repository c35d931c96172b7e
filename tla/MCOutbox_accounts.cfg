CONSTANTS
    u1 = u1
    u2 = u2
    play = play
    other = other
    old = old
    older = older
    Nobody = Nobody
    Users = {u1, u2}
    Items = {old, older, other}
    Owner <- TwoImportsAndOther
    Imports = {old, older}
    Refused = {older}
    NumFixes = 1
    MaxDefer = 0
    BatchMax = 2
    MaxCat = 1
    MaxChain = 2
    MaxFaults = 1
    StoreFaults = TRUE
SPECIFICATION Spec
INVARIANTS
    TypeOK
    PlaysBelongToOwner
PROPERTIES
    OnlyOwnersPassRewrites
    KeepsPlayLedger
CHECK_DEADLOCK FALSE
