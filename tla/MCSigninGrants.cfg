SPECIFICATION Spec
CONSTANTS
    Links = {l1}
    Old = old
    UnlinkEmail = xe
    UnlinkApple = xa
    Unlinks <- MCUnlinks
    ProviderOf <- MCProviderOf
    Deletes = {d1}
    Drain = drain
    None = none
    Ttl = 2
    Lease = 1
    Backoff = 1
    MaxFaults = 1
INVARIANTS TypeOK NoGrantLost LastMethodKept ReportsAreTrue
PROPERTIES QueueDrains DeletionEnds
CHECK_DEADLOCK FALSE
