CONSTANTS
    c1 = c1
    c2 = c2
    c3 = c3
    Calls <- ThreeCalls
    NoCall = NoCall
SPECIFICATION FairSpec
INVARIANTS
    TypeOK
    OneHolder
PROPERTIES
    HeldUntilAnswered
    SerializedRequests
    EveryCallSettles
