CONSTANTS
    Users = {u1}
    Nobody = Nobody
    Leavers = {u1}
    Chals = {k1, k2, k3}
    NoChal = NoChal
    Flows = {f1, f2}
    Kinds = {"play", "marker", "scan"}
    Courses = {x1}
    Cap = 2
    Reserve = 0
    PerDay = 1
SPECIFICATION Spec
SYMMETRY AnySymmetry
INVARIANTS
    TypeOK
    SpentOnce
    OpenCapKept
    ChallengeCoversFix
    NoPlayOfDeletedAccount
CHECK_DEADLOCK FALSE
