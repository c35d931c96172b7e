CONSTANTS
    Users = {u1, u2}
    Nobody = Nobody
    Leavers = {}
    Chals = {k1, k2, k3}
    NoChal = NoChal
    Flows = {f1, f2}
    Kinds = {"play"}
    Courses = {x1}
    Cap = 2
    Reserve = 0
    PerDay = 1
SPECIFICATION Spec
SYMMETRY AnySymmetry
INVARIANTS
    BookedToItsPlayer
CHECK_DEADLOCK FALSE
