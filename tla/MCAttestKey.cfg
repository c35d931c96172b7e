CONSTANTS
    Keys = {k1, k2, k3, k4, k5}
    NoKey = NoKey
    Integrity = Integrity
    Chals = {c1}
    Rewards = {r1}
    NoWork = NoWork
    Platforms = {"ios", "android"}
    MaxFaults = 3
SPECIFICATION Spec
INVARIANTS TypeOK OneRecoveryPerCooldown
PROPERTIES NeverTokenLess ComesToAgree
