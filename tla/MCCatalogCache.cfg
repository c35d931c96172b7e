CONSTANTS
    Kids = {"a", "b"}
    Newest = 3
    Lineages <- MCLineages
    CompiledMin = 0
    Unreadable = Unreadable
    MaxFaults = 2
SPECIFICATION Spec
INVARIANTS TypeOK ScreenTrusted
PROPERTIES NoRollback RequirementKept ComesToNewest
