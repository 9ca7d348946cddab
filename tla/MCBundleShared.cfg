SPECIFICATION Spec
CONSTANTS
    s1 = s1
    s2 = s2
    Legacy = Legacy
    None = None
    Stores <- TwoStores
    MaxWrites = 0
    MaxObjects = 3
    MaxOpens = 2
CHECK_DEADLOCK FALSE
INVARIANTS
    AlwaysIntact
