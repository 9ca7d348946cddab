SPECIFICATION DeletingSpec
CONSTANTS
    s1 = s1
    s2 = s2
    Legacy = Legacy
    None = None
    Stores <- OneStore
    MaxWrites = 1
    MaxObjects = 3
    MaxOpens = 2
INVARIANTS
    LossIsLimited
CHECK_DEADLOCK FALSE
