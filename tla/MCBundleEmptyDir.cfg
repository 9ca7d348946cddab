SPECIFICATION MovingSpec
CONSTANTS
    s1 = s1
    s2 = s2
    Legacy = Legacy
    None = None
    Stores <- OneStore
    MaxWrites = 1
    MaxObjects = 2
    MaxOpens = 2
INVARIANTS
    EmptyDirRecovery
CHECK_DEADLOCK FALSE
