SPECIFICATION UnregisteredSpec
CONSTANTS
    s1 = s1
    s2 = s2
    Legacy = Legacy
    None = None
    Stores <- OneStore
    MaxWrites = 1
    MaxObjects = 1
    MaxOpens = 2
INVARIANTS
    CleanRestartAlways
CHECK_DEADLOCK FALSE
