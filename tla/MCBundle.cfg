SPECIFICATION Spec
CONSTANTS
    s1 = s1
    s2 = s2
    Legacy = Legacy
    None = None
    Stores <- OneStore
    MaxWrites = 2
    MaxObjects = 2
    MaxOpens = 3
INVARIANTS
    CleanRestart
    CrashRecovery
    NoSilentLoss
PROPERTIES
    ImplementsDurableStore
CHECK_DEADLOCK FALSE
