SPECIFICATION InitAloneSpec
CONSTANTS
    Runs = {r1, r2}
    NodeIds = {n1, n2}
    Hosts = {h1, h2}
    None = none
    TLS = FALSE
SYMMETRY Symmetry
CHECK_DEADLOCK FALSE
INVARIANT NoDuplicateNode
