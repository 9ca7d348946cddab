SPECIFICATION InitAloneSpec
CONSTANTS
    Runs = {r1, r2, r3}
    NodeIds = {n1, n2}
    Hosts = {h1, h2}
    None = none
    TLS = TRUE
SYMMETRY Symmetry
CHECK_DEADLOCK FALSE
INVARIANT TypeOK
INVARIANT OneCluster
INVARIANT OneCA
PROPERTY IdentityIsStable
