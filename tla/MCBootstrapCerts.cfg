SPECIFICATION InitAloneSpec
CONSTANTS
    Runs = {r1}
    NodeIds = {n1, n2}
    Hosts = {h1, h2}
    None = none
    TLS = TRUE
SYMMETRY Symmetry
CHECK_DEADLOCK FALSE
INVARIANT CertsWhole
