SPECIFICATION FairSpec
CONSTANTS
    n1 = n1
    n2 = n2
    h1 = h1
    h2 = h2
    None = none
    Sessions = {t1, t2}
    Names = {n1, n2, n3}
    Deletable = {n1}
    Hashes = {h1, h2}
    Hash <- Colliding
    MaxStmts = 2
INVARIANTS
    TypeOK
    RegistryIsTruth
    PrefixIsOwned
PROPERTY StatementsEnd
