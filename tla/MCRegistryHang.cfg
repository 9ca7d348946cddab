SPECIFICATION FairSpec
CONSTANTS
    n1 = n1
    n2 = n2
    h1 = h1
    h2 = h2
    None = none
    Sessions = {t1}
    Names = {n1}
    Deletable = {n1}
    Hashes = {h1, h2}
    Hash <- Single
    MaxStmts = 2
PROPERTY EveryStatementEnds
