SPECIFICATION Spec
CONSTANTS
    Deployers = {d1}
    Boot = boot
    Closer = closer
    Procs = {p1, p2}
    None = none
    MaxDeploys = 1
    DOVersions = {1}
INVARIANT HealthIsTruthful
