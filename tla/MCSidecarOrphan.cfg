SPECIFICATION Spec
CONSTANTS
    Deployers = {d1, d2}
    Boot = boot
    Closer = closer
    Procs = {p1, p2, p3}
    None = none
    MaxDeploys = 2
    DOVersions = {2}
INVARIANT ShutdownLeavesNoProcess
