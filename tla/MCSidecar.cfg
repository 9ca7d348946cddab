SPECIFICATION FairSpec
CONSTANTS
    Deployers = {d1}
    Boot = boot
    Closer = closer
    Procs = {p1, p2}
    None = none
    MaxDeploys = 2
    DOVersions = {2}
INVARIANT TypeOK
INVARIANT OnlyCrashedIsRestarted
INVARIANT UpIsSupervised
INVARIANT StoppedIsCutOff
INVARIANT ShutdownIsFinal
INVARIANT OnlyOvertakenGoBack
PROPERTY ImplementsService
PROPERTY CallsReturn
PROPERTY ShutdownCompletes
