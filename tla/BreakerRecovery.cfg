SPECIFICATION FairSpec
CONSTANTS
    Request = {r1, r2}
    Threshold = 1
    Recovery = 2
    Window = 3
    LockTtl = 1
    MaxProbe = 2
    MaxCrashes = 1
    MaxErrors = 1
PROPERTIES
    OpenEnds
    Recovers
