SPECIFICATION FairSpec
CONSTANTS
    Request = {r1, r2, r3}
    Worker = {w1, w2}
    Limit = 2
    Window = 3
    Skew <- InStep
    MaxDelay = 0
    MaxErrors = 1
    MaxRestarts = 1
    MaxWatch = 6
INVARIANTS
    TypeOK
    AdmissionBound
PROPERTIES
    ImplementsBucket
    GrantsRecur
