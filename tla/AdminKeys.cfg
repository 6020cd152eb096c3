SPECIFICATION Spec
CONSTANTS
    w1 = w1
    w2 = w2
    boot = boot
    k1 = k1
    NoKey = NoKey
    Worker <- MCWorker
    Key <- MCKey
    Bootstrap <- MCBootstrap
    Lifetime <- MCLifetime
    Limit = 2
    Window = 2
    Horizon = 2
    MaxActions = 3
SYMMETRY MCSymmetry
INVARIANTS TypeOK Revoked WindowBound
PROPERTIES RotationKeeps
CHECK_DEADLOCK FALSE
