SPECIFICATION Spec
CONSTANTS
    Request = {r1, r2, r3}
    Threshold = 2
    Recovery = 2
    Window = 3
    LockTtl = 2
    MaxProbe = 1
    MaxCrashes = 1
    MaxErrors = 1
SYMMETRY Symmetry
INVARIANTS
    TypeOK
    ProbeMutex
    CounterExpires
    CountBounded
