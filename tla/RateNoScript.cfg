SPECIFICATION FairSpec
CONSTANTS
    Request = {r1, r2}
    Worker = {w1, w2}
    Limit = 1
    Window = 2
    Skew <- InStep
    MaxDelay = 0
    MaxErrors = 0
    MaxRestarts = 2
    MaxWatch = 0
PROPERTY LimitsAgain
