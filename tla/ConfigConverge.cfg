SPECIFICATION FairSpec
CONSTANTS
    Id = {i1}
    Admin = {a1, a2}
    Handler = {h1, h2}
    Gateway = {g1}
    QuietStart = TRUE
    MaxRequests = 2
    MaxErrors = 1
    MaxAdminRestarts = 1
    MaxGatewayRestarts = 0
INVARIANT Settled
PROPERTY Converges
CHECK_DEADLOCK FALSE
