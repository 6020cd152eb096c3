SPECIFICATION Spec
CONSTANTS
    Id = {i1, i2}
    Admin = {a1}
    Handler = {h1, h2}
    Gateway = {g1}
    QuietStart = FALSE
    MaxRequests = 3
    MaxErrors = 1
    MaxAdminRestarts = 0
    MaxGatewayRestarts = 1
SYMMETRY Symmetry
INVARIANT TypeOK
PROPERTIES
    NoLostUpdate
    ImplementsRouteTable
CHECK_DEADLOCK FALSE
