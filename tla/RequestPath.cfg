SPECIFICATION FairSpec
CONSTANTS
    Http = {"h1"}
    Grpc = {"c1", "c2"}
    Status = {"200", "503"}
    RetryOn = {"503"}
    RoutesText <- McRoutes
    GatewayText <- McGateway
    Bad = Bad
    Skipped = {"unknown"}
    Order <- McOrder
    None = None
    MaxEdits = 2
INVARIANTS TypeOK SentBound  Checked Balanced
PROPERTIES  Answered
CHECK_DEADLOCK FALSE
