SPECIFICATION FairSpec
CONSTANTS
    Http = {"h1"}
    Grpc = {"c1"}
    Status = {"200", "503"}
    RetryOn = {"503"}
    RoutesText <- McRoutes
    GatewayText <- McGateway
    Bad = Bad
    Skipped = {"unknown"}
    Order <- McOrder
    None = None
    MaxEdits = 1
INVARIANT PluginsHear
CHECK_DEADLOCK FALSE
