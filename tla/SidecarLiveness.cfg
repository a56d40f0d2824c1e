SPECIFICATION FairSpec
CONSTANTS
    Requests = {r1, r2}
    Startup = Startup
    Children = {c1, c2}
    NoChild = NoChild
    Nobody = Nobody
    Closer = Closer
    LaunchAttempts = 2
    AdmittedCapacity = 1
    WaitErrors = FALSE
PROPERTIES SidecarOutlivesRequests ShutdownCompletes RequestsEnd
CHECK_DEADLOCK FALSE
