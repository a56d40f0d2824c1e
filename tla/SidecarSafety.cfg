SPECIFICATION Spec
CONSTANTS
    Requests = {r1, r2, r3}
    Startup = Startup
    Children = {c1, c2, c3}
    NoChild = NoChild
    Nobody = Nobody
    Closer = Closer
    LaunchAttempts = 3
    AdmittedCapacity = 2
    WaitErrors = TRUE
SYMMETRY Symmetry
INVARIANTS OwnedSidecar SingleSidecar ShutdownFinal StableConnection
CHECK_DEADLOCK FALSE
