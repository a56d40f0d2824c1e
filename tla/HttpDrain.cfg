SPECIFICATION FairSpec
CONSTANTS
    Requests = {r1, r2}
    Serve = Serve
    MaxConcurrent = 1
    QueueCapacity = 1
    SessionLimit = 1
CHECK_DEADLOCK FALSE
PROPERTY InFlightDrained
