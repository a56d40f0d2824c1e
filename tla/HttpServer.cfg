SPECIFICATION FairSpec
CONSTANTS
    Requests = {r1, r2, r3}
    Serve = Serve
    MaxConcurrent = 1
    QueueCapacity = 1
    SessionLimit = 1
INVARIANTS TypeOK GenerationIsAccounted DrainedMeansIdle ReadyMeansAccepting
CHECK_DEADLOCK FALSE
PROPERTIES ServeReturns CallsEnd CapacityReturns
