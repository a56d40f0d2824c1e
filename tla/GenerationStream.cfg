SPECIFICATION FairSpec
CONSTANTS
    Requests = {r1, r2}
    Nobody = Nobody
    MaxTokens = 2
    EventCapacity = 2
    AdmittedCapacity = 2
INVARIANTS TypeOK NoTruncatedSuccess
PROPERTIES EventOrder LaneIsFreed StreamsEnd
CHECK_DEADLOCK FALSE
