SPECIFICATION FairSpec
CONSTANTS
    Ids = {x, y}
    NoId = NoId
    MaxGenerations = 2
    InboxCapacity = 2
    OutboxCapacity = 1
INVARIANT OneLiveGeneration
PROPERTIES InTurn CancelIsAnswered SessionEnds
CHECK_DEADLOCK FALSE
