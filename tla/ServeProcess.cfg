SPECIFICATION FairSpec
CONSTANTS
    Calls = {c1}
    MaxTokens = 1
    StreamBuffer = 1
INVARIANTS ProcessTypeOK HonestEnd CleanExit
PROPERTIES ProcessExits HealthConverges
CHECK_DEADLOCK FALSE
