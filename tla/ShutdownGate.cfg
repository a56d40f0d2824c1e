SPECIFICATION FairSpec
CONSTANTS
    Workers = {w1, w2, w3}
    Drainers = {d1, d2}
    Stoppers = {s1}
INVARIANT GracefulMeansDone
PROPERTIES OneWay TerminalIsPublished DrainReturns
CHECK_DEADLOCK FALSE
