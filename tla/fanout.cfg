\* One repository more than reports fit in the channel: from none to all of
\* them fail.  The code's capacity is 10; only how the number of failures
\* compares with it matters.  If all fail, the batch really stops.
CONSTANTS
    Repos = {a, b, c, d}
    Cap = 3
SPECIFICATION FairSpec
INVARIANTS TypeOK NoSendAfterClose ReportsHaveRoom OverflowHangs
PROPERTIES BatchSpec BatchEnds
CHECK_DEADLOCK FALSE
