\* A close with no deadline during an outage.
SPECIFICATION FairSpec
CONSTANTS
    f1 = f1
    f2 = f2
    c1 = c1
    c2 = c2
    MaxBatch = 1
    Replayed = 0
    Poison = {}
    Attempts = 1
    Flushers <- NoCalls
    Closers <- OneCloser
    Deadline <- NoCalls
PROPERTY CallsReturn
CHECK_DEADLOCK FALSE
