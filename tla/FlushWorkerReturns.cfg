\* Does everybody who waits get an answer: one batch, a flush that will wait for
\* ever if it is not answered, and a close whose context ends.
SPECIFICATION FairSpec
CONSTANTS
    f1 = f1
    f2 = f2
    c1 = c1
    c2 = c2
    MaxBatch = 1
    Replayed = 1
    Poison = {}
    Attempts = 2
    Flushers <- OneFlusher
    Closers <- OneCloser
    Deadline <- OneCloser
PROPERTIES CallsReturn HealsAlone
CHECK_DEADLOCK FALSE
