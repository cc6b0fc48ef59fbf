\* Two batches that cannot be encoded, sealed by the timer with nobody waiting.
SPECIFICATION Spec
CONSTANTS
    f1 = f1
    f2 = f2
    c1 = c1
    c2 = c2
    MaxBatch = 2
    Replayed = 0
    Poison = {1, 2}
    Attempts = 1
    Flushers <- NoCalls
    Closers <- NoCalls
    Deadline <- NoCalls
INVARIANT NoticeHeld
CHECK_DEADLOCK FALSE
