\* A flush, a close and a second close racing the worker and the timer, over two
\* batches of which the first cannot be encoded, with outages at any time.
SPECIFICATION Spec
CONSTANTS
    f1 = f1
    f2 = f2
    c1 = c1
    c2 = c2
    MaxBatch = 2
    Replayed = 1
    Poison = {1}
    Attempts = 1
    Flushers <- OneFlusher
    Closers <- TwoClosers
    Deadline <- TwoClosers
SYMMETRY ClosersAlike
INVARIANTS TypeOK NilMeansDone QuarantineToldOnce FailureIsItsOwn SealOrderKept SlotFreedAfterExit
CHECK_DEADLOCK FALSE
