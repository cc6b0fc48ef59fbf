\* A caller that hands over the same record twice, in two batches, and one kill.
SPECIFICATION Spec
CONSTANTS
    MaxRow = 2
    Repeats = TRUE
    Payload <- MCPayload
    Bad = {}
    Modes = {"bucket"}
    MaxInsert = 1
    MaxRecords = 1
    Ceiling = 2
    FailAt = {}
    MaxFaults = 0
    MaxCrashes = 1
INVARIANT NoRecordLost
