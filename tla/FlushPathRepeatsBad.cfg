\* The same record twice, in two batches, when it cannot be encoded.
SPECIFICATION Spec
CONSTANTS
    MaxRow = 2
    Repeats = TRUE
    Payload <- MCPayload
    Bad = {1, 2}
    Modes = {"bucket"}
    MaxInsert = 1
    MaxRecords = 1
    Ceiling = 2
    FailAt = {}
    MaxFaults = 0
    MaxCrashes = 0
INVARIANT QuarantinedWhole
