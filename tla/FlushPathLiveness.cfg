\* The same faults under the fairness of the goroutines: what was accepted
\* settles, and a local-only backlog reaches the table.
SPECIFICATION FairSpec
CONSTANTS
    MaxRow = 3
    Repeats = FALSE
    Payload <- MCPayload
    Bad = {3}
    Modes = {"bucket", "spooled", "local"}
    MaxInsert = 2
    MaxRecords = 2
    Ceiling = 3
    FailAt = {"insert", "idle", "seal", "check", "encode", "spoolrow", "upload", "commit", "mark", "prune", "schemas"}
    MaxFaults = 1
    MaxCrashes = 1
PROPERTIES EveryRecordSettles BacklogDrains
