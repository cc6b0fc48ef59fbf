\* Distinct records, every configuration of the data directory, any operation
\* may fail and the process may be killed anywhere.
SPECIFICATION Spec
CONSTANTS
    MaxRow = 3
    Repeats = FALSE
    Payload <- MCPayload
    Bad = {2}
    Modes = {"bucket", "spooled", "local"}
    MaxInsert = 2
    MaxRecords = 2
    Ceiling = 2
    FailAt = {"insert", "idle", "seal", "check", "encode", "spoolrow", "upload", "commit", "mark", "prune", "schemas"}
    MaxFaults = 2
    MaxCrashes = 2
INVARIANTS TypeOK ExactlyOnce FilesStand BatchesWhole StagingBounded
PROPERTIES MovesInOrder ImplementsDelivery
